-------------------------- MODULE MCHostRecorder --------------------------
\* Two windows that compete for the slot, or one window and what it records.
EXTENDS HostRecorder
===========================================================================
