-------------------------- MODULE MCLocalModels --------------------------
\* Two models, the callers of the recognizer and one Settings page.
EXTENDS LocalModels
===========================================================================
