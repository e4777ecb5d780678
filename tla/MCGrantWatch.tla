--------------------------- MODULE MCGrantWatch ---------------------------
\* The watch alone, with the whole budget of restarts.
EXTENDS GrantWatch
===========================================================================
