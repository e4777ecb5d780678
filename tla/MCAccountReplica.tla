------------------------- MODULE MCAccountReplica -------------------------
\* One replica, few rows, a short authority log.
EXTENDS AccountReplica
===========================================================================
