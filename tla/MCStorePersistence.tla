------------------------ MODULE MCStorePersistence ------------------------
\* The persistence controller over small batches, for TLC.
EXTENDS StorePersistence

CONSTANTS a, b

MCOp == {a, b}
MCBatches == {<<a>>, <<b>>, <<a, b>>}
===========================================================================
