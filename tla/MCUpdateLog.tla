---------------------------- MODULE MCUpdateLog ----------------------------
\* A chain folded at three rows, and enough updates to fold it twice.
EXTENDS UpdateLog, TLC

Symmetry == Permutations(Update)
===========================================================================
