---------------------------- MODULE MCBlobStaging ----------------------------
\* Two hosts over one directory.
EXTENDS BlobStaging, TLC

Symmetry == Permutations(Hosts) \cup Permutations(Pids) \cup Permutations(Captures) \cup Permutations(Puts)
==============================================================================
