------------------------- MODULE MCRowDocuments --------------------------
(* One address opened by two callers, or two addresses with less work on each. *)
EXTENDS RowDocuments, TLC

Symmetry == Permutations(Mine) \cup Permutations(Openers) \cup Permutations(Rows)
===========================================================================
