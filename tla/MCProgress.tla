----------------------------- MODULE MCProgress -----------------------------
(* Small instances of Progress for TLC. *)
EXTENDS Progress, TLC

Symmetry == Permutations(Workers)
=============================================================================
