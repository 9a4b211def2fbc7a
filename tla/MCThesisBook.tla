---------------------------- MODULE MCThesisBook ----------------------------
(* Small instances of ThesisBook for TLC. *)
EXTENDS ThesisBook, TLC

Symmetry == Permutations(Ids)
=============================================================================
