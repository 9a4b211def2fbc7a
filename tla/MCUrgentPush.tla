---------------------------- MODULE MCUrgentPush ----------------------------
(* Small instances of UrgentPush for TLC. *)
EXTENDS UrgentPush, TLC

Symmetry == Permutations(Urgent)
=============================================================================
