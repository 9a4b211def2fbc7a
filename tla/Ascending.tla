----------------------------- MODULE Ascending -----------------------------
(***************************************************************************)
(* A finite set of numbers as a sequence: what the code reads in order.    *)
(***************************************************************************)
EXTENDS Integers, FiniteSets, Functions

Enumerates(f, S) == Range(f) = S /\ \A m, n \in DOMAIN f : m < n => f[m] < f[n]

Ascending(S) == CHOOSE f \in [1 .. Cardinality(S) -> S] : Enumerates(f, S)
=============================================================================
