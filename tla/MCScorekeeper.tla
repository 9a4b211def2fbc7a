--------------------------- MODULE MCScorekeeper ---------------------------
(***************************************************************************)
(* Scorekeeper for TLC: a plan, and a round trip over a weekend.           *)
(***************************************************************************)
EXTENDS Scorekeeper, TLC

CONSTANT trade

MCKind == trade :> "plan"
MCOf == trade :> None
MCTerms == trade :> [sign |-> 1, entry |-> 6, stop |-> 4, target |-> 9]

\* Thursday, Friday, on which the stop is breached, and Monday.
MCDate == 0 :> 3 @@ 1 :> 4 @@ 2 :> 7
MCBar ==
    0 :> [day |-> 0, low |-> 5, high |-> 6, close |-> 6]
    @@ 1 :> [day |-> 1, low |-> 4, high |-> 6, close |-> 5]
    @@ 2 :> [day |-> 2, low |-> 5, high |-> 6, close |-> 5]

MCExecutions ==
    <<[side |-> 1, quantity |-> 1, days |-> {1}], [side |-> -1, quantity |-> 1, days |-> {2}]>>
=============================================================================
