---------------------------- MODULE MCWatchDesk ----------------------------
(* Small instances of WatchDesk for TLC. *)
EXTENDS WatchDesk

CONSTANTS s1, s2

\* One shift.
OneAt == s1 :> 1
OneShiftTimeout == s1 :> 3

\* Two shifts at neighbouring times; the first has the longer timeout, as the
\* pre-market shift does.
MCAt == s1 :> 0 @@ s2 :> 1
MCShiftTimeout == s1 :> 2 @@ s2 :> 1

\* A bound: Jon writes in the behaviours without a shutdown, kill or error.
MCNext == Next /\ (Chats' = 0 \/ faults' = 0)

MCFairSpec == Init /\ [][MCNext]_vars /\ Fairness
=============================================================================
