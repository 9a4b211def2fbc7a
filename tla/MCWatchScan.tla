---------------------------- MODULE MCWatchScan ----------------------------
(* A small instance of WatchScan for TLC. *)
EXTENDS WatchScan, TLC

CONSTANTS u, v, g, r1, r2

\* Two weeks without a holiday; day 0 is a Monday.
MCTradingDays == {d \in 0 .. 13 : d % 7 < 5}
MCSessionClose == [d \in MCTradingDays |-> 2]
MCAtrMultiple == 0 :> 3 @@ 1 :> 4 @@ 2 :> 5

\* Nothing to see, and a stock that moves far on a high volume.
Quiet == [last |-> 0, gap |-> 0, pace |-> 0, year |-> "no", iv |-> "no", covered |-> TRUE,
          cot |-> "no", eia |-> "no", period |-> 0, quoted |-> -10]
Busy == [Quiet EXCEPT !.quoted = 0, !.last = 5, !.pace = 3, !.year = "high"]
Metal == [Quiet EXCEPT !.cot = "long"]

MCMarkets == u :> {Quiet} @@ v :> {Busy} @@ g :> {Metal}
MCReturn == u :> 1 @@ v :> 2 @@ g :> 3

Filing(s, n) == [kind |-> "filing", symbol |-> s, id |-> n, day |-> 0]
MCRecords == {Filing(u, r1), Filing(u, r2)}
Symmetry == Permutations({r1, r2})
=============================================================================
