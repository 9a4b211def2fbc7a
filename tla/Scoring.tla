------------------------------- MODULE Scoring -------------------------------
(***************************************************************************)
(* The arithmetic of src/desk/scoring: positions from fills                *)
(* (positions.py), what an idea would have made (shadow.py) and whether a  *)
(* trade kept to its plan.  Prices and quantities are whole numbers; a lot *)
(* is the sequence of the prices of its units, oldest first.               *)
(***************************************************************************)
EXTENDS Integers, SequencesExt

Smaller(a, b) == IF a < b THEN a ELSE b
Larger(a, b) == IF a > b THEN a ELSE b
Abs(x) == IF x < 0 THEN -x ELSE x

\* 1 for a buy or a long position, -1 for a sale or a short one.
Signed(fill) == fill.side * fill.quantity

Flat(trips) == trips = <<>> \/ Last(trips).quantity = 0

\* A position opens with the first fill from flat.
OpenTrip(fill) ==
    [opened |-> fill.at, sign |-> fill.side, fills |-> {}, quantity |-> 0, most |-> 0,
     pnl |-> 0, lots |-> <<>>]

\* Closing quantity is matched against the oldest units.
Matched(trip, fill) == Smaller(fill.quantity, Len(trip.lots))

Gain(trip, fill) ==
    trip.sign * FoldLeft(LAMBDA sum, paid : sum + fill.price - paid, 0,
                         SubSeq(trip.lots, 1, Matched(trip, fill)))

AddFill(trip, fill) ==
    LET opening == fill.side = trip.sign
        quantity == trip.quantity + Signed(fill)
        base == [trip EXCEPT !.fills = @ \cup {fill}, !.quantity = quantity,
                             !.most = Larger(@, Abs(quantity))]
    IN  IF opening
        THEN [base EXCEPT !.pnl = @ - fill.fee,
                          !.lots = @ \o [u \in 1 .. fill.quantity |-> fill.price]]
        ELSE [base EXCEPT !.pnl = @ - fill.fee + Gain(trip, fill),
                          !.lots = SubSeq(@, Matched(trip, fill) + 1, Len(@))]

\* build_positions, for the fills of one contract in the order they executed.
Trips(fills) ==
    FoldLeft(LAMBDA trips, fill :
                IF Flat(trips) THEN Append(trips, AddFill(OpenTrip(fill), fill))
                ELSE Append(Front(trips), AddFill(Last(trips), fill)),
             <<>>, fills)

InOrder(fills) == SetToSortSeq(fills, LAMBDA a, b : a.at < b.at)

-----------------------------------------------------------------------------
(* Shadow scores.  A path is the sequence of bars after the entry; plan is  *)
(* the direction, the entry, the stop and the target, 0 for none.  Returns  *)
(* are the moves themselves, not yet divided by the entry.                  *)

Stopped(bar, plan) ==
    plan.stop # 0 /\ IF plan.sign = 1 THEN bar.low <= plan.stop ELSE bar.high >= plan.stop

OnTarget(bar, plan) ==
    plan.target # 0 /\ IF plan.sign = 1 THEN bar.high >= plan.target ELSE bar.low <= plan.target

\* The first bar that touches one of the two; both at once count as the stop.
FirstHit(path, plan) ==
    LET touches == {i \in DOMAIN path : Stopped(path[i], plan) \/ OnTarget(path[i], plan)} IN
    IF touches = {} THEN "none"
    ELSE LET first == CHOOSE i \in touches : \A j \in touches : i <= j
         IN  IF Stopped(path[first], plan) THEN "stop" ELSE "target"

\* The move a plan made, in money: r_multiple times the risk.
Made(path, plan) ==
    CASE FirstHit(path, plan) = "stop" -> -Abs(plan.entry - plan.stop)
      [] FirstHit(path, plan) = "target" -> plan.sign * (plan.target - plan.entry)
      [] OTHER -> plan.sign * (Last(path).close - plan.entry)

Lows(path) == {path[i].low : i \in DOMAIN path}
Highs(path) == {path[i].high : i \in DOMAIN path}
Lowest(set) == CHOOSE x \in set : \A y \in set : x <= y
Highest(set) == CHOOSE x \in set : \A y \in set : x >= y

\* score_path, for a path at least as long as the horizon.
ScorePath(bars, horizon, plan) ==
    LET path == SubSeq(bars, 1, horizon)
        low == Lowest(Lows(path)) - plan.entry
        high == Highest(Highs(path)) - plan.entry
    IN  [return |-> plan.sign * (Last(path).close - plan.entry),
         mae |-> Smaller(0, IF plan.sign = 1 THEN low ELSE -high),
         mfe |-> Larger(0, IF plan.sign = 1 THEN high ELSE -low),
         first |-> FirstHit(path, plan),
         made |-> Made(path, plan),
         last |-> Last(path).day]

-----------------------------------------------------------------------------
(* Adherence: held are the bars of the days a position was open, by date.  *)

\* A breach is honored by an exit at the next session at the latest.
WithinOneSession(event, closed, sessions) ==
    LET later == {d \in sessions : d > event}
    IN  closed <= IF later = {} THEN event + 1 ELSE Lowest(later)

StopHonored(held, plan, closed) ==
    LET breaches == {d \in DOMAIN held : Stopped(held[d], plan)} IN
    breaches = {} \/ WithinOneSession(Lowest(breaches), closed, DOMAIN held)
=============================================================================
