----------------------------- MODULE RiskRules -----------------------------
(***************************************************************************)
(* The rules of src/desk/desks/risk/rules.py: how large a plan may be, and *)
(* when it is vetoed.                                                      *)
(*                                                                         *)
(* Amounts are whole units of money.  Budgets are ten-thousandths of it,   *)
(* so that percentages of percentages are exact, as in the code's Decimal. *)
(***************************************************************************)
EXTENDS Integers, FiniteSets

CONSTANTS
    Symbols,        \* what can be traded
    Buckets,        \* names of the correlated buckets
    NoBucket,
    BucketOf,       \* [Symbols -> Buckets \cup {NoBucket}]: bucket_of
    Structures,     \* structures of a plan
    OptionStructures, ShareStructures,
    Allowed,        \* structures of the account's type
    AllowShortShares,
    SettledCashOnly,
    TierPct,        \* [Structures -> Nat]: percent of the account
    ScalePct,       \* [1 .. 5 -> Nat]: conviction_scale, in percent
    TotalPct,       \* total_open_risk_pct
    BucketPct,      \* bucket_cap_pct
    MaxSpread, MinInterest,
    TolerancePct,   \* stop_tolerance_pct
    NetLiq,         \* net_liq of the account
    SettledCash,    \* its settled_cash
    Combined        \* net_liq of all accounts

ASSUME BucketAssumption ==
    /\ NoBucket \notin Buckets /\ BucketOf \in [Symbols -> Buckets \cup {NoBucket}]
ASSUME PercentAssumption ==
    /\ TierPct \in [Structures -> Nat] /\ ScalePct \in [1 .. 5 -> Nat]
    /\ {TotalPct, BucketPct, TolerancePct} \subseteq Nat
ASSUME AccountAssumption == {NetLiq, SettledCash, Combined} \subseteq Nat

\* A missing price, date or quote.
Missing == -1

\* PlanInput: loss and cost are of one unit.
Plan == [subject : Symbols, instrument : Symbols, structure : Structures,
         direction : {"long", "short"}, conviction : 1 .. 5,
         loss : Nat, cost : Nat,
         entry : Nat, stop : Nat \cup {Missing}, target : Nat \cup {Missing},
         hard : Nat \cup {Missing}, spread : Nat \cup {Missing}, interest : Nat \cup {Missing},
         \* Days in the holding period, and whether a catalyst names the earnings:
         earnings : SUBSET Nat, named : BOOLEAN, today : Nat, review : Nat \cup {Missing}]

\* The open risk a plan is judged against: its sum, and its sum in each bucket.
OpenRisk == [total : Nat, bucket : [Buckets -> Nat]]

-----------------------------------------------------------------------------
(* The checks that pass or fail whatever the size. *)

InstrumentAllowed(p) ==
    /\ p.structure \in Allowed
    /\ p.direction = "short" /\ p.structure \in ShareStructures => AllowShortShares

Liquid(p) ==
    p.structure \in OptionStructures =>
    /\ p.spread # Missing /\ p.interest # Missing
    /\ p.spread <= MaxSpread /\ p.interest >= MinInterest

\* a is on the losing side of b.
Worse(p, a, b) == IF p.direction = "long" THEN a < b ELSE a > b

Gap(a, b) == IF a < b THEN b - a ELSE a - b

StopConsistent(p) ==
    /\ p.stop # Missing /\ Worse(p, p.stop, p.entry)
    /\ p.target # Missing => Worse(p, p.entry, p.target)
    /\ p.hard > 0 => Gap(p.stop, p.hard) * 100 <= TolerancePct * p.hard

\* No earnings in the holding period that the idea did not count on.
EventsKnown(p) ==
    LET end == IF p.review = Missing THEN p.today ELSE p.review
    IN  p.named \/ ~\E day \in p.earnings : p.today < day /\ day <= end

-----------------------------------------------------------------------------
(* The size: evaluate. *)

\* Mutation: the part of a unit that does not fit is rounded up.
UnitsUp(budget, loss) ==
    IF budget <= 0 \/ loss <= 0 THEN 0 ELSE (budget + 10000 * loss - 1) \div (10000 * loss)

Units(budget, loss) ==
    IF budget <= 0 \/ loss <= 0 THEN 0 ELSE budget \div (10000 * loss)

\* The cap of a trade, scaled by conviction; a conviction of scale 0 is watch-only.
Cap(p) == NetLiq * TierPct[p.structure] * ScalePct[p.conviction]

TotalLimit == Combined * TotalPct * 100
BucketLimit == Combined * BucketPct * 100

\* The bucket of the subject or, when it has none, of what is traded.
PlanBucket(p) ==
    IF BucketOf[p.subject] # NoBucket THEN BucketOf[p.subject] ELSE BucketOf[p.instrument]

\* The room a plan has under the portfolio's limit, and under its bucket's.
TotalRoom(open) == TotalLimit - 10000 * open.total
BucketRoom(open, b) == BucketLimit - 10000 * open.bucket[b]

Least(a, b) == IF a <= b THEN a ELSE b

\* A check that leaves no room for one unit fails; it does not shrink the size.
Fits(size, units) == size >= 1 => units >= 1

Evaluate(p, open) ==
    LET requested == Units(Cap(p), p.loss)
        inTotal == Units(TotalRoom(open), p.loss)
        inBucket == IF PlanBucket(p) = NoBucket THEN requested
                    ELSE Units(BucketRoom(open, PlanBucket(p)), p.loss)
        afterTotal == IF Fits(requested, inTotal) THEN Least(requested, inTotal) ELSE requested
        passed == /\ InstrumentAllowed(p) /\ Liquid(p) /\ StopConsistent(p) /\ EventsKnown(p)
                  /\ requested >= 1
                  /\ Fits(requested, inTotal) /\ Fits(afterTotal, inBucket)
        size == IF passed THEN Least(afterTotal, inBucket) ELSE 0
    IN  [decision |-> IF ~passed THEN "vetoed"
                      ELSE IF size < requested THEN "resized" ELSE "approved",
         size |-> size,
         maxLoss |-> size * p.loss,
         funding |-> IF SettledCashOnly /\ size * p.cost > SettledCash
                     THEN size * p.cost - SettledCash ELSE 0]

-----------------------------------------------------------------------------
(* What the rules promise, without saying how. *)

Sound(p) == InstrumentAllowed(p) /\ Liquid(p) /\ StopConsistent(p) /\ EventsKnown(p)

\* n units fit the cap, the portfolio and the bucket.
Room(p, open, n) ==
    /\ 10000 * (n * p.loss) <= Cap(p)
    /\ 10000 * (open.total + n * p.loss) <= TotalLimit
    /\ PlanBucket(p) # NoBucket =>
          10000 * (open.bucket[PlanBucket(p)] + n * p.loss) <= BucketLimit

\* A plan that is not vetoed passes all the checks and has the largest size that
\* fits the cap, the portfolio and the bucket; a vetoed one has size 0, fails a
\* check or fits with no unit at all.
Largest(p, open, d) ==
    IF d.decision = "vetoed"
    THEN d.size = 0 /\ (Sound(p) => p.loss = 0 \/ ~Room(p, open, 1))
    ELSE /\ Sound(p) /\ d.size >= 1
         /\ Room(p, open, d.size) /\ ~Room(p, open, d.size + 1)
=============================================================================
