-------------------------- MODULE TraderDeskProofs -------------------------
(***************************************************************************)
(* What is proved of a trade, from its menu to its scores.  The size that  *)
(* RiskRules gives a plan, for every plan, every open risk and every       *)
(* configuration.  The caps of TraderDesk, for any ideas, menus, buckets   *)
(* and limits: the run keeps its own list of open risks, and the proofs    *)
(* show that it never falls behind what was approved.  What the choices of *)
(* TradeMenu can lose, for all prices and chains of quotes.  And of the    *)
(* Scorekeeper, the links of positions and the scores of ideas, for all    *)
(* fills, ideas and bars and however its two runs and Jon interleave.      *)
(***************************************************************************)
EXTENDS TraderDesk, RiskDesk, TradeMenu, Scorekeeper,
        FiniteSetTheorems, SequenceTheorems, WellFoundedInduction, TLAPS

-----------------------------------------------------------------------------
(* The rules: Evaluate.                                                    *)

\* Rounding down, as ROUND_FLOOR in _units of src/desk/desks/risk/rules.py, keeps the
\* loss inside the budget, and no more units fit.
LEMMA UnitsAreLargest ==
    ASSUME NEW budget \in Int, NEW loss \in Nat
    PROVE  /\ Units(budget, loss) \in Nat
           /\ Units(budget, loss) >= 1 => /\ loss >= 1
                                         /\ 10000 * (Units(budget, loss) * loss) <= budget
           /\ loss >= 1 => budget < 10000 * ((Units(budget, loss) + 1) * loss)
<1>1. CASE budget <= 0 \/ loss <= 0
  BY <1>1, SMT DEF Units
<1>2. CASE budget > 0 /\ loss > 0
  <2> DEFINE whole == 10000 * loss
             units == budget \div whole
  <2>1. whole \in Nat /\ whole > 0
    BY <1>2, SMT
  <2>2. Units(budget, loss) = units
    BY <1>2, SMT DEF Units
  <2> HIDE DEF whole
  <2>3. units \in Nat /\ whole * units <= budget /\ budget < whole * (units + 1)
    BY <1>2, <2>1, SMT
  <2> HIDE DEF units
  <2>4. \A n \in Nat : whole * n = 10000 * (n * loss)
    BY SMT DEF whole
  <2>5. units + 1 \in Nat /\ whole * (units + 1) = 10000 * ((units + 1) * loss)
    BY <2>3, <2>4, SMT
  <2> QED
    BY <1>2, <2>2, <2>3, <2>4, <2>5, SMT
<1> QED
  BY <1>1, <1>2, SMT

LEMMA TimesMonotone ==
    ASSUME NEW a \in Nat, NEW b \in Nat, NEW c \in Nat, a <= b
    PROVE  a * c \in Nat /\ b * c \in Nat /\ a * c <= b * c
<1>1. PICK k \in Nat : b = a + k
  <2>1. b - a \in Nat /\ b = a + (b - a)
    BY SMT
  <2> QED
    BY <2>1
<1>2. b * c = a * c + k * c /\ k * c \in Nat /\ a * c \in Nat
  BY <1>1, SMT
<1> QED
  BY <1>2, SMT

\* A positive number of units fits a budget just when Units allows it.
LEMMA UnitsFit ==
    ASSUME NEW budget \in Int, NEW loss \in Nat, loss >= 1, NEW n \in Nat, n >= 1
    PROVE  10000 * (n * loss) <= budget <=> n <= Units(budget, loss)
<1>1. PICK m \in Nat : m = Units(budget, loss)
  BY UnitsAreLargest
<1>2. /\ m >= 1 => 10000 * (m * loss) <= budget
      /\ budget < 10000 * ((m + 1) * loss)
  BY <1>1, UnitsAreLargest
<1>3. CASE n <= m
  <2>1. n * loss \in Nat /\ m * loss \in Nat /\ n * loss <= m * loss
    BY <1>3, TimesMonotone
  <2> QED
    BY <1>1, <1>2, <1>3, <2>1, SMT
<1>4. CASE ~(n <= m)
  <2>1. m + 1 \in Nat /\ m + 1 <= n
    BY <1>4, SMT
  <2>2. n * loss \in Nat /\ (m + 1) * loss \in Nat /\ (m + 1) * loss <= n * loss
    BY <2>1, TimesMonotone
  <2> QED
    BY <1>1, <1>2, <1>4, <2>2, SMT
<1> QED
  BY <1>3, <1>4

LEMMA UnitsTyped ==
    ASSUME NEW budget \in Int, NEW loss \in Nat
    PROVE  Units(budget, loss) \in Nat /\ (Units(budget, loss) >= 1 => loss >= 1)
BY UnitsAreLargest, SMT

LEMMA AmountsTyped ==
    ASSUME NEW p \in Plan, NEW risk \in OpenRisk
    PROVE  /\ p.loss \in Nat /\ Cap(p) \in Int
           /\ TotalLimit \in Int /\ TotalRoom(risk) \in Int /\ risk.total \in Nat
           /\ PlanBucket(p) # NoBucket =>
                 /\ PlanBucket(p) \in Buckets /\ risk.bucket[PlanBucket(p)] \in Nat
                 /\ BucketLimit \in Int /\ BucketRoom(risk, PlanBucket(p)) \in Int
<1>1. p.loss \in Nat /\ risk.total \in Nat /\ risk.bucket \in [Buckets -> Nat]
  BY DEF Plan, OpenRisk
<1>2. Cap(p) \in Int
  <2>1. TierPct[p.structure] \in Nat /\ ScalePct[p.conviction] \in Nat
    BY PercentAssumption DEF Plan
  <2> QED
    BY <2>1, AccountAssumption, SMT DEF Cap
<1>3. TotalLimit \in Int /\ BucketLimit \in Int
  BY AccountAssumption, PercentAssumption, SMT DEF TotalLimit, BucketLimit
<1>4. PlanBucket(p) # NoBucket => PlanBucket(p) \in Buckets
  BY BucketAssumption DEF PlanBucket, Plan
<1> QED
  BY <1>1, <1>2, <1>3, <1>4, SMT DEF TotalRoom, BucketRoom

LEMMA SizeTyped ==
    ASSUME NEW p \in Plan, NEW risk \in OpenRisk
    PROVE  /\ Evaluate(p, risk).size \in Nat
           /\ Evaluate(p, risk).maxLoss = Evaluate(p, risk).size * p.loss
           /\ Evaluate(p, risk).decision \in {"approved", "resized", "vetoed"}
<1> DEFINE requested == Units(Cap(p), p.loss)
           inTotal == Units(TotalRoom(risk), p.loss)
           bucketUnits == Units(BucketRoom(risk, PlanBucket(p)), p.loss)
           inBucket == IF PlanBucket(p) = NoBucket THEN requested ELSE bucketUnits
           afterTotal == IF Fits(requested, inTotal) THEN Least(requested, inTotal)
                         ELSE requested
           d == Evaluate(p, risk)
<1>1. requested \in Nat /\ inTotal \in Nat
  BY AmountsTyped, UnitsTyped
<1>2. PlanBucket(p) # NoBucket => bucketUnits \in Nat
  BY AmountsTyped, UnitsTyped
<1>3. d.size = 0 \/ d.size = Least(afterTotal, inBucket)
  BY DEF Evaluate
<1>4. /\ d.maxLoss = d.size * p.loss
      /\ d.decision \in {"approved", "resized", "vetoed"}
  BY DEF Evaluate
<1> HIDE DEF requested, inTotal, bucketUnits, d
<1>5. inBucket \in Nat /\ afterTotal \in Nat
  BY <1>1, <1>2 DEF Least
<1> HIDE DEF inBucket, afterTotal
<1>6. d.size \in Nat
  BY <1>3, <1>5, SMT DEF Least
<1> QED
  BY <1>4, <1>6 DEF d

\* The decision of evaluate: its size is the largest that fits the cap of the trade,
\* the limit on open risk and the cap of the bucket, and a plan is vetoed only when
\* a check fails or not one unit fits (src/desk/desks/risk/rules.py, evaluate).
THEOREM SizeIsLargest ==
    ASSUME NEW p \in Plan, NEW risk \in OpenRisk
    PROVE  Largest(p, risk, Evaluate(p, risk))
<1> DEFINE requested == Units(Cap(p), p.loss)
           inTotal == Units(TotalRoom(risk), p.loss)
           room == BucketRoom(risk, PlanBucket(p))
           inBucket == IF PlanBucket(p) = NoBucket THEN requested ELSE Units(room, p.loss)
           afterTotal == IF Fits(requested, inTotal) THEN Least(requested, inTotal)
                         ELSE requested
           passed == /\ Sound(p) /\ requested >= 1
                     /\ Fits(requested, inTotal) /\ Fits(afterTotal, inBucket)
           size == IF passed THEN Least(afterTotal, inBucket) ELSE 0
           d == Evaluate(p, risk)
<1>1. d.size = size /\ (d.decision = "vetoed" <=> ~passed)
  BY DEF Evaluate, Sound
<1>2. /\ p.loss \in Nat /\ Cap(p) \in Int
      /\ TotalLimit \in Int /\ TotalRoom(risk) \in Int /\ risk.total \in Nat
      /\ PlanBucket(p) # NoBucket =>
            /\ risk.bucket[PlanBucket(p)] \in Nat
            /\ BucketLimit \in Int /\ room \in Int
  BY AmountsTyped
<1>3. requested \in Nat /\ inTotal \in Nat /\ inBucket \in Nat
  <2>1. requested \in Nat /\ inTotal \in Nat
    BY <1>2, UnitsTyped
  <2>2. PlanBucket(p) # NoBucket => Units(room, p.loss) \in Nat
    BY <1>2, UnitsTyped
  <2> QED
    BY <2>1, <2>2
<1>4. requested >= 1 => p.loss >= 1
  BY <1>2, UnitsTyped
\* A size fits just when it is at most each of the three.
<1>5. ASSUME NEW n \in Nat, n >= 1, p.loss >= 1
      PROVE  Room(p, risk, n) <=>
             n <= requested /\ n <= inTotal
             /\ (PlanBucket(p) # NoBucket => n <= inBucket)
  <2>1. p.loss \in Nat /\ n * p.loss \in Nat
    BY <1>2, <1>5, SMT
  <2>2. 10000 * (n * p.loss) <= Cap(p) <=> n <= requested
    BY <2>1, <1>2, <1>5, UnitsFit
  <2>3. 10000 * (risk.total + n * p.loss) <= TotalLimit <=> n <= inTotal
    <3>1. 10000 * (n * p.loss) <= TotalRoom(risk) <=> n <= inTotal
      BY <2>1, <1>2, <1>5, UnitsFit
    <3> HIDE DEF inTotal
    <3> QED
      BY <3>1, <2>1, <1>2, SMT DEF TotalRoom
  <2>4. ASSUME PlanBucket(p) # NoBucket
        PROVE  10000 * (risk.bucket[PlanBucket(p)] + n * p.loss) <= BucketLimit
               <=> n <= inBucket
    <3>1. 10000 * (n * p.loss) <= room <=> n <= inBucket
      BY <2>1, <2>4, <1>2, <1>5, UnitsFit
    <3> HIDE DEF inBucket
    <3> QED
      BY <3>1, <2>1, <2>4, <1>2, SMT DEF BucketRoom
  <2> QED
    BY <2>2, <2>3, <2>4 DEF Room
<1>6. PlanBucket(p) = NoBucket => inBucket = requested
  OBVIOUS
<1>7. CASE passed
  <2>1. d.decision # "vetoed" /\ Sound(p) /\ d.size = Least(afterTotal, inBucket)
    BY <1>1, <1>7
  <2>2. requested >= 1 /\ inTotal >= 1 /\ afterTotal = Least(requested, inTotal)
    BY <1>7 DEF Fits
  <2> HIDE DEF requested, inTotal, inBucket, d
  <2>3. afterTotal >= 1 /\ inBucket >= 1 /\ afterTotal \in Nat
    BY <1>3, <1>7, <2>2, SMT DEF Fits, Least
  <2>4. /\ d.size \in Nat /\ d.size >= 1
        /\ d.size <= requested /\ d.size <= inTotal /\ d.size <= inBucket
        /\ d.size = requested \/ d.size = inTotal \/ d.size = inBucket
    BY <1>3, <2>1, <2>2, <2>3, SMT DEF Least
  <2>5. Room(p, risk, d.size)
    BY <1>4, <1>5, <2>2, <2>4, SMT
  <2>6. ~Room(p, risk, d.size + 1)
    <3>1. d.size + 1 \in Nat /\ d.size + 1 >= 1 /\ p.loss >= 1
      BY <1>4, <2>2, <2>4, SMT
    <3>2. ~(d.size + 1 <= requested /\ d.size + 1 <= inTotal
            /\ (PlanBucket(p) # NoBucket => d.size + 1 <= inBucket))
      BY <1>3, <1>6, <2>4, SMT
    <3> QED
      BY <1>5, <3>1, <3>2
  <2> QED
    BY <2>1, <2>4, <2>5, <2>6 DEF Largest, d
<1>8. CASE ~passed
  <2>1. d.decision = "vetoed" /\ d.size = 0
    BY <1>1, <1>8
  <2>2. ASSUME Sound(p), p.loss # 0 PROVE ~Room(p, risk, 1)
    <3>1. p.loss >= 1
      BY <2>2, <1>2, SMT
    <3>2. requested < 1 \/ ~Fits(requested, inTotal) \/ ~Fits(afterTotal, inBucket)
      BY <1>3, <1>8, <2>2, SMT
    <3> HIDE DEF requested, inTotal, inBucket
    <3>3. requested < 1 \/ inTotal < 1 \/ inBucket < 1
      BY <1>3, <3>2, SMT DEF Fits
    <3> QED
      BY <1>3, <1>5, <1>6, <3>1, <3>3, SMT
  <2> QED
    BY <2>1, <2>2 DEF Largest
<1> QED
  BY <1>7, <1>8

\* The same of the states of RiskDesk: whatever the desk has decided is the largest
\* size that fits, for the plan and the open risk it was given.
THEOREM LargestAlways == RiskSpec => []LargestThatFits
<1> DEFINE Judging == /\ proposal \in Plan /\ exposure \in OpenRisk
                      /\ decision \subseteq {Evaluate(proposal, exposure)}
<1>1. RiskInit => Judging
  BY CaseAssumption DEF RiskInit
<1>2. Judging /\ [Decide]_riskVars => Judging'
  BY DEF Decide, riskVars
<1>3. Judging => LargestThatFits
  BY SizeIsLargest DEF LargestThatFits
<1> QED
  BY <1>1, <1>2, <1>3, PTL DEF RiskSpec

-----------------------------------------------------------------------------
(* The run: the caps.                                                      *)

\* The run's list is the positions it saw and all that was approved since midnight.
Sums ==
    /\ today = granted
    /\ pc = "plan" =>
          /\ open.total = base.total + granted.total
          /\ \A b \in Buckets : open.bucket[b] = base.bucket[b] + granted.bucket[b]

IInv == TypeOK /\ Sums

LEMMA RisksAdd ==
    ASSUME NEW r \in OpenRisk, NEW s \in OpenRisk
    PROVE  /\ Both(r, s) \in OpenRisk /\ Both(r, s).total = r.total + s.total
           /\ \A b \in Buckets : Both(r, s).bucket[b] = r.bucket[b] + s.bucket[b]
BY SMT DEF OpenRisk, Both

LEMMA RiskAdded ==
    ASSUME NEW r \in OpenRisk, NEW b, NEW loss \in Nat
    PROVE  /\ Plus(r, b, loss) \in OpenRisk /\ Plus(r, b, loss).total = r.total + loss
           /\ \A c \in Buckets :
                 Plus(r, b, loss).bucket[c] = r.bucket[c] + (IF c = b THEN loss ELSE 0)
BY SMT DEF OpenRisk, Plus

LEMMA NoRiskTyped == NoRisk \in OpenRisk /\ NoRisk.total = 0
BY SMT DEF NoRisk, OpenRisk

\* A plan that is not vetoed keeps the open risk under both limits.
LEMMA Judged ==
    ASSUME NEW p \in Plan, NEW risk \in OpenRisk
    PROVE  LET d == Evaluate(p, risk)
           IN  /\ d.maxLoss \in Nat
               /\ d.decision \in {"approved", "resized", "vetoed"}
               /\ d.decision # "vetoed" =>
                  /\ 10000 * (risk.total + d.maxLoss) <= TotalLimit
                  /\ PlanBucket(p) # NoBucket =>
                        10000 * (risk.bucket[PlanBucket(p)] + d.maxLoss) <= BucketLimit
<1> DEFINE d == Evaluate(p, risk)
<1>1. /\ d.size \in Nat /\ d.maxLoss = d.size * p.loss
      /\ d.decision \in {"approved", "resized", "vetoed"}
  BY SizeTyped
<1>2. d.maxLoss \in Nat
  <2>1. p.loss \in Nat
    BY DEF Plan
  <2> HIDE DEF d
  <2> QED
    BY <1>1, <2>1, SMT
<1>3. d.decision # "vetoed" => Room(p, risk, d.size)
  BY SizeIsLargest DEF Largest
<1> HIDE DEF d
<1>4. d.decision # "vetoed" =>
      /\ 10000 * (risk.total + d.maxLoss) <= TotalLimit
      /\ PlanBucket(p) # NoBucket =>
            10000 * (risk.bucket[PlanBucket(p)] + d.maxLoss) <= BucketLimit
  BY <1>1, <1>3 DEF Room
<1> QED
  BY <1>1, <1>2, <1>4 DEF d

LEMMA PlanTyped ==
    ASSUME NEW i \in Ideas, NEW p \in Menu[i]
    PROVE  /\ p \in Plan /\ BucketOf[p.subject] \in Buckets \cup {NoBucket}
           /\ PlanBucket(p) \in Buckets \cup {NoBucket}
BY IdeaAssumption, BucketAssumption DEF Plan, PlanBucket

LEMMA InitInv == Init => IInv
<1>1. 0 \in 0 .. MaxDay
  BY IdeaAssumption, SMT
<1> QED
  BY <1>1, NoRiskTyped DEF Init, IInv, TypeOK, Sums

\* A plan that is approved fits, and the list stays level with what was approved.
LEMMA PlanKeeps ==
    ASSUME IInv, NEW i \in Ideas, NEW p \in Menu[i], PlanIdea(i, p)
    PROVE  /\ IInv'
           /\ \A r \in Approved :
                 /\ 10000 * (base.total + granted.total + r.loss) <= TotalLimit
                 /\ PlanBucket(r.plan) # NoBucket =>
                       10000 * (base.bucket[PlanBucket(r.plan)]
                                + granted.bucket[PlanBucket(r.plan)] + r.loss) <= BucketLimit
<1> DEFINE d == Evaluate(p, open)
           c == BucketOf[p.subject]
<1>1. /\ day \in 0 .. MaxDay
      /\ held \in OpenRisk /\ open \in OpenRisk /\ today \in OpenRisk
      /\ base \in OpenRisk /\ granted \in OpenRisk
  BY DEF IInv, TypeOK
<1>2. p \in Plan /\ PlanBucket(p) \in Buckets \cup {NoBucket}
  BY PlanTyped
<1>3. /\ d.maxLoss \in Nat
      /\ d.decision \in {"approved", "resized", "vetoed"}
      /\ d.decision # "vetoed" =>
            /\ 10000 * (open.total + d.maxLoss) <= TotalLimit
            /\ PlanBucket(p) # NoBucket =>
                  10000 * (open.bucket[PlanBucket(p)] + d.maxLoss) <= BucketLimit
  BY <1>1, <1>2, Judged
<1>4. /\ pc = "plan" /\ todo' = todo \ {i}
      /\ rows' = rows \cup {[idea |-> i, plan |-> p, decision |-> d.decision,
                             loss |-> d.maxLoss, day |-> day]}
      /\ open' = (IF d.decision # "vetoed" THEN Plus(open, c, d.maxLoss) ELSE open)
      /\ today' = (IF d.decision # "vetoed" THEN Plus(today, c, d.maxLoss) ELSE today)
      /\ granted' = (IF d.decision # "vetoed" THEN Plus(granted, c, d.maxLoss) ELSE granted)
      /\ UNCHANGED <<day, held, pursued, pc, base>>
  BY DEF PlanIdea, AppendPlan
<1>5. /\ today = granted /\ open.total = base.total + granted.total
      /\ \A b \in Buckets : open.bucket[b] = base.bucket[b] + granted.bucket[b]
  BY <1>4 DEF IInv, Sums
<1> HIDE DEF d, c
<1>6. ASSUME NEW r \in Approved
      PROVE  r.plan = p /\ r.loss = d.maxLoss /\ d.decision # "vetoed"
  BY <1>4, <1>6 DEF Approved
<1>7. ASSUME NEW r \in Approved
      PROVE  /\ 10000 * (base.total + granted.total + r.loss) <= TotalLimit
             /\ PlanBucket(r.plan) # NoBucket =>
                   10000 * (base.bucket[PlanBucket(r.plan)]
                            + granted.bucket[PlanBucket(r.plan)] + r.loss) <= BucketLimit
  BY <1>2, <1>3, <1>5, <1>6, <1>7
<1>8. [idea |-> i, plan |-> p, decision |-> d.decision, loss |-> d.maxLoss, day |-> day] \in Row
  <2>1. day \in Nat BY <1>1, SMT
  <2> QED BY <1>2, <1>3, <2>1 DEF Row
<1>9. CASE d.decision = "vetoed"
  <2>1. UNCHANGED <<open, today, granted, base, pc>> BY <1>4, <1>9
  <2>2. TypeOK' BY <1>4, <1>8, <2>1 DEF IInv, TypeOK
  <2> QED BY <1>7, <2>1, <2>2 DEF IInv, Sums
<1>10. CASE d.decision # "vetoed"
  <2>1. /\ open' \in OpenRisk /\ open'.total = open.total + d.maxLoss
        /\ granted' \in OpenRisk /\ granted'.total = granted.total + d.maxLoss
        /\ today' = granted'
    BY <1>1, <1>3, <1>4, <1>5, <1>10, RiskAdded
  <2>2. ASSUME NEW b \in Buckets
        PROVE  /\ open'.bucket[b] = open.bucket[b] + (IF b = c THEN d.maxLoss ELSE 0)
               /\ granted'.bucket[b] = granted.bucket[b] + (IF b = c THEN d.maxLoss ELSE 0)
    BY <1>1, <1>3, <1>4, <1>10, RiskAdded
  <2>3. TypeOK' BY <1>4, <1>8, <2>1 DEF IInv, TypeOK
  <2>4. base.total \in Nat /\ granted.total \in Nat
        /\ \A b \in Buckets : base.bucket[b] \in Nat /\ granted.bucket[b] \in Nat
    BY <1>1 DEF OpenRisk
  <2>5. open'.total = base.total + granted'.total
    BY <1>3, <1>5, <2>1, <2>4, SMT
  <2>6. \A b \in Buckets : open'.bucket[b] = base.bucket[b] + granted'.bucket[b]
    BY <1>3, <1>5, <2>2, <2>4, SMT
  <2>7. Sums' BY <1>4, <2>1, <2>5, <2>6 DEF Sums
  <2> QED BY <1>7, <2>3, <2>7 DEF IInv
<1> QED
  BY <1>3, <1>9, <1>10

\* No other step approves anything.
LEMMA OthersKeep ==
    ASSUME IInv, [Next]_vars, \A i \in Ideas : \A p \in Menu[i] : ~PlanIdea(i, p)
    PROVE  IInv' /\ UNCHANGED rows
<1>1. /\ day \in 0 .. MaxDay
      /\ held \in OpenRisk /\ open \in OpenRisk /\ today \in OpenRisk
      /\ base \in OpenRisk /\ granted \in OpenRisk
  BY DEF IInv, TypeOK
<1>2. ASSUME NEW i \in Ideas, Pursue(i) \/ Drop(i) PROVE IInv' /\ UNCHANGED rows
  BY <1>2 DEF Pursue, Drop, IInv, TypeOK, Sums
<1>3. CASE Collect
  BY <1>3, IdeaAssumption DEF Collect, IInv, TypeOK, Sums
<1>4. CASE NextDay
  <2>1. day' \in 0 .. MaxDay
    BY <1>1, <1>4, IdeaAssumption, SMT DEF NextDay
  <2>2. TypeOK'
    BY <1>4, <2>1, NoRiskTyped DEF NextDay, IInv, TypeOK
  <2>3. Sums'
    BY <1>4 DEF NextDay, Sums
  <2> QED
    BY <1>4, <2>2, <2>3 DEF IInv, NextDay
<1>5. CASE Begin
  <2>1. /\ open' \in OpenRisk /\ open'.total = held.total + today.total
        /\ \A b \in Buckets : open'.bucket[b] = held.bucket[b] + today.bucket[b]
    BY <1>1, <1>5, RisksAdd DEF Begin, OpenRisks
  <2>2. TypeOK'
    BY <1>5, <2>1 DEF Begin, IInv, TypeOK, Unplanned
  <2>3. Sums'
    BY <1>5, <2>1 DEF Begin, IInv, Sums
  <2> QED
    BY <1>5, <2>2, <2>3 DEF Begin, IInv
<1>6. ASSUME NEW i \in Ideas, SkipIdea(i) PROVE IInv' /\ UNCHANGED rows
  BY <1>6 DEF SkipIdea, IInv, TypeOK, Sums
<1>7. CASE Stop
  BY <1>7 DEF Stop, IInv, TypeOK, Sums
<1>8. CASE UNCHANGED vars
  BY <1>8 DEF vars, IInv, TypeOK, Sums
<1> QED
  BY <1>2, <1>3, <1>4, <1>5, <1>6, <1>7, <1>8 DEF Next

LEMMA NextInv == IInv /\ [Next]_vars => IInv'
BY PlanKeeps, OthersKeep

\* Types: sums of open risk are never negative, and every row is a plan of the menu.
THEOREM Typed == Spec => []TypeOK
<1>1. IInv => TypeOK
  BY DEF IInv
<1> QED
  BY InitInv, NextInv, <1>1, PTL DEF Spec

\* Every plan that is approved fits under the limit on open risk beside the positions
\* its run saw and all plans approved that day (src/desk/desks/trader/run.py:365).
THEOREM TotalCapped == Spec => WithinTotal
<1>1. ASSUME IInv, [Next]_vars, NEW r \in Approved
      PROVE  10000 * (base.total + granted.total + r.loss) <= TotalLimit
  BY <1>1, PlanKeeps, OthersKeep DEF Approved
<1>2. IInv /\ [Next]_vars =>
         [\A r \in Approved : 10000 * (base.total + granted.total + r.loss) <= TotalLimit]_vars
  BY <1>1
<1> QED
  BY InitInv, NextInv, <1>2, PTL DEF Spec, WithinTotal

\* The same for the bucket it is judged by and the plans on the subjects of that bucket,
\* for any menus, also where a subject outside every bucket is traded through a name
\* inside one (src/desk/desks/risk/rules.py:281).
THEOREM BucketsCapped == Spec => WithinBucket
<1>1. ASSUME IInv, [Next]_vars, NEW r \in Approved, PlanBucket(r.plan) # NoBucket
      PROVE  10000 * (base.bucket[PlanBucket(r.plan)]
                      + granted.bucket[PlanBucket(r.plan)] + r.loss) <= BucketLimit
  BY <1>1, PlanKeeps, OthersKeep DEF Approved
<1>2. IInv /\ [Next]_vars =>
         [\A r \in Approved :
             LET b == PlanBucket(r.plan)
             IN  b # NoBucket =>
                   10000 * (base.bucket[b] + granted.bucket[b] + r.loss) <= BucketLimit]_vars
  BY <1>1
<1> QED
  BY InitInv, NextInv, <1>2, PTL DEF Spec, WithinBucket

-----------------------------------------------------------------------------
(* Each idea is planned once. *)

AllUnplanned == \A i \in todo : ~HasPlan(i)

LEMMA OnceNext == AllUnplanned /\ PlannedOnce /\ [Next]_vars => (AllUnplanned /\ PlannedOnce)'
<1> SUFFICES ASSUME AllUnplanned, PlannedOnce, [Next]_vars PROVE (AllUnplanned /\ PlannedOnce)'
  OBVIOUS
<1>1. ASSUME UNCHANGED <<rows, todo>> PROVE (AllUnplanned /\ PlannedOnce)'
  BY <1>1 DEF AllUnplanned, PlannedOnce, HasPlan
<1>2. ASSUME NEW i \in Ideas, Pursue(i) \/ Drop(i) PROVE UNCHANGED <<rows, todo>>
  BY <1>2 DEF Pursue, Drop
<1>3. CASE Collect \/ NextDay \/ UNCHANGED vars
  BY <1>1, <1>3 DEF Collect, NextDay, vars
<1>4. CASE Begin
  BY <1>4 DEF Begin, Unplanned, AllUnplanned, PlannedOnce, HasPlan
<1>5. ASSUME NEW i \in Ideas, NEW p \in Menu[i], PlanIdea(i, p)
      PROVE  (AllUnplanned /\ PlannedOnce)'
  <2>1. i \in todo /\ todo' = todo \ {i}
    BY <1>5 DEF PlanIdea
  <2> DEFINE d == Evaluate(p, open)
             row == [idea |-> i, plan |-> p, decision |-> d.decision,
                     loss |-> d.maxLoss, day |-> day]
  <2>2. rows' = rows \cup {row}
    BY <1>5 DEF PlanIdea
  <2>3. row.idea = i
    OBVIOUS
  <2> HIDE DEF row
  <2>4. \A r \in rows : r.idea # i
    BY <2>1 DEF AllUnplanned, HasPlan
  <2> QED
    BY <2>1, <2>2, <2>3, <2>4 DEF AllUnplanned, PlannedOnce, HasPlan
<1>6. ASSUME NEW i \in Ideas, SkipIdea(i) PROVE (AllUnplanned /\ PlannedOnce)'
  BY <1>6 DEF SkipIdea, AllUnplanned, PlannedOnce, HasPlan
<1>7. CASE Stop
  BY <1>7 DEF Stop, AllUnplanned, PlannedOnce, HasPlan
<1> QED
  BY <1>1, <1>2, <1>3, <1>4, <1>5, <1>6, <1>7 DEF Next

\* No idea gets a second plan, whatever ends the runs ("each planned once",
\* src/desk/desks/trader/run.py:4).
THEOREM Once == Spec => []PlannedOnce
<1>1. Init => AllUnplanned /\ PlannedOnce
  BY DEF Init, AllUnplanned, PlannedOnce
<1> QED
  BY <1>1, OnceNext, PTL DEF Spec

-----------------------------------------------------------------------------
(* The menu: the loss at the stop.                                         *)

LEMMA Greater ==
    ASSUME NEW a \in Int, NEW b \in Int
    PROVE  Max({a, b}) = IF a >= b THEN a ELSE b
<1> DEFINE top == IF a >= b THEN a ELSE b
<1>1. top \in {a, b} /\ \A y \in {a, b} : top >= y
  OBVIOUS
<1>2. \A x \in {a, b} : (\A y \in {a, b} : x >= y) => x = top
  OBVIOUS
<1> HIDE DEF top
<1>3. Max({a, b}) = top
  BY <1>1, <1>2 DEF Max
<1> QED
  BY <1>3 DEF top

LEMMA TimesGrows ==
    ASSUME NEW k \in Nat, NEW a \in Int, NEW b \in Int, a <= b
    PROVE  k * a <= k * b
<1>1. k * (b - a) = k * b - k * a
  BY SMT
<1>2. b - a \in Nat
  OBVIOUS
<1>3. k * (b - a) \in Nat
  BY <1>2, SMT
<1>4. k * a \in Int /\ k * b \in Int
  BY SMT
<1> QED
  BY <1>1, <1>3, <1>4, SMT

\* What is rounded is off by at most a half.
LEMMA QuantizeNear ==
    ASSUME NEW n \in Int, NEW d \in Nat \ {0}
    PROVE  Quantize(n, d) \in Int /\ Distance(2 * d * Quantize(n, d), 2 * n) <= d
<1> DEFINE q == n \div d
           r == n % d
<1>1. q \in Int /\ r \in 0 .. d - 1 /\ n = d * q + r
  BY SMT
<1> HIDE DEF q, r
<1>2. PICK z : z = d * q /\ z \in Int
  BY <1>1, SMT
<1>3. Quantize(n, d) = IF 2 * r > d \/ (2 * r = d /\ q % 2 = 1) THEN q + 1 ELSE q
  BY DEF Quantize, q, r
<1>4. CASE Quantize(n, d) = q /\ 2 * r <= d
  <2>1. 2 * d * q = 2 * z
    BY <1>1, <1>2, SMT
  <2>2. Distance(2 * z, 2 * n) <= d
    BY <1>1, <1>2, <1>4, SMT DEF Distance
  <2> QED
    BY <1>1, <1>4, <2>1, <2>2
<1>5. CASE Quantize(n, d) = q + 1 /\ 2 * r >= d
  <2>1. 2 * d * (q + 1) = 2 * z + 2 * d
    BY <1>1, <1>2, SMT
  <2>2. Distance(2 * z + 2 * d, 2 * n) <= d
    BY <1>1, <1>2, <1>5, SMT DEF Distance
  <2> QED
    BY <1>1, <1>5, <2>1, <2>2
<1>6. 2 * r <= d \/ 2 * r >= d
  BY <1>1
<1> QED
  BY <1>1, <1>3, <1>4, <1>5, <1>6

\* What the first state fixes.
Fixed == idea \in MenuIdeas /\ market \in Markets

LEMMA CandidatesPriced ==
    ASSUME Fixed, NEW i \in Tradeable
    PROVE  Price(Candidates[i]) \in Nat \ {0}
<1>1. PICK m, s, S : m = market /\ s = idea.subject /\ S = DOMAIN m.price
  OBVIOUS
<1>2. /\ s \in S /\ Proxies(s) \in Seq(S) /\ m.price \in [S -> (Nat \ {0}) \cup {Absent}]
  BY <1>1, MenuAssumption DEF Fixed
<1>3. PICK own : own = (IF s \in Futures THEN <<>> ELSE <<s>>) /\ own \in Seq(S)
  <2>1. <<>> \in Seq(S) /\ <<s>> \in Seq(S)
    BY <1>2
  <2> QED
    BY <2>1, Zenon
<1>4. Candidates = own \o Proxies(s)
  BY <1>1, <1>3 DEF Candidates
<1>5. Candidates \in Seq(S)
  BY <1>2, <1>3, <1>4
<1>6. i \in DOMAIN Candidates /\ Price(Candidates[i]) # Absent
  BY DEF Tradeable
<1>7. Candidates[i] \in S
  BY <1>5, <1>6
<1> QED
  BY <1>1, <1>2, <1>6, <1>7 DEF Price

LEMMA LeverageTyped == ASSUME NEW s PROVE LeverageOf(s) \in Nat \ {0}
BY MenuAssumption DEF LeverageOf

LEMMA ShareLoss ==
    ASSUME Fixed, Entry # Absent, NEW i \in Tradeable
    PROVE  LET c == ShareChoice(Candidates[i])
               lost == Unit * Price(c.instrument) * StopMove * LeverageOf(c.instrument)
               parts == Entry * LeverageOf(idea.subject)
           IN  c.legs = <<>> /\ (c.loss = 1 \/ Distance(2 * parts * c.loss, 2 * lost) <= parts)
<1>1. PICK s, c : s = Candidates[i] /\ c = ShareChoice(s)
  OBVIOUS
<1>2. c.legs = <<>> /\ c.instrument = s /\ c.loss = Max({UnitLoss(s), 1})
  BY <1>1 DEF ShareChoice
<1>3. Price(s) \in Nat \ {0}
  BY <1>1, CandidatesPriced
<1>4. Entry \in Nat \ {0} /\ StopMove \in Int
  <2>1. idea.stop \in Nat /\ Entry \in Nat \ {0}
    BY MenuAssumption DEF Fixed, Entry, Price
  <2> QED
    BY <2>1 DEF StopMove
<1>5. PICK lost, parts : /\ lost = Unit * Price(s) * StopMove * LeverageOf(s) /\ lost \in Int
                         /\ parts = Entry * LeverageOf(idea.subject) /\ parts \in Nat \ {0}
  <2>1. PICK p, e, k, l : /\ p = Price(s)
                          /\ e = Entry
                          /\ k = LeverageOf(s)
                          /\ l = LeverageOf(idea.subject)
    OBVIOUS
  <2>2. p \in Nat \ {0} /\ e \in Nat \ {0} /\ k \in Nat \ {0} /\ l \in Nat \ {0}
    BY <1>3, <1>4, <2>1, LeverageTyped
  <2>3. e * l \in Nat \ {0}
    BY <2>2, SMT
  <2>4. Unit * p \in Int
    BY <2>2 DEF Unit
  <2>5. Unit * p * StopMove \in Int
    BY <1>4, <2>4, SMT
  <2>6. Unit * p * StopMove * k \in Int
    BY <2>2, <2>5, SMT
  <2> QED
    BY <2>1, <2>3, <2>6
<1>6. PICK u : u = Quantize(lost, parts)
  OBVIOUS
<1>7. UnitLoss(s) = u
  BY <1>5, <1>6 DEF UnitLoss
<1>8. u \in Int /\ Distance(2 * parts * u, 2 * lost) <= parts
  BY <1>5, <1>6, QuantizeNear
<1>9. c.loss = u \/ c.loss = 1
  BY <1>2, <1>7, <1>8, Greater
<1> QED
  BY <1>1, <1>2, <1>5, <1>8, <1>9

-----------------------------------------------------------------------------
(* The menu: what options lose at most.                                    *)

\* What a right of this kind pays, in dollars a share.
Payoff(right, strike, x) == Max({0, IF right = "call" THEN x - strike ELSE strike - x})

LEMMA PayoffIs ==
    ASSUME NEW right, NEW strike \in Int, NEW x \in Int
    PROVE  /\ Payoff(right, strike, x) \in Nat
           /\ Payoff(right, strike, x) =
                 IF right = "call" THEN (IF x <= strike THEN 0 ELSE x - strike)
                 ELSE (IF strike <= x THEN 0 ELSE strike - x)
<1>1. CASE right = "call"
  <2>1. Max({0, x - strike}) = IF 0 >= x - strike THEN 0 ELSE x - strike
    BY Greater
  <2> QED
    BY <1>1, <2>1 DEF Payoff
<1>2. CASE right # "call"
  <2>1. Max({0, strike - x}) = IF 0 >= strike - x THEN 0 ELSE strike - x
    BY Greater
  <2> QED
    BY <1>2, <2>1 DEF Payoff
<1> QED
  BY <1>1, <1>2

LEMMA WorthIs ==
    ASSUME NEW leg
    PROVE  \A x : Worth(leg, x) = Unit * Multiplier *
              (IF leg.action = "buy" THEN Payoff(leg.right, leg.strike, x)
               ELSE -Payoff(leg.right, leg.strike, x))
BY DEF Worth, Payoff

LEMMA PerContract == Unit * Multiplier \in Nat
BY MenuAssumption, SMT DEF Unit

LEMMA QuotesTyped ==
    ASSUME Fixed, NEW q \in TwoSided
    PROVE  q.right = Right /\ q.strike \in Int /\ q.bid \in Int /\ q.ask \in Int
<1>1. q \in Quotes
  BY DEF TwoSided
<1>2. PICK e \in Expiries : q \in {o \in market.chain : o.expiry = e /\ o.right = Right}
  BY <1>1 DEF Quotes
<1>3. q \in market.chain /\ q.right = Right
  BY <1>2
<1> QED
  BY <1>3, MenuAssumption DEF Fixed

\* What a choice with options promises.
Covered(c) ==
    /\ c.legs # <<>>
    /\ \A x \in Levels, y \in Levels :
          /\ Value(c.legs, x) - c.cost >= -c.loss
          /\ x <= y => IF idea.direction = "long"
                       THEN Value(c.legs, x) <= Value(c.legs, y)
                       ELSE Value(c.legs, x) >= Value(c.legs, y)

LEMMA OptionCovered ==
    ASSUME Fixed, NEW q \in TwoSided
    PROVE  Covered(LongOption(q))
<1>1. PICK c, leg : c = LongOption(q) /\ leg = Leg(q, "buy")
  OBVIOUS
<1>2. q.right = Right /\ q.strike \in Int /\ q.bid \in Int /\ q.ask \in Int
  BY QuotesTyped
<1>3. c.legs = <<leg>> /\ c.cost = (Unit * Multiplier * (q.bid + q.ask)) \div 2 /\ c.loss = c.cost
  BY <1>1 DEF LongOption
<1>4. leg.action = "buy" /\ leg.right = Right /\ leg.strike = q.strike
  BY <1>1, <1>2 DEF Leg
<1>5. PICK k, cost : k = Unit * Multiplier /\ k \in Nat /\ cost = c.cost /\ cost \in Int
  <2>1. PICK k : k = Unit * Multiplier /\ k \in Nat
    BY PerContract
  <2>2. k * (q.bid + q.ask) \in Int
    BY <1>2, <2>1, SMT
  <2>3. (k * (q.bid + q.ask)) \div 2 \in Int
    BY <2>2, SMT
  <2> QED
    BY <1>3, <2>1, <2>3
<1>6. ASSUME NEW x \in Levels
      PROVE  Value(c.legs, x) = k * Payoff(Right, q.strike, x) /\ Value(c.legs, x) \in Nat
  <2>1. PICK g : g = Payoff(Right, q.strike, x) /\ g \in Nat
    BY <1>2, PayoffIs, MenuAssumption
  <2>2. Worth(leg, x) = k * g
    BY <1>4, <1>5, <2>1, WorthIs
  <2>3. k * g \in Nat
    BY <1>5, <2>1, SMT
  <2>4. Value(<<leg>>, x) = Worth(leg, x) + 0
    BY DEF Value
  <2> QED
    BY <1>3, <2>1, <2>2, <2>3, <2>4
<1>7. ASSUME NEW x \in Levels, NEW y \in Levels
      PROVE  /\ Value(c.legs, x) - c.cost >= -c.loss
             /\ x <= y => IF idea.direction = "long"
                          THEN Value(c.legs, x) <= Value(c.legs, y)
                          ELSE Value(c.legs, x) >= Value(c.legs, y)
  <2>1. PICK v, w, a, b : /\ v = Value(c.legs, x) /\ w = Value(c.legs, y)
                          /\ a = Payoff(Right, q.strike, x) /\ b = Payoff(Right, q.strike, y)
    OBVIOUS
  <2>2. v = k * a /\ w = k * b /\ v \in Nat /\ w \in Nat
    BY <1>6, <2>1
  <2>3. v - c.cost >= -c.loss
    <3>1. v - cost >= -cost
      BY <1>5, <2>2
    <3> QED
      BY <1>3, <1>5, <3>1
  <2>4. /\ x \in Int /\ y \in Int /\ a \in Nat /\ b \in Nat
        /\ a = IF Right = "call" THEN (IF x <= q.strike THEN 0 ELSE x - q.strike)
               ELSE (IF q.strike <= x THEN 0 ELSE q.strike - x)
        /\ b = IF Right = "call" THEN (IF y <= q.strike THEN 0 ELSE y - q.strike)
               ELSE (IF q.strike <= y THEN 0 ELSE q.strike - y)
    BY <1>2, <2>1, PayoffIs, MenuAssumption
  <2>5. CASE idea.direction = "long"
    <3>1. Right = "call"
      BY <2>5 DEF Right
    <3>2. x <= y => a <= b
      BY <1>2, <2>4, <3>1
    <3>3. x <= y => k * a <= k * b
      BY <1>5, <2>4, <3>2, TimesGrows
    <3> QED
      BY <2>1, <2>2, <2>3, <2>5, <3>3
  <2>6. CASE idea.direction # "long"
    <3>1. Right # "call"
      BY <2>6 DEF Right
    <3>2. x <= y => b <= a
      BY <1>2, <2>4, <3>1
    <3>3. x <= y => k * b <= k * a
      BY <1>5, <2>4, <3>2, TimesGrows
    <3>4. x <= y => v >= w
      BY <2>2, <3>3
    <3> QED
      BY <2>1, <2>3, <2>6, <3>4
  <2> QED
    BY <2>5, <2>6
<1>8. c.legs # <<>>
  BY <1>3
<1> QED
  BY <1>1, <1>7, <1>8 DEF Covered

\* Of one strike or two, one is the highest and one the lowest.
LEMMA EndsOfTwo ==
    ASSUME NEW S, S # {}, NEW a, NEW b, \A o \in S : o.strike \in Int /\ o.strike \in {a, b}
    PROVE  /\ \E n \in S : \A o \in S : n.strike >= o.strike
           /\ \E n \in S : \A o \in S : n.strike <= o.strike
<1>1. PICK m \in S : TRUE
  OBVIOUS
<1>2. CASE \A o \in S : o.strike = m.strike
  BY <1>1, <1>2
<1>3. CASE \E n \in S : n.strike # m.strike
  <2>1. PICK n \in S : n.strike # m.strike
    BY <1>3
  <2>2. \A o \in S : o.strike = m.strike \/ o.strike = n.strike
    BY <1>1, <2>1
  <2>3. m.strike \in Int /\ n.strike \in Int
    BY <1>1, <2>1
  <2>4. CASE m.strike >= n.strike
    <3>1. \A o \in S : m.strike >= o.strike /\ n.strike <= o.strike
      BY <2>2, <2>3, <2>4
    <3> QED
      BY <1>1, <2>1, <3>1
  <2>5. CASE ~(m.strike >= n.strike)
    <3>1. \A o \in S : n.strike >= o.strike /\ m.strike <= o.strike
      BY <2>2, <2>3, <2>5
    <3> QED
      BY <1>1, <2>1, <3>1
  <2> QED
    BY <2>4, <2>5
<1> QED
  BY <1>2, <1>3

\* The quotes of an expiry have one of the two strikes that were picked.
LEMMA TwoStrikes ==
    ASSUME NEW e, NEW group, \A q \in group : q \in TwoSided /\ q.expiry = e
    PROVE  \E a, b : \A o \in group : o.strike \in {a, b}
<1> DEFINE options == {o \in market.chain : o.expiry = e /\ o.right = Right}
<1>1. PICK strikes : strikes = {p.strike : p \in options}
  OBVIOUS
<1>2. PICK spot : spot = Price(Underlying)
  OBVIOUS
<1>3. ASSUME NEW o \in group
      PROVE  o.strike \in PickStrikes(strikes, spot)
  <2>1. o \in Quotes /\ o.expiry = e
    BY DEF TwoSided
  <2>2. PICK f \in Expiries :
           LET those == {c \in market.chain : c.expiry = f /\ c.right = Right}
           IN  o \in {c \in those :
                  /\ c.strike \in PickStrikes({p.strike : p \in those}, Price(Underlying))
                  /\ c \notin market.missing}
    BY <2>1 DEF Quotes
  <2>3. f = e
    BY <2>1, <2>2
  <2> QED
    BY <1>1, <1>2, <2>2, <2>3
<1>4. PICK a, b : a = Nearest(strikes, spot) /\ b = Nearest(strikes, Far(Right, spot))
  OBVIOUS
<1>5. \A o \in group : o.strike \in {a, b}
  BY <1>3, <1>4 DEF PickStrikes
<1> QED
  BY <1>5

LEMMA SpreadCovered ==
    ASSUME Fixed, NEW group \in Groups
    PROVE  Covered(Spread(group))
<1>1. PICK expiry : group = {q \in TwoSided : q.expiry = expiry}
  BY DEF Groups
<1>2. group \subseteq TwoSided /\ Cardinality(group) >= 2
  BY <1>1 DEF Groups
<1>3. \A o \in group : /\ o.right = Right /\ o.strike \in Int
                       /\ o.bid \in Int /\ o.ask \in Int
  BY <1>2, QuotesTyped
<1>4. PICK near : near = Near(group)
  OBVIOUS
<1>5. PICK one, two : \A o \in group : o.strike \in {one, two}
  <2>1. \A q \in group : q \in TwoSided /\ q.expiry = expiry
    BY <1>1
  <2> QED
    BY <2>1, TwoStrikes
<1>6. near \in group /\ \A o \in group : IF near.right = "put" THEN near.strike >= o.strike
                                        ELSE near.strike <= o.strike
  <2>1. group # {}
    BY <1>2, FS_EmptySet
  <2>2. /\ \E n \in group : \A o \in group : n.strike >= o.strike
        /\ \E n \in group : \A o \in group : n.strike <= o.strike
    BY <1>3, <1>5, <2>1, EndsOfTwo
  <2>3. \E n \in group : \A o \in group : IF n.right = "put" THEN n.strike >= o.strike
                                          ELSE n.strike <= o.strike
    <3>1. CASE Right = "put"
      BY <1>3, <2>2, <3>1
    <3>2. CASE Right # "put"
      BY <1>3, <2>2, <3>2
    <3> QED
      BY <3>1, <3>2
  <2> QED
    BY <1>4, <2>3 DEF Near
<1>7. PICK far : far = Farthest(group)
  OBVIOUS
<1>8. far \in group \ {near}
  <2>1. PICK rest : rest = group \ {near}
    OBVIOUS
  <2>2. rest # {}
    <3>1. group # {near}
      BY <1>2, FS_Singleton
    <3> QED
      BY <1>6, <2>1, <3>1
  <2>3. /\ \E n \in rest : \A o \in rest : n.strike >= o.strike
        /\ \E n \in rest : \A o \in rest : n.strike <= o.strike
    BY <1>3, <1>5, <2>1, <2>2, EndsOfTwo
  <2>4. \E n \in rest : \A o \in rest : IF n.right = "put" THEN n.strike <= o.strike
                                        ELSE n.strike >= o.strike
    <3>1. CASE Right = "put"
      BY <1>3, <2>1, <2>3, <3>1
    <3>2. CASE Right # "put"
      BY <1>3, <2>1, <2>3, <3>2
    <3> QED
      BY <3>1, <3>2
  <2> QED
    BY <1>4, <1>7, <2>1, <2>4 DEF Farthest
<1>9. PICK s, t : s = near.strike /\ t = far.strike
  OBVIOUS
<1>10. /\ s \in Int /\ t \in Int /\ near.right = Right /\ far.right = Right
      /\ near.ask \in Int /\ far.bid \in Int
      /\ IF Right = "put" THEN s >= t ELSE s <= t
  BY <1>3, <1>6, <1>8, <1>9
<1>11. PICK c, first, second : /\ c = Spread(group)
                               /\ first = Leg(near, "buy")
                               /\ second = Leg(far, "sell")
  OBVIOUS
<1>12. /\ c.legs = <<first, second>>
       /\ c.cost = Unit * Multiplier * (near.ask - far.bid)
       /\ c.loss = c.cost
  BY <1>4, <1>7, <1>11 DEF Spread
<1>13. /\ first.action = "buy" /\ first.right = Right /\ first.strike = s
       /\ second.action = "sell" /\ second.right = Right /\ second.strike = t
  BY <1>9, <1>10, <1>11 DEF Leg
<1>14. PICK k, cost : k = Unit * Multiplier /\ k \in Nat /\ cost = c.cost /\ cost \in Int
  <2>1. PICK k : k = Unit * Multiplier /\ k \in Nat
    BY PerContract
  <2>2. k * (near.ask - far.bid) \in Int
    BY <1>10, <2>1, SMT
  <2> QED
    BY <1>12, <2>1, <2>2
<1> DEFINE between(x) == Payoff(Right, s, x) - Payoff(Right, t, x)
<1>15. ASSUME NEW x \in Levels
       PROVE  between(x) \in Nat /\ Value(c.legs, x) = k * between(x) /\ Value(c.legs, x) \in Nat
  <2>1. PICK a, b : /\ a = Payoff(Right, s, x) /\ a \in Nat /\ b = Payoff(Right, t, x) /\ b \in Nat
                    /\ x \in Int
                    /\ a = IF Right = "call" THEN (IF x <= s THEN 0 ELSE x - s)
                           ELSE (IF s <= x THEN 0 ELSE s - x)
                    /\ b = IF Right = "call" THEN (IF x <= t THEN 0 ELSE x - t)
                           ELSE (IF t <= x THEN 0 ELSE t - x)
    BY <1>10, PayoffIs, MenuAssumption
  <2>2. Right \in {"call", "put"}
    BY DEF Right
  <2>3. a - b \in Nat
    BY <1>10, <2>1, <2>2
  <2>4. Worth(first, x) = k * a /\ Worth(second, x) = k * (-b)
    BY <1>13, <1>14, <2>1, WorthIs
  <2>5. Value(<<first, second>>, x) = Worth(first, x) + Worth(second, x)
    BY DEF Value
  <2>6. k * a + k * (-b) = k * (a - b) /\ k * (a - b) \in Nat
    BY <1>14, <2>1, <2>3, SMT
  <2> QED
    BY <1>12, <2>1, <2>3, <2>4, <2>5, <2>6
<1>16. ASSUME NEW x \in Levels, NEW y \in Levels, x <= y
       PROVE  IF Right = "call" THEN between(x) <= between(y) ELSE between(y) <= between(x)
  <2>1. PICK a, b, d, e :
             /\ a = Payoff(Right, s, x) /\ a \in Nat /\ b = Payoff(Right, t, x) /\ b \in Nat
             /\ d = Payoff(Right, s, y) /\ d \in Nat /\ e = Payoff(Right, t, y) /\ e \in Nat
             /\ x \in Int /\ y \in Int
             /\ a = IF Right = "call" THEN (IF x <= s THEN 0 ELSE x - s)
                    ELSE (IF s <= x THEN 0 ELSE s - x)
             /\ b = IF Right = "call" THEN (IF x <= t THEN 0 ELSE x - t)
                    ELSE (IF t <= x THEN 0 ELSE t - x)
             /\ d = IF Right = "call" THEN (IF y <= s THEN 0 ELSE y - s)
                    ELSE (IF s <= y THEN 0 ELSE s - y)
             /\ e = IF Right = "call" THEN (IF y <= t THEN 0 ELSE y - t)
                    ELSE (IF t <= y THEN 0 ELSE t - y)
    BY <1>10, PayoffIs, MenuAssumption
  <2>2. CASE Right = "call"
    <3>1. a - b <= d - e
      BY <1>10, <1>16, <2>1, <2>2
    <3> QED
      BY <2>1, <2>2, <3>1
  <2>3. CASE Right = "put"
    <3>1. d - e <= a - b
      BY <1>10, <1>16, <2>1, <2>3
    <3> QED
      BY <2>1, <2>3, <3>1
  <2> QED
    BY <2>2, <2>3 DEF Right
<1> HIDE DEF between
<1>17. ASSUME NEW x \in Levels, NEW y \in Levels
       PROVE  /\ Value(c.legs, x) - c.cost >= -c.loss
              /\ x <= y => IF idea.direction = "long"
                           THEN Value(c.legs, x) <= Value(c.legs, y)
                           ELSE Value(c.legs, x) >= Value(c.legs, y)
  <2>1. PICK v, w, a, b : /\ v = Value(c.legs, x)
                          /\ w = Value(c.legs, y)
                          /\ a = between(x)
                          /\ b = between(y)
    OBVIOUS
  <2>2. v = k * a /\ w = k * b /\ v \in Nat /\ w \in Nat /\ a \in Nat /\ b \in Nat
    BY <1>15, <2>1
  <2>3. v - c.cost >= -c.loss
    <3>1. v - cost >= -cost
      BY <1>14, <2>2
    <3> QED
      BY <1>12, <1>14, <3>1
  <2>4. CASE idea.direction = "long"
    <3>1. x <= y => a <= b
      BY <1>16, <2>1, <2>4 DEF Right
    <3>2. x <= y => k * a <= k * b
      BY <1>14, <2>2, <3>1, TimesGrows
    <3> QED
      BY <2>1, <2>2, <2>3, <2>4, <3>2
  <2>5. CASE idea.direction # "long"
    <3>1. x <= y => b <= a
      BY <1>16, <2>1, <2>5 DEF Right
    <3>2. x <= y => k * b <= k * a
      BY <1>14, <2>2, <3>1, TimesGrows
    <3>3. x <= y => v >= w
      BY <2>2, <3>2
    <3> QED
      BY <2>1, <2>3, <2>5, <3>3
  <2> QED
    BY <2>4, <2>5
<1>18. c.legs # <<>>
  BY <1>12
<1> QED
  BY <1>11, <1>17, <1>18 DEF Covered

Tells(c) ==
    IF c.legs = <<>>
    THEN LET lost == Unit * Price(c.instrument) * StopMove * LeverageOf(c.instrument)
             parts == Entry * LeverageOf(idea.subject)
         IN  c.loss = 1 \/ Distance(2 * parts * c.loss, 2 * lost) <= parts
    ELSE \A x \in Levels, y \in Levels :
            /\ Value(c.legs, x) - c.cost >= -c.loss
            /\ x <= y => IF idea.direction = "long"
                         THEN Value(c.legs, x) <= Value(c.legs, y)
                         ELSE Value(c.legs, x) >= Value(c.legs, y)

LEMMA LossTells == LossCovers <=> (menu # Absent => \A c \in menu : Tells(c))
BY Zenon DEF LossCovers, Tells

LEMMA BuiltTells ==
    ASSUME Fixed, BuildMenu, NEW c \in menu'
    PROVE  Tells(c)
<1>1. Entry # Absent /\ (c \in ShareChoices \/ c \in OptionChoices)
  BY DEF BuildMenu
<1>2. CASE c \in ShareChoices
  <2>1. PICK i \in Tradeable : c = ShareChoice(Candidates[i])
    BY <1>2 DEF ShareChoices
  <2> QED
    BY <1>1, <2>1, ShareLoss DEF Tells
<1>3. CASE c \in OptionChoices
  <2>1. Covered(c)
    BY <1>3, OptionCovered, SpreadCovered DEF OptionChoices
  <2> QED
    BY <2>1, Zenon DEF Covered, Tells
<1> QED
  BY <1>1, <1>2, <1>3

LEMMA MenuKeeps == Fixed /\ LossCovers /\ [MenuNext]_menuVars => (Fixed /\ LossCovers)'
<1> SUFFICES ASSUME Fixed, LossCovers, [MenuNext]_menuVars PROVE (Fixed /\ LossCovers)'
  OBVIOUS
<1>1. idea' = idea /\ market' = market
  BY DEF MenuNext, BuildMenu, PickPlan, menuVars
<1>2. Fixed'
  BY <1>1 DEF Fixed
<1>3. \A c : Tells(c) => Tells(c)'
  BY <1>1 DEF Tells, Price, Entry, StopMove
<1>4. ASSUME menu' # Absent, NEW c \in menu' PROVE Tells(c)'
  <2>1. CASE BuildMenu
    BY <1>3, <1>4, <2>1, BuiltTells
  <2>2. CASE menu' = menu
    BY <1>3, <1>4, <2>2, LossTells
  <2> QED
    BY <2>1, <2>2 DEF MenuNext, PickPlan, menuVars
<1>5. LossCovers'
  BY <1>4, Zenon DEF LossCovers, Tells
<1> QED
  BY <1>2, <1>5

\* The loss a plan is judged by covers what it can lose: at the stop, for every share
\* of the menu, to half a ten-thousandth of a dollar; and at any price of the underlying
\* at expiry, for every option and spread; for all ideas, markets and chains of quotes.
THEOREM LossesCovered == MenuSpec => []LossCovers
<1>1. MenuInit => Fixed /\ LossCovers
  BY DEF MenuInit, Fixed, LossCovers
<1> QED
  BY <1>1, MenuKeeps, PTL DEF MenuSpec

-----------------------------------------------------------------------------
(* Numbers and sequences.                                                  *)

Below == {q \in Nat \X Nat : q[1] < q[2]}

\* A nonempty set of numbers has a least one.
LEMMA LeastNumber ==
    ASSUME NEW T, T \subseteq Nat, T # {} PROVE \E x \in T : \A y \in T : x <= y
<1>1. OpToRel(<, Nat) = Below BY Zenon DEF OpToRel, Below
<1>2. IsWellFoundedOn(Below, Nat) BY <1>1, NatLessThanWellFounded
<1>3. \E x \in T : \A y \in T : ~(<<y, x>> \in Below) BY <1>2, WFMin, Zenon
<1>4. ASSUME NEW x \in Nat, NEW y \in Nat, y < x PROVE <<y, x>> \in Below
  BY <1>4, Zenon DEF Below
<1>5. \A x, y \in Nat : ~(y < x) => x <= y BY SMT
<1> QED BY <1>3, <1>4, <1>5, Zenon

\* The highest of some of the first numbers is one of them and none is above it.
LEMMA HighestIs ==
    ASSUME NEW T, NEW m \in Nat, T \subseteq 0 .. m, T # {}
    PROVE  Highest(T) \in T /\ \A y \in T : Highest(T) >= y
<1> DEFINE down == {m - y : y \in T}
<1>1. down \subseteq Nat /\ down # {}
  <2>1. \A y \in T : m - y \in Nat
    BY SMT
  <2>2. PICK y \in T : TRUE
    OBVIOUS
  <2>3. m - y \in down
    BY <2>2
  <2> QED
    BY <2>1, <2>3
<1>2. PICK x \in down : \A y \in down : x <= y
  BY <1>1, LeastNumber
<1>3. PICK z \in T : x = m - z
  OBVIOUS
<1>4. ASSUME NEW y \in T PROVE z >= y
  <2>1. x <= m - y
    BY <1>2
  <2>2. y \in Int /\ z \in Int
    OBVIOUS
  <2> HIDE DEF down
  <2> QED
    BY <1>3, <2>1, <2>2, SMT
<1> QED
  BY <1>3, <1>4 DEF Highest

LEMMA SeqOfOwn ==
    ASSUME NEW S, NEW q \in Seq(S) PROVE q \in Seq(ToSet(q))
BY SeqOfRange, Zenon DEF ToSet, Range

-----------------------------------------------------------------------------
(* Versions of positions: the one a version was made from.                 *)

\* A version of a run replaces the last one of its opening among those it had read.
IsVersion(v) ==
    v = [opened |-> v.opened, fills |-> v.fills, closed |-> v.closed, link |-> v.link,
         from |-> v.from, by |-> v.by, read |-> v.read]

MadeFrom(v, past) ==
    /\ IsVersion(v) /\ v.by = "run" /\ v.read \in 0 .. Len(past)
    /\ v.from = 0 => \A n \in 1 .. v.read : past[n].opened # v.opened
    /\ v.from # 0 =>
          /\ v.from \in 1 .. v.read /\ past[v.from].opened = v.opened
          /\ \A n \in v.from + 1 .. v.read : past[n].opened # v.opened
          /\ past[v.from].link.status \in {"confirmed", "auto"} => v.link = past[v.from].link

\* It comes after what it had read, unless Jon made it.
Placed(n, past) ==
    \/ past[n].by = "Jon" /\ IsVersion(past[n])
    \/ MadeFrom(past[n], past) /\ past[n].read < n

MadeInv ==
    /\ versions \in Seq(ToSet(versions)) /\ fills \in Seq(ToSet(fills))
    /\ \A n \in DOMAIN versions : Placed(n, versions)
    /\ run = [s \in Scorers |-> run[s]] /\ pending = [s \in Scorers |-> pending[s]]
    /\ \A s \in Scorers :
          /\ pending[s].versions \in Seq(ToSet(pending[s].versions))
          /\ \A n \in DOMAIN pending[s].versions : MadeFrom(pending[s].versions[n], versions)

LEMMA MadeStays ==
    ASSUME NEW v, NEW S, NEW past \in Seq(S), NEW U, NEW more \in Seq(U), MadeFrom(v, past)
    PROVE  MadeFrom(v, past \o more)
<1>1. /\ Len(past \o more) = Len(past) + Len(more)
      /\ \A n \in 1 .. Len(past) : (past \o more)[n] = past[n]
  <2>1. past \in Seq(S \cup U) /\ more \in Seq(S \cup U)
    BY SeqMonotonic
  <2> QED
    BY <2>1, ConcatProperties
<1>2. Len(past) \in Nat /\ Len(more) \in Nat
  BY LenProperties
<1>3. v.read \in 0 .. Len(past \o more)
  BY <1>1, <1>2, SMT DEF MadeFrom
<1>4. \A n \in 1 .. v.read : n \in 1 .. Len(past)
  BY <1>2, SMT DEF MadeFrom
<1>5. v.from # 0 => v.from \in 1 .. v.read /\ \A n \in v.from + 1 .. v.read : n \in 1 .. v.read
  BY <1>2, SMT DEF MadeFrom
<1> QED
  BY <1>1, <1>3, <1>4, <1>5, Zenon DEF MadeFrom

LEMMA VersionMade ==
    ASSUME versions \in Seq(ToSet(versions)), NEW trip
    PROVE  MadeFrom(Version(trip, Latest(trip.opened)), versions)
<1> DEFINE of == {n \in DOMAIN versions : versions[n].opened = trip.opened}
           old == Latest(trip.opened)
           v == Version(trip, old)
<1>1. DOMAIN versions = 1 .. Len(versions) /\ Len(versions) \in Nat
  BY LenProperties
<1>2. /\ v.by = "run" /\ v.read = Len(versions) /\ v.opened = trip.opened
      /\ v.from = old /\ v.link = LinkOf(trip, old) /\ IsVersion(v)
  BY DEF Version, IsVersion
<1>3. old # 0 /\ versions[old].link.status \in {"confirmed", "auto"} => v.link = versions[old].link
  BY <1>2 DEF LinkOf
<1>4. old = IF of = {} THEN 0 ELSE Highest(of)
  BY DEF Latest
<1> SUFFICES MadeFrom(v, versions)
  OBVIOUS
<1> HIDE DEF v, old
<1>5. CASE of = {}
  <2>1. old = 0
    BY <1>4, <1>5
  <2>2. \A n \in 1 .. Len(versions) : versions[n].opened # trip.opened
    BY <1>1, <1>5
  <2>3. v.read \in 0 .. Len(versions)
    BY <1>1, <1>2
  <2>4. v.from = 0 /\ \A n \in 1 .. v.read : versions[n].opened # v.opened
    BY <1>2, <2>1, <2>2
  <2> QED
    BY <1>2, <2>3, <2>4, Zenon DEF MadeFrom
<1>6. CASE of # {}
  <2>1. of \subseteq 0 .. Len(versions) /\ of \subseteq 1 .. Len(versions)
    BY <1>1
  <2>2. old \in of /\ \A n \in of : old >= n
    BY <1>1, <1>4, <1>6, <2>1, HighestIs
  <2>3. old \in 1 .. Len(versions) /\ old # 0 /\ versions[old].opened = trip.opened
    BY <1>1, <2>1, <2>2
  <2>4. ASSUME NEW n \in old + 1 .. Len(versions) PROVE versions[n].opened # trip.opened
    <3>1. n \in 1 .. Len(versions) /\ ~(old >= n)
      BY <1>1, <2>3, <2>4
    <3> QED
      BY <1>1, <2>2, <3>1
  <2>5. v.read \in 0 .. Len(versions)
    BY <1>1, <1>2
  <2> HIDE DEF of
  <2>6. /\ v.from \in 1 .. v.read /\ v.from # 0 /\ versions[v.from].opened = v.opened
        /\ \A n \in v.from + 1 .. v.read : versions[n].opened # v.opened
    BY <1>2, <2>3, <2>4
  <2>7. versions[v.from].link.status \in {"confirmed", "auto"} => v.link = versions[v.from].link
    BY <1>2, <1>3, <2>6
  <2> QED
    BY <1>2, <2>5, <2>6, <2>7, Zenon DEF MadeFrom
<1> QED
  BY <1>5, <1>6

LEMMA NewAreMade ==
    ASSUME versions \in Seq(ToSet(versions)), fills \in Seq(ToSet(fills))
    PROVE  /\ NewVersions \in Seq(ToSet(NewVersions))
           /\ \A n \in DOMAIN NewVersions : MadeFrom(NewVersions[n], versions)
<1> DEFINE trips == Trips(fills)
           Now(trip) == Version(trip, Latest(trip.opened))
           new == {n \in DOMAIN fills : n \in DOMAIN trips /\ ~Unchanged(Now(trips[n]))}
           count == Cardinality(new)
           made == [k \in 1 .. count |-> Now(trips[Ascending(new)[k]])]
<1>1. NewVersions = made
  BY DEF NewVersions
<1>2. count \in Nat
  <2>1. DOMAIN fills = 1 .. Len(fills) /\ Len(fills) \in Nat
    BY LenProperties
  <2>2. IsFiniteSet(1 .. Len(fills))
    BY <2>1, FS_Interval
  <2>3. IsFiniteSet(new)
    BY <2>1, <2>2, FS_Subset
  <2> QED
    BY <2>3, FS_CardinalityType
<1> HIDE DEF count, Now, trips
<1>3. made \in Seq(ToSet(made))
  <2>1. ToSet(made) = {made[k] : k \in 1 .. count}
    BY DEF ToSet
  <2>2. \A k \in 1 .. count : made[k] \in ToSet(made)
    BY <2>1
  <2> HIDE DEF made
  <2>3. made \in [1 .. count -> ToSet(made)]
    BY <2>2 DEF made
  <2> QED
    BY <1>2, <2>3
<1>4. ASSUME NEW n \in DOMAIN made PROVE MadeFrom(made[n], versions)
  BY VersionMade DEF Now
<1> QED
  BY <1>1, <1>3, <1>4

LEMMA OwnJoined ==
    ASSUME NEW q, q \in Seq(ToSet(q)), NEW r, r \in Seq(ToSet(r))
    PROVE  /\ q \o r \in Seq(ToSet(q \o r)) /\ q \in Seq(ToSet(q) \cup ToSet(r))
           /\ r \in Seq(ToSet(q) \cup ToSet(r))
<1>1. q \in Seq(ToSet(q) \cup ToSet(r)) /\ r \in Seq(ToSet(q) \cup ToSet(r))
  BY SeqMonotonic
<1>2. q \o r \in Seq(ToSet(q) \cup ToSet(r))
  BY <1>1, ConcatProperties
<1> QED
  BY <1>1, <1>2, SeqOfOwn

LEMMA OwnAppended ==
    ASSUME NEW q, q \in Seq(ToSet(q)), NEW x
    PROVE  /\ Append(q, x) = q \o <<x>> /\ Append(q, x) \in Seq(ToSet(Append(q, x)))
           /\ <<x>> \in Seq({x})
<1>1. q \in Seq(ToSet(q) \cup {x})
  BY SeqMonotonic
<1>2. Append(q, x) \in Seq(ToSet(q) \cup {x})
  BY <1>1, AppendProperties
<1>3. Append(q, x) = q \o <<x>>
  BY <1>1, AppendIsConcat
<1>4. Append(q, x) \in Seq(ToSet(Append(q, x)))
  BY <1>2, SeqOfOwn
<1>5. <<x>> \in Seq({x})
  OBVIOUS
<1> QED
  BY <1>3, <1>4, <1>5

LEMMA MadeInit == ScoringInit => MadeInv
<1> SUFFICES ASSUME ScoringInit PROVE MadeInv
  OBVIOUS
<1>1. <<>> \in Seq(ToSet(<<>>)) /\ DOMAIN <<>> = {}
  BY EmptySeq
<1>2. \A s \in Scorers : pending[s].versions = <<>>
  BY DEF ScoringInit, Nothing
<1> QED
  BY <1>1, <1>2 DEF ScoringInit, MadeInv

\* What a step of a scorer does to its place and its transaction.
LEMMA GoesTo ==
    ASSUME MadeInv, NEW s \in Scorers, NEW to, NEW what, Goes(s, to, what)
    PROVE  /\ run' = [o \in Scorers |-> run'[o]] /\ pending' = [o \in Scorers |-> pending'[o]]
           /\ run'[s] = to /\ pending'[s] = what
           /\ \A o \in Scorers \ {s} : run'[o] = run[o] /\ pending'[o] = pending[o]
BY DEF Goes, MadeInv

LEMMA CopyOf ==
    ASSUME NEW v, IsVersion(v), NEW to, NEW n
    PROVE  /\ [v EXCEPT !.link = to, !.from = n, !.by = "Jon"].by = "Jon"
           /\ IsVersion([v EXCEPT !.link = to, !.from = n, !.by = "Jon"])
<1>1. PICK a, b, c, l, f, y, r :
         v = [opened |-> a, fills |-> b, closed |-> c, link |-> l, from |-> f, by |-> y, read |-> r]
  BY Zenon DEF IsVersion
<1>2. PICK v1 : v1 = [v EXCEPT !.link = to]
  OBVIOUS
<1>3. v1 = [opened |-> a, fills |-> b, closed |-> c, link |-> to, from |-> f, by |-> y, read |-> r]
  BY <1>1, <1>2
<1>4. PICK v2 : v2 = [v1 EXCEPT !.from = n]
  OBVIOUS
<1>5. v2 = [opened |-> a, fills |-> b, closed |-> c, link |-> to, from |-> n, by |-> y, read |-> r]
  BY <1>3, <1>4
<1>6. [v2 EXCEPT !.by = "Jon"] =
      [opened |-> a, fills |-> b, closed |-> c, link |-> to, from |-> n, by |-> "Jon", read |-> r]
  BY <1>5
<1>7. [v EXCEPT !.link = to, !.from = n, !.by = "Jon"] = [v2 EXCEPT !.by = "Jon"]
  BY <1>2, <1>4, Zenon
<1>8. PICK v3 : v3 = [v2 EXCEPT !.by = "Jon"]
  OBVIOUS
<1>9. v3.by = "Jon" /\ IsVersion(v3)
  BY <1>6, <1>8 DEF IsVersion
<1> QED
  BY <1>7, <1>8, <1>9, Zenon

LEMMA MadeNext == MadeInv /\ [ScoringNext]_scoringVars => MadeInv'
<1> SUFFICES ASSUME MadeInv, [ScoringNext]_scoringVars PROVE MadeInv'
  OBVIOUS
<1>1. <<>> \in Seq(ToSet(<<>>)) /\ DOMAIN <<>> = {}
  BY EmptySeq
<1>2. CASE UNCHANGED <<versions, fills, run, pending>>
  BY <1>2 DEF MadeInv
<1>3. ASSUME NEW s \in Scorers, BuildPositions(s) PROVE MadeInv'
  <2>1. /\ NewVersions \in Seq(ToSet(NewVersions))
        /\ \A n \in DOMAIN NewVersions : MadeFrom(NewVersions[n], versions)
    BY NewAreMade DEF MadeInv
  <2> HIDE DEF NewVersions
  <2>2. PICK what : what = [Nothing EXCEPT !.versions = NewVersions] /\ Goes(s, "built", what)
    BY <1>3 DEF BuildPositions
  <2>3. what.versions = NewVersions
    BY <2>2 DEF Nothing
  <2>4. versions' = versions /\ fills' = fills
    BY <1>3 DEF BuildPositions, world, tables
  <2>5. \A o \in Scorers : /\ pending'[o].versions \in Seq(ToSet(pending'[o].versions))
                           /\ \A n \in DOMAIN pending'[o].versions :
                                 MadeFrom(pending'[o].versions[n], versions)
    <3> SUFFICES ASSUME NEW o \in Scorers
                 PROVE  /\ pending'[o].versions \in Seq(ToSet(pending'[o].versions))
                        /\ \A n \in DOMAIN pending'[o].versions :
                              MadeFrom(pending'[o].versions[n], versions)
      OBVIOUS
    <3>1. CASE o = s
      <4>0. pending'[s] = what
        BY <1>3, <2>2, GoesTo
      <4>1. pending'[o].versions = NewVersions
        BY <2>3, <3>1, <4>0
      <4> QED
        BY <2>1, <4>1, Zenon
    <3>2. CASE o # s
      <4>1. pending'[o] = pending[o]
        BY <1>3, <2>2, <3>2, GoesTo
      <4> QED
        BY <4>1, Zenon DEF MadeInv
    <3> QED
      BY <3>1, <3>2
  <2> QED
    BY <2>2, <2>4, <2>5, GoesTo DEF MadeInv
<1>4. ASSUME NEW s \in Scorers, NEW to, NEW what, what.versions = <<>>, Goes(s, to, what),
             UNCHANGED <<versions, fills>>
      PROVE  MadeInv'
  <2>1. \A o \in Scorers : /\ pending'[o].versions \in Seq(ToSet(pending'[o].versions))
                           /\ \A n \in DOMAIN pending'[o].versions :
                                 MadeFrom(pending'[o].versions[n], versions)
    BY <1>1, <1>4, GoesTo, Zenon DEF MadeInv
  <2> QED
    BY <1>4, <2>1, GoesTo DEF MadeInv
<1>5. ASSUME NEW s \in Scorers, SavePositions(s) PROVE MadeInv'
  <2>1. PICK new : new = pending[s].versions
    OBVIOUS
  <2>2. PICK old : old = versions
    OBVIOUS
  <2>3. /\ old \in Seq(ToSet(old)) /\ new \in Seq(ToSet(new))
        /\ \A n \in DOMAIN new : MadeFrom(new[n], old)
        /\ \A n \in DOMAIN old : Placed(n, old)
    BY <1>5, <2>1, <2>2, Zenon DEF MadeInv
  <2>4. PICK grown : grown = old \o new
    OBVIOUS
  <2>5. versions' = grown /\ fills' = fills
    BY <1>5, <2>1, <2>2, <2>4 DEF SavePositions, world
  <2>6. \A v : MadeFrom(v, old) => MadeFrom(v, grown)
    BY <2>3, <2>4, MadeStays
  <2>7. \A n \in DOMAIN grown : Placed(n, grown)
    <3> SUFFICES ASSUME NEW n \in DOMAIN grown
                 PROVE  Placed(n, grown)
      OBVIOUS
    <3>1. /\ Len(old) \in Nat /\ DOMAIN old = 1 .. Len(old)
          /\ Len(new) \in Nat /\ DOMAIN new = 1 .. Len(new)
      BY <2>3, LenProperties
    <3>2. /\ grown \in Seq(ToSet(old) \cup ToSet(new)) /\ Len(grown) = Len(old) + Len(new)
          /\ \A k \in 1 .. Len(grown) :
                grown[k] = IF k <= Len(old) THEN old[k] ELSE new[k - Len(old)]
      BY <2>3, <2>4, OwnJoined, ConcatProperties
    <3>3. n \in 1 .. Len(grown)
      BY <3>2, LenProperties
    <3>4. CASE n <= Len(old)
      <4>1. n \in DOMAIN old /\ grown[n] = old[n]
        BY <3>1, <3>2, <3>3, <3>4
      <4> QED
        BY <2>3, <2>6, <4>1 DEF Placed
    <3>5. CASE ~(n <= Len(old))
      <4>1. n - Len(old) \in DOMAIN new /\ grown[n] = new[n - Len(old)]
        BY <3>1, <3>2, <3>3, <3>5
      <4>2. MadeFrom(grown[n], old)
        BY <2>3, <4>1
      <4>3. grown[n].read < n
        BY <3>1, <3>3, <3>5, <4>2 DEF MadeFrom
      <4> QED
        BY <2>6, <4>2, <4>3 DEF Placed
    <3> QED
      BY <3>4, <3>5
  <2>8. grown \in Seq(ToSet(grown))
    BY <2>3, <2>4, OwnJoined
  <2>9. PICK what : what = Nothing /\ Goes(s, "saved", what)
    BY <1>5 DEF SavePositions
  <2>10. what.versions = <<>>
    BY <2>9 DEF Nothing
  <2>11. \A o \in Scorers : /\ pending'[o].versions \in Seq(ToSet(pending'[o].versions))
                            /\ \A n \in DOMAIN pending'[o].versions :
                                  MadeFrom(pending'[o].versions[n], grown)
    <3> SUFFICES ASSUME NEW o \in Scorers
                 PROVE  /\ pending'[o].versions \in Seq(ToSet(pending'[o].versions))
                        /\ \A n \in DOMAIN pending'[o].versions :
                              MadeFrom(pending'[o].versions[n], grown)
      OBVIOUS
    <3>1. CASE o = s
      <4>1. pending'[o].versions = <<>>
        BY <1>5, <2>9, <2>10, <3>1, GoesTo
      <4> QED
        BY <1>1, <4>1, Zenon
    <3>2. CASE o # s
      <4>1. pending'[o] = pending[o]
        BY <1>5, <2>9, <3>2, GoesTo
      <4> QED
        BY <2>2, <2>6, <4>1 DEF MadeInv
    <3> QED
      BY <3>1, <3>2
  <2> QED
    BY <2>5, <2>7, <2>8, <2>9, <2>11, GoesTo DEF MadeInv
<1>6. ASSUME NEW n \in DOMAIN versions, NEW target, Link(n, target) PROVE MadeInv'
  <2>1. PICK old : old = versions
    OBVIOUS
  <2>2. PICK copy : copy.by = "Jon" /\ IsVersion(copy) /\ versions' = Append(old, copy)
    <3> DEFINE isPlan == target # None /\ Kind[target] = "plan"
               link == Linked(IF isPlan THEN target ELSE None,
                              IF isPlan THEN Of[target] ELSE target,
                              IF target = None THEN "none" ELSE "confirmed")
    <3>1. versions' = Append(versions, [versions[n] EXCEPT !.link = link, !.from = n, !.by = "Jon"])
      BY <1>6 DEF Link
    <3>2. PICK v : v = versions[n] /\ IsVersion(v)
      BY <1>6 DEF MadeInv, Placed, MadeFrom
    <3>3. PICK to : to = link
      OBVIOUS
    <3>4. [v EXCEPT !.link = to, !.from = n, !.by = "Jon"].by = "Jon"
          /\ IsVersion([v EXCEPT !.link = to, !.from = n, !.by = "Jon"])
      BY <3>2, CopyOf
    <3> QED
      BY <2>1, <3>1, <3>2, <3>3, <3>4
  <2>3. old \in Seq(ToSet(old)) /\ <<copy>> \in Seq({copy}) /\ Append(old, copy) = old \o <<copy>>
    BY <2>1, OwnAppended DEF MadeInv
  <2>4. PICK grown : grown = old \o <<copy>>
    OBVIOUS
  <2>5. versions' = grown /\ fills' = fills /\ run' = run /\ pending' = pending
    BY <1>6, <2>2, <2>3, <2>4 DEF Link, world
  <2>6. \A v : MadeFrom(v, old) => MadeFrom(v, grown)
    BY <2>3, <2>4, MadeStays
  <2>7. ASSUME NEW k \in DOMAIN grown
        PROVE  Placed(k, grown)
    <3>1. Len(old) \in Nat /\ DOMAIN old = 1 .. Len(old)
      BY <2>3, LenProperties
    <3>2. /\ grown \in Seq(ToSet(old) \cup {copy}) /\ Len(grown) = Len(old) + 1
          /\ \A x \in 1 .. Len(grown) : grown[x] = IF x <= Len(old) THEN old[x] ELSE copy
      <4>1. old \in Seq(ToSet(old) \cup {copy})
        BY <2>3, SeqMonotonic
      <4> QED
        BY <2>3, <2>4, <4>1, AppendProperties
    <3>3. k \in 1 .. Len(grown)
      BY <3>2, LenProperties
    <3>4. CASE k <= Len(old)
      <4>1. k \in DOMAIN old /\ grown[k] = old[k]
        BY <3>1, <3>2, <3>3, <3>4
      <4>2. Placed(k, old)
        BY <2>1, <4>1, Zenon DEF MadeInv
      <4> QED
        BY <2>6, <4>1, <4>2 DEF Placed
    <3>5. CASE ~(k <= Len(old))
      BY <2>2, <3>2, <3>3, <3>5 DEF Placed
    <3> QED
      BY <3>4, <3>5
  <2>8. grown \in Seq(ToSet(grown))
    BY <2>3, <2>4, OwnAppended
  <2>9. \A s \in Scorers : \A k \in DOMAIN pending[s].versions :
                              MadeFrom(pending[s].versions[k], grown)
    BY <2>1, <2>6, Zenon DEF MadeInv
  <2> QED
    BY <2>5, <2>7, <2>8, <2>9 DEF MadeInv
<1>7. ASSUME NEW s \in Scorers, Score(s) \/ SaveScores(s) \/ Fail(s) PROVE MadeInv'
  <2>1. PICK to, what : what.versions = <<>> /\ Goes(s, to, what)
    <3>1. CASE Score(s)
      <4>1. PICK what : /\ what = [Nothing EXCEPT !.scores = Fresh(DueNow) \cup Fresh(ExitsNow),
                                        !.results = OfIdeas(Fresh(DueNow)),
                                        !.exits = OfExits(Fresh(ExitsNow))]
                        /\ Goes(s, "scored", what)
        BY <3>1 DEF Score
      <4>2. what.versions = <<>>
        BY <4>1 DEF Nothing
      <4> QED
        BY <4>1, <4>2
    <3>2. CASE SaveScores(s) \/ Fail(s)
      <4>1. Goes(s, "idle", Nothing) /\ Nothing.versions = <<>>
        BY <3>2 DEF SaveScores, Fail, Nothing
      <4> QED
        BY <4>1
    <3> QED
      BY <1>7, <3>1, <3>2
  <2>2. UNCHANGED <<versions, fills>>
    BY <1>7 DEF Score, SaveScores, Fail, world, tables
  <2> QED
    BY <1>7, <1>4, <2>1, <2>2
<1>8. CASE Execute
  <2>1. PICK f : fills' = Append(fills, f)
    BY <1>8 DEF Execute
  <2>2. UNCHANGED <<versions, run, pending>>
    BY <1>8 DEF Execute, tables
  <2>3. fills' \in Seq(ToSet(fills'))
    BY <2>1, OwnAppended DEF MadeInv
  <2> QED
    BY <2>2, <2>3 DEF MadeInv
<1>9. CASE (\E i \in Artifacts : Write(i)) \/ StoreBar \/ DayEnds \/ UNCHANGED scoringVars
  <2>1. UNCHANGED <<versions, fills, run, pending>>
    BY <1>9 DEF Write, StoreBar, DayEnds, scoringVars, tables
  <2> QED
    BY <1>2, <2>1
<1> QED
  BY <1>3, <1>5, <1>6, <1>7, <1>8, <1>9, Zenon DEF ScoringNext, Run

LEMMA MadeKeeps == MadeInv => LinkKept
<1> SUFFICES ASSUME MadeInv, NEW m \in DOMAIN versions, versions[m].by = "run"
             PROVE  LET jons == {n \in 1 .. m : /\ versions[n].opened = versions[m].opened
                                                /\ versions[n].by = "Jon"} IN
                    jons # {} /\ versions[Highest(jons)].link.status = "confirmed" =>
                       LET n == Highest(jons) IN
                       \/ versions[m].link = versions[n].link
                       \/ \E k \in n .. m : versions[k].by = "run" /\ versions[k].read < n
  BY DEF LinkKept
<1> DEFINE jons == {n \in 1 .. m : /\ versions[n].opened = versions[m].opened
                                   /\ versions[n].by = "Jon"}
<1> SUFFICES ASSUME jons # {}, versions[Highest(jons)].link.status = "confirmed",
                    \A k \in Highest(jons) .. m :
                       versions[k].by = "run" => ~(versions[k].read < Highest(jons))
             PROVE  versions[m].link = versions[Highest(jons)].link
  OBVIOUS
<1>1. DOMAIN versions = 1 .. Len(versions) /\ Len(versions) \in Nat /\ m \in 1 .. Len(versions)
  BY LenProperties DEF MadeInv
<1>2. jons \subseteq 0 .. m /\ jons \subseteq 1 .. m
  OBVIOUS
<1>3. PICK n : n = Highest(jons)
  OBVIOUS
<1> HIDE DEF jons
<1>4. m \in Nat
  BY <1>1
<1>5. n \in jons /\ \A y \in jons : n >= y
  BY <1>4, <1>2, <1>3, HighestIs
<1>6. n \in 1 .. m /\ versions[n].opened = versions[m].opened
  BY <1>5 DEF jons
<1> DEFINE lost == {k \in n .. m : /\ versions[k].opened = versions[m].opened
                                   /\ versions[k].link # versions[n].link}
<1> SUFFICES ASSUME lost # {} PROVE FALSE
  <2>1. m \in n .. m
    BY <1>4, <1>6
  <2>2. m \notin lost => versions[m].link = versions[n].link
    BY <2>1
  <2> QED
    BY <1>3, <2>2
<1>7. PICK k \in lost : \A y \in lost : k <= y
  <2>1. lost \subseteq Nat
    BY <1>1, <1>6
  <2> QED
    BY <2>1, LeastNumber
<1>8. /\ k \in n .. m /\ k # n /\ k \in 1 .. m /\ k \in Nat /\ k > n
      /\ versions[k].opened = versions[m].opened /\ versions[k].link # versions[n].link
  BY <1>1, <1>6, <1>7
<1>9. k \notin jons
  <2>1. ~(n >= k)
    BY <1>1, <1>6, <1>8
  <2> QED
    BY <1>5, <2>1
<1>10. versions[k].by # "Jon"
  BY <1>8, <1>9 DEF jons
<1>11. PICK v : v = versions[k]
  OBVIOUS
<1> HIDE DEF lost
<1>12. MadeFrom(v, versions) /\ v.read < k
  <2>1. k \in DOMAIN versions
    BY <1>1, <1>8
  <2> QED
    BY <1>11, <1>10, <2>1 DEF MadeInv, Placed
<1>13. v.by = "run" /\ v.read \in Nat /\ ~(v.read < n)
  BY <1>3, <1>8, <1>11, <1>12 DEF MadeFrom
<1>14. n \in 1 .. v.read /\ v.opened = versions[n].opened
  BY <1>1, <1>6, <1>8, <1>11, <1>13
<1>15. v.from # 0
  BY <1>12, <1>14 DEF MadeFrom
<1>16. PICK old : old = v.from
  OBVIOUS
<1>17. /\ old \in 1 .. v.read /\ versions[old].opened = v.opened
       /\ \A x \in old + 1 .. v.read : versions[x].opened # v.opened
       /\ versions[old].link.status \in {"confirmed", "auto"} => v.link = versions[old].link
  BY <1>12, <1>15, <1>16 DEF MadeFrom
<1>18. old >= n
  <2> SUFFICES ASSUME ~(old >= n) PROVE FALSE
    OBVIOUS
  <2>1. n \in old + 1 .. v.read
    BY <1>1, <1>6, <1>13, <1>14, <1>17
  <2> QED
    BY <1>14, <1>17, <2>1
<1>19. old \in n .. m /\ old < k /\ old \in Nat
  BY <1>1, <1>6, <1>8, <1>12, <1>13, <1>17, <1>18
<1>20. versions[old].link = versions[n].link
  <2>1. old \notin lost
    <3>1. ~(k <= old)
      BY <1>8, <1>19
    <3> QED
      BY <1>7, <3>1
  <2> QED
    BY <1>8, <1>11, <1>17, <1>19, <2>1 DEF lost
<1>21. v.link = versions[old].link
  BY <1>3, <1>17, <1>20
<1> QED
  BY <1>8, <1>11, <1>20, <1>21

\* A link Jon confirmed stays on the later versions of its position, for every
\* sequence of executions, however the two scorers, their failures and Jon's links
\* interleave, unless a version was made from what was read before the link.
THEOREM LinksStay == ScoringSpec => []LinkKept
<1> QED
  BY MadeInit, MadeNext, MadeKeeps, PTL DEF ScoringSpec

-----------------------------------------------------------------------------
(* The root of a thesis: its recursive definition has a solution, for no   *)
(* artifact comes after itself.                                            *)

RootBy(f, i) ==
    LET first == IF Of[i] = None THEN None ELSE f[Of[i]] IN
    IF first # None THEN first ELSE IF i \in Drafts THEN None ELSE i

\* Solutions for some of the artifacts and all those they come after.
Attempts ==
    {f \in UNION {[D -> Artifacts \cup {None}] : D \in SUBSET Artifacts} :
        /\ \A i \in DOMAIN f : Of[i] # None => Of[i] \in DOMAIN f
        /\ \A i \in DOMAIN f : f[i] = RootBy(f, i)}

LEMMA Earliest ==
    ASSUME NEW T, T \subseteq Artifacts, T # {} PROVE \E i \in T : Of[i] \notin T
BY ArtifactAssumption

LEMMA RootByIs ==
    ASSUME NEW f, NEW g, NEW i, Of[i] # None => f[Of[i]] = g[Of[i]]
    PROVE  RootBy(f, i) = RootBy(g, i)
BY DEF RootBy

LEMMA AttemptTyped ==
    ASSUME NEW f \in Attempts
    PROVE  /\ DOMAIN f \subseteq Artifacts /\ f \in [DOMAIN f -> Artifacts \cup {None}]
           /\ \A i \in DOMAIN f : /\ Of[i] # None => Of[i] \in DOMAIN f
                                  /\ f[i] = RootBy(f, i)
<1>1. PICK D \in SUBSET Artifacts : f \in [D -> Artifacts \cup {None}]
  BY DEF Attempts
<1>2. DOMAIN f = D
  BY <1>1
<1> QED
  BY <1>1, <1>2 DEF Attempts

LEMMA AttemptsAgree ==
    ASSUME NEW f \in Attempts, NEW g \in Attempts, NEW i \in DOMAIN f \cap DOMAIN g
    PROVE  f[i] = g[i]
<1> DEFINE apart == {j \in DOMAIN f \cap DOMAIN g : f[j] # g[j]}
<1> SUFFICES ASSUME apart # {} PROVE FALSE
  OBVIOUS
<1>1. PICK j \in apart : Of[j] \notin apart
  <2>1. apart \subseteq Artifacts
    BY AttemptTyped
  <2> HIDE DEF apart
  <2> QED
    BY <2>1, Earliest
<1>2. Of[j] # None => f[Of[j]] = g[Of[j]]
  BY <1>1, AttemptTyped
<1>3. f[j] = RootBy(f, j) /\ g[j] = RootBy(g, j)
  BY AttemptTyped
<1> QED
  BY <1>2, <1>3, RootByIs

LEMMA Attempted ==
    ASSUME NEW i \in Artifacts PROVE \E f \in Attempts : i \in DOMAIN f
<1> DEFINE none == {j \in Artifacts : \A f \in Attempts : j \notin DOMAIN f}
<1> SUFFICES ASSUME none # {} PROVE FALSE
  OBVIOUS
<1>1. PICK j \in none : Of[j] \notin none
  <2>1. none \subseteq Artifacts
    OBVIOUS
  <2> HIDE DEF none
  <2> QED
    BY <2>1, Earliest
<1>2. j \in Artifacts /\ Of[j] \in Artifacts \cup {None} /\ None \notin Artifacts
  BY ArtifactAssumption
<1>3. PICK D, f : /\ D \subseteq Artifacts /\ f \in [D -> Artifacts \cup {None}] /\ j \notin D
                  /\ Of[j] # None => Of[j] \in D
                  /\ \A k \in D : (Of[k] # None => Of[k] \in D) /\ f[k] = RootBy(f, k)
  <2>1. CASE Of[j] = None
    <3>1. [k \in {} |-> None] \in [{} -> Artifacts \cup {None}]
      OBVIOUS
    <3> QED
      BY <2>1, <3>1
  <2>2. CASE Of[j] # None
    <3>1. PICK f \in Attempts : Of[j] \in DOMAIN f
      BY <1>1, <1>2, <2>2
    <3>2. j \notin DOMAIN f
      BY <1>1
    <3> QED
      BY <3>1, <3>2, AttemptTyped
  <2> QED
    BY <2>1, <2>2
<1> DEFINE more == [k \in D \cup {j} |-> IF k \in D THEN f[k] ELSE RootBy(f, j)]
<1>4. RootBy(f, j) \in Artifacts \cup {None}
  BY <1>2, <1>3 DEF RootBy
<1>5. \A k \in D \cup {j} : Of[k] # None => Of[k] \in D
  BY <1>3
<1>6. \A k \in D : more[k] = f[k]
  OBVIOUS
<1>7. more[j] = RootBy(f, j)
  BY <1>3
<1>8. DOMAIN more = D \cup {j} /\ more \in [D \cup {j} -> Artifacts \cup {None}]
  BY <1>3, <1>4
<1> HIDE DEF more
<1>9. ASSUME NEW k \in D \cup {j} PROVE more[k] = RootBy(more, k)
  <2>1. RootBy(more, k) = RootBy(f, k)
    BY <1>5, <1>6, RootByIs
  <2> QED
    BY <1>3, <1>6, <1>7, <2>1
<1>10. more \in Attempts
  <2>1. D \cup {j} \in SUBSET Artifacts
    BY <1>2, <1>3
  <2> QED
    BY <1>5, <1>8, <1>9, <2>1 DEF Attempts
<1> QED
  BY <1>1, <1>8, <1>10

LEMMA RootIs ==
    /\ RootOf = [i \in Artifacts |-> RootBy(RootOf, i)]
    /\ \A i \in Artifacts : RootOf[i] \in Artifacts \cup {None}
<1> DEFINE with(i) == CHOOSE f \in Attempts : i \in DOMAIN f
           whole == [i \in Artifacts |-> with(i)[i]]
<1>1. ASSUME NEW i \in Artifacts PROVE with(i) \in Attempts /\ i \in DOMAIN with(i)
  BY Attempted
<1>2. ASSUME NEW i \in Artifacts
      PROVE  whole[i] = RootBy(whole, i) /\ whole[i] \in Artifacts \cup {None}
  <2>1. PICK f : f = with(i)
    OBVIOUS
  <2>2. f \in Attempts /\ i \in DOMAIN f
    BY <1>1, <2>1
  <2>3. f[i] = RootBy(f, i) /\ f[i] \in Artifacts \cup {None}
    BY <2>2, AttemptTyped
  <2>4. ASSUME Of[i] # None PROVE whole[Of[i]] = f[Of[i]]
    <3>1. Of[i] \in Artifacts /\ Of[i] \in DOMAIN f
      BY <2>2, <2>4, AttemptTyped
    <3>2. PICK g : g = with(Of[i])
      OBVIOUS
    <3>3. g \in Attempts /\ Of[i] \in DOMAIN g
      BY <1>1, <3>1, <3>2
    <3>4. g[Of[i]] = f[Of[i]]
      BY <2>2, <3>1, <3>3, AttemptsAgree
    <3> QED
      BY <3>1, <3>2, <3>4
  <2>5. whole[i] = f[i]
    BY <2>1
  <2> HIDE DEF whole
  <2> QED
    BY <2>3, <2>4, <2>5, RootByIs
<1>3. whole = [i \in Artifacts |-> RootBy(whole, i)]
  <2>1. whole = [i \in Artifacts |-> whole[i]]
    OBVIOUS
  <2> HIDE DEF whole
  <2> QED
    BY <1>2, <2>1
<1> HIDE DEF whole
<1>4. \E f : f = [i \in Artifacts |-> RootBy(f, i)]
  BY <1>3
<1>5. RootOf = CHOOSE f : f = [i \in Artifacts |-> RootBy(f, i)]
  BY DEF RootOf, RootBy
<1>6. RootOf = [i \in Artifacts |-> RootBy(RootOf, i)]
  BY <1>4, <1>5
<1>7. ASSUME NEW i \in Artifacts PROVE RootOf[i] \in Artifacts \cup {None}
  <2> DEFINE lost == {j \in Artifacts : RootOf[j] \notin Artifacts \cup {None}}
  <2> SUFFICES ASSUME lost # {} PROVE FALSE
    OBVIOUS
  <2>1. PICK j \in lost : Of[j] \notin lost
    <3>1. lost \subseteq Artifacts
      OBVIOUS
    <3> HIDE DEF lost
    <3> QED
      BY <3>1, Earliest
  <2>2. Of[j] # None => Of[j] \in Artifacts /\ RootOf[Of[j]] \in Artifacts \cup {None}
    BY <2>1, ArtifactAssumption
  <2>3. RootOf[j] = RootBy(RootOf, j)
    BY <1>6, <2>1
  <2> QED
    BY <2>1, <2>2, <2>3 DEF RootBy
<1> QED
  BY <1>6, <1>7

\* The root of an idea is its own root, is of the same kind as a thesis, and is
\* stored when what comes before a stored artifact is.
LEMMA RootsEnd ==
    ASSUME NEW S, S \subseteq Artifacts, \A i \in S : Of[i] # None => Of[i] \in S,
           NEW i \in S, RootOf[i] # None
    PROVE  /\ RootOf[i] \in S /\ RootOf[RootOf[i]] = RootOf[i]
           /\ Kind[i] = "thesis" => Kind[RootOf[i]] = "thesis"
<1> DEFINE good(j) == RootOf[j] # None =>
                         /\ RootOf[j] \in S /\ RootOf[RootOf[j]] = RootOf[j]
                         /\ Kind[j] = "thesis" => Kind[RootOf[j]] = "thesis"
           bad == {j \in S : ~good(j)}
<1> SUFFICES ASSUME bad # {} PROVE FALSE
  OBVIOUS
<1>1. PICK j \in bad : Of[j] \notin bad
  <2>1. bad \subseteq Artifacts
    OBVIOUS
  <2> HIDE DEF bad
  <2> QED
    BY <2>1, Earliest
<1>2. j \in S /\ j \in Artifacts /\ ~good(j)
  BY <1>1
<1>3. RootOf[j] = RootBy(RootOf, j)
  BY <1>2, RootIs
<1>4. Of[j] # None => Of[j] \in S /\ good(Of[j])
  BY <1>1, <1>2
<1>5. Kind[j] = "thesis" /\ Of[j] # None => Kind[Of[j]] = "thesis"
  BY <1>2, ArtifactAssumption
<1>6. CASE Of[j] # None /\ RootOf[Of[j]] # None
  <2>1. RootOf[j] = RootOf[Of[j]]
    BY <1>3, <1>6 DEF RootBy
  <2> QED
    BY <1>2, <1>4, <1>5, <1>6, <2>1
<1>7. CASE ~(Of[j] # None /\ RootOf[Of[j]] # None)
  <2>1. RootOf[j] = None \/ RootOf[j] = j
    BY <1>3, <1>7 DEF RootBy
  <2> QED
    BY <1>2, <2>1
<1> QED
  BY <1>6, <1>7

-----------------------------------------------------------------------------
(* Scores of a path.                                                       *)

PathScore(path, p) ==
    LET low == Lowest(Lows(path)) - p.entry
        high == Highest(Highs(path)) - p.entry
    IN  [return |-> p.sign * (Last(path).close - p.entry),
         mae |-> Smaller(0, IF p.sign = 1 THEN low ELSE -high),
         mfe |-> Larger(0, IF p.sign = 1 THEN high ELSE -low),
         first |-> FirstHit(path, p),
         made |-> Made(path, p),
         last |-> Last(path).day]

\* The bars of a horizon that begins after day e.
Path(e, h) == [n \in 1 .. h |-> Bar[e + n]]

\* Some number of a finite sequence of them is the least.
LEMMA LeastValue ==
    ASSUME NEW h \in Nat \ {0}, NEW f \in [1 .. h -> Int]
    PROVE  \E n \in 1 .. h : \A m \in 1 .. h : f[n] <= f[m]
<1> DEFINE has(k) == \E n \in 1 .. k : \A m \in 1 .. k : f[n] <= f[m]
           hasnot == {k \in 1 .. h : ~has(k)}
<1> SUFFICES ASSUME hasnot # {} PROVE FALSE
  <2>1. h \in 1 .. h
    OBVIOUS
  <2> QED
    BY <2>1
<1>1. PICK k \in hasnot : \A y \in hasnot : k <= y
  <2>1. hasnot \subseteq Nat
    OBVIOUS
  <2> HIDE DEF hasnot
  <2> QED
    BY <2>1, LeastNumber
<1>2. k \in 1 .. h /\ ~has(k)
  BY <1>1
<1>3. CASE k = 1
  BY <1>2, <1>3
<1>4. CASE k # 1
  <2>1. k - 1 \in 1 .. h /\ ~(k <= k - 1)
    BY <1>2, <1>4
  <2>2. has(k - 1)
    BY <1>1, <2>1
  <2>3. PICK n \in 1 .. k - 1 : \A m \in 1 .. k - 1 : f[n] <= f[m]
    BY <2>2
  <2>4. \A m \in 1 .. h : f[m] \in Int
    OBVIOUS
  <2>5. n \in 1 .. k /\ k \in 1 .. k
    BY <1>2, <2>3
  <2>6. CASE f[n] <= f[k]
    <3>1. ASSUME NEW m \in 1 .. k PROVE f[n] <= f[m]
      <4>1. m = k \/ m \in 1 .. k - 1
        BY <1>2
      <4> QED
        BY <2>3, <2>6, <4>1
    <3> QED
      BY <1>2, <2>5, <3>1
  <2>7. CASE ~(f[n] <= f[k])
    <3>1. f[k] \in Int /\ f[n] \in Int /\ f[k] <= f[n]
      BY <1>2, <2>4, <2>5, <2>7
    <3>2. ASSUME NEW m \in 1 .. k PROVE f[k] <= f[m]
      <4>1. CASE m = k
        BY <3>1, <4>1
      <4>2. CASE m # k
        <5>1. m \in 1 .. k - 1 /\ f[m] \in Int
          BY <1>2, <2>4, <4>2
        <5> QED
          BY <2>3, <3>1, <5>1
      <4> QED
        BY <4>1, <4>2
    <3> QED
      BY <1>2, <2>5, <3>2
  <2> QED
    BY <2>6, <2>7
<1> QED
  BY <1>3, <1>4

LEMMA BarsTyped ==
    ASSUME NEW e \in Nat, NEW h \in Nat \ {0}, e + h <= LastDay, NEW n \in 1 .. h
    PROVE  /\ Path(e, h)[n] = Bar[e + n] /\ Bar[e + n].day = e + n
           /\ Bar[e + n].low \in Int /\ Bar[e + n].close \in Int /\ Bar[e + n].high \in Int
           /\ Bar[e + n].low <= Bar[e + n].close /\ Bar[e + n].close <= Bar[e + n].high
<1>1. e + n \in 0 .. LastDay
  BY MarketAssumption
<1>2. Path(e, h)[n] = Bar[e + n]
  BY DEF Path
<1> QED
  BY <1>1, <1>2, MarketAssumption

LEMMA Extremes ==
    ASSUME NEW e \in Nat, NEW h \in Nat \ {0}, e + h <= LastDay
    PROVE  /\ Lowest(Lows(Path(e, h))) \in Int /\ Highest(Highs(Path(e, h))) \in Int
           /\ Lowest(Lows(Path(e, h))) <= Bar[e + h].close
           /\ Bar[e + h].close <= Highest(Highs(Path(e, h)))
<1>1. PICK path : path = Path(e, h)
  OBVIOUS
<1>2. DOMAIN path = 1 .. h /\ h \in 1 .. h
  BY <1>1 DEF Path
<1>3. \A n \in 1 .. h : /\ path[n] = Bar[e + n] /\ path[n].low \in Int /\ path[n].high \in Int
                        /\ path[n].close \in Int
                        /\ path[n].low <= path[n].close /\ path[n].close <= path[n].high
  BY <1>1, BarsTyped
<1>4. PICK a \in 1 .. h : \A m \in 1 .. h : path[a].low <= path[m].low
  <2> DEFINE f == [n \in 1 .. h |-> path[n].low]
  <2>1. f \in [1 .. h -> Int]
    BY <1>3
  <2>2. \E n \in 1 .. h : \A m \in 1 .. h : f[n] <= f[m]
    BY <2>1, LeastValue
  <2> QED
    BY <2>2
<1>5. PICK b \in 1 .. h : \A m \in 1 .. h : path[b].high >= path[m].high
  <2> DEFINE f == [n \in 1 .. h |-> -path[n].high]
  <2>1. f \in [1 .. h -> Int]
    BY <1>3
  <2>2. PICK n \in 1 .. h : \A m \in 1 .. h : f[n] <= f[m]
    BY <2>1, LeastValue
  <2>3. \A m \in 1 .. h : path[n].high >= path[m].high
    BY <1>3, <2>2
  <2> QED
    BY <2>3
<1>6. Lows(path) = {path[n].low : n \in 1 .. h} /\ Highs(path) = {path[n].high : n \in 1 .. h}
  BY <1>2 DEF Lows, Highs
<1>7. PICK low : low = Lowest(Lows(path))
  OBVIOUS
<1>8. low \in Lows(path) /\ \A y \in Lows(path) : low <= y
  <2>1. path[a].low \in Lows(path) /\ \A y \in Lows(path) : path[a].low <= y
    BY <1>4, <1>6
  <2> QED
    BY <1>7, <2>1 DEF Lowest
<1>9. PICK high : high = Highest(Highs(path))
  OBVIOUS
<1>10. high \in Highs(path) /\ \A y \in Highs(path) : high >= y
  <2>1. path[b].high \in Highs(path) /\ \A y \in Highs(path) : path[b].high >= y
    BY <1>5, <1>6
  <2> QED
    BY <1>9, <2>1 DEF Highest
<1>11. low \in Int /\ high \in Int
  BY <1>3, <1>6, <1>8, <1>10
<1>12. low <= path[h].low /\ high >= path[h].high
  BY <1>2, <1>6, <1>8, <1>10
<1>13. low <= path[h].close /\ path[h].close <= high
  BY <1>2, <1>3, <1>11, <1>12
<1>14. path[h] = Bar[e + h]
  BY <1>2, <1>3
<1> QED
  BY <1>1, <1>7, <1>9, <1>11, <1>13, <1>14

LEMMA ScoreInPath ==
    ASSUME NEW e \in Nat, NEW h \in Nat \ {0}, e + h <= LastDay,
           NEW p, p.sign \in {1, -1}, p.entry \in Int
    PROVE  LET s == PathScore(Path(e, h), p) IN
           s.last = e + h /\ s.mae <= s.return /\ s.return <= s.mfe
<1>1. PICK path : path = Path(e, h)
  OBVIOUS
<1>2. Last(path) = Bar[e + h]
  <2>1. path \in [1 .. h -> {path[n] : n \in 1 .. h}]
    BY <1>1 DEF Path
  <2>2. path \in Seq({path[n] : n \in 1 .. h})
    BY <2>1
  <2>3. DOMAIN path = 1 .. h /\ DOMAIN path = 1 .. Len(path) /\ Len(path) \in Nat
    BY <2>1, <2>2, LenProperties
  <2>4. Len(path) = h
    BY <2>3
  <2>5. h \in 1 .. h /\ path[h] = Bar[e + h]
    BY <1>1, BarsTyped
  <2> QED
    BY <2>4, <2>5 DEF Last
<1>3. Bar[e + h].day = e + h /\ Bar[e + h].close \in Int
  <2>1. h \in 1 .. h
    OBVIOUS
  <2> QED
    BY <2>1, BarsTyped
<1>4. PICK low, high, close, entry, sign :
         /\ low = Lowest(Lows(path)) /\ high = Highest(Highs(path))
         /\ close = Bar[e + h].close /\ entry = p.entry /\ sign = p.sign
  OBVIOUS
<1>5. low \in Int /\ high \in Int /\ low <= close /\ close <= high
  BY <1>1, <1>4, Extremes
<1>6. PICK s : s = PathScore(path, p)
  OBVIOUS
<1>7. /\ s.last = e + h /\ s.return = sign * (close - entry)
      /\ s.mae = Smaller(0, IF sign = 1 THEN low - entry ELSE -(high - entry))
      /\ s.mfe = Larger(0, IF sign = 1 THEN high - entry ELSE -(low - entry))
  BY <1>2, <1>3, <1>4, <1>6 DEF PathScore
<1>8. entry \in Int /\ close \in Int /\ sign \in {1, -1}
  BY <1>3, <1>4
<1>9. s.mae <= s.return /\ s.return <= s.mfe
  <2>1. CASE sign = 1
    BY <1>5, <1>7, <1>8, <2>1 DEF Smaller, Larger
  <2>2. CASE sign = -1
    <3>1. s.return = entry - close
      BY <1>7, <1>8, <2>2
    <3> QED
      BY <1>5, <1>7, <1>8, <2>2, <3>1 DEF Smaller, Larger
  <2> QED
    BY <1>8, <2>1, <2>2
<1> QED
  BY <1>1, <1>6, <1>7, <1>9

-----------------------------------------------------------------------------
(* The ideas that are stored.                                              *)

IdeasInv ==
    /\ ideas \in Seq(ToSet(ideas)) /\ Stored \subseteq Artifacts
    /\ \A m, n \in DOMAIN ideas : ideas[m].idea = ideas[n].idea => m = n
    /\ \A n \in DOMAIN ideas : ideas[n].entry \in Nat
    /\ \A i \in Stored : Of[i] # None => Of[i] \in Stored
    /\ date \in Nat \ {0} /\ bars \in Nat /\ (date = 1 \/ date <= LastDay) /\ bars <= LastDay

LEMMA IdeasInit == ScoringInit => IdeasInv
<1> SUFFICES ASSUME ScoringInit PROVE IdeasInv
  OBVIOUS
<1>1. ideas = <<>> /\ <<>> \in Seq(ToSet(<<>>)) /\ DOMAIN <<>> = {}
  BY EmptySeq DEF ScoringInit
<1>2. Stored = {}
  BY <1>1 DEF Stored
<1> QED
  BY <1>1, <1>2, MarketAssumption DEF ScoringInit, IdeasInv

\* Writing an idea keeps those before it where they were.
LEMMA WriteGrows ==
    ASSUME IdeasInv, NEW i \in Artifacts, Write(i)
    PROVE  /\ ideas' \in Seq(ToSet(ideas'))
           /\ Len(ideas) \in Nat /\ DOMAIN ideas = 1 .. Len(ideas)
           /\ DOMAIN ideas' = 1 .. Len(ideas) + 1
           /\ \A n \in 1 .. Len(ideas) : ideas'[n] = ideas[n]
           /\ ideas'[Len(ideas) + 1].idea = i /\ ideas'[Len(ideas) + 1].entry \in Nat
           /\ Stored' = Stored \cup {i}
<1>1. PICK x : x = [idea |-> i, entry |-> IF i \in AfterClose THEN date ELSE date - 1]
  OBVIOUS
<1>2. ideas' = Append(ideas, x) /\ x.idea = i /\ x.entry \in Nat
  BY <1>1 DEF Write, IdeasInv
<1>3. ideas \in Seq(ToSet(ideas) \cup {x})
  BY SeqMonotonic DEF IdeasInv
<1>4. /\ ideas' \in Seq(ToSet(ideas) \cup {x}) /\ Len(ideas') = Len(ideas) + 1
      /\ \A n \in 1 .. Len(ideas) : ideas'[n] = ideas[n]
      /\ ideas'[Len(ideas) + 1] = x
  BY <1>2, <1>3, AppendProperties
<1>5. DOMAIN ideas = 1 .. Len(ideas) /\ Len(ideas) \in Nat /\ DOMAIN ideas' = 1 .. Len(ideas')
  BY <1>3, <1>4, LenProperties
<1>6. DOMAIN ideas' = DOMAIN ideas \cup {Len(ideas) + 1}
  BY <1>4, <1>5
<1>7. Stored' = Stored \cup {i}
  <2>1. \A n \in DOMAIN ideas' :
           ideas'[n].idea = i \/ (n \in DOMAIN ideas /\ ideas'[n].idea = ideas[n].idea)
    BY <1>2, <1>4, <1>5, <1>6
  <2>2. \A n \in DOMAIN ideas : n \in DOMAIN ideas' /\ ideas'[n].idea = ideas[n].idea
    BY <1>4, <1>5, <1>6
  <2>3. Len(ideas) + 1 \in DOMAIN ideas' /\ ideas'[Len(ideas) + 1].idea = i
    BY <1>2, <1>4, <1>6
  <2> QED
    BY <2>1, <2>2, <2>3 DEF Stored
<1> QED
  BY <1>2, <1>4, <1>5, <1>7, SeqOfOwn

LEMMA IdeasNext == IdeasInv /\ [ScoringNext]_scoringVars => IdeasInv'
<1> SUFFICES ASSUME IdeasInv, [ScoringNext]_scoringVars PROVE IdeasInv'
  OBVIOUS
<1>1. CASE UNCHANGED <<ideas, date, bars>>
  BY <1>1 DEF IdeasInv, Stored
<1>2. ASSUME NEW i \in Artifacts, Write(i) PROVE IdeasInv'
  <2>1. UNCHANGED <<date, bars>> /\ i \notin Stored /\ (Of[i] # None => Of[i] \in Stored)
    BY <1>2 DEF Write
  <2>2. /\ ideas' \in Seq(ToSet(ideas'))
        /\ Len(ideas) \in Nat /\ DOMAIN ideas = 1 .. Len(ideas)
        /\ DOMAIN ideas' = 1 .. Len(ideas) + 1
        /\ \A n \in 1 .. Len(ideas) : ideas'[n] = ideas[n]
        /\ ideas'[Len(ideas) + 1].idea = i /\ ideas'[Len(ideas) + 1].entry \in Nat
        /\ Stored' = Stored \cup {i}
    BY <1>2, WriteGrows
  <2>3. \A n \in DOMAIN ideas' : n = Len(ideas) + 1 \/ n \in DOMAIN ideas
    BY <2>2
  <2>4. \A n \in DOMAIN ideas : ideas[n].idea # i
    BY <2>1 DEF Stored
  <2>5. \A m, n \in DOMAIN ideas' : ideas'[m].idea = ideas'[n].idea => m = n
    BY <2>2, <2>3, <2>4 DEF IdeasInv
  <2>6. \A n \in DOMAIN ideas' : ideas'[n].entry \in Nat
    BY <2>2, <2>3 DEF IdeasInv
  <2>7. \A j \in Stored' : Of[j] # None => Of[j] \in Stored'
    BY <2>1, <2>2 DEF IdeasInv
  <2>8. Stored' \subseteq Artifacts
    BY <1>2, <2>2 DEF IdeasInv
  <2> QED
    BY <2>1, <2>2, <2>5, <2>6, <2>7, <2>8 DEF IdeasInv
<1>3. CASE StoreBar
  <2>1. Stored' = Stored /\ ideas' = ideas
    BY <1>3 DEF StoreBar, Stored
  <2>2. bars' \in Nat /\ bars' <= LastDay
    BY <1>3, MarketAssumption DEF StoreBar, IdeasInv
  <2> QED
    BY <1>3, <2>1, <2>2 DEF StoreBar, IdeasInv
<1>4. CASE DayEnds
  <2>1. Stored' = Stored /\ ideas' = ideas
    BY <1>4 DEF DayEnds, Stored
  <2>2. date' \in Nat \ {0} /\ date' <= LastDay
    BY <1>4, MarketAssumption DEF DayEnds, IdeasInv
  <2> QED
    BY <1>4, <2>1, <2>2 DEF DayEnds, IdeasInv
<1>5. CASE \E s \in Scorers : Run(s) \/ Fail(s)
  <2>1. UNCHANGED world
    BY <1>5 DEF Run, BuildPositions, SavePositions, Score, SaveScores, Fail
  <2> QED
    BY <1>1, <2>1 DEF world
<1>6. ASSUME NEW n \in DOMAIN versions, NEW target, Link(n, target) PROVE IdeasInv'
  BY <1>1, <1>6 DEF Link, world
<1>7. CASE Execute \/ UNCHANGED scoringVars
  BY <1>1, <1>7 DEF Execute, scoringVars
<1> QED
  BY <1>2, <1>3, <1>4, <1>5, <1>6, <1>7, Zenon DEF ScoringNext

\* The row of a stored idea.
LEMMA RowIs ==
    ASSUME IdeasInv, NEW i \in Stored
    PROVE  \E n \in DOMAIN ideas : ideas[n].idea = i /\ IdeaRow(i) = ideas[n]
BY DEF Stored, IdeaRow

LEMMA RowStays ==
    ASSUME IdeasInv, [ScoringNext]_scoringVars, NEW i \in Stored
    PROVE  i \in Stored' /\ IdeaRow(i)' = IdeaRow(i) /\ bars <= bars'
<1>1. CASE \E j \in Artifacts : Write(j)
  <2>1. PICK j \in Artifacts : Write(j)
    BY <1>1
  <2>2. PICK n \in DOMAIN ideas : ideas[n].idea = i /\ IdeaRow(i) = ideas[n]
    BY RowIs
  <2>3. n \in DOMAIN ideas' /\ ideas'[n] = ideas[n] /\ i \in Stored'
    BY <2>1, <2>2, WriteGrows
  <2>4. IdeasInv'
    BY IdeasNext
  <2>5. PICK m \in DOMAIN ideas' : ideas'[m].idea = i /\ IdeaRow(i)' = ideas'[m]
    BY <2>3, <2>4 DEF Stored, IdeaRow
  <2>6. m = n
    BY <2>2, <2>3, <2>4, <2>5 DEF IdeasInv
  <2>7. bars' = bars /\ bars \in Nat
    BY <2>1 DEF Write, IdeasInv
  <2> QED
    BY <2>2, <2>3, <2>5, <2>6, <2>7
<1>2. CASE ideas' = ideas
  <2>1. i \in Stored' /\ IdeaRow(i)' = IdeaRow(i)
    BY <1>2 DEF Stored, IdeaRow
  <2>2. bars \in Nat /\ (bars' = bars \/ bars' = bars + 1)
    <3>1. CASE \E s \in Scorers : Run(s) \/ Fail(s)
      BY <3>1 DEF Run, BuildPositions, SavePositions, Score, SaveScores, Fail, world, IdeasInv
    <3>2. CASE StoreBar \/ DayEnds \/ Execute \/ UNCHANGED scoringVars
      BY <3>2 DEF StoreBar, DayEnds, Execute, scoringVars, IdeasInv
    <3>3. ASSUME NEW n, NEW target, Link(n, target) PROVE bars' = bars
      BY <3>3 DEF Link, world
    <3>4. CASE \E j \in Artifacts : Write(j)
      BY <3>4 DEF Write, IdeasInv
    <3>5. bars \in Nat
      BY DEF IdeasInv
    <3> QED
      BY <3>1, <3>2, <3>3, <3>4, <3>5, Zenon DEF ScoringNext
  <2> QED
    BY <2>1, <2>2
<1>3. ASSUME ~\E j \in Artifacts : Write(j) PROVE ideas' = ideas
  <2>1. CASE \E s \in Scorers : Run(s) \/ Fail(s)
    BY <2>1 DEF Run, BuildPositions, SavePositions, Score, SaveScores, Fail, world
  <2>2. CASE StoreBar \/ DayEnds \/ Execute \/ UNCHANGED scoringVars
    BY <2>2 DEF StoreBar, DayEnds, Execute, scoringVars
  <2>3. ASSUME NEW n, NEW target, Link(n, target) PROVE ideas' = ideas
    BY <2>3 DEF Link, world
  <2> QED
    BY <1>3, <2>1, <2>2, <2>3, Zenon DEF ScoringNext
<1> QED
  BY <1>1, <1>2, <1>3

-----------------------------------------------------------------------------
(* What is scored.                                                         *)

\* What an idea says at a horizon: the same whenever it is scored.
Measured(i, h) == PathScore(Path(IdeaRow(Basis(i)).entry, h), TermsOf(Basis(i)))

IsResult(r) ==
    /\ r.horizon \in Horizons /\ Basis(r.idea) \in Stored /\ HasPath(Basis(r.idea), r.horizon)
    /\ r = [idea |-> r.idea, horizon |-> r.horizon, is |-> Measured(r.idea, r.horizon)]

\* What is scored at a horizon is no version of a thesis but its root.
IsKey(k) ==
    /\ k = <<k[1], k[2]>>
    /\ k[2] # 0 /\ Kind[k[1]] = "thesis" => RootOf[k[1]] = k[1]

LEMMA EntryIs ==
    ASSUME IdeasInv, NEW b \in Stored, NEW h \in Nat, HasPath(b, h)
    PROVE  /\ b \in Artifacts /\ IdeaRow(b).entry \in Nat /\ bars \in Nat
           /\ h <= bars - IdeaRow(b).entry /\ IdeaRow(b).entry + h <= LastDay
<1>1. PICK n \in DOMAIN ideas : ideas[n].idea = b /\ IdeaRow(b) = ideas[n]
  BY RowIs
<1>2. IdeaRow(b).entry \in Nat /\ bars \in Nat /\ bars <= LastDay /\ LastDay \in Nat
  BY <1>1, MarketAssumption DEF IdeasInv
<1>3. b \in Artifacts
  BY DEF IdeasInv
<1> QED
  BY <1>2, <1>3 DEF HasPath

LEMMA OutcomeIs ==
    ASSUME IdeasInv, NEW i, NEW h \in Nat \ {0}, Basis(i) \in Stored, HasPath(Basis(i), h)
    PROVE  Outcome(i, h) = Measured(i, h)
<1>1. PICK b, e : b = Basis(i) /\ e = IdeaRow(b).entry
  OBVIOUS
<1>2. e \in Nat /\ bars \in Nat /\ h <= bars - e
  BY <1>1, EntryIs
<1>3. PICK all : all = PathOf(b)
  OBVIOUS
<1>4. \A n \in 1 .. h : all[n] = Bar[e + n]
  <2>1. \A n \in 1 .. h : n \in 1 .. bars - e
    BY <1>2
  <2> QED
    BY <1>1, <1>3, <2>1 DEF PathOf
<1>5. PICK cut : cut = SubSeq(all, 1, h)
  OBVIOUS
<1> DEFINE S == {Bar[e + n] : n \in 1 .. h}
<1>6. cut \in Seq(S) /\ Len(cut) = h /\ \A n \in 1 .. h : cut[n] = Bar[e + n]
  <2>1. \A n \in 1 .. h : all[n] \in S
    BY <1>4
  <2> HIDE DEF S
  <2>2. /\ cut \in Seq(S) /\ Len(cut) = IF 1 <= h THEN h - 1 + 1 ELSE 0
        /\ \A n \in 1 .. h - 1 + 1 : cut[n] = all[1 + n - 1]
    BY <1>5, <2>1, SubSeqProperties
  <2>3. \A n \in 1 .. h : n \in 1 .. h - 1 + 1 /\ 1 + n - 1 = n
    OBVIOUS
  <2> QED
    BY <1>4, <2>2, <2>3
<1>7. cut = Path(e, h)
  <2>1. Path(e, h) \in [1 .. h -> S] /\ \A n \in 1 .. h : Path(e, h)[n] = Bar[e + n]
    BY DEF Path
  <2> HIDE DEF S
  <2>2. Path(e, h) \in Seq(S)
    BY <2>1
  <2>3. Len(Path(e, h)) = h
    BY <2>1, <2>2, LenProperties
  <2> QED
    BY <1>6, <2>1, <2>2, <2>3, SeqEqual
<1>8. Outcome(i, h) = PathScore(cut, TermsOf(b))
  BY <1>1, <1>3, <1>5 DEF Outcome, ScorePath, PathScore
<1> QED
  BY <1>1, <1>7, <1>8 DEF Measured

LEMMA TermsGood ==
    ASSUME IdeasInv, NEW b \in Stored, NEW h \in Nat, HasPath(b, h)
    PROVE  TermsOf(b).sign \in {1, -1} /\ TermsOf(b).entry \in Int
<1>1. PICK t : t = Terms[b]
  OBVIOUS
<1>2. b \in Artifacts /\ t \in [sign : {1, -1}, entry : Int, stop : Int, target : Int]
  BY <1>1, EntryIs, MarketAssumption
<1>3. PICK c : c = Bar[IdeaRow(b).entry].close
  OBVIOUS
<1>4. c \in Int
  <2>1. IdeaRow(b).entry \in 0 .. LastDay
    BY EntryIs, MarketAssumption
  <2> QED
    BY <1>3, <2>1, MarketAssumption
<1>5. PICK u : u = [t EXCEPT !.entry = c]
  OBVIOUS
<1>6. u \in [sign : {1, -1}, entry : Int, stop : Int, target : Int]
  BY <1>2, <1>4, <1>5
<1>7. [u EXCEPT !.target = 0].sign \in {1, -1} /\ [u EXCEPT !.target = 0].entry \in Int
  BY <1>6
<1>8. TermsOf(b) = IF Kind[b] = "plan" THEN t ELSE [u EXCEPT !.target = 0]
  BY <1>1, <1>3, <1>5, Zenon DEF TermsOf
<1> QED
  BY <1>2, <1>7, <1>8

LEMMA DueIs ==
    ASSUME IdeasInv, NEW k \in DueNow
    PROVE  IsKey(k) /\ k[2] \in Horizons /\ Basis(k[1]) \in Stored /\ HasPath(Basis(k[1]), k[2])
<1>1. PICK i \in Stored, h \in Horizons : Ready(i, h) /\ k = <<Subject(i), h>>
  BY DEF DueNow
<1>2. /\ i \in Artifacts
      /\ Stored \subseteq Artifacts
      /\ \A j \in Stored : Of[j] # None => Of[j] \in Stored
  BY DEF IdeasInv
<1>3. Basis(i) # None /\ HasPath(Basis(i), h) /\ h # 0
  BY <1>1, MarketAssumption DEF Ready
<1>4. CASE Kind[i] = "thesis"
  <2>1. RootOf[i] # None /\ Subject(i) = RootOf[i] /\ Basis(i) = RootOf[i]
    BY <1>3, <1>4 DEF Basis, Subject
  <2>2. RootOf[i] \in Stored /\ RootOf[RootOf[i]] = RootOf[i] /\ Kind[RootOf[i]] = "thesis"
    BY <1>2, <1>4, <2>1, RootsEnd
  <2>3. Basis(RootOf[i]) = RootOf[i]
    BY <2>2 DEF Basis
  <2> QED
    BY <1>1, <1>3, <2>1, <2>2, <2>3 DEF IsKey
<1>5. CASE Kind[i] # "thesis"
  <2>1. Subject(i) = i
    BY <1>5 DEF Subject
  <2>2. Basis(i) \in Stored
    <3>1. CASE Kind[i] = "view"
      <4>1. Of[i] # None /\ Of[i] \in Stored /\ Basis(i) = RootOf[Of[i]]
        BY <1>2, <3>1, ArtifactAssumption DEF Basis
      <4> QED
        BY <1>2, <1>3, <4>1, RootsEnd
    <3>2. CASE Kind[i] # "view"
      BY <1>5, <3>2 DEF Basis
    <3> QED
      BY <3>1, <3>2
  <2> QED
    BY <1>1, <1>3, <1>5, <2>1, <2>2 DEF IsKey
<1> QED
  BY <1>4, <1>5

\* The runs have crossed unless one of them rests, and only once a command began.
CommandsTold ==
    /\ commands \in Nat /\ (crossed \/ run["command"] # "idle" => commands >= 1)
    /\ crossed \in BOOLEAN /\ (~crossed => run["shift"] = "idle" \/ run["command"] = "idle")

ScoresWait == \A s \in Scorers : run[s] # "scored" => pending[s].scores = {}

\* When the runs cross, one can score what the other has just scored, once.
CopiesFew ==
    \A k \in DOMAIN scores :
       /\ \/ scores[k] = 1
          \/ scores[k] = 2 /\ crossed /\ \A s \in Scorers : k \notin pending[s].scores
       /\ \A s \in Scorers : k \in pending[s].scores =>
             crossed /\ \A o \in Scorers \ {s} : k \notin pending[o].scores

CountInv ==
    /\ scores = [k \in DOMAIN scores |-> scores[k]]
    /\ CommandsTold /\ ScoresWait /\ CopiesFew

KeptInv ==
    /\ \A r \in results : IsResult(r)
    /\ \A k \in DOMAIN scores : IsKey(k)
    /\ \A s \in Scorers :
          /\ \A r \in pending[s].results : IsResult(r)
          /\ \A k \in pending[s].scores : IsKey(k)

ScoresInv == MadeInv /\ IdeasInv /\ CountInv /\ KeptInv

LEMMA ScoresTell == IdeasInv /\ CountInv /\ KeptInv => ShadowOnce
<1> SUFFICES ASSUME IdeasInv, CountInv, KeptInv PROVE ShadowOnce
  OBVIOUS
<1>1. ASSUME NEW k \in BagToSet(scores)
      PROVE  scores[k] <= 1 + IF crossed THEN commands ELSE 0
  <2>1. k \in DOMAIN scores
    BY DEF BagToSet
  <2> QED
    BY <2>1 DEF CountInv, CommandsTold, CopiesFew
<1>2. ASSUME NEW k \in BagToSet(scores), NEW l \in BagToSet(scores),
             k[2] # 0, k[2] = l[2],
             Kind[k[1]] = "thesis", Kind[l[1]] = "thesis", RootOf[k[1]] = RootOf[l[1]]
      PROVE  k = l
  <2>1. IsKey(k) /\ IsKey(l)
    BY DEF BagToSet, KeptInv
  <2>2. k[1] = l[1]
    BY <1>2, <2>1 DEF IsKey
  <2>3. k = <<k[1], k[2]>> /\ l = <<l[1], l[2]>>
    BY <2>1 DEF IsKey
  <2> QED
    BY <1>2, <2>2, <2>3, Zenon
<1>3. ASSUME NEW r \in results, NEW q \in results, q.idea = r.idea, q.horizon = r.horizon
      PROVE  q = r
  <2>1. IsResult(q) /\ IsResult(r)
    BY DEF KeptInv
  <2>2. q = [idea |-> q.idea, horizon |-> q.horizon, is |-> Measured(q.idea, q.horizon)]
    BY <2>1, Zenon DEF IsResult
  <2>3. r = [idea |-> r.idea, horizon |-> r.horizon, is |-> Measured(r.idea, r.horizon)]
    BY <2>1, Zenon DEF IsResult
  <2> QED
    BY <1>3, <2>2, <2>3, Zenon
<1>4. ASSUME NEW r \in results
      PROVE  /\ r.is.last = IdeaRow(Basis(r.idea)).entry + r.horizon
             /\ r.is.mae <= r.is.return /\ r.is.return <= r.is.mfe
  <2>1. PICK i, h, b, e, p :
           i = r.idea /\ h = r.horizon /\ b = Basis(i) /\ e = IdeaRow(b).entry /\ p = TermsOf(b)
    OBVIOUS
  <2>2. /\ h \in Nat \ {0} /\ b \in Stored /\ HasPath(b, h)
        /\ r = [idea |-> i, horizon |-> h, is |-> Measured(i, h)]
    BY <2>1, MarketAssumption DEF KeptInv, IsResult
  <2>3. e \in Nat /\ e + h <= LastDay /\ p.sign \in {1, -1} /\ p.entry \in Int
    BY <2>1, <2>2, EntryIs, TermsGood
  <2>4. PICK s : s = PathScore(Path(e, h), p)
    OBVIOUS
  <2>5. s.last = e + h /\ s.mae <= s.return /\ s.return <= s.mfe
    BY <2>2, <2>3, <2>4, ScoreInPath
  <2>6. r.is = s
    BY <2>1, <2>2, <2>4 DEF Measured
  <2> QED
    BY <2>1, <2>5, <2>6
<1> QED
  BY <1>1, <1>2, <1>3, <1>4, Zenon DEF ShadowOnce

LEMMA ResultStays ==
    ASSUME IdeasInv, [ScoringNext]_scoringVars, NEW r, IsResult(r)
    PROVE  IsResult(r)'
<1>1. PICK i, h, b : i = r.idea /\ h = r.horizon /\ b = Basis(i)
  OBVIOUS
<1>2. h \in Nat /\ b \in Stored /\ HasPath(b, h)
  BY <1>1, MarketAssumption DEF IsResult
<1>3. b \in Stored' /\ IdeaRow(b)' = IdeaRow(b) /\ bars <= bars'
  BY <1>2, RowStays
<1>4. IdeasInv'
  BY IdeasNext
<1>5. HasPath(b, h)'
  <2>1. PICK e, e2 : e = IdeaRow(b).entry /\ e2 = IdeaRow(b)'.entry
    OBVIOUS
  <2>2. e \in Nat /\ bars \in Nat /\ h <= bars - e
    BY <1>2, <2>1, EntryIs
  <2>3. e2 = e /\ bars' \in Nat
    BY <1>3, <1>4, <2>1 DEF IdeasInv
  <2>4. bars' - e2 >= h
    <3>1. PICK x, y : x = bars /\ y = bars'
      OBVIOUS
    <3>2. /\ h \in Nat /\ e \in Nat /\ x \in Nat /\ y \in Nat /\ e2 = e
          /\ x <= y /\ h <= x - e
      BY <1>2, <1>3, <2>2, <2>3, <3>1
    <3>3. y - e >= h
      BY <3>2
    <3> QED
      BY <3>1, <3>2, <3>3
  <2> QED
    BY <2>1, <2>4 DEF HasPath
<1>6. TermsOf(b)' = TermsOf(b)
  BY <1>3 DEF TermsOf
<1>7. Measured(i, h)' = Measured(i, h)
  BY <1>1, <1>3, <1>6 DEF Measured
<1> QED
  BY <1>1, <1>3, <1>5, <1>7 DEF IsResult

LEMMA KeptInit == ScoringInit => CountInv /\ KeptInv
<1> SUFFICES ASSUME ScoringInit PROVE CountInv /\ KeptInv
  OBVIOUS
<1>1. DOMAIN scores = {} /\ scores = [k \in DOMAIN scores |-> scores[k]]
  BY DEF ScoringInit, EmptyBag, SetToBag
<1>2. \A s \in Scorers : /\ run[s] = "idle"
                         /\ pending[s].scores = {} /\ pending[s].results = {}
  BY DEF ScoringInit, Nothing
<1>3. run["shift"] = "idle" /\ run["command"] = "idle"
  BY <1>2 DEF Scorers
<1> QED
  BY <1>1, <1>2, <1>3 DEF ScoringInit, CountInv, CommandsTold, ScoresWait, CopiesFew, KeptInv

\* A step that only drops what a scorer has yet to commit.
LEMMA DropKeeps ==
    ASSUME ScoresInv, [ScoringNext]_scoringVars, NEW s \in Scorers, NEW to, NEW what,
           Goes(s, to, what), what.scores = {}, what.results = {},
           UNCHANGED <<scores, results>>, crossed => crossed'
    PROVE  KeptInv' /\ ScoresWait' /\ CopiesFew'
<1>1. /\ run'[s] = to /\ pending'[s] = what
      /\ \A o \in Scorers \ {s} : run'[o] = run[o] /\ pending'[o] = pending[o]
  BY GoesTo DEF ScoresInv
<1>2. \A o \in Scorers : /\ pending'[o].scores \subseteq pending[o].scores
                         /\ pending'[o].results \subseteq pending[o].results
  BY <1>1
<1>3. \A r : IsResult(r) => IsResult(r)'
  BY ResultStays DEF ScoresInv
<1>4. KeptInv'
  <2>1. \A r \in results' : IsResult(r)'
    BY <1>3 DEF ScoresInv, KeptInv
  <2>2. \A k \in DOMAIN scores' : IsKey(k)
    BY DEF ScoresInv, KeptInv
  <2>3. ASSUME NEW o \in Scorers
        PROVE  /\ \A r \in pending'[o].results : IsResult(r)'
               /\ \A k \in pending'[o].scores : IsKey(k)
    BY <1>2, <1>3, <2>3 DEF ScoresInv, KeptInv
  <2> QED
    BY <2>1, <2>2, <2>3 DEF KeptInv
<1>5. ScoresWait'
  BY <1>1 DEF ScoresInv, CountInv, ScoresWait
<1>6. CopiesFew'
  BY <1>2 DEF ScoresInv, CountInv, CopiesFew
<1> QED
  BY <1>4, <1>5, <1>6

LEMMA BuildKeeps ==
    ASSUME ScoresInv, [ScoringNext]_scoringVars, NEW s \in Scorers, BuildPositions(s)
    PROVE  CountInv' /\ KeptInv'
<1>1. PICK what : what = [Nothing EXCEPT !.versions = NewVersions] /\ Goes(s, "built", what)
  BY DEF BuildPositions
<1>2. what.scores = {} /\ what.results = {}
  BY <1>1 DEF Nothing
<1>3. UNCHANGED <<scores, results>>
  BY DEF BuildPositions, tables
<1>4. KeptInv' /\ ScoresWait' /\ CopiesFew'
  BY <1>1, <1>2, <1>3, DropKeeps DEF BuildPositions
<1>5. /\ crossed \in BOOLEAN
      /\ commands \in Nat
      /\ crossed \/ run["command"] # "idle" => commands >= 1
      /\ scores = [k \in DOMAIN scores |-> scores[k]]
  BY DEF ScoresInv, CountInv, CommandsTold
<1>6. /\ run'[s] = "built" /\ \A o \in Scorers \ {s} : run'[o] = run[o]
  BY <1>1, GoesTo DEF ScoresInv
<1>7. /\ commands' = IF s = "command" THEN commands + 1 ELSE commands
      /\ crossed' = (crossed \/ \E o \in Scorers \ {s} : run[o] # "idle")
  BY DEF BuildPositions
<1>8. crossed' \in BOOLEAN /\ (crossed => crossed')
  BY <1>5, <1>7
<1>9. commands' \in Nat /\ (crossed' \/ run'["command"] # "idle" => commands' >= 1)
  <2>1. CASE s = "command"
    <3>1. commands' = commands + 1
      BY <1>7, <2>1
    <3> QED
      BY <1>5, <3>1
  <2>2. CASE s = "shift"
    <3>1. commands' = commands /\ run'["command"] = run["command"]
      BY <1>6, <1>7, <2>2 DEF Scorers
    <3>2. crossed' => crossed \/ run["command"] # "idle"
      BY <1>7, <2>2 DEF Scorers
    <3> QED
      BY <1>5, <3>1, <3>2
  <2> QED
    BY <2>1, <2>2 DEF Scorers
<1>10. ~crossed' => run'["shift"] = "idle" \/ run'["command"] = "idle"
  <2> SUFFICES ASSUME ~crossed' PROVE run'["shift"] = "idle" \/ run'["command"] = "idle"
    OBVIOUS
  <2>1. \A o \in Scorers \ {s} : run[o] = "idle" /\ run'[o] = "idle"
    BY <1>6, <1>7
  <2> QED
    BY <2>1 DEF Scorers
<1>11. scores' = [k \in DOMAIN scores' |-> scores'[k]]
  BY <1>3, <1>5
<1> QED
  BY <1>4, <1>8, <1>9, <1>10, <1>11 DEF CountInv, CommandsTold

\* A step of a scorer that is at work, after which it is still at work or idle.
LEMMA CrossedStays ==
    ASSUME ScoresInv, NEW s \in Scorers, NEW to, NEW what, Goes(s, to, what), run[s] # "idle",
           UNCHANGED <<crossed, commands>>
    PROVE  CommandsTold'
<1>1. /\ run'[s] = to /\ \A o \in Scorers \ {s} : run'[o] = run[o]
  BY GoesTo DEF ScoresInv
<1>2. CASE s = "command"
  <2>1. run'["shift"] = run["shift"]
    BY <1>1, <1>2 DEF Scorers
  <2> QED
    BY <1>2, <2>1 DEF ScoresInv, CountInv, CommandsTold
<1>3. CASE s = "shift"
  <2>1. run'["command"] = run["command"]
    BY <1>1, <1>3 DEF Scorers
  <2> QED
    BY <1>3, <2>1 DEF ScoresInv, CountInv, CommandsTold
<1> QED
  BY <1>2, <1>3 DEF Scorers

LEMMA QuitKeeps ==
    ASSUME ScoresInv, [ScoringNext]_scoringVars, NEW s \in Scorers, SavePositions(s) \/ Fail(s)
    PROVE  CountInv' /\ KeptInv'
<1>1. PICK to, what : what = Nothing /\ Goes(s, to, what)
  BY DEF SavePositions, Fail
<1>2. what.scores = {} /\ what.results = {}
  BY <1>1 DEF Nothing
<1>3. UNCHANGED <<scores, results>> /\ UNCHANGED <<crossed, commands>> /\ run[s] # "idle"
  BY DEF SavePositions, Fail, tables, aside
<1>4. KeptInv' /\ ScoresWait' /\ CopiesFew'
  BY <1>1, <1>2, <1>3, DropKeeps
<1>5. scores' = [k \in DOMAIN scores' |-> scores'[k]]
  BY <1>3 DEF ScoresInv, CountInv
<1>6. CommandsTold'
  BY <1>1, <1>3, CrossedStays
<1> QED
  BY <1>3, <1>4, <1>5, <1>6 DEF CountInv

LEMMA ScoreKeeps ==
    ASSUME ScoresInv, [ScoringNext]_scoringVars, NEW s \in Scorers, Score(s)
    PROVE  CountInv' /\ KeptInv'
<1>1. PICK due : due = Fresh(DueNow)
  OBVIOUS
<1>2. PICK over : over = Fresh(ExitsNow)
  OBVIOUS
<1>3. PICK told : told = OfIdeas(due)
  OBVIOUS
<1>4. PICK what : what.scores = due \cup over /\ what.results = told /\ Goes(s, "scored", what)
  <2>1. PICK out : out = OfExits(Fresh(ExitsNow))
    OBVIOUS
  <2>2. PICK keys : keys = due \cup over
    OBVIOUS
  <2>3. Goes(s, "scored", [Nothing EXCEPT !.scores = keys, !.results = told, !.exits = out])
    BY <1>1, <1>2, <1>3, <2>1, <2>2, Zenon DEF Score
  <2>4. PICK what : what = [Nothing EXCEPT !.scores = keys, !.results = told, !.exits = out]
    OBVIOUS
  <2>5. what.scores = keys /\ what.results = told
    BY <2>4 DEF Nothing
  <2> QED
    BY <2>2, <2>3, <2>4, <2>5
<1>5. /\ run'[s] = "scored" /\ pending'[s] = what
      /\ \A o \in Scorers \ {s} : run'[o] = run[o] /\ pending'[o] = pending[o]
  BY <1>4, GoesTo DEF ScoresInv
<1>6. UNCHANGED <<scores, results, crossed, commands>> /\ run[s] # "idle"
  BY DEF Score, tables, aside
<1>7. CommandsTold'
  BY <1>4, <1>6, CrossedStays
<1>8. \A k \in what.scores : k \notin DOMAIN scores
  BY <1>1, <1>2, <1>4 DEF Fresh, BagToSet
<1>9. ScoresWait'
  BY <1>5 DEF ScoresInv, CountInv, ScoresWait
<1>10. CopiesFew'
  <2>1. \A k \in DOMAIN scores : \A o \in Scorers :
           k \in pending'[o].scores => k \in pending[o].scores
    BY <1>5, <1>8
  <2> QED
    BY <1>6, <2>1 DEF ScoresInv, CountInv, CopiesFew
<1>11. CountInv'
  <2>1. scores' = [k \in DOMAIN scores' |-> scores'[k]]
    BY <1>6 DEF ScoresInv, CountInv
  <2> QED
    BY <1>6, <1>7, <1>9, <1>10, <2>1 DEF CountInv
<1>12. \A r : IsResult(r) => IsResult(r)'
  BY ResultStays DEF ScoresInv
<1>13. \A k \in what.scores : IsKey(k)
  <2>1. ASSUME NEW k \in over PROVE IsKey(k)
    <3>1. k \in ExitsNow
      BY <1>2 DEF Fresh
    <3>2. PICK n : k = <<n, 0>>
      BY <3>1 DEF ExitsNow
    <3> QED
      BY <3>2 DEF IsKey
  <2>2. ASSUME NEW k \in due PROVE IsKey(k)
    <3>1. k \in DueNow
      BY <1>1 DEF Fresh
    <3> QED
      BY <3>1, DueIs DEF ScoresInv
  <2> QED
    BY <1>4, <2>1, <2>2
<1>14. \A r \in told : IsResult(r)
  <2> SUFFICES ASSUME NEW r \in told PROVE IsResult(r)
    OBVIOUS
  <2>1. PICK k \in due : r = [idea |-> k[1], horizon |-> k[2], is |-> Outcome(k[1], k[2])]
    BY <1>3 DEF OfIdeas
  <2>2. k \in DueNow
    BY <1>1 DEF Fresh
  <2>3. PICK i, h : i = k[1] /\ h = k[2]
    OBVIOUS
  <2>4. h \in Horizons /\ h \in Nat \ {0} /\ Basis(i) \in Stored /\ HasPath(Basis(i), h)
    BY <2>2, <2>3, DueIs, MarketAssumption DEF ScoresInv
  <2>5. Outcome(i, h) = Measured(i, h)
    BY <2>4, OutcomeIs DEF ScoresInv
  <2>6. PICK m : m = Measured(i, h)
    OBVIOUS
  <2>7. r = [idea |-> i, horizon |-> h, is |-> m]
    BY <2>1, <2>3, <2>5, <2>6
  <2>8. r.idea = i /\ r.horizon = h
    BY <2>7
  <2> QED
    BY <2>4, <2>6, <2>7, <2>8 DEF IsResult
<1>15. KeptInv'
  <2>1. \A r \in results' : IsResult(r)'
    BY <1>6, <1>12 DEF ScoresInv, KeptInv
  <2>2. \A k \in DOMAIN scores' : IsKey(k)
    BY <1>6 DEF ScoresInv, KeptInv
  <2>3. ASSUME NEW o \in Scorers
        PROVE  /\ \A r \in pending'[o].results : IsResult(r)'
               /\ \A k \in pending'[o].scores : IsKey(k)
    <3>1. CASE o = s
      BY <1>4, <1>5, <1>12, <1>13, <1>14, <3>1
    <3>2. CASE o # s
      BY <1>5, <1>12, <3>2 DEF ScoresInv, KeptInv
    <3> QED
      BY <3>1, <3>2
  <2> QED
    BY <2>1, <2>2, <2>3 DEF KeptInv
<1> QED
  BY <1>11, <1>15

LEMMA SaveKeeps ==
    ASSUME ScoresInv, [ScoringNext]_scoringVars, NEW s \in Scorers, SaveScores(s)
    PROVE  CountInv' /\ KeptInv'
<1>1. PICK what : what = Nothing /\ Goes(s, "idle", what)
  BY DEF SaveScores
<1>2. what.scores = {} /\ what.results = {}
  BY <1>1 DEF Nothing
<1>3. /\ run'[s] = "idle" /\ pending'[s] = what
      /\ \A o \in Scorers \ {s} : run'[o] = run[o] /\ pending'[o] = pending[o]
  BY <1>1, GoesTo DEF ScoresInv
<1>4. PICK new : new = pending[s].scores
  OBVIOUS
<1>5. /\ scores' = scores (+) SetToBag(new) /\ results' = results \cup pending[s].results
      /\ UNCHANGED <<crossed, commands>> /\ run[s] = "scored"
  BY <1>4 DEF SaveScores, aside
<1>6. /\ DOMAIN scores' = DOMAIN scores \cup new
      /\ scores' = [k \in DOMAIN scores' |-> scores'[k]]
      /\ \A k \in DOMAIN scores' :
            scores'[k] = (IF k \in DOMAIN scores THEN scores[k] ELSE 0)
              + (IF k \in new THEN 1 ELSE 0)
  BY <1>5 DEF (+), SetToBag
<1>7. CommandsTold'
  BY <1>1, <1>5, CrossedStays
<1>8. ScoresWait'
  BY <1>2, <1>3 DEF ScoresInv, CountInv, ScoresWait
<1>9. \A o \in Scorers : /\ pending'[o].scores \subseteq pending[o].scores
                         /\ pending'[o].results \subseteq pending[o].results
  BY <1>2, <1>3
<1>10. ASSUME NEW k \in DOMAIN scores'
       PROVE  /\ \/ scores'[k] = 1
                 \/ scores'[k] = 2 /\ crossed /\ \A o \in Scorers : k \notin pending'[o].scores
              /\ \A o \in Scorers : k \in pending'[o].scores =>
                    crossed /\ \A q \in Scorers \ {o} : k \notin pending'[q].scores
  <2>1. CASE k \in new /\ k \in DOMAIN scores
    <3>1. crossed /\ \A o \in Scorers \ {s} : k \notin pending[o].scores
      BY <1>4, <2>1 DEF ScoresInv, CountInv, ScoresWait, CopiesFew
    <3>2. scores[k] = 1
      BY <1>4, <2>1 DEF ScoresInv, CountInv, ScoresWait, CopiesFew
    <3>3. scores'[k] = 2
      BY <1>6, <2>1, <3>2
    <3>4. \A o \in Scorers : k \notin pending'[o].scores
      BY <1>2, <1>3, <3>1
    <3> QED
      BY <3>1, <3>3, <3>4
  <2>2. CASE k \in new /\ k \notin DOMAIN scores
    <3>1. scores'[k] = 1
      BY <1>6, <2>2
    <3>2. ASSUME NEW o \in Scorers, k \in pending'[o].scores
          PROVE  crossed /\ \A q \in Scorers \ {o} : k \notin pending'[q].scores
      <4>1. o # s /\ pending[o].scores # {} /\ k \notin pending'[s].scores
        BY <1>2, <1>3, <3>2
      <4>2. run[o] = "scored"
        BY <4>1 DEF ScoresInv, CountInv, ScoresWait, CopiesFew
      <4>3. crossed
        BY <1>5, <4>1, <4>2 DEF ScoresInv, CountInv, CommandsTold, Scorers
      <4>4. \A q \in Scorers \ {o} : q = s
        BY <4>1 DEF Scorers
      <4> QED
        BY <4>1, <4>3, <4>4
    <3> QED
      BY <3>1, <3>2
  <2>3. CASE k \notin new
    <3>1. k \in DOMAIN scores
      BY <1>6, <2>3
    <3>2. scores[k] \in {1, 2}
      BY <3>1 DEF ScoresInv, CountInv, ScoresWait, CopiesFew
    <3>3. scores'[k] = scores[k]
      BY <1>6, <2>3, <3>1, <3>2
    <3> QED
      BY <1>9, <3>1, <3>3 DEF ScoresInv, CountInv, ScoresWait, CopiesFew
  <2> QED
    BY <2>1, <2>2, <2>3
<1>11. CountInv'
  BY <1>5, <1>6, <1>7, <1>8, <1>10 DEF CountInv, CopiesFew
<1>12. \A r : IsResult(r) => IsResult(r)'
  BY ResultStays DEF ScoresInv
<1>13. KeptInv'
  <2>1. \A r \in results' : IsResult(r)'
    BY <1>5, <1>12 DEF ScoresInv, KeptInv
  <2>2. \A k \in DOMAIN scores' : IsKey(k)
    BY <1>4, <1>6 DEF ScoresInv, KeptInv
  <2>3. ASSUME NEW o \in Scorers
        PROVE  /\ \A r \in pending'[o].results : IsResult(r)'
               /\ \A k \in pending'[o].scores : IsKey(k)
    BY <1>9, <1>12, <2>3 DEF ScoresInv, KeptInv
  <2> QED
    BY <2>1, <2>2, <2>3 DEF KeptInv
<1> QED
  BY <1>11, <1>13

LEMMA ScoresNext == ScoresInv /\ [ScoringNext]_scoringVars => ScoresInv'
<1> SUFFICES ASSUME ScoresInv, [ScoringNext]_scoringVars PROVE ScoresInv'
  OBVIOUS
<1>1. MadeInv' /\ IdeasInv'
  BY MadeNext, IdeasNext DEF ScoresInv
<1>2. CASE \E s \in Scorers : Run(s) \/ Fail(s)
  BY <1>1, <1>2, BuildKeeps, QuitKeeps, ScoreKeeps, SaveKeeps DEF Run, ScoresInv
<1>3. CASE UNCHANGED <<scores, results, run, pending, crossed, commands>>
  <2>1. \A r : IsResult(r) => IsResult(r)'
    BY ResultStays DEF ScoresInv
  <2>2. CountInv'
    BY <1>3 DEF ScoresInv, CountInv, CommandsTold, ScoresWait, CopiesFew
  <2>3. KeptInv'
    <3>1. \A r \in results' : IsResult(r)'
      BY <1>3, <2>1 DEF ScoresInv, KeptInv
    <3>2. \A k \in DOMAIN scores' : IsKey(k)
      BY <1>3 DEF ScoresInv, KeptInv
    <3>3. ASSUME NEW o \in Scorers
          PROVE  /\ \A r \in pending'[o].results : IsResult(r)'
                 /\ \A k \in pending'[o].scores : IsKey(k)
      BY <1>3, <2>1, <3>3 DEF ScoresInv, KeptInv
    <3> QED
      BY <3>1, <3>2, <3>3 DEF KeptInv
  <2> QED
    BY <1>1, <2>2, <2>3 DEF ScoresInv
<1>4. ASSUME NEW n, NEW target, Link(n, target) PROVE ScoresInv'
  BY <1>3, <1>4 DEF Link
<1>5. CASE \/ (\E i \in Artifacts : Write(i))
           \/ Execute \/ StoreBar \/ DayEnds \/ UNCHANGED scoringVars
  BY <1>3, <1>5 DEF Write, Execute, StoreBar, DayEnds, scoringVars, tables, aside
<1> QED
  BY <1>2, <1>4, <1>5, Zenon DEF ScoringNext

\* An idea has one score per horizon for its whole chain of versions, which says the
\* same whenever it is made and of the days of the horizon only; a run from the
\* terminal repeats a score only when it crossed the shift's run: for all ideas,
\* paths, horizons and interleavings of the two scorers (src/desk/scoring/run.py).
THEOREM ScoredOnce == ScoringSpec => []ShadowOnce
<1>1. ScoringInit => ScoresInv
  BY MadeInit, IdeasInit, KeptInit DEF ScoresInv
<1>2. ScoresInv => ShadowOnce
  BY ScoresTell DEF ScoresInv
<1> QED
  BY <1>1, <1>2, ScoresNext, PTL DEF ScoringSpec
=============================================================================
