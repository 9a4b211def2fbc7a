----------------------------- MODULE TraderDesk -----------------------------
(***************************************************************************)
(* run_trader_desk of src/desk/desks/trader/run.py: the ideas of the day   *)
(* are planned one after the other, and each plan is judged by RiskRules   *)
(* against the open risk of the positions, of the plans the day approved   *)
(* before the run and of those the run itself approved.                    *)
(*                                                                         *)
(* The prices, the model's choice from the menu and its failures are       *)
(* nondeterministic.  A run can end at its deadline, its job's timeout or  *)
(* a crash of the process, in any of its steps; the scheduler starts one a *)
(* day, but nothing in this component relies on that.                      *)
(***************************************************************************)
EXTENDS RiskRules

CONSTANTS
    Ideas,          \* verdicts on theses and holding ratings that may become plans
    Menu,           \* [Ideas -> SUBSET Plan]: the choices that can be built for each
    Snapshots,      \* open risks that the positions can have
    MaxDay          \* bound of the model: its last day

ASSUME IdeaAssumption ==
    /\ Menu \in [Ideas -> SUBSET Plan]
    /\ Snapshots \subseteq OpenRisk
    /\ MaxDay \in Nat

VARIABLES
    day,
    held,       \* open risk of the positions in the latest snapshots
    pursued,    \* ideas whose verdict is pursue, and recent Buy/Add ratings
    rows,       \* the plans with their decisions, in the artifacts table
    pc,         \* "idle" or "plan": no run, or its loop over the ideas
    todo,       \* the ideas the loop has yet to plan
    open,       \* the run's list of open risks, as its sums
    \* What the query of open_risks sums: the plans approved since midnight.
    today,
    \* History variables:
    base,       \* held when the run began
    granted     \* the risk approved since midnight, in the buckets of the subjects

vars == <<day, held, pursued, rows, pc, todo, open, today, base, granted>>

Row == [idea : Ideas, plan : Plan, decision : {"approved", "resized", "vetoed"},
        loss : Nat, day : Nat]

NoRisk == [total |-> 0, bucket |-> [b \in Buckets |-> 0]]

TypeOK ==
    /\ day \in 0 .. MaxDay
    /\ held \in OpenRisk /\ open \in OpenRisk /\ today \in OpenRisk
    /\ base \in OpenRisk /\ granted \in OpenRisk
    /\ pursued \subseteq Ideas /\ todo \subseteq Ideas
    /\ rows \subseteq Row
    /\ pc \in {"idle", "plan"}

Init ==
    /\ day = 0 /\ held = NoRisk /\ pursued = {} /\ rows = {}
    /\ pc = "idle" /\ todo = {} /\ open = NoRisk /\ today = NoRisk
    /\ base = NoRisk /\ granted = NoRisk

-----------------------------------------------------------------------------
(* Sums of open risks *)

\* r and a risk of loss in bucket b.
Plus(r, b, loss) ==
    [total |-> r.total + loss,
     bucket |-> [c \in Buckets |-> r.bucket[c] + (IF c = b THEN loss ELSE 0)]]

Both(r, s) ==
    [total |-> r.total + s.total,
     bucket |-> [c \in Buckets |-> r.bucket[c] + s.bucket[c]]]

-----------------------------------------------------------------------------
(* The world around the desk *)

Pursue(i) ==
    /\ i \notin pursued /\ pursued' = pursued \cup {i}
    /\ UNCHANGED <<day, held, rows, pc, todo, open, today, base, granted>>

\* A new verdict or the closing of the thesis, or a rating that has aged.
Drop(i) ==
    /\ i \in pursued /\ pursued' = pursued \ {i}
    /\ UNCHANGED <<day, held, rows, pc, todo, open, today, base, granted>>

Collect ==
    /\ held' \in Snapshots \ {held}
    /\ UNCHANGED <<day, pursued, rows, pc, todo, open, today, base, granted>>

\* Midnight: the query of open_risks finds no plan of the days before.
NextDay ==
    /\ day < MaxDay /\ pc = "idle"
    /\ day' = day + 1 /\ today' = NoRisk /\ granted' = NoRisk
    /\ UNCHANGED <<held, pursued, rows, pc, todo, open, base>>

-----------------------------------------------------------------------------
(* run_trader_desk *)

HasPlan(i) == \E r \in rows : r.idea = i

\* Mutation: ideas that have a plan are planned again.
Replan == pursued

\* thesis_ideas and rating_ideas
Unplanned == {i \in pursued : ~HasPlan(i)}

\* Mutation: the plans of an earlier run of the day are not counted.
HeldOnly == held

OpenRisks == Both(held, today)

Begin ==
    /\ pc = "idle" /\ Unplanned # {}
    /\ pc' = "plan" /\ todo' = Unplanned
    /\ open' = OpenRisks
    /\ base' = held
    /\ UNCHANGED <<day, held, pursued, rows, today, granted>>

\* Mutation: a plan that was cut down does not count.
ApprovedOnly(p, d) ==
    IF d.decision = "approved" THEN Plus(open, BucketOf[p.subject], d.maxLoss) ELSE open

\* Mutation: the loss of a plan is taken off the open risk.
AppendAsCredit(p, d) ==
    IF d.decision # "vetoed" THEN Plus(open, BucketOf[p.subject], -d.maxLoss) ELSE open

\* The list of open risks after plan p: in the bucket of the subject.
AppendPlan(p, d) ==
    IF d.decision # "vetoed" THEN Plus(open, BucketOf[p.subject], d.maxLoss) ELSE open

\* The model picks p from the menu; plan and decision are one transaction.
PlanIdea(i, p) ==
    LET d == Evaluate(p, open)
        taken == d.decision # "vetoed"
    IN  /\ pc = "plan" /\ i \in todo /\ todo' = todo \ {i}
        /\ rows' = rows \cup {[idea |-> i, plan |-> p, decision |-> d.decision,
                               loss |-> d.maxLoss, day |-> day]}
        /\ open' = AppendPlan(p, d)
        /\ today' = IF taken THEN Plus(today, BucketOf[p.subject], d.maxLoss) ELSE today
        /\ granted' = IF taken THEN Plus(granted, BucketOf[p.subject], d.maxLoss) ELSE granted
        /\ UNCHANGED <<day, held, pursued, pc, base>>

\* No price, nothing on the menu, or no usable reply of the model.
SkipIdea(i) ==
    /\ pc = "plan" /\ i \in todo /\ todo' = todo \ {i}
    /\ UNCHANGED <<day, held, pursued, rows, pc, open, today, base, granted>>

\* The loop is through, or the deadline, the job's timeout or a crash ends it.
Stop ==
    /\ pc = "plan" /\ pc' = "idle" /\ todo' = {}
    /\ UNCHANGED <<day, held, pursued, rows, open, today, base, granted>>

-----------------------------------------------------------------------------
Next ==
    \/ \E i \in Ideas : Pursue(i) \/ Drop(i)
    \/ Collect \/ NextDay
    \/ Begin
    \/ \E i \in Ideas : \E p \in Menu[i] : PlanIdea(i, p)
    \/ \E i \in Ideas : SkipIdea(i)
    \/ Stop

Spec == Init /\ [][Next]_vars

-----------------------------------------------------------------------------
(* Safety *)

\* What a step approves.
Approved == {r \in rows' \ rows : r.decision # "vetoed"}

\* Whatever earlier runs of the day approved and however they ended, a plan that is
\* approved keeps the account within the limit on open risk, together with the
\* positions the run saw and all plans approved since midnight.
WithinTotal ==
    [][\A r \in Approved : 10000 * (base.total + granted.total + r.loss) <= TotalLimit]_vars

\* The same for the bucket the plan is judged by, the instrument's for a subject outside
\* every bucket, with the plans on subjects in that bucket.  Plans on a subject outside
\* do not count there once they are approved (run.py:369).
WithinBucket ==
    [][\A r \in Approved :
          LET b == PlanBucket(r.plan)
          IN  b # NoBucket =>
                10000 * (base.bucket[b] + granted.bucket[b] + r.loss) <= BucketLimit]_vars

\* An idea is planned once, whatever happens to the run that planned it ("each
\* planned once" of the module).
PlannedOnce == \A r, s \in rows : r.idea = s.idea => r = s
=============================================================================
