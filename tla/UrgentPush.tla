----------------------------- MODULE UrgentPush -----------------------------
(***************************************************************************)
(* Triage and the urgent push path: src/desk/watch/triage.py with          *)
(* src/desk/front_office/notify.py.                                        *)
(*                                                                         *)
(* One triage runs at a time: it holds the GPU (OneModelJob of WatchDesk). *)
(* It reads the clock once, before it asks the model, and uses that moment *)
(* for everything it decides.  Between the awaits (the model's reply, the  *)
(* post to ntfy) only a crash can come in; at them its job can time out.   *)
(***************************************************************************)
EXTENDS Integers, FiniteSets

CONSTANTS
    Triggers,           \* trigger artifacts
    Urgent,             \* those of them that are urgent
    News,               \* raw records of the triaged sources that pass its filter
    MaxItems,           \* MAX_ITEMS
    TriggerLookback, NewsLookback,
    Enabled,            \* urgent.enabled, and ntfy is configured
    MaxAge,             \* urgent.max_age_minutes
    WindowStart, WindowEnd,
    Hour, DayLen,
    MaxPerHour, MaxPerDay,
    RunTimeout,         \* timeout of the job that runs triage
    \* Bounds of the model, which the code does not have:
    Horizon,            \* the clock stops here
    MaxFaults           \* crashes

Items == Triggers \cup News

ASSUME ItemAssumption ==
    IsFiniteSet(Items) /\ Urgent \subseteq Triggers /\ Triggers \cap News = {}
ASSUME LimitAssumption ==
    /\ {MaxItems, TriggerLookback, NewsLookback, MaxAge, RunTimeout} \subseteq Nat
    /\ {WindowStart, WindowEnd} \subseteq Nat
    /\ {Hour, DayLen, MaxPerHour, MaxPerDay} \subseteq Nat \ {0}
    /\ Enabled \in BOOLEAN
ASSUME BoundAssumption == Horizon \in Nat /\ MaxFaults \in Nat

VARIABLES
    now,        \* the clock
    known,      \* the items in the artifacts table
    created,    \* their created_at
    label,      \* the triage_label of each item, "none" before it
    pushes,     \* the rows of the pushes table of kind urgent
    pc,         \* where triage is: "idle", "model", "push", "send", "sent"
    seen,       \* the now that triage captured
    batch,      \* items
    toPush,     \* to_push, the item being pushed included
    current,    \* the item being pushed: a set of at most one
    faults,     \* crashes so far
    \* History variables:
    confirmed,  \* when the labels of the batch were committed
    phone       \* the alerts that reached the phone

table == <<known, created, label, pushes>>
local == <<seen, batch, toPush, current, confirmed>>
vars == <<now, table, pc, local, faults, phone>>

Push == [item : Urgent, status : {"sent", "held", "failed"}, at : Nat]

TypeOK ==
    /\ now \in 0 .. Horizon
    /\ known \subseteq Items
    /\ created \in [Items -> Nat]
    /\ label \in [Items -> {"none", "relevant", "noise"}]
    /\ pushes \subseteq Push
    /\ pc \in {"idle", "model", "push", "send", "sent"}
    /\ seen \in Nat
    /\ batch \subseteq Items /\ toPush \subseteq Urgent
    /\ current \in SUBSET toPush
    /\ faults \in 0 .. MaxFaults
    /\ phone \subseteq [item : Urgent, at : Nat, confirmed : Nat]
    /\ confirmed \in Nat

Init ==
    /\ now = 0 /\ known = {} /\ created = [i \in Items |-> 0]
    /\ label = [i \in Items |-> "none"] /\ pushes = {}
    /\ pc = "idle" /\ seen = 0 /\ batch = {} /\ toPush = {} /\ current = {}
    /\ faults = 0 /\ confirmed = 0 /\ phone = {}

-----------------------------------------------------------------------------
(* pending_items *)

Pending(S, lookback) ==
    {i \in S \cap known : label[i] = "none" /\ created[i] >= now - lookback}

\* ORDER BY urgent DESC, created_at DESC
Ahead(i, k) ==
    \/ i \in Urgent /\ k \notin Urgent
    \/ (i \in Urgent <=> k \in Urgent) /\ created[i] > created[k]

\* LIMIT n: the first n of S; rows that tie come in any order.
First(S, n) ==
    {B \in SUBSET S :
        /\ Cardinality(B) <= n /\ (B # S => Cardinality(B) = n)
        /\ \A i \in B, k \in S \ B : ~Ahead(k, i)}

Batches ==
    UNION {{T \cup N : N \in First(Pending(News, NewsLookback), MaxItems - Cardinality(T))} :
              T \in First(Pending(Triggers, TriggerLookback), MaxItems)}

\* A scan or a collector commits an item.
Emit(i) ==
    /\ i \in Items \ known /\ known' = known \cup {i}
    /\ created' = [created EXCEPT ![i] = now]
    /\ UNCHANGED <<now, label, pushes, pc, local, faults, phone>>

\* run_triage up to the model's reply.
Ask ==
    /\ pc = "idle" /\ \E B \in Batches \ {{}} : batch' = B
    /\ pc' = "model" /\ seen' = now
    /\ UNCHANGED <<now, table, toPush, current, confirmed, faults, phone>>

\* Everything local is gone when triage ends.
ToIdle ==
    /\ pc' = "idle" /\ seen' = 0 /\ confirmed' = 0
    /\ batch' = {} /\ toPush' = {} /\ current' = {}

\* No reply, or one that does not label each item exactly once.
ModelFails ==
    /\ pc = "model" /\ ToIdle
    /\ UNCHANGED <<now, table, faults, phone>>

\* The labels for a batch of which the items of R are relevant, but for the
\* items of L, which are left without one.
Labels(R, L) ==
    label' = [i \in Items |-> IF i \in batch \ L
                              THEN (IF i \in R THEN "relevant" ELSE "noise") ELSE label[i]]

\* Mutation: the alerts to be pushed are not labelled before they are.
LabelOthers ==
    /\ pc = "model" /\ pc' = "push" /\ confirmed' = now
    /\ \E R \in SUBSET batch : toPush' = R \cap Urgent /\ Labels(R, toPush')
    /\ UNCHANGED <<now, known, created, pushes, seen, batch, current, faults, phone>>

\* Mutation: every relevant item is pushed.
PushRelevant ==
    /\ pc = "model" /\ pc' = "push" /\ confirmed' = now
    /\ \E R \in SUBSET batch : toPush' = R /\ Labels(R, {})
    /\ UNCHANGED <<now, known, created, pushes, seen, batch, current, faults, phone>>

\* The labels of the whole batch are committed before anything is pushed.
Label ==
    /\ pc = "model" /\ pc' = "push" /\ confirmed' = now
    /\ \E R \in SUBSET batch : toPush' = R \cap Urgent /\ Labels(R, {})
    /\ UNCHANGED <<now, known, created, pushes, seen, batch, current, faults, phone>>

-----------------------------------------------------------------------------
(* _push_urgent: decide_urgent, urgent_counts, record_push *)

SentSince(t) == {p \in pushes : p.status = "sent" /\ p.at >= t}

InWindow(t) == WindowStart <= t % DayLen /\ t % DayLen < WindowEnd

Midnight(t) == (t \div DayLen) * DayLen

\* Mutation: the age of the alert does not matter.
AnyAge(i) == InWindow(seen)

Timely(i) == seen - created[i] <= MaxAge /\ InWindow(seen)

\* Mutation: the hour starts when triage does.
LimitsFromNow ==
    /\ Cardinality(SentSince(seen)) < MaxPerHour
    /\ Cardinality(SentSince(Midnight(seen))) < MaxPerDay

\* Mutation: the limit of the day is forgotten.
HourlyLimitOnly == Cardinality(SentSince(seen - Hour)) < MaxPerHour

WithinLimits ==
    /\ Cardinality(SentSince(seen - Hour)) < MaxPerHour
    /\ Cardinality(SentSince(Midnight(seen))) < MaxPerDay

\* decide_urgent
Allowed(i) == Enabled /\ Timely(i) /\ WithinLimits

Record(i, status) == pushes' = pushes \cup {[item |-> i, status |-> status, at |-> now]}

Hold ==
    /\ pc = "push"
    /\ \E i \in toPush : ~Allowed(i) /\ Record(i, "held") /\ toPush' = toPush \ {i}
    /\ UNCHANGED <<now, known, created, label, pc, seen, batch, current, confirmed, faults, phone>>

Send ==
    /\ pc = "push" /\ pc' = "send"
    /\ \E i \in toPush : Allowed(i) /\ current' = {i}
    /\ UNCHANGED <<now, table, seen, batch, toPush, confirmed, faults, phone>>

\* ntfy has the message; triage does not know it yet.
Deliver ==
    /\ pc = "send" /\ pc' = "sent"
    /\ phone' = phone \cup [item : current, at : {now}, confirmed : {confirmed}]
    /\ UNCHANGED <<now, table, local, faults>>

\* The post returned, or raised although the message may have reached the phone.
After(status) ==
    /\ \E i \in current : Record(i, status)
    /\ pc' = "push" /\ toPush' = toPush \ current /\ current' = {}
    /\ UNCHANGED <<now, known, created, label, seen, batch, confirmed, faults, phone>>

SendOk == pc = "sent" /\ After("sent")

SendFails == pc \in {"send", "sent"} /\ After("failed")

Done ==
    /\ pc = "push" /\ toPush = {} /\ ToIdle
    /\ UNCHANGED <<now, table, faults, phone>>

-----------------------------------------------------------------------------

\* The job's timeout, at an await.
Expire ==
    /\ pc \in {"model", "send", "sent"} /\ now >= seen + RunTimeout /\ ToIdle
    /\ UNCHANGED <<now, table, faults, phone>>

Crash ==
    /\ pc # "idle" /\ ToIdle
    /\ faults < MaxFaults /\ faults' = faults + 1
    /\ UNCHANGED <<now, table, phone>>

\* A job does not run past its timeout.
Tick ==
    /\ now < Horizon /\ now' = now + 1
    /\ pc # "idle" => now < seen + RunTimeout
    /\ UNCHANGED <<table, pc, local, faults, phone>>

Next ==
    \/ \E i \in Items : Emit(i)
    \/ Ask \/ ModelFails \/ Label \/ Hold \/ Send \/ Deliver \/ SendOk \/ SendFails \/ Done
    \/ Expire \/ Crash \/ Tick

Spec == Init /\ [][Next]_vars

-----------------------------------------------------------------------------
(* Properties. *)

\* An alert reaches the phone at most once, over any crashes and timeouts, and
\* so the unique index on sent pushes is never hit: the label that takes an
\* item out of pending_items is committed before its push.
SentOnce ==
    /\ \A p, q \in phone : p.item = q.item => p = q
    /\ \A p, q \in pushes : p.item = q.item => p = q

SentIn(t, u) == {p \in pushes : p.status = "sent" /\ p.at \in t .. u}

\* Whatever span of an hour one looks at, no more than max_per_hour pushes were
\* sent in it: the stale clock of triage counts too many pushes, never too few.
HourLimit ==
    \A p \in pushes : Cardinality(SentIn(p.at, p.at + Hour)) <= MaxPerHour

\* The same for the days of the calendar and max_per_day, although triage may
\* start before midnight and push after it.
DayLimit ==
    \A p \in pushes : Cardinality(SentIn(Midnight(p.at), Midnight(p.at) + DayLen - 1)) <= MaxPerDay

\* An alert on the phone was fresh, and the hour was right, at most the timeout
\* of a job earlier.
SentInTime ==
    \A p \in phone :
        \E t \in p.at - RunTimeout .. p.at :
            t >= 0 /\ InWindow(t) /\ t - created[p.item] <= MaxAge

\* Every urgent trigger the model confirmed is pushed, or recorded as held.
ConfirmedRecorded ==
    pc = "idle" =>
    \A i \in Urgent : label[i] = "relevant" => \E p \in pushes : p.item = i
=============================================================================
