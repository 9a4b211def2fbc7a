-------------------------- MODULE UrgentPushProofs --------------------------
(***************************************************************************)
(* Proofs about UrgentPush: an alert is pushed once, and the limit of an   *)
(* hour holds for every span of an hour.                                   *)
(***************************************************************************)
EXTENDS UrgentPush, FiniteSetTheorems, TLAPS

\* The local variables of triage fit its place.
Shape ==
    /\ seen <= now
    /\ pc \in {"idle", "model"} => toPush = {}
    /\ pc \in {"idle", "model", "push"} => current = {}
    /\ pc \in {"send", "sent"} => \E i \in toPush : current = {i}
    /\ pc = "model" => \A i \in batch : label[i] = "none"

\* What is still to be pushed has its label, and neither a row in the pushes
\* table nor, until ntfy has it, a place on the phone.
Unpushed ==
    /\ \A i \in toPush : label[i] # "none"
    /\ \A p \in pushes : label[p.item] # "none" /\ p.item \notin toPush
    /\ \A p \in phone : /\ label[p.item] # "none"
                        /\ p.item \in toPush => pc = "sent" /\ p.item \in current

IInv == TypeOK /\ Shape /\ Unpushed /\ SentOnce

-----------------------------------------------------------------------------

\* pending_items returns items that have no label yet.
LEMMA BatchUnlabelled ==
    ASSUME NEW B \in Batches
    PROVE  B \subseteq Items /\ \A i \in B : label[i] = "none"
<1>1. PICK T \in First(Pending(Triggers, TriggerLookback), MaxItems) :
           \E N \in First(Pending(News, NewsLookback), MaxItems - Cardinality(T)) : B = T \cup N
  BY DEF Batches
<1>2. PICK N \in First(Pending(News, NewsLookback), MaxItems - Cardinality(T)) : B = T \cup N
  BY <1>1
<1>3. T \subseteq Pending(Triggers, TriggerLookback) /\ N \subseteq Pending(News, NewsLookback)
  BY <1>1, <1>2 DEF First
<1>4. QED
  BY <1>2, <1>3 DEF Pending, Items

\* Initially nothing is labelled or pushed.
LEMMA InitIInv == Init => IInv
<1> SUFFICES ASSUME Init PROVE IInv
  OBVIOUS
<1> USE BoundAssumption DEF Init
<1>1. TypeOK
  BY DEF TypeOK
<1>2. Shape /\ Unpushed /\ SentOnce
  BY DEF Shape, Unpushed, SentOnce
<1>3. QED
  BY <1>1, <1>2 DEF IInv

\* Every step keeps the types.
LEMMA TypeNext == ASSUME IInv, [Next]_vars PROVE TypeOK'
<1> USE DEF IInv, TypeOK, Shape, table, local, ToIdle
<1>1. ASSUME NEW i \in Items, Emit(i) PROVE TypeOK'
  BY <1>1, BoundAssumption DEF Emit
<1>2. CASE Ask
  BY <1>2, BoundAssumption, BatchUnlabelled DEF Ask
<1>3. CASE ModelFails
  BY <1>3 DEF ModelFails
<1>4. CASE Label
  <2>1. PICK R \in SUBSET batch : toPush' = R \cap Urgent /\ Labels(R, {})
    BY <1>4 DEF Label
  <2>2. label' \in [Items -> {"none", "relevant", "noise"}]
    BY <2>1 DEF Labels
  <2>3. confirmed' \in Nat /\ toPush' \subseteq Urgent
    BY <1>4, <2>1, BoundAssumption DEF Label
  <2>4. current = {} /\ current' = current
    BY <1>4 DEF Label
  <2>5. QED
    BY <1>4, <2>2, <2>3, <2>4 DEF Label
<1>5. CASE Hold
  <2>1. PICK i \in toPush : Record(i, "held") /\ toPush' = toPush \ {i}
    BY <1>5 DEF Hold
  <2>2. pushes' \subseteq Push
    BY <2>1, BoundAssumption DEF Record, Push
  <2>3. QED
    BY <1>5, <2>1, <2>2 DEF Hold
<1>6. CASE Send
  BY <1>6 DEF Send
<1>7. CASE Deliver
  BY <1>7, BoundAssumption DEF Deliver
<1>8. ASSUME NEW status \in {"sent", "failed"}, After(status), pc \in {"send", "sent"} PROVE TypeOK'
  <2>1. PICK i \in current : Record(i, status)
    BY <1>8 DEF After
  <2>2. pushes' \subseteq Push
    BY <2>1, BoundAssumption DEF Record, Push
  <2>3. QED
    BY <1>8, <2>2 DEF After
<1>9. CASE Done
  BY <1>9 DEF Done
<1>10. CASE Expire
  BY <1>10 DEF Expire
<1>11. CASE Crash
  BY <1>11, BoundAssumption DEF Crash
<1>12. CASE Tick
  BY <1>12, BoundAssumption DEF Tick
<1>13. CASE UNCHANGED vars
  BY <1>13 DEF vars
<1>14. QED
  BY <1>1, <1>2, <1>3, <1>4, <1>5, <1>6, <1>7, <1>8, <1>9, <1>10, <1>11, <1>12, <1>13
  DEF Next, SendOk, SendFails

\* Every step keeps triage's place, what is unpushed, and single pushes.
LEMMA StepNext == ASSUME IInv, [Next]_vars PROVE (Shape /\ Unpushed /\ SentOnce)'
<1> USE DEF Shape, Unpushed, SentOnce, table, local, ToIdle
<1> TypeOK /\ Shape /\ Unpushed /\ SentOnce /\ now \in Nat
  BY BoundAssumption DEF IInv, TypeOK
<1> HIDE DEF IInv
<1>1. ASSUME NEW i \in Items, Emit(i) PROVE (Shape /\ Unpushed /\ SentOnce)'
  BY <1>1 DEF Emit
<1>2. CASE Ask
  BY <1>2, BatchUnlabelled DEF Ask
<1>3. CASE ModelFails
  BY <1>3 DEF ModelFails
<1>4. CASE Label
  <2>1. PICK R \in SUBSET batch : toPush' = R \cap Urgent /\ Labels(R, {})
    BY <1>4 DEF Label
  <2>2. \A i \in Items : /\ i \in batch => label'[i] # "none"
                         /\ i \notin batch => label'[i] = label[i]
    BY <2>1 DEF Labels
  <2>3. batch \subseteq Items /\ \A i \in batch : label[i] = "none"
    BY <1>4 DEF Label, TypeOK
  <2>4. Urgent \subseteq Items /\ (\A p \in pushes : p.item \in Urgent) /\ (\A p \in phone : p.item \in Urgent)
    BY ItemAssumption DEF Items, TypeOK, Push
  <2>5. pc' = "push" /\ UNCHANGED <<now, seen, current, pushes, phone>> /\ current = {}
    BY <1>4 DEF Label
  <2>6. \A i \in toPush' : label'[i] # "none"
    BY <2>1, <2>2, <2>3
  <2>7. \A p \in pushes \cup phone : label'[p.item] # "none" /\ p.item \notin toPush'
    BY <2>1, <2>2, <2>3, <2>4
  <2>8. QED
    BY <2>5, <2>6, <2>7
<1>5. CASE Hold
  <2>1. PICK i \in toPush : Record(i, "held") /\ toPush' = toPush \ {i}
    BY <1>5 DEF Hold
  <2>2. QED
    BY <1>5, <2>1 DEF Hold, Record, TypeOK, Push
<1>6. CASE Send
  BY <1>6 DEF Send
<1>7. CASE Deliver
  <2>1. PICK i \in toPush : current = {i}
    BY <1>7 DEF Deliver
  <2>2. phone' = phone \cup {[item |-> i, at |-> now, confirmed |-> confirmed]}
    BY <1>7, <2>1 DEF Deliver
  <2>3. \A p \in phone : p.item # i
    BY <1>7, <2>1 DEF Deliver
  <2>4. QED
    BY <1>7, <2>1, <2>2, <2>3 DEF Deliver
<1>8. ASSUME NEW status \in {"sent", "failed"}, After(status), pc \in {"send", "sent"}
      PROVE  (Shape /\ Unpushed /\ SentOnce)'
  <2>1. PICK i \in toPush : current = {i}
    BY <1>8
  <2>2. pushes' = pushes \cup {[item |-> i, status |-> status, at |-> now]}
    BY <1>8, <2>1 DEF After, Record
  <2>3. toPush' = toPush \ {i} /\ current' = {} /\ pc' = "push"
    BY <1>8, <2>1 DEF After
  <2>4. UNCHANGED <<now, label, seen, batch, phone>>
    BY <1>8 DEF After
  <2>5. \A p \in phone : p.item \notin toPush'
    BY <2>1, <2>3
  <2>6. QED
    BY <2>1, <2>2, <2>3, <2>4, <2>5
<1>9. CASE Done
  BY <1>9 DEF Done
<1>10. CASE Expire
  BY <1>10 DEF Expire
<1>11. CASE Crash
  BY <1>11 DEF Crash
<1>12. CASE Tick
  BY <1>12 DEF Tick, TypeOK
<1>13. CASE UNCHANGED vars
  BY <1>13 DEF vars
<1>14. QED
  BY <1>1, <1>2, <1>3, <1>4, <1>5, <1>6, <1>7, <1>8, <1>9, <1>10, <1>11, <1>12, <1>13
  DEF Next, SendOk, SendFails

\* IInv is inductive.
LEMMA Inductive == Spec => []IInv
<1>1. IInv /\ [Next]_vars => IInv'
  BY TypeNext, StepNext DEF IInv
<1>2. QED
  BY InitIInv, <1>1, PTL DEF Spec

-----------------------------------------------------------------------------

\* An alert reaches the phone, and the pushes table, at most once: whatever
\* crashes and timeouts, its label is committed before its push.
THEOREM PushedOnce == Spec => []SentOnce
<1>1. IInv => SentOnce
  BY DEF IInv
<1>2. QED
  BY Inductive, <1>1, PTL

-----------------------------------------------------------------------------

\* The numbers of the configuration.
LEMMA Numbers ==
    /\ Hour \in Nat \ {0} /\ DayLen \in Nat \ {0}
    /\ MaxPerHour \in Nat \ {0} /\ MaxPerDay \in Nat \ {0}
BY LimitAssumption

DayStart(d) == d * DayLen
DayEnd(d) == d * DayLen + DayLen - 1

\* No span holds too many sent pushes, and while one is under way there is room
\* for it in the counts that triage took.
Counted ==
    /\ IsFiniteSet(pushes) /\ \A p \in pushes : p.at <= now
    /\ pc \in {"send", "sent"} => WithinLimits
    /\ \A t \in Int : Cardinality(SentIn(t, t + Hour)) <= MaxPerHour
    /\ \A d \in Int : Cardinality(SentIn(DayStart(d), DayEnd(d))) <= MaxPerDay

\* A day that has begun by the time t begins no earlier than the day of t.
LEMMA DayStarts ==
    ASSUME NEW s \in Nat, NEW t \in Nat, s <= t, NEW d \in Int, t <= DayEnd(d)
    PROVE  Midnight(s) <= DayStart(d)
<1> DEFINE q == s \div DayLen
<1>1. DayLen \in Nat /\ DayLen > 0
  BY Numbers
<1>2. q \in Int /\ q * DayLen <= s
  BY <1>1
<1>3. SUFFICES q <= d
  BY <1>1, <1>2 DEF Midnight, DayStart
<1>4. SUFFICES ASSUME q >= d + 1 PROVE FALSE
  BY <1>2
<1>5. q * DayLen >= (d + 1) * DayLen
  BY <1>1, <1>2, <1>4
<1>6. (d + 1) * DayLen = d * DayLen + DayLen
  BY <1>1
<1>7. QED
  BY <1>1, <1>2, <1>5, <1>6 DEF DayEnd

\* A set of sent pushes that gains at most the row of a push that is under way.
LEMMA OneMore ==
    ASSUME NEW S, NEW T, NEW C, NEW x, NEW n \in Nat,
           IsFiniteSet(C), Cardinality(C) < n, S \subseteq C, T \subseteq S \cup {x}
    PROVE  Cardinality(T) <= n
<1>1. /\ IsFiniteSet(S) /\ Cardinality(S) <= Cardinality(C)
      /\ Cardinality(S) \in Nat /\ Cardinality(C) \in Nat
  BY FS_Subset, FS_CardinalityType
<1>2. /\ IsFiniteSet(S \cup {x}) /\ Cardinality(S \cup {x}) <= Cardinality(S) + 1
      /\ Cardinality(S \cup {x}) \in Nat
  BY <1>1, FS_AddElement, FS_CardinalityType
<1>3. Cardinality(T) <= Cardinality(S \cup {x}) /\ Cardinality(T) \in Nat
  BY <1>2, FS_Subset, FS_CardinalityType
<1>4. QED
  BY <1>1, <1>2, <1>3

\* Initially nothing was sent.
LEMMA InitCounted == Init => Counted
<1> SUFFICES ASSUME Init PROVE Counted
  OBVIOUS
<1>1. pushes = {} /\ pc = "idle" /\ \A t, u \in Int : SentIn(t, u) = {}
  BY DEF Init, SentIn
<1>2. DayLen \in Nat /\ Hour \in Nat /\ MaxPerHour \in Nat /\ MaxPerDay \in Nat
  BY Numbers
<1>3. \A t \in Int : SentIn(t, t + Hour) = {}
  BY <1>1, <1>2
<1>4. \A d \in Int : SentIn(DayStart(d), DayEnd(d)) = {}
  BY <1>1 DEF SentIn
<1>5. QED
  BY <1>1, <1>2, <1>3, <1>4, FS_EmptySet DEF Counted

\* A step that records no sent push and begins none keeps the counts.
LEMMA KeepCounted ==
    ASSUME IInv, Counted, IsFiniteSet(pushes'),
           {p \in pushes' : p.status = "sent"} = {p \in pushes : p.status = "sent"},
           \A p \in pushes' : p.at <= now',
           pc' \in {"send", "sent"} => seen' = seen /\ WithinLimits
    PROVE  Counted'
<1>1. \A t, u : SentIn(t, u)' = SentIn(t, u)
  BY DEF SentIn
<1>2. \A t : SentSince(t)' = SentSince(t)
  BY DEF SentSince
<1>3. (\A t \in Int : Cardinality(SentIn(t, t + Hour)) <= MaxPerHour)'
  BY <1>1 DEF Counted
<1>4. (\A d \in Int : Cardinality(SentIn(DayStart(d), DayEnd(d))) <= MaxPerDay)'
  BY <1>1 DEF Counted, DayStart, DayEnd
<1>5. (pc \in {"send", "sent"} => WithinLimits)'
  BY <1>2 DEF WithinLimits, Midnight
<1>6. QED
  BY <1>3, <1>4, <1>5 DEF Counted

\* Every step keeps the counts.
LEMMA NextCounted == ASSUME IInv, Counted, [Next]_vars PROVE Counted'
<1> USE DEF table, local, ToIdle
<1>0. /\ now \in Nat /\ seen \in Nat /\ seen <= now /\ pushes \subseteq Push
      /\ IsFiniteSet(pushes) /\ (\A p \in pushes : p.at <= now)
  BY BoundAssumption DEF IInv, TypeOK, Shape, Counted
<1>1. ASSUME NEW i \in Items, Emit(i) PROVE Counted'
  BY <1>1, <1>0, KeepCounted DEF Emit, Counted
<1>2. CASE Ask
  BY <1>2, <1>0, KeepCounted DEF Ask
<1>3. CASE ModelFails
  BY <1>3, <1>0, KeepCounted DEF ModelFails
<1>4. CASE Label
  BY <1>4, <1>0, KeepCounted DEF Label
<1>5. CASE Hold
  <2>1. PICK i \in toPush : pushes' = pushes \cup {[item |-> i, status |-> "held", at |-> now]}
    BY <1>5 DEF Hold, Record
  <2>2. IsFiniteSet(pushes')
    BY <2>1, <1>0, FS_AddElement
  <2>3. now' = now /\ pc' = "push"
    BY <1>5 DEF Hold
  <2>4. QED
    BY <2>1, <2>2, <2>3, <1>0, KeepCounted
<1>6. CASE Send
  BY <1>6, <1>0, KeepCounted DEF Send, Allowed
<1>7. CASE Deliver
  BY <1>7, <1>0, KeepCounted DEF Deliver, Counted
<1>8. CASE SendFails
  <2>1. PICK i \in current : pushes' = pushes \cup {[item |-> i, status |-> "failed", at |-> now]}
    BY <1>8 DEF SendFails, After, Record
  <2>2. IsFiniteSet(pushes')
    BY <2>1, <1>0, FS_AddElement
  <2>3. now' = now /\ pc' = "push"
    BY <1>8 DEF SendFails, After
  <2>4. QED
    BY <2>1, <2>2, <2>3, <1>0, KeepCounted
<1>9. CASE SendOk
  <2>1. PICK i \in current : pushes' = pushes \cup {[item |-> i, status |-> "sent", at |-> now]}
    BY <1>9 DEF SendOk, After, Record
  <2> DEFINE row == [item |-> i, status |-> "sent", at |-> now]
  <2>2. IsFiniteSet(pushes')
    BY <2>1, <1>0, FS_AddElement
  <2>3. now' = now /\ pc' = "push"
    BY <1>9 DEF SendOk, After
  <2>4. WithinLimits
    BY <1>9 DEF SendOk, Counted
  <2>5. \A t, u : SentIn(t, u)' \subseteq SentIn(t, u) \cup {row}
    BY <2>1 DEF SentIn
  <2>6. \A t, u : now \notin t .. u => SentIn(t, u)' = SentIn(t, u)
    BY <2>1 DEF SentIn
  <2>7. ASSUME NEW t \in Int PROVE (Cardinality(SentIn(t, t + Hour)) <= MaxPerHour)'
    <3>1. CASE now \notin t .. t + Hour
      BY <3>1, <2>6 DEF Counted
    <3>2. CASE now \in t .. t + Hour
      <4>1. SentIn(t, t + Hour) \subseteq SentSince(seen - Hour)
        BY <3>2, <1>0, Numbers DEF SentIn, SentSince, Push
      <4>2. IsFiniteSet(SentSince(seen - Hour))
        BY <1>0, FS_Subset DEF SentSince
      <4>3. Cardinality(SentSince(seen - Hour)) < MaxPerHour
        BY <2>4 DEF WithinLimits
      <4>4. SentIn(t, t + Hour)' \subseteq SentIn(t, t + Hour) \cup {row}
        BY <2>5
      <4>5. QED
        BY <4>1, <4>2, <4>3, <4>4, OneMore, Numbers
    <3>3. QED
      BY <3>1, <3>2
  <2>8. ASSUME NEW d \in Int
        PROVE  (Cardinality(SentIn(DayStart(d), DayEnd(d))) <= MaxPerDay)'
    <3>1. CASE now \notin DayStart(d) .. DayEnd(d)
      BY <3>1, <2>6 DEF Counted, DayStart, DayEnd
    <3>2. CASE now \in DayStart(d) .. DayEnd(d)
      <4>0. Midnight(seen) \in Int /\ DayStart(d) \in Int /\ DayEnd(d) \in Int
        BY <1>0, Numbers DEF Midnight, DayStart, DayEnd
      <4>1. Midnight(seen) <= DayStart(d)
        BY <3>2, <4>0, <1>0, DayStarts
      <4>2. SentIn(DayStart(d), DayEnd(d)) \subseteq SentSince(Midnight(seen))
        BY <4>0, <4>1, <1>0 DEF SentIn, SentSince, Push
      <4>3. IsFiniteSet(SentSince(Midnight(seen)))
        BY <1>0, FS_Subset DEF SentSince
      <4>4. SentIn(DayStart(d), DayEnd(d))' \subseteq SentIn(DayStart(d), DayEnd(d)) \cup {row}
        BY <2>5 DEF DayStart, DayEnd
      <4>5. Cardinality(SentSince(Midnight(seen))) < MaxPerDay
        BY <2>4 DEF WithinLimits
      <4>6. QED
        BY <4>2, <4>3, <4>4, <4>5, OneMore, Numbers
    <3>3. QED
      BY <3>1, <3>2
  <2>9. \A p \in pushes' : p.at <= now'
    BY <2>1, <2>3, <1>0
  <2>10. QED
    BY <2>2, <2>3, <2>7, <2>8, <2>9 DEF Counted
<1>10. CASE Done
  BY <1>10, <1>0, KeepCounted DEF Done
<1>11. CASE Expire
  BY <1>11, <1>0, KeepCounted DEF Expire
<1>12. CASE Crash
  BY <1>12, <1>0, KeepCounted DEF Crash
<1>13. CASE Tick
  <2>1. \A p \in pushes : p.at \in Nat
    BY <1>0 DEF Push
  <2>2. QED
    BY <1>13, <2>1, <1>0, KeepCounted DEF Tick, Counted
<1>14. CASE UNCHANGED vars
  BY <1>14, <1>0, KeepCounted DEF vars, Counted
<1>15. QED
  BY <1>1, <1>2, <1>3, <1>4, <1>5, <1>6, <1>7, <1>8, <1>9, <1>10, <1>11, <1>12, <1>13, <1>14
  DEF Next

\* The counts hold in every reachable state.
LEMMA CountedInductive == Spec => [](IInv /\ Counted)
<1>1. IInv /\ Counted /\ [Next]_vars => Counted'
  BY NextCounted
<1>2. QED
  BY Inductive, InitCounted, <1>1, PTL DEF Spec

\* No span of an hour has more than max_per_hour sent pushes, although triage
\* decides with a clock it read before it asked the model.
THEOREM HourlyLimit == Spec => []HourLimit
<1>1. IInv /\ Counted => HourLimit
  BY DEF IInv, TypeOK, Push, Counted, HourLimit
<1>2. QED
  BY CountedInductive, <1>1, PTL

\* No day has more than max_per_day sent pushes, although triage may start
\* before midnight and push after it.
THEOREM DailyLimit == Spec => []DayLimit
<1>1. ASSUME IInv, Counted, NEW p \in pushes
      PROVE  Cardinality(SentIn(Midnight(p.at), Midnight(p.at) + DayLen - 1)) <= MaxPerDay
  <2>1. p.at \in Nat
    BY <1>1 DEF IInv, TypeOK, Push
  <2>2. p.at \div DayLen \in Int
    BY <2>1, Numbers
  <2>3. QED
    BY <1>1, <2>2 DEF Counted, DayStart, DayEnd, Midnight
<1>2. IInv /\ Counted => DayLimit
  BY <1>1 DEF DayLimit
<1>3. QED
  BY CountedInductive, <1>2, PTL

-----------------------------------------------------------------------------

\* The clock stays within the timeout of the job, what is being pushed is known and was
\* timely when triage began, and so was what is on the phone.
InTime ==
    /\ pc # "idle" => now <= seen + RunTimeout
    /\ batch \cup toPush \subseteq known
    /\ pc \in {"send", "sent"} => \A i \in current : Timely(i)
    /\ \A p \in phone : p.item \in known
    /\ SentInTime

\* What the invariant is about stands still.
LEMMA KeepInTime ==
    ASSUME IInv, InTime, UNCHANGED <<now, known, created, phone>>,
           \/ pc' = "idle" /\ batch' = {} /\ toPush' = {}
           \/ /\ pc # "idle" /\ seen' = seen /\ batch' = batch /\ toPush' \subseteq batch \cup toPush
              /\ pc' \in {"send", "sent"} => \A i \in current' : Timely(i)
    PROVE  InTime'
<1>1. SentInTime'
  BY DEF InTime, SentInTime, InWindow
<1>2. QED
  BY <1>1 DEF InTime, Timely, InWindow

LEMMA NextInTime == ASSUME IInv, InTime, [Next]_vars PROVE InTime'
<1> USE DEF IInv, table, local, ToIdle
<1>0. /\ now \in Nat /\ seen \in Nat /\ seen <= now /\ RunTimeout \in Nat
      /\ known \subseteq Items /\ current \subseteq toPush
  BY BoundAssumption, LimitAssumption DEF TypeOK, Shape
<1>1. ASSUME NEW i \in Items, Emit(i) PROVE InTime'
  <2>1. /\ i \notin known /\ known' = known \cup {i} /\ created' = [created EXCEPT ![i] = now]
        /\ UNCHANGED <<now, pc, seen, batch, toPush, current, phone>>
    BY <1>1 DEF Emit
  <2>2. \A k \in known : created'[k] = created[k]
    BY <2>1 DEF TypeOK
  <2>3. SentInTime'
    BY <2>1, <2>2 DEF InTime, SentInTime, InWindow
  <2>4. pc' \in {"send", "sent"} => \A k \in current' : Timely(k)'
    BY <1>0, <2>1, <2>2 DEF InTime, Timely, InWindow
  <2>5. QED
    BY <2>1, <2>3, <2>4 DEF InTime
<1>2. CASE Ask
  <2>1. PICK B \in Batches \ {{}} : batch' = B
    BY <1>2 DEF Ask
  <2>2. B \subseteq known
    BY <2>1 DEF Batches, First, Pending
  <2>3. /\ pc = "idle" /\ pc' = "model" /\ seen' = now
        /\ UNCHANGED <<now, known, created, toPush, phone>>
    BY <1>2 DEF Ask
  <2>4. SentInTime'
    BY <2>3 DEF InTime, SentInTime, InWindow
  <2>5. QED
    BY <1>0, <2>1, <2>2, <2>3, <2>4 DEF InTime
<1>3. CASE ModelFails
  BY <1>3, KeepInTime DEF ModelFails
<1>4. CASE Label
  BY <1>4, KeepInTime DEF Label
<1>5. CASE Hold
  BY <1>5, KeepInTime DEF Hold
<1>6. CASE Send
  BY <1>6, KeepInTime DEF Send, Allowed
<1>7. CASE Deliver
  <2>1. /\ pc = "send" /\ pc' = "sent"
        /\ UNCHANGED <<now, known, created, seen, batch, toPush, current>>
        /\ phone' = phone \cup [item : current, at : {now}, confirmed : {confirmed}]
    BY <1>7 DEF Deliver
  <2>2. ASSUME NEW p \in [item : current, at : {now}, confirmed : {confirmed}]
        PROVE  \E t \in p.at - RunTimeout .. p.at :
                   t >= 0 /\ InWindow(t) /\ t - created[p.item] <= MaxAge
    <3>1. p.item \in current /\ p.at = now
      BY <2>2
    <3>2. Timely(p.item) /\ now <= seen + RunTimeout
      BY <2>1, <3>1 DEF InTime
    <3>3. seen \in p.at - RunTimeout .. p.at /\ seen >= 0
      BY <1>0, <3>1, <3>2
    <3>4. QED
      BY <3>2, <3>3 DEF Timely
  <2>3. SentInTime'
    BY <2>1, <2>2 DEF InTime, SentInTime, InWindow
  <2>4. \A p \in phone' : p.item \in known'
    BY <1>0, <2>1 DEF InTime
  <2>5. QED
    BY <2>1, <2>3, <2>4 DEF InTime, Timely, InWindow
<1>8. CASE SendOk \/ SendFails
  <2>1. /\ pc # "idle" /\ pc' = "push" /\ toPush' \subseteq toPush
        /\ UNCHANGED <<now, known, created, seen, batch, phone>>
    BY <1>8 DEF SendOk, SendFails, After
  <2>2. QED
    BY <2>1, KeepInTime
<1>9. CASE Done
  BY <1>9, KeepInTime DEF Done
<1>10. CASE Expire
  BY <1>10, KeepInTime DEF Expire
<1>11. CASE Crash
  BY <1>11, KeepInTime DEF Crash
<1>12. CASE Tick
  <2>1. /\ now' = now + 1 /\ (pc # "idle" => now < seen + RunTimeout)
        /\ UNCHANGED <<known, created, pc, seen, batch, toPush, current, phone>>
    BY <1>12 DEF Tick
  <2>2. SentInTime'
    BY <2>1 DEF InTime, SentInTime, InWindow
  <2>3. QED
    BY <1>0, <2>1, <2>2 DEF InTime, Timely, InWindow
<1>13. CASE UNCHANGED vars
  <2>1. UNCHANGED <<now, known, created, pc, seen, batch, toPush, current, phone>>
    BY <1>13 DEF vars
  <2>2. SentInTime'
    BY <2>1 DEF InTime, SentInTime, InWindow
  <2>3. QED
    BY <2>1, <2>2 DEF InTime, Timely, InWindow
<1>14. QED
  BY <1>1, <1>2, <1>3, <1>4, <1>5, <1>6, <1>7, <1>8, <1>9, <1>10, <1>11, <1>12, <1>13
  DEF Next

\* An alert on the phone was fresh and within the hours of the day no longer than a job's
\* timeout ago, whatever else was pushed, failed or was held before it.
THEOREM PushedInTime == Spec => []SentInTime
<1>1. Init => InTime
  BY DEF Init, InTime, SentInTime
<1>2. IInv /\ InTime /\ [Next]_vars => InTime'
  BY NextInTime
<1>3. InTime => SentInTime
  BY DEF InTime
<1>4. QED
  BY Inductive, <1>1, <1>2, <1>3, PTL DEF Spec
=============================================================================
