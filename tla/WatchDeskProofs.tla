--------------------------- MODULE WatchDeskProofs ---------------------------
(***************************************************************************)
(* Proofs about WatchDesk, for every set of shifts and workers and every   *)
(* value of the times and bounds.                                          *)
(***************************************************************************)
EXTENDS WatchDesk, FiniteSetTheorems, SequenceTheorems, TLAPS

-----------------------------------------------------------------------------
(* The inductive invariant.                                                *)

\* Where a worker works on a shift; from markfailed it only writes the row.
ShiftPc == {"mark", "unload", "body", "markend", "markfailed"}

\* Where a worker is on its way to start the desks of a shift.
BeforeBody == {"claimed", "acquire", "mark", "unload"}

\* A job is tried once, and the job of a shift is queued under its key.
JobShape ==
    \A i \in DOMAIN jobs :
       /\ jobs[i].max = 1
       /\ jobs[i].status # "queued" => jobs[i].attempts >= 1
       /\ jobs[i].kind = "shift" => /\ jobs[i].subject \in Shifts
                                    /\ jobs[i].key = <<"shift", jobs[i].subject>>

\* The unique index on dedupe_key.
UniqueKeys ==
    \A i, k \in DOMAIN jobs : jobs[i].key = jobs[k].key /\ jobs[i].key # NoKey => i = k

WorkerShape ==
    \A w \in Workers :
       /\ worker[w].pc \notin {"idle", "gone"} => worker[w].job \in DOMAIN jobs
       /\ worker[w].pc \in ShiftPc => JobOf(w).kind = "shift"

\* A worker that holds a job holds a running one, and it alone.
OneHolder ==
    \A v, w \in Workers :
       /\ worker[w].pc \in Holding => JobOf(w).status = "running"
       /\ /\ worker[v].pc \in Holding /\ worker[w].pc \in Holding
          /\ worker[v].job = worker[w].job
          => v = w

\* Once the desks of a shift started, its job left the queue and no worker is
\* on its way to start them again.
StartedOnce ==
    \A s \in Shifts :
       \/ bodies[s] = 0
       \/ /\ bodies[s] = 1
          /\ \E i \in DOMAIN jobs :
                /\ jobs[i].kind = "shift" /\ jobs[i].subject = s
                /\ jobs[i].status # "queued"
                /\ \A w \in Workers : worker[w].pc \in BeforeBody => worker[w].job # i

IInv == TypeOK /\ JobShape /\ UniqueKeys /\ WorkerShape /\ OneHolder /\ StartedOnce

-----------------------------------------------------------------------------

\* An empty database and a process that has not been started satisfy it.
LEMMA InitIInv == Init => IInv
<1> USE ShiftAssumption, WorkerAssumption, TimeAssumption, BoundAssumption
<1> SUFFICES ASSUME Init PROVE IInv
  OBVIOUS
<1>1. jobs = <<>> /\ DOMAIN jobs = {} /\ DOMAIN runs = {}
  BY DEF Init
<1>2. TypeOK
  <2>1. worker \in [Workers -> WorkerRow]
    BY DEF Init, Gone, Idle, WorkerRow
  <2>2. jobs \in Seq(JobRow) /\ runs \in Seq({"none", "running", "ok", "failed"})
    BY DEF Init
  <2>3. planner \in [pc : {"sleep", "dispatch", "triage", "scans"}, seen : -1 .. Horizon]
    BY DEF Init
  <2>4. shift \in [Shifts -> ShiftStatus] /\ bodies \in [Shifts -> Nat]
    BY DEF Init, ShiftStatus
  <2> QED
    BY <2>1, <2>2, <2>3, <2>4 DEF Init, TypeOK
<1>3. JobShape /\ UniqueKeys /\ StartedOnce
  BY <1>1 DEF Init, JobShape, UniqueKeys, StartedOnce
<1>4. WorkerShape /\ OneHolder
  BY DEF Init, WorkerShape, OneHolder, Gone, Idle, ShiftPc, Holding, Trying
<1> QED
  BY <1>2, <1>3, <1>4 DEF IInv

-----------------------------------------------------------------------------
(* The operations on the jobs table.                                       *)

\* The columns of a row that no operation changes.
SameJob(r, q) ==
    r.key = q.key /\ r.kind = q.kind /\ r.subject = q.subject /\ r.max = q.max

\* A claim changes the status and the attempts of one row and nothing else.
LEMMA ClaimRow ==
    ASSUME NEW table \in Seq(JobRow), NEW i \in DOMAIN table
    PROVE  /\ Claim(table, i) \in Seq(JobRow) /\ Len(Claim(table, i)) = Len(table)
           /\ DOMAIN Claim(table, i) = DOMAIN table
           /\ \A k \in DOMAIN table \ {i} : Claim(table, i)[k] = table[k]
           /\ SameJob(Claim(table, i)[i], table[i])
           /\ Claim(table, i)[i].status = "running" /\ Claim(table, i)[i].attempts >= 1
<1> DEFINE row == table[i]
           r1 == [row EXCEPT !.status = "running"]
           r2 == [r1 EXCEPT !.attempts = row.attempts + 1]
<1>1. row \in JobRow
  OBVIOUS
<1>2. r1 \in JobRow /\ row.attempts + 1 \in Nat
  <2>1. "running" \in JobStatus
    BY DEF JobStatus
  <2> HIDE DEF row
  <2>2. r1 \in JobRow
    BY <1>1, <2>1 DEF JobRow
  <2>3. row.attempts + 1 \in Nat
    BY <1>1 DEF JobRow
  <2> QED
    BY <2>2, <2>3
<1>3. r2 \in JobRow
  <2> HIDE DEF r1, row
  <2> QED BY <1>2 DEF JobRow
<1>4. Claim(table, i) = [table EXCEPT ![i] = r2]
  BY DEF Claim
<1>5. SameJob(r2, row) /\ r2.status = "running" /\ r2.attempts >= 1
  BY <1>1, <1>2 DEF SameJob, JobRow
<1> HIDE DEF r2
<1>6. Claim(table, i) \in Seq(JobRow) /\ Len(Claim(table, i)) = Len(table)
  BY <1>3, <1>4
<1>7. \A k \in DOMAIN table \ {i} : Claim(table, i)[k] = table[k]
  BY <1>4
<1> QED
  BY <1>4, <1>5, <1>6, <1>7

\* The outcome of a job that is tried once is final and changes no other row.
LEMMA FinishRow ==
    ASSUME NEW table \in Seq(JobRow), NEW i \in DOMAIN table, NEW outcome \in {"ok", "failed"},
           NEW t \in Nat, table[i].max = 1, table[i].attempts >= 1
    PROVE  /\ Finish(table, i, outcome, t, 1) \in Seq(JobRow)
           /\ Len(Finish(table, i, outcome, t, 1)) = Len(table)
           /\ DOMAIN Finish(table, i, outcome, t, 1) = DOMAIN table
           /\ \A k \in DOMAIN table \ {i} : Finish(table, i, outcome, t, 1)[k] = table[k]
           /\ SameJob(Finish(table, i, outcome, t, 1)[i], table[i])
           /\ Finish(table, i, outcome, t, 1)[i].status = outcome
           /\ Finish(table, i, outcome, t, 1)[i].attempts >= 1
<1> DEFINE row == [table[i] EXCEPT !.status = outcome]
<1>1. table[i] \in JobRow
  OBVIOUS
<1>2. row \in JobRow /\ SameJob(row, table[i]) /\ row.status = outcome /\ row.attempts >= 1
  BY <1>1 DEF JobRow, JobStatus, SameJob
<1>3. ~(table[i].attempts < table[i].max)
  BY <1>1 DEF JobRow
<1>4. Finish(table, i, outcome, t, 1) = [table EXCEPT ![i] = row]
  BY <1>3 DEF Finish
<1> HIDE DEF row
<1> QED
  BY <1>2, <1>4

\* A restart fails the running jobs and changes no other row.
LEMMA ReleaseRows ==
    ASSUME NEW table \in Seq(JobRow)
    PROVE  /\ ReleaseStale(table) \in Seq(JobRow)
           /\ Len(ReleaseStale(table)) = Len(table)
           /\ DOMAIN ReleaseStale(table) = DOMAIN table
           /\ \A k \in DOMAIN table :
                 \/ ReleaseStale(table)[k] = table[k]
                 \/ /\ table[k].status = "running"
                    /\ SameJob(ReleaseStale(table)[k], table[k])
                    /\ ReleaseStale(table)[k].status = "failed"
                    /\ ReleaseStale(table)[k].attempts = table[k].attempts
<1>1. \A k \in DOMAIN table : table[k] \in JobRow
  OBVIOUS
<1> DEFINE row(k) == [table[k] EXCEPT !.status = "failed"]
<1>2. \A k \in DOMAIN table :
         /\ row(k) \in JobRow /\ SameJob(row(k), table[k])
         /\ row(k).status = "failed" /\ row(k).attempts = table[k].attempts
  BY <1>1 DEF JobRow, JobStatus, SameJob
<1>3. ReleaseStale(table) =
         [k \in 1 .. Len(table) |-> IF table[k].status = "running" THEN row(k) ELSE table[k]]
  BY DEF ReleaseStale
<1> HIDE DEF row
<1>4. ReleaseStale(table) \in [1 .. Len(table) -> JobRow]
  BY <1>1, <1>2, <1>3
<1>5. ReleaseStale(table) \in Seq(JobRow) /\ Len(ReleaseStale(table)) = Len(table)
  BY <1>4
<1> QED
  BY <1>2, <1>3, <1>5

\* An insert keeps every row at its place, with new rows after them.
LEMMA InsertRows ==
    ASSUME NEW table \in Seq(JobRow), NEW new \in Seq(JobRow)
    PROVE  /\ table \o new \in Seq(JobRow)
           /\ DOMAIN table = 1 .. Len(table)
           /\ DOMAIN (table \o new) = 1 .. (Len(table) + Len(new))
           /\ \A k \in DOMAIN table : (table \o new)[k] = table[k]
           /\ \A k \in DOMAIN (table \o new) \ DOMAIN table :
                 /\ k - Len(table) \in DOMAIN new
                 /\ (table \o new)[k] = new[k - Len(table)]
  OBVIOUS

\* The orders in which a set of shifts can be queued.
LEMMA SetToSeqsType ==
    ASSUME NEW S \in SUBSET Shifts, NEW order \in SetToSeqs(S)
    PROVE  /\ order \in Seq(S)
           /\ \A i, k \in DOMAIN order : order[i] = order[k] => i = k
<1>1. Cardinality(S) \in Nat
  BY ShiftAssumption, FS_Subset, FS_CardinalityType
<1> QED
  BY <1>1 DEF SetToSeqs

-----------------------------------------------------------------------------
(* What the planner and the API put into the jobs table.                   *)

\* Rows that may be inserted: queued, tried once, a shift's under its key, and
\* none under a key that is in use.
FreshRows(new) ==
    \A k \in DOMAIN new :
       /\ new[k].status = "queued" /\ new[k].max = 1
       /\ new[k].kind = "shift" => /\ new[k].subject \in Shifts
                                   /\ new[k].key = <<"shift", new[k].subject>>
       /\ ~Taken(jobs, new[k].key)
       /\ new[k].key # NoKey => \A i \in DOMAIN new : new[i].key = new[k].key => i = k

\* Whatever the planner or the API does, it inserts such rows and no others: the
\* ON CONFLICT clause of enqueue and the order of the due shifts see to it.
LEMMA InsertedRows ==
    ASSUME IInv, PlannerStep \/ PlannerFails \/ SendChat
    PROVE  \/ UNCHANGED <<jobs, runs>>
           \/ \E new \in Seq(JobRow) : FreshRows(new) /\ Insert(new)
<1> USE ShiftAssumption, WorkerAssumption
<1>1. TypeOK /\ jobs \in Seq(JobRow) /\ now \in Nat /\ planner.seen \in Int
  BY DEF IInv, TypeOK
<1>2. ASSUME NEW job \in JobRow, job.status = "queued", job.max = 1, job.kind # "shift",
             EnqueueJob(job)
      PROVE  \/ UNCHANGED <<jobs, runs>>
             \/ \E new \in Seq(JobRow) : FreshRows(new) /\ Insert(new)
  <2>1. <<job>> \in Seq(JobRow) /\ DOMAIN <<job>> = {1} /\ <<job>>[1] = job
    OBVIOUS
  <2>2. CASE Taken(jobs, job.key)
    BY <1>2, <2>2 DEF EnqueueJob
  <2>3. CASE ~Taken(jobs, job.key)
    <3>1. Insert(<<job>>)
      BY <1>2, <2>3 DEF EnqueueJob
    <3>2. FreshRows(<<job>>)
      BY <1>2, <2>1, <2>3 DEF FreshRows
    <3> QED
      BY <2>1, <3>1, <3>2
  <2> QED
    BY <2>2, <2>3
<1>3. CASE PlanShifts \/ PlannerFails
  BY <1>3 DEF PlanShifts, PlannerFails, tables
<1>4. CASE DispatchShifts
  <2> DEFINE due == {s \in Shifts : shift[s] = "scheduled" /\ At[s] <= planner.seen}
             stale == {s \in due : planner.seen - At[s] > Grace}
             fresh == {s \in due \ stale : ~Taken(jobs, ShiftJob(s).key)}
  <2>1. PICK order \in SetToSeqs(fresh) : Insert([i \in DOMAIN order |-> ShiftJob(order[i])])
    BY <1>4 DEF DispatchShifts
  <2>2. /\ order \in Seq(fresh)
        /\ \A i, k \in DOMAIN order : order[i] = order[k] => i = k
    BY <2>1, SetToSeqsType
  <2>3. DOMAIN order = 1 .. Len(order) /\ \A i \in DOMAIN order : order[i] \in fresh
    BY <2>2
  <2>4. \A s \in fresh : s \in Shifts /\ ~Taken(jobs, ShiftJob(s).key)
    OBVIOUS
  <2> HIDE DEF fresh
  <2> DEFINE new == [i \in DOMAIN order |-> ShiftJob(order[i])]
  <2>5. \A s \in Shifts : /\ ShiftJob(s) \in JobRow /\ ShiftJob(s).kind = "shift"
                          /\ ShiftJob(s).status = "queued" /\ ShiftJob(s).max = 1
                          /\ ShiftJob(s).subject = s /\ ShiftJob(s).key = <<"shift", s>>
    BY <1>1 DEF ShiftJob, Queued, JobRow, Keys, JobStatus
  <2>6. new \in Seq(JobRow)
    <3>1. new \in [1 .. Len(order) -> JobRow]
      BY <2>3, <2>4, <2>5
    <3> QED
      BY <2>2, <3>1
  <2>7. DOMAIN new = DOMAIN order /\ \A k \in DOMAIN order : new[k] = ShiftJob(order[k])
    OBVIOUS
  <2>8. Insert(new)
    BY <2>1
  <2> HIDE DEF new
  <2>9. \A k, i \in DOMAIN new : new[i].key = new[k].key => i = k
    BY <2>2, <2>3, <2>4, <2>5, <2>7
  <2>10. FreshRows(new)
    BY <2>3, <2>4, <2>5, <2>7, <2>9 DEF FreshRows
  <2> QED
    BY <2>6, <2>8, <2>10
<1>5. CASE EnqueueTriage
  <2> DEFINE job == Queued(<<"triage", Slot(planner.seen, TriageEvery)>>, "triage", None, 1, now)
  <2>1. job \in JobRow /\ job.status = "queued" /\ job.max = 1 /\ job.kind = "triage"
    BY <1>1, TimeAssumption DEF Queued, JobRow, Keys, JobStatus, Slot
  <2>2. EnqueueJob(job)
    BY <1>5 DEF EnqueueTriage
  <2> HIDE DEF job
  <2> QED
    BY <1>2, <2>1, <2>2
<1>6. CASE EnqueueScans
  <2> DEFINE job == Queued(<<"scan", Slot(planner.seen, ScanEvery)>>, "scan", None, 1, now)
  <2>1. job \in JobRow /\ job.status = "queued" /\ job.max = 1 /\ job.kind = "scan"
    BY <1>1, TimeAssumption DEF Queued, JobRow, Keys, JobStatus, Slot
  <2>2. EnqueueJob(job)
    BY <1>6 DEF EnqueueScans
  <2> HIDE DEF job
  <2> QED
    BY <1>2, <2>1, <2>2
<1>7. CASE SendChat
  <2> DEFINE job == Queued(NoKey, "chat", None, 1, now)
  <2>1. job \in JobRow /\ job.status = "queued" /\ job.max = 1 /\ job.kind = "chat" /\ job.key = NoKey
    BY <1>1 DEF Queued, JobRow, Keys, JobStatus
  <2>2. EnqueueJob(job)
    BY <1>7, <2>1 DEF SendChat, EnqueueJob, Taken
  <2> HIDE DEF job
  <2> QED
    BY <1>2, <2>1, <2>2
<1> QED
  BY <1>3, <1>4, <1>5, <1>6, <1>7 DEF PlannerStep

-----------------------------------------------------------------------------
(* Types.                                                                  *)

\* Every step keeps the types: the strengthening is needed for the worker's job
\* being a row, and a row of the kind its pc says.
LEMMA TypeNext == ASSUME IInv, [Next]_vars PROVE TypeOK'
<1> USE ShiftAssumption, WorkerAssumption, TimeAssumption, BoundAssumption
<1> DEFINE RunStatus == {"none", "running", "ok", "failed"}
           PlannerRow == [pc : {"sleep", "dispatch", "triage", "scans"}, seen : -1 .. Horizon]
           Pcs == Trying \cup {"idle", "claimed", "finish", "markfailed", "gone"}
<1>0. TypeOK /\ JobShape /\ WorkerShape /\ OneHolder
  BY DEF IInv
<1>1. \A w \in Workers :
         /\ worker[w] \in WorkerRow
         /\ worker[w].pc \notin {"idle", "gone"} =>
               worker[w].job \in DOMAIN jobs /\ JobOf(w) \in JobRow
         /\ worker[w].pc \in ShiftPc => IsShift(w) /\ ShiftOf(w) \in Shifts
  BY <1>0 DEF TypeOK, WorkerShape, JobShape, JobOf, ShiftOf, IsShift, ShiftPc
<1>2. now \in Nat /\ now \in Int /\ planner.seen \in Int
  BY <1>0 DEF TypeOK
<1>3. ASSUME NEW new \in Seq(JobRow), Insert(new)
      PROVE  /\ jobs' \in Seq(JobRow)
             /\ runs' \in Seq(RunStatus) /\ Len(runs') = Len(jobs')
  <2> DEFINE none == [i \in DOMAIN new |-> "none"]
  <2>1. none \in Seq(RunStatus) /\ Len(none) = Len(new)
    OBVIOUS
  <2> HIDE DEF none
  <2>2. jobs' = jobs \o new /\ runs' = runs \o none
    BY <1>3 DEF Insert, none
  <2>3. jobs \in Seq(JobRow) /\ runs \in Seq(RunStatus) /\ Len(runs) = Len(jobs)
    BY <1>0 DEF TypeOK
  <2> HIDE DEF RunStatus
  <2>4. jobs' \in Seq(JobRow) /\ Len(jobs') = Len(jobs) + Len(new)
    BY <2>2, <2>3
  <2>5. runs \o none \in Seq(RunStatus) /\ Len(runs \o none) = Len(runs) + Len(none)
    BY <2>1, <2>3, ConcatProperties
  <2> QED
    BY <2>1, <2>2, <2>3, <2>4, <2>5
<1>4. ASSUME NEW i \in DOMAIN jobs, NEW r \in RunStatus
      PROVE  [runs EXCEPT ![i] = r] \in Seq(RunStatus) /\ Len([runs EXCEPT ![i] = r]) = Len(runs)
  BY <1>0, <1>4 DEF TypeOK
<1>5. ASSUME NEW s \in Shifts, NEW r \in ShiftStatus
      PROVE  [shift EXCEPT ![s] = r] \in [Shifts -> ShiftStatus]
  BY <1>0, <1>5 DEF TypeOK
<1>6. ASSUME NEW w \in Workers, Abandon(w)
      PROVE  /\ shift' \in [Shifts -> ShiftStatus]
             /\ late' \subseteq Shifts \X {"running", "ok", "failed"}
  <2>1. Writing(w) \subseteq Shifts \X {"running", "ok", "failed"}
    BY <1>1 DEF Writing, ShiftPc, EndStatus
  <2>2. CASE UNCHANGED shift
    BY <1>0, <1>6, <2>1, <2>2 DEF Abandon, TypeOK
  <2>3. CASE UNCHANGED late
    <3>1. ASSUME NEW l \in Writing(w)
          PROVE (CHOOSE m \in Writing(w) : TRUE)[2] \in ShiftStatus
      BY <2>1 DEF ShiftStatus
    <3> QED
      BY <1>0, <1>6, <2>3, <3>1 DEF Abandon, TypeOK
  <2> QED
    BY <1>6, <2>2, <2>3 DEF Abandon
<1>7. ASSUME NEW w \in Workers, NEW outcome \in {"ok", "failed"},
             worker[w].pc \in Holding, Close(w, outcome)
      PROVE  /\ jobs' \in Seq(JobRow) /\ Len(jobs') = Len(jobs)
             /\ runs' \in Seq(RunStatus) /\ Len(runs') = Len(runs)
  <2> DEFINE i == worker[w].job
  <2>1. i \in DOMAIN jobs /\ jobs[i].max = 1 /\ jobs[i].attempts >= 1
    BY <1>0, <1>1, <1>7 DEF Holding, Trying, OneHolder, JobShape, JobOf
  <2>2. jobs \in Seq(JobRow) /\ jobs' = Finish(jobs, i, outcome, now, 1)
    BY <1>0, <1>7 DEF Close, TypeOK
  <2> HIDE DEF i
  <2>3. jobs' \in Seq(JobRow) /\ Len(jobs') = Len(jobs)
    <3>1. /\ Finish(jobs, i, outcome, now, 1) \in Seq(JobRow)
          /\ Len(Finish(jobs, i, outcome, now, 1)) = Len(jobs)
      BY <1>2, <2>1, <2>2, FinishRow
    <3> QED
      BY <2>2, <3>1
  <2>4. outcome \in RunStatus
    OBVIOUS
  <2> QED
    BY <1>4, <1>7, <2>1, <2>3, <2>4 DEF Close, i
<1>8. ASSUME NEW w \in Workers, NEW r \in WorkerRow
      PROVE  [worker EXCEPT ![w] = r] \in [Workers -> WorkerRow]
  BY <1>0, <1>8 DEF TypeOK
<1>9. Idle \in WorkerRow /\ Gone \in WorkerRow
  BY DEF Idle, Gone, WorkerRow
<1>10. ASSUME NEW w \in Workers, NEW p \in Pcs
       PROVE  [worker[w] EXCEPT !.pc = p] \in WorkerRow
  <2> DEFINE row == worker[w]
  <2>1. row \in WorkerRow
    BY <1>1
  <2> HIDE DEF row
  <2>2. [row EXCEPT !.pc = p] \in WorkerRow
    BY <2>1 DEF WorkerRow
  <2> QED
    BY <2>2 DEF row
<1>11. ASSUME NEW w \in Workers, NEW p \in Pcs, NEW r \in {"none", "ok", "error", "raised"},
              worker' = [worker EXCEPT ![w].pc = p, ![w].result = r]
       PROVE  worker' \in [Workers -> WorkerRow]
  <2> DEFINE new == [worker[w] EXCEPT !.pc = p]
  <2>1. new \in WorkerRow
    BY <1>10
  <2>2. worker' = [worker EXCEPT ![w] = [new EXCEPT !.result = r]]
    BY <1>0, <1>11 DEF TypeOK
  <2> HIDE DEF new
  <2>3. [new EXCEPT !.result = r] \in WorkerRow
    BY <2>1 DEF WorkerRow
  <2> QED
    BY <1>8, <2>2, <2>3
<1>12. ASSUME NEW w \in Workers, NEW p \in Pcs, Goto(w, p)
       PROVE  worker' \in [Workers -> WorkerRow]
  <2>1. worker' = [worker EXCEPT ![w] = [worker[w] EXCEPT !.pc = p]]
    BY <1>12 DEF Goto
  <2> QED
    BY <1>8, <1>10, <2>1
<1>13. ASSUME PlannerStep \/ PlannerFails \/ SendChat
       PROVE  /\ jobs' \in Seq(JobRow)
              /\ runs' \in Seq(RunStatus) /\ Len(runs') = Len(jobs')
  <2>1. CASE UNCHANGED <<jobs, runs>>
    BY <1>0, <2>1 DEF TypeOK
  <2>2. CASE \E new \in Seq(JobRow) : FreshRows(new) /\ Insert(new)
    BY <1>3, <2>2
  <2> QED
    BY <1>13, <2>1, <2>2, InsertedRows
<1>14. CASE PlannerStep
  <2>1. planner' \in PlannerRow
    <3>1. CASE PlanShifts
      BY <1>0, <3>1 DEF PlanShifts, TypeOK
    <3>2. ASSUME NEW pc \in {"sleep", "triage", "scans"}, PlannerTo(pc) PROVE planner' \in PlannerRow
      BY <1>0, <3>2 DEF PlannerTo, TypeOK
    <3> QED
      BY <1>14, <3>1, <3>2 DEF PlannerStep, DispatchShifts, EnqueueTriage, EnqueueScans
  <2>2. shift' \in [Shifts -> ShiftStatus]
    BY <1>0, <1>14 DEF PlannerStep, PlanShifts, DispatchShifts, EnqueueTriage, EnqueueScans,
       TypeOK, ShiftStatus
  <2>3. through' \in Int
    BY <1>0, <1>2, <1>14 DEF PlannerStep, PlanShifts, DispatchShifts, EnqueueTriage, EnqueueScans,
       TypeOK, Day
  <2>4. UNCHANGED <<proc, now, worker, gpu, late, faults, bodies, landed>>
    BY <1>14 DEF PlannerStep, PlanShifts, DispatchShifts, EnqueueTriage, EnqueueScans
  <2> QED
    BY <1>0, <1>13, <1>14, <2>1, <2>2, <2>3, <2>4 DEF TypeOK
<1>15. CASE PlannerFails \/ SendChat
  <2>1. planner' \in PlannerRow /\ faults' \in 0 .. MaxFaults
    <3>1. CASE PlannerFails
      <4>1. planner' \in PlannerRow
        BY <1>0, <3>1 DEF PlannerFails, PlannerTo, TypeOK
      <4>2. faults' \in 0 .. MaxFaults
        BY <1>0, <3>1 DEF PlannerFails, TypeOK
      <4> QED
        BY <4>1, <4>2
    <3>2. CASE SendChat
      BY <1>0, <3>2 DEF SendChat, TypeOK
    <3> QED
      BY <1>15, <3>1, <3>2
  <2>2. UNCHANGED <<proc, now, through, shift, worker, gpu, late, bodies, landed>>
    BY <1>15 DEF PlannerFails, SendChat, tables
  <2> QED
    BY <1>0, <1>13, <1>15, <2>1, <2>2 DEF TypeOK
<1>16. ASSUME NEW w \in Workers, WorkerStep(w) PROVE TypeOK'
  <2>1. CASE ClaimJob(w)
    <3>1. PICK i \in Oldest(jobs, now) : /\ jobs' = Claim(jobs, i)
                                  /\ worker' = [worker EXCEPT ![w] = [pc |-> "claimed", job |-> i, deadline |-> 0, result |-> "none"]]
      BY <2>1 DEF ClaimJob
    <3>2. i \in DOMAIN jobs
      BY DEF Oldest, Claimable
    <3>3. [pc |-> "claimed", job |-> i, deadline |-> 0, result |-> "none"] \in WorkerRow
      BY <1>0, <3>2 DEF WorkerRow, TypeOK
    <3>4. jobs' \in Seq(JobRow) /\ Len(jobs') = Len(jobs)
      BY <1>0, <3>1, <3>2, ClaimRow DEF TypeOK
    <3> QED
      BY <1>0, <1>8, <2>1, <3>1, <3>3, <3>4 DEF ClaimJob, TypeOK
  <2>2. CASE StartRun(w)
    <3>1. worker[w].job \in DOMAIN jobs /\ JobOf(w) \in JobRow
      BY <1>1, <2>2 DEF StartRun, Running
    <3>2. Deadline(w) \in Nat
      BY <1>0, <1>2, <3>1 DEF Deadline, IsShift, ShiftOf, JobShape, JobOf
    <3>3. worker' \in [Workers -> WorkerRow]
      <4> DEFINE row == worker[w]
                 pc == IF JobOf(w).kind = "scan" THEN "work" ELSE "acquire"
                 new == [row EXCEPT !.pc = pc]
      <4>1. row \in WorkerRow /\ new \in WorkerRow
        BY <1>1 DEF WorkerRow, Trying
      <4>2. worker' = [worker EXCEPT ![w] = [new EXCEPT !.deadline = Deadline(w)]]
        BY <1>0, <2>2 DEF StartRun, TypeOK
      <4> HIDE DEF new
      <4>3. [new EXCEPT !.deadline = Deadline(w)] \in WorkerRow
        BY <3>2, <4>1 DEF WorkerRow
      <4> QED
        BY <1>8, <4>2, <4>3
    <3>4. runs' \in Seq(RunStatus) /\ Len(runs') = Len(runs)
      BY <1>4, <2>2, <3>1 DEF StartRun
    <3> QED
      BY <1>0, <2>2, <3>3, <3>4 DEF StartRun, TypeOK
  <2>3. CASE AcquireGpu(w)
    <3>1. worker' \in [Workers -> WorkerRow]
      BY <1>12, <2>3 DEF AcquireGpu, Trying
    <3> QED
      BY <1>0, <2>3, <3>1 DEF AcquireGpu, TypeOK, tables
  <2>4. CASE MarkRunning(w)
    <3>1. shift' \in [Shifts -> ShiftStatus]
      BY <1>1, <1>5, <2>4 DEF MarkRunning, Running, ShiftPc, ShiftStatus
    <3>2. worker' \in [Workers -> WorkerRow]
      BY <1>12, <2>4 DEF MarkRunning, Trying
    <3> QED
      BY <1>0, <2>4, <3>1, <3>2 DEF MarkRunning, TypeOK
  <2>5. CASE UnloadModels(w)
    <3>1. bodies' \in [Shifts -> Nat]
      BY <1>0, <1>1, <2>5 DEF UnloadModels, Running, ShiftPc, TypeOK
    <3>2. worker' \in [Workers -> WorkerRow]
      BY <1>12, <2>5 DEF UnloadModels, Trying
    <3> QED
      BY <1>0, <2>5, <3>1, <3>2 DEF UnloadModels, TypeOK, tables
  <2>6. CASE RunDesks(w)
    <3>1. PICK r \in {"ok", "error", "raised"} :
             worker' = [worker EXCEPT ![w].pc = "markend", ![w].result = r]
      BY <2>6 DEF RunDesks
    <3>2. worker' \in [Workers -> WorkerRow]
      BY <1>11, <3>1 DEF Trying
    <3> QED
      BY <1>0, <2>6, <3>2 DEF RunDesks, TypeOK, tables
  <2>7. ASSUME NEW r \in {"none", "ok", "error", "raised"}, Leave(w, r)
        PROVE  worker' \in [Workers -> WorkerRow] /\ gpu' \in Workers \cup {None}
    <3>1. worker' \in [Workers -> WorkerRow]
      BY <1>11, <2>7 DEF Leave
    <3> QED
      BY <1>0, <2>7, <3>1 DEF Leave, TypeOK
  <2>8. CASE MarkEnd(w)
    <3>1. shift' \in [Shifts -> ShiftStatus]
      BY <1>1, <1>5, <2>8 DEF MarkEnd, Running, ShiftPc, ShiftStatus, EndStatus
    <3>2. worker' \in [Workers -> WorkerRow] /\ gpu' \in Workers \cup {None}
      <4>1. worker[w].result \in {"none", "ok", "error", "raised"}
        BY <1>1 DEF WorkerRow
      <4> QED
        BY <2>7, <2>8, <4>1 DEF MarkEnd
    <3> QED
      BY <1>0, <2>8, <3>1, <3>2 DEF MarkEnd, TypeOK
  <2>9. CASE CheckShift(w)
    <3>1. worker' \in [Workers -> WorkerRow] /\ gpu' \in Workers \cup {None}
      <4>1. CASE Leave(w, "ok")
        BY <2>7, <4>1
      <4>2. CASE Goto(w, "work") /\ UNCHANGED gpu
        BY <1>0, <1>12, <4>2 DEF Trying, TypeOK
      <4> QED
        BY <2>9, <4>1, <4>2 DEF CheckShift
    <3> QED
      BY <1>0, <2>9, <3>1 DEF CheckShift, TypeOK, tables
  <2>10. CASE Work(w)
    <3>1. worker' \in [Workers -> WorkerRow] /\ gpu' \in Workers \cup {None}
      BY <2>7, <2>10 DEF Work
    <3> QED
      BY <1>0, <2>10, <3>1 DEF Work, TypeOK, tables
  <2>11. CASE Raise(w)
    <3>1. worker' \in [Workers -> WorkerRow] /\ gpu' \in Workers \cup {None}
      BY <2>7, <2>11 DEF Raise
    <3> QED
      BY <1>0, <2>11, <3>1 DEF Raise, TypeOK, tables
  <2>12. CASE Expire(w)
    <3>1. worker' \in [Workers -> WorkerRow] /\ gpu' \in Workers \cup {None}
      BY <2>7, <2>12 DEF Expire
    <3> QED
      BY <1>0, <1>6, <2>12, <3>1 DEF Expire, TypeOK
  <2>13. CASE FinishRun(w)
    <3>1. /\ jobs' \in Seq(JobRow) /\ Len(jobs') = Len(jobs)
          /\ runs' \in Seq(RunStatus) /\ Len(runs') = Len(runs)
      BY <1>7, <2>13 DEF FinishRun, Holding, EndStatus
    <3>2. worker' \in [Workers -> WorkerRow]
      BY <1>0, <1>1, <1>8, <1>9, <2>13 DEF FinishRun, WorkerRow
    <3> QED
      BY <1>0, <2>13, <3>1, <3>2 DEF FinishRun, TypeOK
  <2>14. CASE MarkFailed(w)
    <3>1. shift' \in [Shifts -> ShiftStatus]
      BY <1>1, <1>5, <2>14 DEF MarkFailed, ShiftPc, ShiftStatus
    <3> QED
      BY <1>0, <1>8, <1>9, <2>14, <3>1 DEF MarkFailed, TypeOK
  <2> QED
    BY <1>16, <2>1, <2>2, <2>3, <2>4, <2>5, <2>6, <2>8, <2>9, <2>10, <2>11, <2>12, <2>13, <2>14
    DEF WorkerStep
<1>17. CASE LateWrite
  <2>1. PICK l \in late : /\ late' = late \ {l}
                         /\ shift' = [shift EXCEPT ![l[1]] = l[2]]
    BY <1>17 DEF LateWrite
  <2>2. l[1] \in Shifts /\ l[2] \in ShiftStatus
    BY <1>0 DEF TypeOK, ShiftStatus
  <2> QED
    BY <1>0, <1>5, <1>17, <2>1, <2>2 DEF LateWrite, TypeOK
<1>18. CASE ProcessStep
  <2>1. CASE Shutdown
    BY <1>0, <2>1 DEF Shutdown, TypeOK, Fault, tables
  <2>2. CASE Exit
    BY <1>0, <1>9, <2>2 DEF Exit, Down, TypeOK, tables
  <2>3. CASE Kill
    BY <1>0, <1>9, <2>3 DEF Kill, Down, TypeOK, Fault, tables
  <2>4. CASE Restart
    <3>1. jobs' \in Seq(JobRow) /\ Len(jobs') = Len(jobs)
      BY <1>0, <2>4, ReleaseRows DEF Restart, TypeOK
    <3>2. runs' \in Seq(RunStatus) /\ Len(runs') = Len(runs)
      <4>1. \A i \in DOMAIN runs : (IF runs[i] = "running" THEN "failed" ELSE runs[i]) \in RunStatus
        BY <1>0 DEF TypeOK
      <4>2. runs' \in [1 .. Len(runs) -> RunStatus]
        BY <1>0, <2>4, <4>1 DEF Restart, TypeOK
      <4>3. Len(runs) \in Nat
        BY <1>0 DEF TypeOK
      <4> HIDE DEF RunStatus
      <4> QED
        BY <4>2, <4>3
    <3>3. shift' \in [Shifts -> ShiftStatus]
      BY <1>0, <2>4 DEF Restart, TypeOK, ShiftStatus
    <3> QED
      BY <1>0, <1>9, <2>4, <3>1, <3>2, <3>3 DEF Restart, TypeOK
  <2>5. ASSUME NEW w \in Workers, WorkerDies(w) PROVE TypeOK'
    BY <1>0, <1>8, <1>9, <2>5 DEF WorkerDies, TypeOK, Fault, tables
  <2>6. ASSUME NEW w \in Workers, CancelOutside(w) PROVE TypeOK'
    <3>1. runs' \in Seq(RunStatus) /\ Len(runs') = Len(runs)
      <4>1. CASE UNCHANGED runs
        BY <1>0, <4>1 DEF TypeOK
      <4>2. CASE worker[w].pc = "claimed" /\ runs' = [runs EXCEPT ![worker[w].job] = "running"]
        BY <1>1, <1>4, <4>2
      <4> QED
        BY <2>6, <4>1, <4>2 DEF CancelOutside
    <3> QED
      BY <1>0, <1>8, <1>9, <2>6, <3>1 DEF CancelOutside, TypeOK
  <2>7. ASSUME NEW w \in Workers, CancelInside(w) PROVE TypeOK'
    <3>1. /\ jobs' \in Seq(JobRow) /\ Len(jobs') = Len(jobs)
          /\ runs' \in Seq(RunStatus) /\ Len(runs') = Len(runs)
      BY <1>7, <2>7 DEF CancelInside, Holding
    <3>2. worker' \in [Workers -> WorkerRow]
      BY <1>0, <1>1, <1>8, <1>9, <2>7 DEF CancelInside, WorkerRow
    <3> QED
      BY <1>0, <1>6, <2>7, <3>1, <3>2 DEF CancelInside, TypeOK
  <2> QED
    BY <1>18, <2>1, <2>2, <2>3, <2>4, <2>5, <2>6, <2>7 DEF ProcessStep
<1>19. CASE Tick
  BY <1>0, <1>19 DEF Tick, TypeOK, tables
<1>20. CASE UNCHANGED vars
  BY <1>0, <1>20 DEF TypeOK, vars, tables
<1> QED
  BY <1>13, <1>14, <1>15, <1>16, <1>17, <1>18, <1>19, <1>20 DEF Next

-----------------------------------------------------------------------------
(* The jobs table, whatever step is taken.                                 *)

\* Rows are never removed and stay the same job, no job returns to the queue, and
\* what is inserted is queued, tried once and not queued under a used key.
JobsGrow ==
    /\ DOMAIN jobs \subseteq DOMAIN jobs'
    /\ \A k \in DOMAIN jobs :
          /\ SameJob(jobs'[k], jobs[k])
          /\ jobs[k].status # "queued" => jobs'[k].status # "queued"
          /\ jobs'[k].status # "queued" => jobs'[k].attempts >= 1
    /\ \A k \in DOMAIN jobs' \ DOMAIN jobs :
          /\ jobs'[k].status = "queued" /\ jobs'[k].max = 1
          /\ jobs'[k].kind = "shift" => /\ jobs'[k].subject \in Shifts
                                        /\ jobs'[k].key = <<"shift", jobs'[k].subject>>
          /\ jobs'[k].key # NoKey =>
                \A i \in DOMAIN jobs' : jobs'[i].key = jobs'[k].key => i = k

\* Every step lets the jobs table grow that way: an outcome and a restart come to
\* jobs that left the queue, and a claim is the only way out of it.
LEMMA JobsStep == ASSUME IInv, [Next]_vars PROVE JobsGrow
<1> USE ShiftAssumption, WorkerAssumption
<1>1. /\ TypeOK /\ JobShape /\ UniqueKeys /\ WorkerShape /\ OneHolder
      /\ jobs \in Seq(JobRow) /\ now \in Nat
  BY DEF IInv, TypeOK
<1>2. CASE UNCHANGED jobs
  BY <1>1, <1>2 DEF JobsGrow, SameJob, JobShape
<1>3. ASSUME NEW new \in Seq(JobRow), FreshRows(new), Insert(new)
      PROVE  JobsGrow
  <2>1. /\ jobs' = jobs \o new
        /\ DOMAIN jobs = 1 .. Len(jobs) /\ DOMAIN new = 1 .. Len(new)
        /\ DOMAIN jobs' = 1 .. (Len(jobs) + Len(new))
        /\ \A k \in DOMAIN jobs : jobs'[k] = jobs[k]
        /\ \A k \in DOMAIN jobs' \ DOMAIN jobs : /\ k - Len(jobs) \in DOMAIN new
                                                 /\ jobs'[k] = new[k - Len(jobs)]
    BY <1>1, <1>3, InsertRows DEF Insert
  <2>2. ASSUME NEW k \in DOMAIN jobs' \ DOMAIN jobs, jobs'[k].key # NoKey,
               NEW i \in DOMAIN jobs', jobs'[i].key = jobs'[k].key
        PROVE  i = k
    <3>1. k \in Int /\ i \in Int /\ Len(jobs) \in Nat
      BY <1>1, <2>1
    <3>2. ~Taken(jobs, jobs'[k].key)
      BY <1>3, <2>1 DEF FreshRows
    <3>3. i \notin DOMAIN jobs
      BY <2>1, <2>2, <3>2 DEF Taken
    <3>4. i - Len(jobs) = k - Len(jobs)
      BY <1>3, <2>1, <2>2, <3>3 DEF FreshRows
    <3> QED
      BY <3>1, <3>4
  <2> QED
    BY <1>1, <1>3, <2>1, <2>2 DEF JobsGrow, SameJob, JobShape, FreshRows
<1>4. ASSUME NEW w \in Workers, NEW outcome \in {"ok", "failed"},
             worker[w].pc \in Holding, Close(w, outcome)
      PROVE  JobsGrow
  <2> DEFINE i == worker[w].job
  <2>1. i \in DOMAIN jobs /\ jobs[i].max = 1 /\ jobs[i].attempts >= 1 /\ jobs[i].status # "queued"
    BY <1>1, <1>4 DEF Holding, Trying, OneHolder, JobShape, JobOf, WorkerShape
  <2>2. jobs' = Finish(jobs, i, outcome, now, 1)
    BY <1>4 DEF Close
  <2> HIDE DEF i
  <2>3. /\ DOMAIN jobs' = DOMAIN jobs /\ \A k \in DOMAIN jobs \ {i} : jobs'[k] = jobs[k]
        /\ SameJob(jobs'[i], jobs[i]) /\ jobs'[i].status = outcome /\ jobs'[i].attempts >= 1
    BY <1>1, <2>1, <2>2, FinishRow
  <2> QED
    BY <1>1, <2>1, <2>3 DEF JobsGrow, SameJob, JobShape
<1>5. CASE PlannerStep \/ PlannerFails \/ SendChat
  BY <1>2, <1>3, <1>5, InsertedRows
<1>6. ASSUME NEW w \in Workers, ClaimJob(w) PROVE JobsGrow
  <2>1. PICK i \in Oldest(jobs, now) : jobs' = Claim(jobs, i)
    BY <1>6 DEF ClaimJob
  <2>2. i \in DOMAIN jobs /\ jobs[i].status = "queued"
    BY DEF Oldest, Claimable
  <2>3. /\ DOMAIN jobs' = DOMAIN jobs /\ \A k \in DOMAIN jobs \ {i} : jobs'[k] = jobs[k]
        /\ SameJob(jobs'[i], jobs[i]) /\ jobs'[i].status = "running" /\ jobs'[i].attempts >= 1
    BY <1>1, <2>1, <2>2, ClaimRow
  <2> QED
    BY <1>1, <2>2, <2>3 DEF JobsGrow, SameJob, JobShape
<1>7. ASSUME NEW w \in Workers, FinishRun(w) PROVE JobsGrow
  BY <1>4, <1>7 DEF FinishRun, Holding, EndStatus
<1>8. ASSUME NEW w \in Workers, CancelInside(w) PROVE JobsGrow
  BY <1>4, <1>8 DEF CancelInside, Holding
<1>9. CASE Restart
  <2>1. /\ DOMAIN jobs' = DOMAIN jobs
        /\ \A k \in DOMAIN jobs :
              \/ jobs'[k] = jobs[k]
              \/ /\ jobs[k].status = "running" /\ SameJob(jobs'[k], jobs[k])
                 /\ jobs'[k].status = "failed" /\ jobs'[k].attempts = jobs[k].attempts
    BY <1>1, <1>9, ReleaseRows DEF Restart
  <2> QED
    BY <1>1, <2>1 DEF JobsGrow, SameJob, JobShape
<1>10. \/ UNCHANGED jobs \/ PlannerStep \/ PlannerFails \/ SendChat \/ Restart
       \/ \E w \in Workers : ClaimJob(w) \/ FinishRun(w) \/ CancelInside(w)
  <2>1. CASE LateWrite \/ Shutdown \/ Exit \/ Kill \/ Tick \/ UNCHANGED vars
    BY <2>1 DEF LateWrite, Shutdown, Exit, Kill, Tick, vars, tables
  <2>2. ASSUME NEW w \in Workers, WorkerStep(w), ~ClaimJob(w), ~FinishRun(w) PROVE UNCHANGED jobs
    BY <2>2 DEF WorkerStep, StartRun, AcquireGpu, MarkRunning, UnloadModels, RunDesks, MarkEnd,
        CheckShift, Work, Raise, Expire, MarkFailed, tables
  <2>3. ASSUME NEW w \in Workers, WorkerDies(w) \/ CancelOutside(w) PROVE UNCHANGED jobs
    BY <2>3 DEF WorkerDies, CancelOutside, tables
  <2> QED
    BY <2>1, <2>2, <2>3 DEF Next, ProcessStep
<1> QED
  BY <1>2, <1>5, <1>6, <1>7, <1>8, <1>9, <1>10

-----------------------------------------------------------------------------
(* The workers, whatever step is taken.                                    *)

\* A worker that left the try block by an exception: of a shift it only records the
\* failure any more.
Left(pc, result) == pc = "markfailed" \/ (pc = "finish" /\ result = "raised")

\* A worker that keeps its job comes no closer to the start of its desks than it
\* was, and while it holds the job nobody changes the job's status.
Kept(v) ==
    /\ worker[v].pc \notin {"idle", "gone"} /\ worker'[v].job = worker[v].job
    /\ worker'[v].pc \in BeforeBody => worker[v].pc \in BeforeBody
    /\ worker'[v].pc \in ShiftPc => IsShift(v)
    /\ worker'[v].pc \in Holding => /\ worker[v].pc \in Holding
                                    /\ jobs'[worker[v].job].status = "running"
    /\ Left(worker[v].pc, worker[v].result) => Left(worker'[v].pc, worker'[v].result)

Takes(v) ==
    /\ worker'[v].pc = "claimed"
    /\ worker'[v].job \in DOMAIN jobs /\ jobs[worker'[v].job].status = "queued"
    /\ jobs'[worker'[v].job].status = "running"
    /\ \A u \in Workers \ {v} : worker'[u] = worker[u]

WorkersMove ==
    \A v \in Workers : worker'[v].pc \in {"idle", "gone"} \/ Kept(v) \/ Takes(v)

Others(w) == \A v \in Workers \ {w} : worker'[v] = worker[v]

\* Every step moves the workers that way: a claim takes a job out of the queue, so
\* nobody held it, and only the holder of a job ends it while the process is up.
LEMMA WorkersStep == ASSUME IInv, [Next]_vars PROVE WorkersMove
<1>1. /\ TypeOK /\ JobShape /\ WorkerShape /\ OneHolder /\ jobs \in Seq(JobRow) /\ now \in Nat
      /\ worker \in [Workers -> WorkerRow]
  BY DEF IInv, TypeOK
<1>2. \A v \in Workers :
         /\ worker[v].pc \notin {"idle", "gone"} => worker[v].job \in DOMAIN jobs
         /\ worker[v].pc \in ShiftPc => IsShift(v)
         /\ worker[v].pc \in Holding => jobs[worker[v].job].status = "running"
  BY <1>1 DEF WorkerShape, OneHolder, JobOf, IsShift
<1>3. ASSUME NEW v \in Workers, worker'[v] = worker[v],
             worker[v].pc \in Holding => jobs'[worker[v].job].status = "running"
      PROVE  worker'[v].pc \in {"idle", "gone"} \/ Kept(v)
  BY <1>2, <1>3 DEF Kept
<1>4. CASE UNCHANGED <<worker, jobs>>
  BY <1>2, <1>3, <1>4 DEF WorkersMove
<1>5. ASSUME NEW w \in Workers, UNCHANGED jobs, Others(w),
             worker'[w].pc \in {"idle", "gone"} \/ Kept(w)
      PROVE  WorkersMove
  BY <1>2, <1>3, <1>5 DEF WorkersMove, Others
<1>6. ASSUME NEW w \in Workers, UNCHANGED jobs, Others(w),
             worker'[w].job = worker[w].job, worker[w].pc \notin {"idle", "gone"},
             worker'[w].pc \in BeforeBody => worker[w].pc \in BeforeBody,
             worker'[w].pc \in ShiftPc => IsShift(w),
             worker'[w].pc \in Holding => worker[w].pc \in Holding,
             worker[w].pc \notin {"finish", "markfailed"}
      PROVE  WorkersMove
  BY <1>2, <1>5, <1>6 DEF Kept, Left
<1>7. ASSUME NEW w \in Workers, NEW outcome \in {"ok", "failed"},
             worker[w].pc \in Holding, Close(w, outcome), Others(w),
             \/ worker'[w].pc \in {"idle", "gone"}
             \/ worker'[w].pc = "markfailed" /\ worker'[w].job = worker[w].job /\ IsShift(w)
      PROVE  WorkersMove
  <2> DEFINE i == worker[w].job
  <2>1. i \in DOMAIN jobs /\ jobs[i].max = 1 /\ jobs[i].attempts >= 1 /\ jobs[i].status = "running"
    BY <1>1, <1>2, <1>7 DEF Holding, Trying, JobShape
  <2>2. jobs' = Finish(jobs, i, outcome, now, 1)
    BY <1>7 DEF Close
  <2>3. \A k \in DOMAIN jobs \ {i} : jobs'[k] = jobs[k]
    <3> HIDE DEF i
    <3> QED BY <1>1, <2>1, <2>2, FinishRow
  <2>5. worker'[w].pc \in {"idle", "gone"} \/ Kept(w)
    BY <1>7 DEF Kept, Left, Holding, Trying, BeforeBody, ShiftPc
  <2>6. ASSUME NEW v \in Workers \ {w}, worker[v].pc \in Holding
        PROVE  jobs'[worker[v].job].status = "running"
    <3>1. worker[v].job # i
      BY <1>1, <1>7, <2>6 DEF OneHolder
    <3>2. worker[v].job \in DOMAIN jobs /\ jobs[worker[v].job].status = "running"
      BY <1>2, <2>6 DEF Holding, Trying
    <3> QED
      BY <2>3, <3>1, <3>2
  <2> QED
    BY <1>3, <1>7, <2>5, <2>6 DEF WorkersMove, Others
<1>8. CASE PlannerStep \/ PlannerFails \/ SendChat
  <2>1. UNCHANGED worker
    BY <1>8 DEF PlannerStep, PlanShifts, DispatchShifts, EnqueueTriage, EnqueueScans,
       PlannerFails, SendChat
  <2>2. \A k \in DOMAIN jobs : jobs'[k] = jobs[k]
    <3>1. CASE UNCHANGED jobs
      BY <3>1
    <3>2. ASSUME NEW new \in Seq(JobRow), Insert(new) PROVE \A k \in DOMAIN jobs : jobs'[k] = jobs[k]
      <4>1. jobs' = jobs \o new
        BY <3>2 DEF Insert
      <4> QED
        BY <1>1, <4>1, InsertRows
    <3> QED
      BY <1>8, <3>1, <3>2, InsertedRows
  <2> QED
    BY <1>2, <1>3, <2>1, <2>2 DEF WorkersMove, Holding, Trying
<1>9. ASSUME NEW w \in Workers, WorkerStep(w) PROVE WorkersMove
  <2>1. CASE ClaimJob(w)
    <3>1. PICK i \in Oldest(jobs, now) :
             /\ jobs' = Claim(jobs, i)
             /\ worker' = [worker EXCEPT ![w] =
                              [pc |-> "claimed", job |-> i, deadline |-> 0, result |-> "none"]]
      BY <2>1 DEF ClaimJob
    <3>2. i \in DOMAIN jobs /\ jobs[i].status = "queued"
      BY DEF Oldest, Claimable
    <3>3. /\ \A k \in DOMAIN jobs \ {i} : jobs'[k] = jobs[k]
          /\ jobs'[i].status = "running"
      BY <1>1, <3>1, <3>2, ClaimRow
    <3>4. Takes(w)
      BY <1>1, <3>1, <3>2, <3>3 DEF Takes
    <3>5. \A v \in Workers \ {w} : worker'[v].pc \in {"idle", "gone"} \/ Kept(v)
      BY <1>1, <1>2, <1>3, <3>1, <3>2, <3>3
    <3> QED
      BY <3>4, <3>5 DEF WorkersMove
  <2>2. CASE StartRun(w)
    <3>1. /\ Others(w) /\ worker'[w].job = worker[w].job
          /\ worker'[w].pc \in {"work", "acquire"} /\ worker[w].pc = "claimed"
      BY <1>1, <2>2 DEF StartRun, Running, Others, WorkerRow
    <3> QED
      BY <1>6, <2>2, <3>1 DEF StartRun, BeforeBody, ShiftPc, Holding, Trying
  <2>3. ASSUME NEW p, Goto(w, p) PROVE Others(w) /\ worker'[w].job = worker[w].job /\ worker'[w].pc = p
    BY <1>1, <2>3 DEF Goto, Others, WorkerRow
  <2>4. ASSUME NEW r, Leave(w, r)
        PROVE  Others(w) /\ worker'[w].job = worker[w].job /\ worker'[w].pc = "finish"
    BY <1>1, <2>4 DEF Leave, Others, WorkerRow
  <2>5. CASE AcquireGpu(w)
    BY <1>6, <2>3, <2>5 DEF AcquireGpu, Running, BeforeBody, ShiftPc, Holding, Trying, tables
  <2>6. CASE MarkRunning(w)
    BY <1>2, <1>6, <2>3, <2>6 DEF MarkRunning, Running, BeforeBody, ShiftPc, Holding, Trying
  <2>7. CASE UnloadModels(w)
    BY <1>2, <1>6, <2>3, <2>7 DEF UnloadModels, Running, BeforeBody, ShiftPc, Holding, Trying, tables
  <2>8. CASE RunDesks(w)
    <3>1. /\ Others(w) /\ worker'[w].job = worker[w].job
          /\ worker'[w].pc = "markend" /\ worker[w].pc = "body"
      BY <1>1, <2>8 DEF RunDesks, Running, Others, WorkerRow
    <3> QED
      BY <1>2, <1>6, <2>8, <3>1 DEF RunDesks, BeforeBody, ShiftPc, Holding, Trying, tables
  <2>9. CASE MarkEnd(w)
    BY <1>6, <2>4, <2>9 DEF MarkEnd, Running, BeforeBody, ShiftPc, Holding, Trying
  <2>10. CASE CheckShift(w)
    BY <1>6, <2>3, <2>4, <2>10 DEF CheckShift, Running, BeforeBody, ShiftPc, Holding, Trying, tables
  <2>11. CASE Work(w)
    BY <1>6, <2>4, <2>11 DEF Work, Running, BeforeBody, ShiftPc, Holding, Trying, tables
  <2>12. CASE Raise(w)
    BY <1>6, <2>4, <2>12 DEF Raise, Running, BeforeBody, ShiftPc, Holding, Trying, tables
  <2>13. CASE Expire(w)
    BY <1>6, <2>4, <2>13 DEF Expire, Running, BeforeBody, ShiftPc, Holding, Trying
  <2>14. CASE FinishRun(w)
    <3>1. /\ Others(w)
          /\ \/ worker'[w].pc \in {"idle", "gone"}
             \/ worker'[w].pc = "markfailed" /\ worker'[w].job = worker[w].job /\ IsShift(w)
      BY <1>1, <2>14 DEF FinishRun, Others, WorkerRow, Idle, Gone
    <3> QED
      BY <1>7, <2>14, <3>1 DEF FinishRun, Holding, EndStatus
  <2>15. CASE MarkFailed(w)
    <3>1. Others(w) /\ worker'[w].pc \in {"idle", "gone"}
      BY <1>1, <2>15 DEF MarkFailed, Others, Idle, Gone
    <3> QED
      BY <1>5, <2>15, <3>1 DEF MarkFailed
  <2> QED
    BY <1>9, <2>1, <2>2, <2>5, <2>6, <2>7, <2>8, <2>9, <2>10, <2>11, <2>12, <2>13, <2>14, <2>15
    DEF WorkerStep
<1>10. CASE LateWrite \/ Shutdown \/ Tick \/ UNCHANGED vars
  BY <1>4, <1>10 DEF LateWrite, Shutdown, Tick, vars, tables
<1>11. CASE Exit \/ Kill \/ Restart
  <2>1. worker' = [w \in Workers |-> Gone] \/ worker' = [w \in Workers |-> Idle]
    BY <1>11 DEF Exit, Kill, Restart, Down
  <2> QED
    BY <2>1 DEF WorkersMove, Idle, Gone
<1>12. ASSUME NEW w \in Workers, WorkerDies(w) \/ CancelOutside(w) PROVE WorkersMove
  <2>1. Others(w) /\ worker'[w].pc \in {"idle", "gone"} /\ UNCHANGED jobs
    BY <1>1, <1>12 DEF WorkerDies, CancelOutside, Others, Gone, tables
  <2> QED
    BY <1>5, <2>1
<1>13. ASSUME NEW w \in Workers, CancelInside(w) PROVE WorkersMove
  <2>1. /\ Others(w)
        /\ \/ worker'[w].pc \in {"idle", "gone"}
           \/ worker'[w].pc = "markfailed" /\ worker'[w].job = worker[w].job /\ IsShift(w)
    BY <1>1, <1>13 DEF CancelInside, Others, WorkerRow, Gone
  <2> QED
    BY <1>7, <1>13, <2>1 DEF CancelInside, Holding
<1> QED
  BY <1>8, <1>9, <1>10, <1>11, <1>12, <1>13 DEF Next, ProcessStep

-----------------------------------------------------------------------------
(* The theorems.                                                           *)

\* The strengthening is inductive: the rows keep their keys, a job has one holder,
\* and a holder that started its desks never comes back to a place before them.
LEMMA NextIInv == ASSUME IInv, [Next]_vars PROVE IInv'
<1>1. /\ TypeOK /\ JobShape /\ UniqueKeys /\ WorkerShape /\ OneHolder /\ StartedOnce
      /\ worker \in [Workers -> WorkerRow] /\ bodies \in [Shifts -> Nat]
  BY DEF IInv, TypeOK
<1>2. TypeOK' /\ JobsGrow /\ WorkersMove
  BY TypeNext, JobsStep, WorkersStep
<1>3. JobShape'
  BY <1>1, <1>2 DEF JobShape, JobsGrow, SameJob
<1>4. UniqueKeys'
  BY <1>1, <1>2 DEF UniqueKeys, JobsGrow, SameJob
<1>5. \A v \in Workers :
         /\ worker[v].pc \notin {"idle", "gone"} => worker[v].job \in DOMAIN jobs
         /\ worker[v].pc \in Holding => jobs[worker[v].job].status = "running"
  BY <1>1 DEF WorkerShape, OneHolder, JobOf
<1>6. WorkerShape'
  <2> SUFFICES ASSUME NEW v \in Workers
               PROVE  /\ worker'[v].pc \notin {"idle", "gone"} => worker'[v].job \in DOMAIN jobs'
                      /\ worker'[v].pc \in ShiftPc => jobs'[worker'[v].job].kind = "shift"
    BY DEF WorkerShape, JobOf
  <2>1. CASE Kept(v)
    BY <1>2, <1>5, <2>1 DEF Kept, JobsGrow, SameJob, IsShift, JobOf
  <2> QED
    BY <1>2, <2>1 DEF WorkersMove, Takes, JobsGrow, ShiftPc
<1>7. OneHolder'
  <2>1. ASSUME NEW v \in Workers, worker'[v].pc \in Holding
        PROVE  jobs'[worker'[v].job].status = "running" /\ (Kept(v) \/ Takes(v))
    BY <1>2, <2>1 DEF WorkersMove, Kept, Takes, Holding, Trying
  <2>2. ASSUME NEW v \in Workers, NEW w \in Workers,
               worker'[v].pc \in Holding, worker'[w].pc \in Holding,
               worker'[v].job = worker'[w].job, v # w
        PROVE  FALSE
    <3>1. CASE Kept(v) /\ Kept(w)
      BY <1>1, <2>2, <3>1 DEF Kept, OneHolder
    <3>2. CASE Takes(v)
      BY <1>5, <2>2, <3>2 DEF Takes
    <3>3. CASE Takes(w)
      BY <1>5, <2>2, <3>3 DEF Takes
    <3> QED
      BY <2>1, <2>2, <3>1, <3>2, <3>3
  <2> QED
    BY <2>1, <2>2 DEF OneHolder, JobOf
<1>8. StartedOnce'
  <2> SUFFICES ASSUME NEW s \in Shifts
               PROVE  \/ bodies'[s] = 0
                      \/ /\ bodies'[s] = 1
                         /\ \E i \in DOMAIN jobs' :
                               /\ jobs'[i].kind = "shift" /\ jobs'[i].subject = s
                               /\ jobs'[i].status # "queued"
                               /\ \A w \in Workers : worker'[w].pc \in BeforeBody => worker'[w].job # i
    BY DEF StartedOnce
  <2>1. ASSUME NEW i \in DOMAIN jobs, jobs[i].status # "queued",
               NEW w \in Workers, worker'[w].pc \in BeforeBody, worker'[w].job = i
        PROVE  worker[w].pc \in BeforeBody /\ worker[w].job = i
    BY <1>2, <2>1 DEF WorkersMove, Kept, Takes, BeforeBody
  <2>2. CASE bodies'[s] = bodies[s]
    <3>1. CASE bodies[s] = 0
      BY <2>2, <3>1
    <3>2. CASE bodies[s] # 0
      <4>1. PICK i \in DOMAIN jobs :
               /\ jobs[i].kind = "shift" /\ jobs[i].subject = s /\ jobs[i].status # "queued"
               /\ \A w \in Workers : worker[w].pc \in BeforeBody => worker[w].job # i
        BY <1>1, <3>2 DEF StartedOnce
      <4>2. /\ i \in DOMAIN jobs' /\ jobs'[i].kind = "shift" /\ jobs'[i].subject = s
            /\ jobs'[i].status # "queued"
        BY <1>2, <4>1 DEF JobsGrow, SameJob
      <4>3. bodies'[s] = 1
        BY <1>1, <2>2, <3>2 DEF StartedOnce
      <4> QED
        BY <2>1, <4>1, <4>2, <4>3
    <3> QED
      BY <3>1, <3>2
  <2>3. ASSUME NEW w \in Workers, UnloadModels(w), ShiftOf(w) = s
        PROVE  /\ bodies'[s] = 1
               /\ \E i \in DOMAIN jobs' :
                     /\ jobs'[i].kind = "shift" /\ jobs'[i].subject = s
                     /\ jobs'[i].status # "queued"
                     /\ \A v \in Workers : worker'[v].pc \in BeforeBody => worker'[v].job # i
    <3> DEFINE i == worker[w].job
    <3>1. worker[w].pc = "unload" /\ bodies'[s] = bodies[s] + 1
      BY <1>1, <2>3 DEF UnloadModels, Running
    <3>2. /\ i \in DOMAIN jobs /\ jobs[i].kind = "shift" /\ jobs[i].subject = s
          /\ jobs[i].status = "running"
      BY <1>1, <1>5, <2>3, <3>1 DEF WorkerShape, ShiftPc, JobOf, ShiftOf, Holding, Trying
    <3>3. bodies[s] = 0
      <4> SUFFICES ASSUME bodies[s] # 0 PROVE FALSE
        OBVIOUS
      <4>1. PICK k \in DOMAIN jobs :
               /\ jobs[k].kind = "shift" /\ jobs[k].subject = s
               /\ \A v \in Workers : worker[v].pc \in BeforeBody => worker[v].job # k
        BY <1>1 DEF StartedOnce
      <4>2. jobs[k].key = <<"shift", s>> /\ jobs[i].key = <<"shift", s>> /\ <<"shift", s>> # NoKey
        BY <1>1, <3>2, <4>1 DEF JobShape, NoKey
      <4>3. k = i
        BY <1>1, <3>2, <4>1, <4>2 DEF UniqueKeys
      <4> QED
        BY <3>1, <4>1, <4>3 DEF BeforeBody
    <3>4. /\ i \in DOMAIN jobs' /\ jobs'[i].kind = "shift" /\ jobs'[i].subject = s
          /\ jobs'[i].status # "queued"
      BY <1>2, <3>2 DEF JobsGrow, SameJob
    <3>5. ASSUME NEW v \in Workers, worker'[v].pc \in BeforeBody, worker'[v].job = i PROVE FALSE
      <4>1. worker[v].pc \in BeforeBody /\ worker[v].job = i
        BY <2>1, <3>2, <3>5
      <4>2. v = w
        BY <1>1, <3>1, <4>1 DEF OneHolder, BeforeBody, Holding, Trying
      <4>3. worker'[w].pc = "body"
        BY <1>1, <2>3 DEF UnloadModels, Goto, WorkerRow
      <4> QED
        BY <3>5, <4>2, <4>3 DEF BeforeBody
    <3> QED
      BY <3>1, <3>3, <3>4, <3>5
  <2>4. ASSUME bodies'[s] # bodies[s]
        PROVE  \E w \in Workers : UnloadModels(w) /\ ShiftOf(w) = s
    <3>1. \/ UNCHANGED bodies
          \/ \E w \in Workers : UnloadModels(w)
      BY DEF Next, PlannerStep, WorkerStep, ProcessStep, PlanShifts, DispatchShifts,
         EnqueueTriage, EnqueueScans, PlannerFails, SendChat, LateWrite, Tick, Shutdown, Exit,
         Kill, Restart, WorkerDies, CancelOutside, CancelInside, ClaimJob, StartRun, AcquireGpu,
         MarkRunning, RunDesks, MarkEnd, CheckShift, Work, Raise, Expire, FinishRun,
         MarkFailed, vars
    <3> QED
      BY <1>1, <2>4, <3>1 DEF UnloadModels
  <2> QED
    BY <2>2, <2>3, <2>4
<1> QED
  BY <1>2, <1>3, <1>4, <1>6, <1>7, <1>8 DEF IInv

\* Hence it holds in every state the scheduler reaches.
LEMMA Inductive == Spec => []IInv
<1>1. IInv /\ [Next]_vars => IInv'
  BY NextIInv
<1> QED
  BY InitIInv, <1>1, PTL DEF Spec

\* The types of the tables, the tasks and the lock, for any number of shifts and
\* workers and any length of a run.
THEOREM TypeCorrect == Spec => []TypeOK
<1>1. IInv => TypeOK
  BY DEF IInv
<1> QED
  BY Inductive, <1>1, PTL

\* However many times the process is stopped, killed and restarted, and whatever
\* is cancelled or times out, the desks of a shift start at most once.
THEOREM AtMostOnce == Spec => []ShiftRunsAtMostOnce
<1>1. IInv => ShiftRunsAtMostOnce
  <2> SUFFICES ASSUME IInv, NEW s \in Shifts PROVE bodies[s] <= 1
    BY DEF ShiftRunsAtMostOnce
  <2> QED
    BY DEF IInv, StartedOnce
<1> QED
  BY Inductive, <1>1, PTL

-----------------------------------------------------------------------------
(* One model job at a time.                                                *)

\* Whoever is past the lock holds it, except a scan, which does not take it.
GpuHeld ==
    \A w \in Workers :
       /\ worker[w].pc \in {"mark", "unload", "body", "markend", "check"} => gpu = w
       /\ worker[w].pc = "work" => gpu = w \/ JobOf(w).kind = "scan"

\* A step that leaves a worker before the lock, past it with the lock or as it
\* was, and takes the lock away from nobody else.
GpuMoves ==
    \A v \in Workers :
       \/ worker'[v].pc \notin {"mark", "unload", "body", "markend", "check", "work"}
       \/ gpu' = v
       \/ worker'[v].pc = "work" /\ worker'[v].job \in DOMAIN jobs /\ jobs[worker'[v].job].kind = "scan"

\* Every step is such a step: the lock is taken when it is free and released by
\* its holder alone.
LEMMA GpuStep == ASSUME IInv, GpuHeld, [Next]_vars PROVE GpuMoves
<1> USE WorkerAssumption
<1>1. /\ TypeOK /\ WorkerShape /\ worker \in [Workers -> WorkerRow]
      /\ \A v \in Workers : worker[v].pc \notin {"idle", "gone"} => worker[v].job \in DOMAIN jobs
  BY DEF IInv, TypeOK, WorkerShape
<1>2. ASSUME NEW v \in Workers, UNCHANGED <<worker[v], gpu>>
      PROVE  \/ worker'[v].pc \notin {"mark", "unload", "body", "markend", "check", "work"}
             \/ gpu' = v
             \/ worker'[v].pc = "work" /\ worker'[v].job \in DOMAIN jobs /\ jobs[worker'[v].job].kind = "scan"
  BY <1>1, <1>2 DEF GpuHeld, JobOf
<1>3. CASE UNCHANGED <<worker, gpu>>
  BY <1>2, <1>3 DEF GpuMoves
<1>4. ASSUME NEW w \in Workers, Others(w),
             UNCHANGED gpu \/ gpu = None \/ gpu = w,
             \/ worker'[w].pc \in {"idle", "gone", "claimed", "acquire", "finish", "markfailed"}
             \/ gpu' = w
             \/ worker'[w].pc = "work" /\ worker'[w].job = worker[w].job
                /\ worker[w].pc \notin {"idle", "gone"} /\ JobOf(w).kind = "scan"
      PROVE  GpuMoves
  <2> SUFFICES ASSUME NEW v \in Workers
               PROVE  \/ worker'[v].pc \notin {"mark", "unload", "body", "markend", "check", "work"}
                      \/ gpu' = v
                      \/ /\ worker'[v].pc = "work" /\ worker'[v].job \in DOMAIN jobs
                         /\ jobs[worker'[v].job].kind = "scan"
    BY DEF GpuMoves
  <2>1. CASE v = w
    BY <1>1, <1>4, <2>1 DEF JobOf
  <2>2. CASE v # w
    BY <1>1, <1>4, <2>2 DEF Others, GpuHeld, JobOf
  <2> QED
    BY <2>1, <2>2
<1>5. ASSUME NEW w \in Workers, WorkerStep(w) PROVE GpuMoves
  <2>1. ASSUME NEW p \in {"unload", "body", "work"}, Goto(w, p), gpu = w, UNCHANGED gpu PROVE GpuMoves
    <3>1. Others(w)
      BY <1>1, <2>1 DEF Goto, Others
    <3> QED
      BY <1>4, <2>1, <3>1
  <2>2. ASSUME NEW r, Leave(w, r) PROVE GpuMoves
    <3>1. Others(w) /\ worker'[w].pc = "finish"
      BY <1>1, <2>2 DEF Leave, Others, WorkerRow
    <3>2. UNCHANGED gpu \/ gpu = w
      BY <2>2 DEF Leave
    <3> QED
      BY <1>4, <3>1, <3>2
  <2>3. CASE ClaimJob(w)
    <3>1. Others(w) /\ worker'[w].pc = "claimed"
      BY <1>1, <2>3 DEF ClaimJob, Others
    <3> QED
      BY <1>4, <2>3, <3>1 DEF ClaimJob
  <2>4. CASE StartRun(w)
    <3>1. /\ Others(w) /\ worker'[w].job = worker[w].job /\ worker[w].pc = "claimed"
          /\ worker'[w].pc = IF JobOf(w).kind = "scan" THEN "work" ELSE "acquire"
      BY <1>1, <2>4 DEF StartRun, Running, Others, WorkerRow
    <3> QED
      BY <1>4, <2>4, <3>1 DEF StartRun
  <2>5. CASE AcquireGpu(w)
    <3>1. Others(w)
      BY <1>1, <2>5 DEF AcquireGpu, Goto, Others
    <3> QED
      BY <1>4, <2>5, <3>1 DEF AcquireGpu
  <2>6. CASE MarkRunning(w) \/ UnloadModels(w)
    <3>1. gpu = w
      BY <2>6 DEF MarkRunning, UnloadModels, Running, GpuHeld
    <3> QED
      BY <2>1, <2>6, <3>1 DEF MarkRunning, UnloadModels
  <2>7. CASE RunDesks(w)
    <3>1. Others(w) /\ gpu = w /\ UNCHANGED gpu
      BY <1>1, <2>7 DEF RunDesks, Running, Others, GpuHeld
    <3> QED
      BY <1>4, <3>1
  <2>8. CASE CheckShift(w)
    <3>1. gpu = w
      BY <2>8 DEF CheckShift, Running, GpuHeld
    <3> QED
      BY <2>1, <2>2, <2>8, <3>1 DEF CheckShift
  <2>9. CASE MarkEnd(w) \/ Work(w) \/ Raise(w) \/ Expire(w)
    BY <2>2, <2>9 DEF MarkEnd, Work, Raise, Expire
  <2>10. CASE FinishRun(w) \/ MarkFailed(w)
    <3>1. Others(w) /\ worker'[w].pc \in {"idle", "gone", "markfailed"}
      BY <1>1, <2>10 DEF FinishRun, MarkFailed, Others, WorkerRow, Idle, Gone
    <3> QED
      BY <1>4, <2>10, <3>1 DEF FinishRun, MarkFailed
  <2> QED
    BY <1>5, <2>3, <2>4, <2>5, <2>6, <2>7, <2>8, <2>9, <2>10 DEF WorkerStep
<1>6. CASE PlannerStep \/ PlannerFails \/ SendChat \/ LateWrite \/ Shutdown \/ Tick \/ UNCHANGED vars
  BY <1>3, <1>6 DEF PlannerStep, PlanShifts, DispatchShifts, EnqueueTriage, EnqueueScans,
     PlannerFails, SendChat, LateWrite, Shutdown, Tick, vars
<1>7. CASE Exit \/ Kill \/ Restart
  <2>1. worker' = [w \in Workers |-> Gone] \/ worker' = [w \in Workers |-> Idle]
    BY <1>7 DEF Exit, Kill, Restart, Down
  <2> QED
    BY <2>1 DEF GpuMoves, Idle, Gone
<1>8. ASSUME NEW w \in Workers, WorkerDies(w) \/ CancelOutside(w) PROVE GpuMoves
  <2>1. Others(w) /\ worker'[w].pc = "gone" /\ UNCHANGED gpu
    BY <1>1, <1>8 DEF WorkerDies, CancelOutside, Others, Gone
  <2> QED
    BY <1>4, <2>1
<1>9. ASSUME NEW w \in Workers, CancelInside(w) PROVE GpuMoves
  <2>1. Others(w) /\ worker'[w].pc \in {"gone", "markfailed"}
    BY <1>1, <1>9 DEF CancelInside, Others, WorkerRow, Gone
  <2>2. UNCHANGED gpu \/ gpu = w
    BY <1>9 DEF CancelInside
  <2> QED
    BY <1>4, <2>1, <2>2
<1> QED
  BY <1>5, <1>6, <1>7, <1>8, <1>9 DEF Next, ProcessStep

\* The GPU holds the models of one job at a time, whatever is cancelled, times out
\* or is restarted: the lock is one for all the workers.
THEOREM OneJobOnGpu == Spec => []OneModelJob
<1>1. Init => GpuHeld
  BY DEF Init, GpuHeld, Gone
<1>2. IInv /\ GpuHeld /\ [Next]_vars => GpuHeld'
  <2> SUFFICES ASSUME IInv, GpuHeld, [Next]_vars PROVE GpuHeld'
    OBVIOUS
  <2>1. GpuMoves /\ JobsGrow
    BY GpuStep, JobsStep
  <2> QED
    BY <2>1 DEF GpuMoves, JobsGrow, SameJob, GpuHeld, JobOf
<1>3. IInv /\ GpuHeld => OneModelJob
  BY DEF GpuHeld, OneModelJob, OnGpu
<1> QED
  BY Inductive, <1>1, <1>2, <1>3, PTL DEF Spec

-----------------------------------------------------------------------------
(* The rows of a running process have an owner.                            *)

\* Where a worker has a run to close.
InRun == Trying \cup {"finish"}

\* What JobRowsOwned adds to the invariant: a running row has its worker, and a
\* worker in its try block finds its run running.
RowsOwned ==
    proc = "up" =>
    /\ \A i \in DOMAIN jobs : jobs[i].status = "running" => \E w \in Workers : Holds(w, i, Holding)
    /\ \A i \in DOMAIN runs : runs[i] = "running" => \E w \in Workers : Holds(w, i, InRun)
    /\ \A w \in Workers : worker[w].pc \in InRun => runs[worker[w].job] = "running"

\* A step that leaves every worker with what it held.
SameHolders ==
    \A v \in Workers :
       /\ worker'[v].pc \in Holding <=> worker[v].pc \in Holding
       /\ worker'[v].pc \in InRun <=> worker[v].pc \in InRun
       /\ worker[v].pc \in Holding => worker'[v].job = worker[v].job

\* A claim, the start of a run and its end move the row and its worker together;
\* the other steps of a process that is up change neither.
LEMMA RowsStep == ASSUME IInv, RowsOwned, [Next]_vars PROVE RowsOwned'
<1> USE WorkerAssumption
<1>1. /\ TypeOK /\ JobShape /\ OneHolder /\ worker \in [Workers -> WorkerRow]
      /\ jobs \in Seq(JobRow) /\ Len(runs) = Len(jobs) /\ DOMAIN runs = DOMAIN jobs
      /\ runs \in Seq({"none", "running", "ok", "failed"})
  BY DEF IInv, TypeOK
<1>2. /\ InRun \subseteq Holding
      /\ \A v \in Workers : worker[v].pc \in Holding => worker[v].job \in DOMAIN jobs
  BY DEF IInv, WorkerShape, Holding, InRun, Trying
<1>3. ASSUME UNCHANGED <<jobs, runs>>, SameHolders, proc' = "up" => proc = "up"
      PROVE  RowsOwned'
  BY <1>2, <1>3 DEF RowsOwned, SameHolders, Holds
<1>4. ASSUME NEW w \in Workers, Others(w), worker'[w].job = worker[w].job,
             \/ worker[w].pc \in Trying /\ worker'[w].pc \in InRun
             \/ worker[w].pc \notin Holding /\ worker'[w].pc \notin Holding
      PROVE  SameHolders
  BY <1>2, <1>4 DEF SameHolders, Others, InRun, Holding
<1>5. ASSUME UNCHANGED worker PROVE SameHolders
  BY <1>5 DEF SameHolders
<1>6. CASE PlannerStep \/ PlannerFails \/ SendChat
  <2>1. UNCHANGED <<proc, worker>>
    BY <1>6 DEF PlannerStep, PlanShifts, DispatchShifts, EnqueueTriage, EnqueueScans,
       PlannerFails, SendChat
  <2>2. CASE UNCHANGED <<jobs, runs>>
    BY <1>3, <1>5, <2>1, <2>2
  <2>3. ASSUME NEW new \in Seq(JobRow), FreshRows(new), Insert(new) PROVE RowsOwned'
    <3> DEFINE none == [i \in DOMAIN new |-> "none"]
    <3>1. none \in Seq({"none"}) /\ Len(none) = Len(new) /\ \A k \in DOMAIN none : none[k] = "none"
      OBVIOUS
    <3> HIDE DEF none
    <3>2. jobs' = jobs \o new /\ runs' = runs \o none
      BY <2>3 DEF Insert, none
    <3>3. /\ DOMAIN jobs \subseteq DOMAIN jobs' /\ \A k \in DOMAIN jobs : jobs'[k] = jobs[k]
          /\ \A k \in DOMAIN jobs' \ DOMAIN jobs : jobs'[k].status = "queued"
      <4>1. /\ DOMAIN jobs = 1 .. Len(jobs) /\ DOMAIN jobs' = 1 .. (Len(jobs) + Len(new))
            /\ \A k \in DOMAIN jobs : jobs'[k] = jobs[k]
            /\ \A k \in DOMAIN jobs' \ DOMAIN jobs :
                  k - Len(jobs) \in DOMAIN new /\ jobs'[k] = new[k - Len(jobs)]
        BY <1>1, <3>2, InsertRows
      <4>2. Len(jobs) \in Nat /\ Len(new) \in Nat
        BY <1>1
      <4> QED
        BY <2>3, <4>1, <4>2 DEF FreshRows
    <3>4. /\ \A k \in DOMAIN runs : runs'[k] = runs[k]
          /\ \A k \in DOMAIN runs' \ DOMAIN runs : runs'[k] = "none"
      BY <1>1, <3>1, <3>2
    <3>5. UNCHANGED <<proc, worker>>
      BY <2>1
    <3>6. \A k \in DOMAIN jobs' : jobs'[k].status = "running" => k \in DOMAIN jobs /\ jobs[k].status = "running"
      BY <3>3
    <3>7. \A k \in DOMAIN runs' : runs'[k] = "running" => k \in DOMAIN runs /\ runs[k] = "running"
      BY <3>4
    <3> QED
      BY <1>1, <1>2, <3>4, <3>5, <3>6, <3>7 DEF RowsOwned, Holds
  <2> QED
    BY <1>6, <2>2, <2>3, InsertedRows
<1>7. ASSUME NEW w \in Workers, ClaimJob(w) PROVE RowsOwned'
  <2>1. PICK i \in Oldest(jobs, now) :
           /\ jobs' = Claim(jobs, i)
           /\ worker' = [worker EXCEPT ![w] = [pc |-> "claimed", job |-> i, deadline |-> 0, result |-> "none"]]
    BY <1>7 DEF ClaimJob
  <2>2. i \in DOMAIN jobs
    BY DEF Oldest, Claimable
  <2>3. DOMAIN jobs' = DOMAIN jobs /\ \A k \in DOMAIN jobs \ {i} : jobs'[k] = jobs[k]
    BY <1>1, <2>1, <2>2, ClaimRow
  <2>4. UNCHANGED <<proc, runs>> /\ proc = "up" /\ worker[w].pc = "idle"
    BY <1>7 DEF ClaimJob, Running
  <2>5. /\ worker'[w].pc = "claimed" /\ worker'[w].job = i
        /\ \A v \in Workers \ {w} : worker'[v] = worker[v]
    BY <1>1, <2>1
  <2>6. "claimed" \in Holding /\ "claimed" \notin InRun /\ "idle" \notin Holding /\ "idle" \notin InRun
    BY DEF Holding, InRun, Trying
  <2>7. \A k \in DOMAIN jobs' : jobs'[k].status = "running" => \E v \in Workers : Holds(v, k, Holding)'
    BY <2>3, <2>4, <2>5, <2>6 DEF RowsOwned, Holds
  <2>8. \A k \in DOMAIN runs' : runs'[k] = "running" => \E v \in Workers : Holds(v, k, InRun)'
    BY <2>4, <2>5, <2>6 DEF RowsOwned, Holds
  <2>9. \A v \in Workers : worker'[v].pc \in InRun => runs'[worker'[v].job] = "running"
    BY <2>4, <2>5, <2>6 DEF RowsOwned
  <2> QED
    BY <2>7, <2>8, <2>9 DEF RowsOwned, Holds
<1>8. ASSUME NEW w \in Workers, StartRun(w) PROVE RowsOwned'
  <2> DEFINE i == worker[w].job
  <2>1. /\ worker[w].pc = "claimed" /\ proc = "up" /\ UNCHANGED <<proc, jobs>>
        /\ runs' = [runs EXCEPT ![i] = "running"]
    BY <1>8 DEF StartRun, Running
  <2>2. /\ Others(w) /\ worker'[w].job = i /\ worker'[w].pc \in {"work", "acquire"}
    BY <1>1, <1>8 DEF StartRun, Others, WorkerRow
  <2>3. /\ "claimed" \in Holding /\ "claimed" \notin InRun
        /\ {"work", "acquire"} \subseteq InRun /\ {"work", "acquire"} \subseteq Holding
    BY DEF Holding, InRun, Trying
  <2>4. i \in DOMAIN runs /\ DOMAIN runs' = DOMAIN runs /\ runs'[i] = "running"
        /\ \A k \in DOMAIN runs \ {i} : runs'[k] = runs[k]
    BY <1>1, <1>2, <2>1, <2>3
  <2> HIDE DEF i
  <2>5. \A k \in DOMAIN jobs' : jobs'[k].status = "running" => \E v \in Workers : Holds(v, k, Holding)'
    BY <2>1, <2>2, <2>3 DEF RowsOwned, Holds, Others, i
  <2>6. \A k \in DOMAIN runs' : runs'[k] = "running" => \E v \in Workers : Holds(v, k, InRun)'
    BY <2>1, <2>2, <2>3, <2>4 DEF RowsOwned, Holds, Others, i
  <2>7. \A v \in Workers : worker'[v].pc \in InRun => runs'[worker'[v].job] = "running"
    BY <1>1, <1>2, <2>1, <2>2, <2>3, <2>4 DEF RowsOwned, Others
  <2> QED
    BY <2>5, <2>6, <2>7 DEF RowsOwned, Holds
<1>9. ASSUME NEW w \in Workers, FinishRun(w), proc = "up" PROVE RowsOwned'
  <2> DEFINE i == worker[w].job
  <2>1. worker[w].pc = "finish" /\ UNCHANGED proc /\ Close(w, EndStatus(w))
    BY <1>9 DEF FinishRun
  <2>2. EndStatus(w) \in {"ok", "failed"} /\ "finish" \in Holding /\ "finish" \in InRun
    BY DEF EndStatus, Holding, InRun
  <2>3. i \in DOMAIN jobs /\ jobs[i].max = 1 /\ jobs[i].attempts >= 1 /\ now \in Nat
    <3>1. now \in Nat
      BY <1>1 DEF TypeOK
    <3> QED
      BY <1>1, <1>2, <2>1, <2>2, <3>1 DEF OneHolder, JobShape, JobOf
  <2>4. Others(w) /\ worker'[w].pc \notin Holding
    BY <1>1, <1>9 DEF FinishRun, Others, WorkerRow, Idle, Holding, Trying
  <2>5. \A v \in Workers \ {w} : worker[v].pc \in Holding => worker[v].job # i
    BY <1>1, <2>1, <2>2 DEF OneHolder
  <2>6. jobs' = Finish(jobs, i, EndStatus(w), now, 1) /\ runs' = [runs EXCEPT ![i] = EndStatus(w)]
    BY <2>1 DEF Close
  <2> HIDE DEF i
  <2>7. /\ DOMAIN jobs' = DOMAIN jobs /\ \A k \in DOMAIN jobs \ {i} : jobs'[k] = jobs[k]
        /\ jobs'[i].status = EndStatus(w)
    BY <1>1, <2>2, <2>3, <2>6, FinishRow
  <2>8. /\ DOMAIN runs' = DOMAIN runs /\ \A k \in DOMAIN runs \ {i} : runs'[k] = runs[k]
        /\ runs'[i] = EndStatus(w)
    BY <1>1, <2>3, <2>6
  <2>9. \A k \in DOMAIN jobs' : jobs'[k].status = "running" => \E v \in Workers : Holds(v, k, Holding)'
    BY <1>9, <2>2, <2>4, <2>7 DEF RowsOwned, Holds, Others, i
  <2>10. \A k \in DOMAIN runs' : runs'[k] = "running" => \E v \in Workers : Holds(v, k, InRun)'
    BY <1>9, <2>2, <2>4, <2>8 DEF RowsOwned, Holds, Others, i
  <2>11. \A v \in Workers : worker'[v].pc \in InRun => runs'[worker'[v].job] = "running"
    BY <1>1, <1>2, <1>9, <2>4, <2>5, <2>8 DEF RowsOwned, Others
  <2> QED
    BY <2>9, <2>10, <2>11 DEF RowsOwned, Holds
<1>10. ASSUME NEW w \in Workers, WorkerStep(w) PROVE RowsOwned'
  <2>1. ASSUME NEW p \in InRun, worker[w].pc \in Trying, Goto(w, p), UNCHANGED <<proc, jobs, runs>>
        PROVE  RowsOwned'
    <3>1. Others(w) /\ worker'[w].job = worker[w].job /\ worker'[w].pc = p
      BY <1>1, <2>1 DEF Goto, Others, WorkerRow
    <3> QED
      BY <1>3, <1>4, <2>1, <3>1
  <2>2. ASSUME NEW r, worker[w].pc \in Trying, Leave(w, r), UNCHANGED <<proc, jobs, runs>>
        PROVE  RowsOwned'
    <3>1. Others(w) /\ worker'[w].job = worker[w].job /\ worker'[w].pc \in InRun
      BY <1>1, <2>2 DEF Leave, Others, WorkerRow, InRun
    <3> QED
      BY <1>3, <1>4, <2>2, <3>1
  <2>3. CASE AcquireGpu(w) \/ MarkRunning(w) \/ UnloadModels(w)
    BY <2>1, <2>3 DEF AcquireGpu, MarkRunning, UnloadModels, Running, InRun, Trying, tables
  <2>4. CASE RunDesks(w)
    <3>1. /\ Others(w) /\ worker'[w].job = worker[w].job
          /\ worker[w].pc \in Trying /\ worker'[w].pc \in InRun
      BY <1>1, <2>4 DEF RunDesks, Running, Others, WorkerRow, InRun, Trying
    <3> QED
      BY <1>3, <1>4, <2>4, <3>1 DEF RunDesks, tables
  <2>5. CASE MarkEnd(w) \/ Work(w) \/ Raise(w) \/ Expire(w)
    BY <2>2, <2>5 DEF MarkEnd, Work, Raise, Expire, Running, Trying, tables
  <2>6. CASE CheckShift(w)
    BY <2>1, <2>2, <2>6 DEF CheckShift, Running, InRun, Trying, tables
  <2>7. CASE MarkFailed(w)
    <3>1. /\ Others(w) /\ worker[w].pc \notin Holding /\ worker'[w].pc \notin Holding
      BY <1>1, <2>7 DEF MarkFailed, Others, WorkerRow, Idle, Gone, Holding, Trying
    <3>2. SameHolders
      BY <1>2, <3>1 DEF SameHolders, Others
    <3> QED
      BY <1>3, <2>7, <3>2 DEF MarkFailed
  <2>8. CASE FinishRun(w) /\ proc # "up"
    BY <2>8 DEF FinishRun, RowsOwned
  <2> QED
    BY <1>7, <1>8, <1>9, <1>10, <2>3, <2>4, <2>5, <2>6, <2>7, <2>8 DEF WorkerStep
<1>11. CASE LateWrite \/ Tick \/ UNCHANGED vars
  BY <1>3, <1>5, <1>11 DEF LateWrite, Tick, vars, tables
<1>12. CASE Restart
  <2>1. \A i \in DOMAIN jobs' : jobs'[i].status # "running"
    <3>1. jobs' = ReleaseStale(jobs) /\ \A i \in DOMAIN jobs : jobs[i] \in JobRow
      BY <1>1, <1>12 DEF Restart
    <3>2. \A r \in JobRow : [r EXCEPT !.status = "failed"].status = "failed"
      BY DEF JobRow
    <3> QED
      BY <3>1, <3>2 DEF ReleaseStale
  <2>2. \A i \in DOMAIN runs' : runs'[i] # "running"
    BY <1>12 DEF Restart
  <2>3. \A w \in Workers : worker'[w].pc \notin InRun
    BY <1>12 DEF Restart, Idle, InRun, Trying
  <2> QED
    BY <2>1, <2>2, <2>3 DEF RowsOwned
<1>13. CASE Shutdown \/ Exit \/ Kill \/ \E w \in Workers : WorkerDies(w) \/ CancelOutside(w) \/ CancelInside(w)
  <2>1. proc' # "up"
    BY <1>13 DEF Shutdown, Exit, Kill, Down, WorkerDies, CancelOutside, CancelInside
  <2> QED
    BY <2>1 DEF RowsOwned
<1> QED
  BY <1>6, <1>10, <1>11, <1>12, <1>13 DEF Next, ProcessStep

\* While the process is up a running job has the worker that is going to end it
\* and a worker that closes a run finds it running, for any number of workers: a
\* job is claimed, finished and released together with its run.
THEOREM RowsHaveOwners == Spec => []JobRowsOwned
<1>1. Init => RowsOwned
  BY DEF Init, RowsOwned
<1>2. IInv /\ RowsOwned /\ [Next]_vars => RowsOwned'
  BY RowsStep
<1>3. IInv /\ RowsOwned => JobRowsOwned
  <2> SUFFICES ASSUME IInv, RowsOwned PROVE JobRowsOwned
    OBVIOUS
  <2>1. \A w \in Workers : worker[w].pc \in Holding => jobs[worker[w].job].status = "running"
    BY DEF IInv, OneHolder, JobOf
  <2> QED
    BY <2>1 DEF RowsOwned, JobRowsOwned, Holds, InRun
<1> QED
  BY Inductive, <1>1, <1>2, <1>3, PTL DEF Spec

-----------------------------------------------------------------------------
(* The rows of the shifts.                                                 *)

\* A shift that has not begun, though its grace may have passed.
Waits == {"scheduled", "skipped"}

\* The job of a shift comes after its row, and leaves the queue before it begins.
JobsRows ==
    \A i \in DOMAIN jobs :
       jobs[i].kind = "shift" =>
          /\ shift[jobs[i].subject] # "absent"
          /\ jobs[i].status = "queued" => shift[jobs[i].subject] \in Waits

\* What a worker that works on a shift knows of its row and of its job.
KnowsRow(pc, result, row, status) ==
    /\ pc \in {"claimed", "acquire", "mark"} => row \in Waits
    /\ pc \in {"unload", "body", "markend"} => row = "running"
    /\ pc \notin {"check", "work"}
    /\ pc = "finish" /\ result # "raised" => row # "running"
    /\ pc = "markfailed" => status \notin {"queued", "running"}

WorkersRows ==
    \A w \in Workers :
       worker[w].pc \notin {"idle", "gone"} /\ JobOf(w).kind = "shift" =>
          KnowsRow(worker[w].pc, worker[w].result, shift[ShiftOf(w)], JobOf(w).status)

\* The places from which a worker ends the row of its shift.
Ends(pc, result) ==
    \/ pc \in {"unload", "body", "markend", "markfailed"}
    \/ pc = "finish" /\ result = "raised"

OwnedRows ==
    proc = "up" =>
    \A s \in Shifts \ landed : shift[s] = "running" =>
        \E w \in Workers : /\ Ends(worker[w].pc, worker[w].result)
                           /\ worker[w].job \in DOMAIN jobs
                           /\ JobOf(w).kind = "shift" /\ ShiftOf(w) = s

RowsInv == JobsRows /\ WorkersRows /\ OwnedRows

HasLeft(w, s) ==
    /\ Left(worker[w].pc, worker[w].result) /\ worker[w].job \in DOMAIN jobs
    /\ JobOf(w).kind = "shift" /\ ShiftOf(w) = s

\* A shift whose job was taken and left: no worker will work on it again.
Over(s) ==
    /\ \E i \in DOMAIN jobs : /\ jobs[i].kind = "shift" /\ jobs[i].subject = s
                              /\ jobs[i].status # "queued"
    /\ \A w \in Workers :
          worker[w].pc \notin {"idle", "gone"} /\ JobOf(w).kind = "shift" /\ ShiftOf(w) = s =>
             Left(worker[w].pc, worker[w].result)

\* The rows a late write may find: the row as the task left it, which while the
\* process is up a worker is about to fail, or the failure.
Awaits(l) ==
    /\ Over(l[1]) /\ l[1] \notin landed
    /\ l[2] = "running" => shift[l[1]] \in Waits \cup {"failed"}
    /\ l[2] # "running" => shift[l[1]] \in {"running", "failed"}
    /\ proc = "up" /\ shift[l[1]] # "failed" => \E w \in Workers : HasLeft(w, l[1])

LateRows ==
    /\ proc = "down" => late = {}
    /\ \A l \in late : Awaits(l)
    /\ \A l, m \in late : l[1] = m[1] => l = m
    /\ \A s \in landed : Over(s)

LInv == RowsInv /\ LateRows

\* A shift has one job: the dedupe key.
LEMMA OneJob ==
    ASSUME IInv, NEW i \in DOMAIN jobs, NEW k \in DOMAIN jobs,
           jobs[i].kind = "shift", jobs[k].kind = "shift", jobs[i].subject = jobs[k].subject
    PROVE  i = k
<1>1. JobShape /\ UniqueKeys
  BY DEF IInv
<1>2. jobs[i].key = <<"shift", jobs[i].subject>> /\ jobs[k].key = jobs[i].key /\ jobs[i].key # NoKey
  BY <1>1 DEF JobShape, NoKey
<1> QED
  BY <1>1, <1>2 DEF UniqueKeys

\* Two workers have a shift in hand only where both have closed its job.
LEMMA OneWorker ==
    ASSUME IInv, WorkersRows, NEW v \in Workers, NEW w \in Workers, v # w,
           worker[v].pc \notin {"idle", "gone"}, worker[w].pc \notin {"idle", "gone"},
           JobOf(v).kind = "shift", worker[v].job = worker[w].job
    PROVE  worker[v].pc = "markfailed" /\ worker[w].pc = "markfailed"
<1>1. OneHolder /\ worker \in [Workers -> WorkerRow]
  BY DEF IInv, TypeOK
<1>2. /\ worker[v].pc \in Holding \cup {"markfailed"}
      /\ worker[w].pc \in Holding \cup {"markfailed"}
  BY <1>1 DEF WorkerRow, Holding
<1>3. \A u \in {v, w} : worker[u].pc = "markfailed" => JobOf(v).status # "running"
  BY DEF WorkersRows, KnowsRow, JobOf
<1>4. \A u \in {v, w} : worker[u].pc \in Holding => JobOf(v).status = "running"
  BY <1>1 DEF OneHolder, JobOf
<1> QED
  BY <1>1, <1>2, <1>3, <1>4 DEF OneHolder

\* A worker that moves on with its shift, or leaves it, and writes no other row.
LEMMA WorkerKeepsRows ==
    ASSUME IInv, RowsInv, [Next]_vars, NEW w \in Workers, Others(w), UNCHANGED landed,
           worker[w].pc \notin {"idle", "gone"},
           DOMAIN jobs' = DOMAIN jobs,
           \A k \in DOMAIN jobs \ {worker[w].job} : jobs'[k] = jobs[k],
           worker[w].pc = "markfailed" => UNCHANGED jobs,
           \/ UNCHANGED shift
           \/ /\ IsShift(w) /\ shift'[ShiftOf(w)] # "absent"
              /\ \A s \in Shifts \ {ShiftOf(w)} : shift'[s] = shift[s],
           \/ worker'[w].pc \in {"idle", "gone"}
           \/ /\ worker'[w].job = worker[w].job
              /\ IsShift(w) => KnowsRow(worker'[w].pc, worker'[w].result, shift'[ShiftOf(w)],
                                        jobs'[worker[w].job].status),
           proc' = "up" =>
              /\ proc = "up"
              /\ IsShift(w) /\ shift'[ShiftOf(w)] = "running" =>
                    worker'[w].job = worker[w].job /\ Ends(worker'[w].pc, worker'[w].result)
    PROVE  RowsInv'
<1> DEFINE i == worker[w].job
<1>1. /\ JobShape /\ WorkerShape /\ OneHolder /\ worker \in [Workers -> WorkerRow]
      /\ JobsRows /\ WorkersRows /\ OwnedRows /\ JobsGrow
  BY JobsStep DEF IInv, TypeOK, RowsInv
<1>2. i \in DOMAIN jobs /\ \A k \in DOMAIN jobs : SameJob(jobs'[k], jobs[k])
  BY <1>1 DEF WorkerShape, JobsGrow
<1>3. jobs[i].kind = "shift" => jobs[i].status # "queued"
  <2>1. worker[w].pc \in Holding \cup {"markfailed"}
    BY <1>1 DEF WorkerRow, Holding
  <2> QED
    BY <1>1, <2>1 DEF OneHolder, WorkersRows, KnowsRow, JobOf
<1>4. \A k \in DOMAIN jobs \ {i} :
         jobs[k].kind = "shift" => /\ jobs[k].subject \in Shifts
                                   /\ shift'[jobs[k].subject] = shift[jobs[k].subject]
  <2> SUFFICES ASSUME NEW k \in DOMAIN jobs \ {i}, jobs[k].kind = "shift"
               PROVE  /\ jobs[k].subject \in Shifts
                      /\ shift'[jobs[k].subject] = shift[jobs[k].subject]
    OBVIOUS
  <2>1. jobs[k].subject \in Shifts
    BY <1>1 DEF JobShape
  <2>2. IsShift(w) => jobs[k].subject # ShiftOf(w)
    BY <1>2, OneJob DEF IsShift, ShiftOf, JobOf
  <2> QED
    BY <2>1, <2>2
<1>5. JobsRows'
  <2> SUFFICES ASSUME NEW k \in DOMAIN jobs, jobs'[k].kind = "shift"
               PROVE  /\ shift'[jobs'[k].subject] # "absent"
                      /\ jobs'[k].status = "queued" => shift'[jobs'[k].subject] \in Waits
    BY DEF JobsRows
  <2>1. jobs[k].kind = "shift" /\ jobs'[k].subject = jobs[k].subject
    BY <1>2 DEF SameJob
  <2>2. CASE k # i
    BY <1>1, <1>4, <2>1, <2>2 DEF JobsRows
  <2>3. CASE k = i
    <3>1. jobs'[i].status # "queued"
      BY <1>1, <1>2, <1>3, <2>1, <2>3 DEF JobsGrow
    <3>2. shift[jobs[i].subject] # "absent"
      BY <1>1, <1>2, <2>1, <2>3 DEF JobsRows
    <3>3. shift'[jobs[i].subject] # "absent"
      BY <3>2 DEF ShiftOf, JobOf
    <3> QED
      BY <2>1, <2>3, <3>1, <3>3
  <2> QED
    BY <2>2, <2>3
<1>6. WorkersRows'
  <2> SUFFICES ASSUME NEW v \in Workers, worker'[v].pc \notin {"idle", "gone"},
                      jobs'[worker'[v].job].kind = "shift"
               PROVE  KnowsRow(worker'[v].pc, worker'[v].result,
                               shift'[jobs'[worker'[v].job].subject], jobs'[worker'[v].job].status)
    BY DEF WorkersRows, JobOf, ShiftOf
  <2>1. CASE v = w
    BY <1>2, <2>1 DEF SameJob, IsShift, ShiftOf, JobOf
  <2>2. CASE v # w
    <3>1. worker'[v] = worker[v]
      BY <2>2 DEF Others
    <3> DEFINE k == worker[v].job
    <3>2. k \in DOMAIN jobs /\ jobs[k].kind = "shift" /\ jobs'[k].subject = jobs[k].subject
      BY <1>1, <1>2, <3>1 DEF WorkerShape, SameJob
    <3>3. KnowsRow(worker[v].pc, worker[v].result, shift[jobs[k].subject], jobs[k].status)
      BY <1>1, <3>1, <3>2 DEF WorkersRows, JobOf, ShiftOf
    <3>4. CASE k # i
      BY <1>4, <3>1, <3>2, <3>3, <3>4
    <3>5. CASE k = i
      <4>1. worker[v].pc = "markfailed" /\ worker[w].pc = "markfailed"
        BY <1>1, <2>2, <3>1, <3>2, <3>5, OneWorker DEF JobOf
      <4> QED
        BY <3>1, <3>2, <3>3, <4>1 DEF KnowsRow
    <3> QED
      BY <3>4, <3>5
  <2> QED
    BY <2>1, <2>2
<1>7. OwnedRows'
  <2> SUFFICES ASSUME proc' = "up", NEW s \in Shifts \ landed, shift'[s] = "running"
               PROVE  \E v \in Workers : /\ Ends(worker'[v].pc, worker'[v].result)
                                         /\ worker'[v].job \in DOMAIN jobs
                                         /\ jobs'[worker'[v].job].kind = "shift"
                                         /\ jobs'[worker'[v].job].subject = s
    BY DEF OwnedRows, JobOf, ShiftOf
  <2>1. CASE IsShift(w) /\ ShiftOf(w) = s
    BY <1>2, <2>1 DEF SameJob, IsShift, ShiftOf, JobOf
  <2>2. CASE ~(IsShift(w) /\ ShiftOf(w) = s)
    <3>1. shift[s] = "running" /\ proc = "up"
      BY <2>2
    <3>2. PICK v \in Workers : /\ Ends(worker[v].pc, worker[v].result)
                               /\ worker[v].job \in DOMAIN jobs
                               /\ JobOf(v).kind = "shift" /\ ShiftOf(v) = s
      BY <1>1, <3>1 DEF OwnedRows
    <3>3. worker'[v] = worker[v]
      BY <2>2, <3>2 DEF Others, IsShift, ShiftOf, JobOf
    <3> QED
      BY <1>2, <3>2, <3>3 DEF SameJob, ShiftOf, JobOf
  <2> QED
    BY <2>1, <2>2
<1> QED
  BY <1>5, <1>6, <1>7 DEF RowsInv

\* Steps that change no worker: rows of the shifts are planned or skipped, and what
\* is queued is queued for a row that waits.
LEMMA PlannerKeepsRows ==
    ASSUME IInv, RowsInv, [Next]_vars, UNCHANGED worker, UNCHANGED landed,
           proc' = "up" => proc = "up",
           \A k \in DOMAIN jobs : jobs'[k] = jobs[k],
           \A s \in Shifts : \/ shift'[s] = shift[s]
                             \/ shift[s] = "absent" /\ shift'[s] = "scheduled"
                             \/ shift[s] = "scheduled" /\ shift'[s] = "skipped",
           \A k \in DOMAIN jobs' \ DOMAIN jobs :
              jobs'[k].kind = "shift" => shift'[jobs'[k].subject] = "scheduled"
    PROVE  RowsInv'
<1>1. JobShape /\ WorkerShape /\ JobsRows /\ WorkersRows /\ OwnedRows /\ JobsGrow
  BY JobsStep DEF IInv, RowsInv
<1>2. \A k \in DOMAIN jobs : jobs[k].kind = "shift" => jobs[k].subject \in Shifts
  BY <1>1 DEF JobShape
<1>3. JobsRows'
  <2> SUFFICES ASSUME NEW k \in DOMAIN jobs', jobs'[k].kind = "shift"
               PROVE  /\ shift'[jobs'[k].subject] # "absent"
                      /\ jobs'[k].status = "queued" => shift'[jobs'[k].subject] \in Waits
    BY DEF JobsRows
  <2>1. CASE k \in DOMAIN jobs
    BY <1>1, <1>2, <2>1 DEF JobsRows, Waits
  <2>2. CASE k \notin DOMAIN jobs
    BY <2>2 DEF Waits
  <2> QED
    BY <2>1, <2>2
<1>4. WorkersRows'
  <2> SUFFICES ASSUME NEW v \in Workers, worker[v].pc \notin {"idle", "gone"},
                      jobs'[worker[v].job].kind = "shift"
               PROVE  KnowsRow(worker[v].pc, worker[v].result,
                               shift'[jobs'[worker[v].job].subject], jobs'[worker[v].job].status)
    BY DEF WorkersRows, JobOf, ShiftOf
  <2> DEFINE s == jobs[worker[v].job].subject
  <2>1. worker[v].job \in DOMAIN jobs /\ jobs'[worker[v].job] = jobs[worker[v].job] /\ s \in Shifts
    BY <1>1, <1>2 DEF WorkerShape
  <2>2. /\ KnowsRow(worker[v].pc, worker[v].result, shift[s], jobs[worker[v].job].status)
        /\ shift[s] # "absent"
    BY <1>1, <2>1 DEF WorkersRows, JobsRows, JobOf, ShiftOf
  <2> QED
    BY <2>1, <2>2 DEF KnowsRow, Waits
<1>5. OwnedRows'
  <2> SUFFICES ASSUME proc' = "up", NEW s \in Shifts \ landed, shift'[s] = "running"
               PROVE  \E v \in Workers : /\ Ends(worker[v].pc, worker[v].result)
                                         /\ worker[v].job \in DOMAIN jobs'
                                         /\ jobs'[worker[v].job].kind = "shift"
                                         /\ jobs'[worker[v].job].subject = s
    BY DEF OwnedRows, JobOf, ShiftOf
  <2>1. shift[s] = "running" /\ proc = "up"
    OBVIOUS
  <2>2. PICK v \in Workers : /\ Ends(worker[v].pc, worker[v].result)
                             /\ worker[v].job \in DOMAIN jobs
                             /\ JobOf(v).kind = "shift" /\ ShiftOf(v) = s
    BY <1>1, <2>1 DEF OwnedRows
  <2> QED
    BY <1>1, <2>2 DEF JobsGrow, JobOf, ShiftOf
<1> QED
  BY <1>3, <1>4, <1>5 DEF RowsInv

\* A process that goes down leaves the rows as they are, some workers with theirs.
LEMMA LeavingKeepsRows ==
    ASSUME RowsInv, UNCHANGED landed, UNCHANGED <<jobs, shift>>, proc' # "up",
           \A v \in Workers : worker'[v] = worker[v] \/ worker'[v].pc = "gone"
    PROVE  RowsInv'
<1>1. JobsRows'
  BY DEF RowsInv, JobsRows
<1>2. WorkersRows'
  BY DEF RowsInv, WorkersRows, JobOf, ShiftOf
<1> QED
  BY <1>1, <1>2 DEF RowsInv, OwnedRows

\* What the thread of a cancelled task was writing, it writes at once, to the row of
\* its own shift, or late.
LEMMA Abandoned ==
    ASSUME IInv, NEW w \in Workers, Abandon(w), worker[w].pc \in Trying
    PROVE  \/ UNCHANGED late /\ UNCHANGED shift
           \/ /\ UNCHANGED late /\ IsShift(w) /\ worker[w].pc = "mark"
              /\ shift' = [shift EXCEPT ![ShiftOf(w)] = "running"]
           \/ /\ UNCHANGED late /\ IsShift(w) /\ worker[w].pc = "markend"
              /\ shift' = [shift EXCEPT ![ShiftOf(w)] = EndStatus(w)]
           \/ /\ UNCHANGED shift /\ IsShift(w) /\ worker[w].pc = "mark"
              /\ late' = late \cup {<<ShiftOf(w), "running">>}
           \/ /\ UNCHANGED shift /\ IsShift(w) /\ worker[w].pc = "markend"
              /\ late' = late \cup {<<ShiftOf(w), EndStatus(w)>>}
<1>1. shift \in [Shifts -> ShiftStatus] /\ (worker[w].pc \in ShiftPc => IsShift(w))
  BY DEF IInv, TypeOK, WorkerShape, IsShift
<1>2. ASSUME NEW to, Writing(w) = {<<ShiftOf(w), to>>}
      PROVE  \/ UNCHANGED late /\ shift' = [shift EXCEPT ![ShiftOf(w)] = to]
             \/ UNCHANGED shift /\ late' = late \cup {<<ShiftOf(w), to>>}
  <2>1. (CHOOSE l \in Writing(w) : TRUE) = <<ShiftOf(w), to>>
    BY <1>2
  <2>2. \A s : (\E l \in Writing(w) : l[1] = s) <=> s = ShiftOf(w)
    BY <1>2
  <2>3. CASE /\ UNCHANGED late
             /\ shift' = [s \in Shifts |-> IF \E l \in Writing(w) : l[1] = s
                                          THEN (CHOOSE l \in Writing(w) : TRUE)[2] ELSE shift[s]]
    <3>1. shift' = [s \in Shifts |-> IF s = ShiftOf(w) THEN to ELSE shift[s]]
      BY <2>1, <2>2, <2>3
    <3> QED
      BY <1>1, <2>3, <3>1
  <2>4. CASE UNCHANGED shift /\ late' = late \cup Writing(w)
    BY <1>2, <2>4
  <2> QED
    BY <2>3, <2>4 DEF Abandon
<1>3. CASE worker[w].pc = "mark"
  BY <1>1, <1>2, <1>3 DEF Writing, ShiftPc
<1>4. CASE worker[w].pc = "markend"
  BY <1>1, <1>2, <1>4 DEF Writing, ShiftPc
<1>5. CASE worker[w].pc \notin {"mark", "markend"}
  <2>1. Writing(w) = {}
    BY <1>5 DEF Writing
  <2>2. UNCHANGED late /\ shift' = [s \in Shifts |-> shift[s]]
    BY <2>1 DEF Abandon
  <2> QED
    BY <1>1, <2>2
<1> QED
  BY <1>3, <1>4, <1>5

\* Every step but a late write keeps the rows and their workers together.
LEMMA RowsKept == ASSUME IInv, RowsInv, [Next]_vars, ~LateWrite PROVE RowsInv'
<1> USE WorkerAssumption
<1>1. /\ TypeOK /\ JobShape /\ WorkerShape /\ OneHolder /\ worker \in [Workers -> WorkerRow]
      /\ jobs \in Seq(JobRow) /\ now \in Nat /\ shift \in [Shifts -> ShiftStatus]
      /\ JobsRows /\ WorkersRows /\ OwnedRows /\ JobsGrow
  BY JobsStep DEF IInv, TypeOK, RowsInv
<1>2. \A v \in Workers :
         /\ worker[v].pc \notin {"idle", "gone"} => worker[v].job \in DOMAIN jobs
         /\ worker[v].pc \notin {"idle", "gone"} /\ IsShift(v) =>
               /\ ShiftOf(v) \in Shifts /\ shift[ShiftOf(v)] # "absent"
               /\ KnowsRow(worker[v].pc, worker[v].result, shift[ShiftOf(v)], JobOf(v).status)
         /\ worker[v].pc \in ShiftPc => IsShift(v)
  BY <1>1 DEF WorkerShape, WorkersRows, JobsRows, JobShape, IsShift, ShiftOf, JobOf
<1>3. CASE PlannerStep \/ PlannerFails \/ SendChat
  <2>1. UNCHANGED <<proc, worker, landed>>
    BY <1>3 DEF PlannerStep, PlanShifts, DispatchShifts, EnqueueTriage, EnqueueScans,
       PlannerFails, SendChat
  <2>2. \A k \in DOMAIN jobs : jobs'[k] = jobs[k]
    <3>1. ASSUME NEW new \in Seq(JobRow), Insert(new) PROVE \A k \in DOMAIN jobs : jobs'[k] = jobs[k]
      BY <1>1, <3>1, InsertRows DEF Insert
    <3> QED
      BY <1>3, <3>1, InsertedRows
  <2>3. \A s \in Shifts : \/ shift'[s] = shift[s]
                          \/ shift[s] = "absent" /\ shift'[s] = "scheduled"
                          \/ shift[s] = "scheduled" /\ shift'[s] = "skipped"
    <3>1. CASE PlanShifts
      BY <3>1 DEF PlanShifts
    <3>2. CASE DispatchShifts
      BY <3>2 DEF DispatchShifts
    <3> QED
      BY <1>3, <3>1, <3>2 DEF PlannerStep, EnqueueTriage, EnqueueScans, PlannerFails, SendChat, tables
  <2>4. ASSUME NEW k \in DOMAIN jobs' \ DOMAIN jobs, jobs'[k].kind = "shift"
        PROVE  shift'[jobs'[k].subject] = "scheduled"
    <3>1. CASE DispatchShifts
      <4> DEFINE due == {s \in Shifts : shift[s] = "scheduled" /\ At[s] <= planner.seen}
                 stale == {s \in due : planner.seen - At[s] > Grace}
                 fresh == {s \in due \ stale : ~Taken(jobs, ShiftJob(s).key)}
      <4>1. PICK order \in SetToSeqs(fresh) : Insert([i \in DOMAIN order |-> ShiftJob(order[i])])
        BY <3>1 DEF DispatchShifts
      <4>2. order \in Seq(fresh)
        BY <4>1, SetToSeqsType
      <4>3. \A s \in fresh : s \in Shifts /\ shift'[s] = "scheduled"
        BY <3>1 DEF DispatchShifts
      <4>4. \A s \in Shifts : ShiftJob(s) \in JobRow /\ ShiftJob(s).subject = s
        BY <1>1 DEF ShiftJob, Queued, JobRow, Keys, JobStatus
      <4> HIDE DEF fresh
      <4> DEFINE new == [i \in DOMAIN order |-> ShiftJob(order[i])]
      <4>5. new \in Seq(JobRow) /\ DOMAIN new = DOMAIN order
            /\ \A i \in DOMAIN order : new[i].subject = order[i] /\ order[i] \in fresh
        <5>1. DOMAIN order = 1 .. Len(order) /\ \A i \in DOMAIN order : order[i] \in fresh
          BY <4>2
        <5>2. new \in [1 .. Len(order) -> JobRow]
          BY <4>3, <4>4, <5>1
        <5> QED
          BY <4>2, <4>3, <4>4, <5>1, <5>2
      <4>6. Insert(new)
        BY <4>1
      <4> HIDE DEF new
      <4>7. k - Len(jobs) \in DOMAIN new /\ jobs'[k] = new[k - Len(jobs)]
        BY <1>1, <2>4, <4>5, <4>6, InsertRows DEF Insert
      <4> QED
        BY <4>3, <4>5, <4>7
    <3>2. CASE EnqueueTriage \/ EnqueueScans \/ SendChat
      <4>1. ASSUME NEW job \in JobRow, job.kind # "shift", Insert(<<job>>) PROVE FALSE
        <5>1. <<job>> \in Seq(JobRow) /\ \A i \in DOMAIN <<job>> : <<job>>[i] = job
          OBVIOUS
        <5>2. k - Len(jobs) \in DOMAIN <<job>> /\ jobs'[k] = <<job>>[k - Len(jobs)]
          BY <1>1, <2>4, <4>1, <5>1, InsertRows DEF Insert
        <5> QED
          BY <2>4, <4>1, <5>1, <5>2
      <4>2. ASSUME NEW key \in Keys, NEW kind \in {"triage", "scan", "chat"}
            PROVE  Queued(key, kind, None, 1, now) \in JobRow /\ Queued(key, kind, None, 1, now).kind # "shift"
        BY <1>1 DEF Queued, JobRow, JobStatus
      <4>3. /\ <<"triage", Slot(planner.seen, TriageEvery)>> \in Keys
            /\ <<"scan", Slot(planner.seen, ScanEvery)>> \in Keys
            /\ NoKey \in Keys
        BY <1>1, TimeAssumption DEF Keys, Slot, TypeOK
      <4> QED
        BY <2>4, <3>2, <4>1, <4>2, <4>3 DEF EnqueueTriage, EnqueueScans, EnqueueJob, SendChat
    <3> QED
      BY <1>3, <2>4, <3>1, <3>2 DEF PlannerStep, PlanShifts, PlannerFails, tables
  <2> QED
    BY <1>1, <2>1, <2>2, <2>3, <2>4, PlannerKeepsRows
<1>4. ASSUME NEW w \in Workers, ClaimJob(w) PROVE RowsInv'
  <2>1. PICK i \in Oldest(jobs, now) :
           /\ jobs' = Claim(jobs, i)
           /\ worker' = [worker EXCEPT ![w] =
                            [pc |-> "claimed", job |-> i, deadline |-> 0, result |-> "none"]]
    BY <1>4 DEF ClaimJob
  <2>2. i \in DOMAIN jobs /\ jobs[i].status = "queued"
    BY DEF Oldest, Claimable
  <2>3. /\ DOMAIN jobs' = DOMAIN jobs /\ \A k \in DOMAIN jobs \ {i} : jobs'[k] = jobs[k]
        /\ jobs'[i].status = "running" /\ \A k \in DOMAIN jobs : SameJob(jobs'[k], jobs[k])
    BY <1>1, <2>1, <2>2, ClaimRow DEF JobsGrow
  <2>4. /\ UNCHANGED <<proc, shift, landed>> /\ worker[w].pc = "idle" /\ proc = "up"
        /\ worker'[w].pc = "claimed" /\ worker'[w].job = i
        /\ \A v \in Workers \ {w} : worker'[v] = worker[v]
    BY <1>1, <1>4, <2>1 DEF ClaimJob, Running
  <2>5. JobsRows'
    BY <1>1, <2>3, <2>4 DEF JobsRows, SameJob
  <2>6. WorkersRows'
    <3> SUFFICES ASSUME NEW v \in Workers, worker'[v].pc \notin {"idle", "gone"},
                        jobs'[worker'[v].job].kind = "shift"
                 PROVE  KnowsRow(worker'[v].pc, worker'[v].result,
                                 shift[jobs'[worker'[v].job].subject], jobs'[worker'[v].job].status)
      BY <2>4 DEF WorkersRows, JobOf, ShiftOf
    <3>1. CASE v = w
      BY <1>1, <2>2, <2>3, <2>4, <3>1 DEF KnowsRow, JobsRows, SameJob
    <3>2. CASE v # w
      <4>1. worker[v].job # i
        <5>1. worker[v].pc \in Holding \/ worker[v].pc = "markfailed"
          BY <1>1, <2>4, <3>2 DEF Holding, WorkerRow
        <5>2. jobs[worker[v].job].kind = "shift"
          BY <1>2, <2>3, <2>4, <3>2 DEF SameJob
        <5> QED
          BY <1>1, <1>2, <2>2, <2>4, <3>2, <5>1, <5>2 DEF OneHolder, KnowsRow, IsShift, JobOf
      <4> QED
        BY <1>2, <2>3, <2>4, <3>2, <4>1 DEF IsShift, JobOf, ShiftOf
    <3> QED
      BY <3>1, <3>2
  <2>7. OwnedRows'
    <3> SUFFICES ASSUME NEW s \in Shifts \ landed, shift[s] = "running"
                 PROVE  \E v \in Workers : /\ Ends(worker'[v].pc, worker'[v].result)
                                           /\ worker'[v].job \in DOMAIN jobs'
                                           /\ jobs'[worker'[v].job].kind = "shift"
                                           /\ jobs'[worker'[v].job].subject = s
      BY <2>4 DEF OwnedRows, JobOf, ShiftOf
    <3>1. PICK v \in Workers : /\ Ends(worker[v].pc, worker[v].result)
                               /\ worker[v].job \in DOMAIN jobs
                               /\ JobOf(v).kind = "shift" /\ ShiftOf(v) = s
      BY <1>1, <2>4 DEF OwnedRows
    <3>2. v # w
      BY <2>4, <3>1 DEF Ends
    <3> QED
      BY <2>3, <2>4, <3>1, <3>2 DEF SameJob, JobOf, ShiftOf
  <2> QED
    BY <1>1, <2>4, <2>5, <2>6, <2>7 DEF RowsInv
<1>5. ASSUME NEW w \in Workers, worker[w].pc \notin {"idle", "gone"}, Others(w), UNCHANGED landed,
             UNCHANGED <<proc, jobs>>, worker[w].pc # "markfailed",
             worker'[w].job = worker[w].job,
             \/ UNCHANGED shift
             \/ /\ IsShift(w) /\ shift'[ShiftOf(w)] # "absent"
                /\ \A s \in Shifts \ {ShiftOf(w)} : shift'[s] = shift[s],
             IsShift(w) => KnowsRow(worker'[w].pc, worker'[w].result, shift'[ShiftOf(w)],
                                    JobOf(w).status),
             IsShift(w) /\ shift'[ShiftOf(w)] = "running" => Ends(worker'[w].pc, worker'[w].result)
      PROVE  RowsInv'
  <2>1. proc' = "up" => proc = "up"
    BY <1>5
  <2>2. jobs'[worker[w].job].status = JobOf(w).status /\ DOMAIN jobs' = DOMAIN jobs
    BY <1>5 DEF JobOf
  <2> QED
    BY <1>1, <1>5, <2>1, <2>2, WorkerKeepsRows
<1>6. ASSUME NEW w \in Workers, NEW p, Goto(w, p)
      PROVE  Others(w) /\ worker'[w].job = worker[w].job /\ worker'[w].pc = p
  BY <1>1, <1>6 DEF Goto, Others, WorkerRow
<1>7. ASSUME NEW w \in Workers, NEW r, Leave(w, r)
      PROVE  /\ Others(w) /\ worker'[w].job = worker[w].job /\ worker'[w].pc = "finish"
             /\ worker'[w].result = r
  BY <1>1, <1>7 DEF Leave, Others, WorkerRow
<1>8. ASSUME NEW w \in Workers, NEW to \in {"running", "ok", "failed"},
             worker[w].pc \in ShiftPc, shift' = [shift EXCEPT ![ShiftOf(w)] = to]
      PROVE  /\ shift'[ShiftOf(w)] = to
             /\ \A s \in Shifts \ {ShiftOf(w)} : shift'[s] = shift[s]
  BY <1>1, <1>2, <1>8 DEF ShiftPc
<1>9. ASSUME NEW w \in Workers, WorkerStep(w), ~ClaimJob(w), ~FinishRun(w), ~MarkFailed(w),
             ~MarkEnd(w), ~MarkRunning(w), ~Expire(w), ~CheckShift(w), ~Work(w)
      PROVE  RowsInv'
  <2>1. CASE StartRun(w)
    <3>1. /\ Others(w) /\ worker'[w].job = worker[w].job /\ worker[w].pc = "claimed"
          /\ worker'[w].pc = IF JobOf(w).kind = "scan" THEN "work" ELSE "acquire"
      BY <1>1, <2>1 DEF StartRun, Running, Others, WorkerRow
    <3> QED
      BY <1>1, <1>2, <1>5, <2>1, <3>1 DEF StartRun, KnowsRow, IsShift, Waits
  <2>2. CASE AcquireGpu(w)
    <3>1. /\ Others(w) /\ worker'[w].job = worker[w].job /\ worker[w].pc = "acquire"
          /\ worker'[w].pc = IF IsShift(w) THEN "mark" ELSE "check"
      BY <1>6, <2>2 DEF AcquireGpu, Running
    <3> QED
      BY <1>1, <1>2, <1>5, <2>2, <3>1 DEF AcquireGpu, KnowsRow, Waits, tables
  <2>3. CASE UnloadModels(w)
    <3>1. /\ Others(w) /\ worker'[w].job = worker[w].job /\ worker[w].pc = "unload"
          /\ worker'[w].pc = "body"
      BY <1>6, <2>3 DEF UnloadModels, Running
    <3> QED
      BY <1>1, <1>2, <1>5, <2>3, <3>1 DEF UnloadModels, KnowsRow, Ends, tables
  <2>4. CASE RunDesks(w)
    <3>1. /\ Others(w) /\ worker'[w].job = worker[w].job
          /\ worker'[w].pc = "markend" /\ worker[w].pc = "body"
      BY <1>1, <2>4 DEF RunDesks, Running, Others, WorkerRow
    <3> QED
      BY <1>1, <1>2, <1>5, <2>4, <3>1 DEF RunDesks, KnowsRow, Ends, tables
  <2>5. CASE Raise(w)
    <3>1. /\ Others(w) /\ worker'[w].job = worker[w].job /\ worker'[w].pc = "finish"
          /\ worker'[w].result = "raised" /\ worker[w].pc \in Trying \ {"acquire", "body"}
      BY <1>7, <2>5 DEF Raise, Running
    <3> QED
      BY <1>1, <1>2, <1>5, <2>5, <3>1 DEF Raise, KnowsRow, Ends, Trying, tables
  <2> QED
    BY <1>9, <2>1, <2>2, <2>3, <2>4, <2>5 DEF WorkerStep
<1>10. ASSUME NEW w \in Workers, CheckShift(w) \/ Work(w) PROVE RowsInv'
  <2>1. worker[w].pc \in {"check", "work"} /\ ~IsShift(w)
    BY <1>2, <1>10 DEF CheckShift, Work, Running, KnowsRow
  <2>2. Others(w) /\ worker'[w].job = worker[w].job
    BY <1>6, <1>7, <1>10 DEF CheckShift, Work
  <2> QED
    BY <1>1, <1>5, <1>10, <2>1, <2>2 DEF CheckShift, Work, tables
<1>11. ASSUME NEW w \in Workers, MarkRunning(w) PROVE RowsInv'
  <2>1. /\ Others(w) /\ worker'[w].job = worker[w].job /\ worker[w].pc = "mark"
        /\ worker'[w].pc = "unload" /\ worker[w].pc \in ShiftPc
    BY <1>6, <1>11 DEF MarkRunning, Running, ShiftPc
  <2>2. /\ shift'[ShiftOf(w)] = "running"
        /\ \A s \in Shifts \ {ShiftOf(w)} : shift'[s] = shift[s]
    BY <1>8, <1>11, <2>1 DEF MarkRunning
  <2> QED
    BY <1>1, <1>2, <1>5, <1>11, <2>1, <2>2 DEF MarkRunning, KnowsRow, Ends
<1>12. ASSUME NEW w \in Workers, MarkEnd(w) PROVE RowsInv'
  <2>1. /\ Others(w) /\ worker'[w].job = worker[w].job /\ worker[w].pc = "markend"
        /\ worker'[w].pc = "finish" /\ worker[w].pc \in ShiftPc
    BY <1>7, <1>12 DEF MarkEnd, Running, ShiftPc
  <2>2. /\ shift'[ShiftOf(w)] \in {"ok", "failed"}
        /\ \A s \in Shifts \ {ShiftOf(w)} : shift'[s] = shift[s]
    BY <1>8, <1>12, <2>1 DEF MarkEnd, EndStatus
  <2> QED
    BY <1>1, <1>2, <1>5, <1>12, <2>1, <2>2 DEF MarkEnd, KnowsRow, Ends
<1>13. ASSUME NEW w \in Workers, Abandon(w), worker[w].pc \in Trying
       PROVE  \/ UNCHANGED shift
              \/ /\ IsShift(w) /\ shift'[ShiftOf(w)] \in {"running", "ok", "failed"}
                 /\ \A s \in Shifts \ {ShiftOf(w)} : shift'[s] = shift[s]
  <2>1. EndStatus(w) \in {"ok", "failed"}
    BY DEF EndStatus
  <2> QED
    BY <1>8, <1>13, <2>1, Abandoned DEF ShiftPc
<1>14. ASSUME NEW w \in Workers, Expire(w) PROVE RowsInv'
  <2>1. /\ Others(w) /\ worker'[w].job = worker[w].job /\ worker[w].pc \in Trying
        /\ worker'[w].pc = "finish" /\ worker'[w].result = "raised"
    BY <1>7, <1>14 DEF Expire, Running
  <2>2. worker[w].pc \notin {"idle", "gone", "markfailed"}
    BY <2>1 DEF Trying
  <2> QED
    BY <1>1, <1>5, <1>13, <1>14, <2>1, <2>2 DEF Expire, KnowsRow, Ends
<1>15. ASSUME NEW w \in Workers, NEW outcome \in {"ok", "failed"},
              worker[w].pc \in Holding, Close(w, outcome)
       PROVE  /\ DOMAIN jobs' = DOMAIN jobs
              /\ \A k \in DOMAIN jobs \ {worker[w].job} : jobs'[k] = jobs[k]
              /\ jobs'[worker[w].job].status = outcome
  <2> DEFINE i == worker[w].job
  <2>1. i \in DOMAIN jobs /\ jobs[i].max = 1 /\ jobs[i].attempts >= 1
    BY <1>1, <1>15 DEF Holding, Trying, OneHolder, JobShape, JobOf, WorkerShape
  <2>2. jobs' = Finish(jobs, i, outcome, now, 1)
    BY <1>15 DEF Close
  <2> HIDE DEF i
  <2>3. /\ DOMAIN jobs' = DOMAIN jobs /\ \A k \in DOMAIN jobs \ {i} : jobs'[k] = jobs[k]
        /\ jobs'[i].status = outcome
    BY <1>1, <2>1, <2>2, FinishRow
  <2> QED
    BY <2>3 DEF i
<1>16. ASSUME NEW w \in Workers, FinishRun(w) PROVE RowsInv'
  <2>1. /\ worker[w].pc = "finish" /\ worker[w].pc \in Holding /\ UNCHANGED <<proc, shift, landed>>
        /\ EndStatus(w) \in {"ok", "failed"} /\ Close(w, EndStatus(w)) /\ proc # "down"
    BY <1>16 DEF FinishRun, Holding, EndStatus
  <2>2. /\ DOMAIN jobs' = DOMAIN jobs
        /\ \A k \in DOMAIN jobs \ {worker[w].job} : jobs'[k] = jobs[k]
        /\ jobs'[worker[w].job].status \in {"ok", "failed"}
    BY <1>15, <2>1
  <2>3. /\ Others(w)
        /\ \/ worker'[w].pc \in {"idle", "gone"}
           \/ worker'[w].pc = "markfailed" /\ worker'[w].job = worker[w].job
        /\ proc = "up" /\ worker[w].result = "raised" /\ IsShift(w) =>
              worker'[w].pc = "markfailed" /\ worker'[w].job = worker[w].job
    BY <1>1, <1>16 DEF FinishRun, Others, WorkerRow, Idle, Gone
  <2>4. IsShift(w) /\ worker[w].result # "raised" => shift'[ShiftOf(w)] # "running"
    BY <1>2, <2>1 DEF KnowsRow
  <2>5. worker'[w].pc = "markfailed" => KnowsRow(worker'[w].pc, worker'[w].result, shift'[ShiftOf(w)],
                                                jobs'[worker[w].job].status)
    BY <2>2 DEF KnowsRow
  <2>6. proc' = "up" => /\ proc = "up"
                        /\ IsShift(w) /\ shift'[ShiftOf(w)] = "running" =>
                              worker'[w].job = worker[w].job /\ Ends(worker'[w].pc, worker'[w].result)
    BY <2>1, <2>3, <2>4 DEF Ends
  <2> QED
    BY <1>1, <2>1, <2>2, <2>3, <2>5, <2>6, WorkerKeepsRows
<1>17. ASSUME NEW w \in Workers, MarkFailed(w) PROVE RowsInv'
  <2>1. /\ worker[w].pc = "markfailed" /\ UNCHANGED <<proc, jobs, landed>>
        /\ shift' = [shift EXCEPT ![ShiftOf(w)] = "failed"] /\ worker[w].pc \in ShiftPc
    BY <1>17 DEF MarkFailed, ShiftPc
  <2>2. /\ shift'[ShiftOf(w)] = "failed" /\ IsShift(w)
        /\ \A s \in Shifts \ {ShiftOf(w)} : shift'[s] = shift[s]
    BY <1>2, <1>8, <2>1
  <2>3. Others(w) /\ worker'[w].pc \in {"idle", "gone"}
    BY <1>1, <1>17 DEF MarkFailed, Others, Idle, Gone
  <2> QED
    BY <1>1, <2>1, <2>2, <2>3, WorkerKeepsRows
<1>18. ASSUME NEW w \in Workers, CancelInside(w) PROVE RowsInv'
  <2>1. /\ worker[w].pc \in Trying /\ worker[w].pc \in Holding /\ Abandon(w) /\ Close(w, "failed")
        /\ UNCHANGED <<proc, landed>> /\ proc = "stopping"
        /\ worker[w].pc \notin {"idle", "gone", "markfailed"}
    BY <1>18 DEF CancelInside, Holding, Trying
  <2>2. /\ DOMAIN jobs' = DOMAIN jobs
        /\ \A k \in DOMAIN jobs \ {worker[w].job} : jobs'[k] = jobs[k]
        /\ jobs'[worker[w].job].status = "failed"
    BY <1>15, <2>1
  <2>3. /\ Others(w)
        /\ \/ worker'[w].pc \in {"idle", "gone"}
           \/ worker'[w].pc = "markfailed" /\ worker'[w].job = worker[w].job
    BY <1>1, <1>18 DEF CancelInside, Others, WorkerRow, Gone
  <2>4. worker'[w].pc = "markfailed" => KnowsRow(worker'[w].pc, worker'[w].result, shift'[ShiftOf(w)],
                                                jobs'[worker[w].job].status)
    BY <2>2 DEF KnowsRow
  <2>5. proc' # "up"
    BY <2>1
  <2> QED
    BY <1>1, <1>13, <2>1, <2>2, <2>3, <2>4, <2>5, WorkerKeepsRows
<1>19. CASE Shutdown \/ Exit \/ Kill
       \/ \E w \in Workers : WorkerDies(w) \/ CancelOutside(w)
  <2>1. UNCHANGED <<jobs, shift>> /\ UNCHANGED landed /\ proc' # "up"
    BY <1>1, <1>19 DEF Shutdown, Exit, Kill, Down, WorkerDies, CancelOutside, tables
  <2>2. \A v \in Workers : worker'[v] = worker[v] \/ worker'[v].pc = "gone"
    BY <1>1, <1>19 DEF Shutdown, Exit, Kill, Down, WorkerDies, CancelOutside, Gone
  <2> QED
    BY <2>1, <2>2, LeavingKeepsRows
<1>20. CASE Restart
  <2>1. /\ worker' = [w \in Workers |-> Idle]
        /\ shift' = [s \in Shifts |-> IF shift[s] = "running" THEN "failed" ELSE shift[s]]
        /\ DOMAIN jobs' = DOMAIN jobs /\ \A k \in DOMAIN jobs : SameJob(jobs'[k], jobs[k])
        /\ \A k \in DOMAIN jobs : jobs'[k].status = "queued" => jobs[k].status = "queued"
    BY <1>1, <1>20, ReleaseRows DEF Restart, JobsGrow
  <2>2. JobsRows'
    BY <1>1, <2>1 DEF JobsRows, JobShape, SameJob, Waits
  <2>3. WorkersRows'
    BY <2>1 DEF WorkersRows, Idle
  <2>4. OwnedRows'
    BY <2>1 DEF OwnedRows
  <2> QED
    BY <1>1, <2>1, <2>2, <2>3, <2>4 DEF RowsInv
<1>21. CASE Tick \/ UNCHANGED vars
  BY <1>1, <1>21 DEF Tick, vars, tables, RowsInv, JobsRows, WorkersRows, OwnedRows, JobOf, ShiftOf
<1> QED
  BY <1>3, <1>4, <1>9, <1>10, <1>11, <1>12, <1>14, <1>16, <1>17, <1>18, <1>19, <1>20, <1>21
  DEF Next, WorkerStep, ProcessStep

\* A shift that is over stays so: its job never returns to the queue.
LEMMA OverStays == ASSUME IInv, [Next]_vars, NEW s, Over(s) PROVE Over(s)'
<1>1. WorkerShape /\ JobsGrow /\ WorkersMove
  BY JobsStep, WorkersStep DEF IInv
<1>2. PICK i \in DOMAIN jobs : /\ jobs[i].kind = "shift" /\ jobs[i].subject = s
                               /\ jobs[i].status # "queued"
  BY DEF Over
<1>3. /\ i \in DOMAIN jobs' /\ jobs'[i].kind = "shift" /\ jobs'[i].subject = s
      /\ jobs'[i].status # "queued"
  BY <1>1, <1>2 DEF JobsGrow, SameJob
<1>4. ASSUME NEW v \in Workers, worker'[v].pc \notin {"idle", "gone"},
             jobs'[worker'[v].job].kind = "shift", jobs'[worker'[v].job].subject = s
      PROVE  Left(worker'[v].pc, worker'[v].result)
  <2>1. CASE Kept(v)
    <3>1. worker[v].job \in DOMAIN jobs
      BY <1>1, <2>1 DEF Kept, WorkerShape
    <3>2. JobOf(v).kind = "shift" /\ ShiftOf(v) = s
      BY <1>1, <1>4, <2>1, <3>1 DEF Kept, JobsGrow, SameJob, JobOf, ShiftOf
    <3> QED
      BY <2>1, <3>2 DEF Over, Kept
  <2>2. CASE Takes(v)
    <3>1. /\ worker'[v].job \in DOMAIN jobs /\ jobs[worker'[v].job].status = "queued"
          /\ jobs[worker'[v].job].kind = "shift" /\ jobs[worker'[v].job].subject = s
      BY <1>1, <1>4, <2>2 DEF Takes, JobsGrow, SameJob
    <3> QED
      BY <1>2, <3>1, OneJob
  <2> QED
    BY <1>1, <1>4, <2>1, <2>2 DEF WorkersMove
<1> QED
  BY <1>3, <1>4 DEF Over, JobOf, ShiftOf

\* What awaits a late write stays while the row is left alone, skipped or failed.
LEMMA AwaitsStays ==
    ASSUME IInv, [Next]_vars, NEW l, Awaits(l), UNCHANGED landed,
           \/ shift'[l[1]] = shift[l[1]]
           \/ shift[l[1]] = "scheduled" /\ shift'[l[1]] = "skipped"
           \/ shift'[l[1]] = "failed",
           proc' = "up" =>
              \/ shift'[l[1]] = "failed"
              \/ proc = "up" /\ \A w \in Workers : HasLeft(w, l[1]) => HasLeft(w, l[1])'
    PROVE  Awaits(l)'
<1>1. Over(l[1])'
  BY OverStays DEF Awaits
<1>2. /\ l[2] = "running" => shift'[l[1]] \in Waits \cup {"failed"}
      /\ l[2] # "running" => shift'[l[1]] \in {"running", "failed"}
  BY DEF Awaits, Waits
<1>3. proc' = "up" /\ shift'[l[1]] # "failed" => \E w \in Workers : HasLeft(w, l[1])'
  BY DEF Awaits
<1> QED
  BY <1>1, <1>2, <1>3 DEF Awaits

\* Steps that add no late write leave what awaits the others.
LEMMA LateKept ==
    ASSUME IInv, LateRows, [Next]_vars, late' \subseteq late, UNCHANGED landed,
           proc' = "down" => late' = {},
           \A l \in late :
              /\ \/ shift'[l[1]] = shift[l[1]]
                 \/ shift[l[1]] = "scheduled" /\ shift'[l[1]] = "skipped"
                 \/ shift'[l[1]] = "failed"
              /\ proc' = "up" =>
                    \/ shift'[l[1]] = "failed"
                    \/ proc = "up" /\ \A w \in Workers : HasLeft(w, l[1]) => HasLeft(w, l[1])'
    PROVE  LateRows'
<1>1. \A l \in late' : Awaits(l)'
  BY AwaitsStays DEF LateRows
<1>2. \A s \in landed' : Over(s)'
  BY OverStays DEF LateRows
<1> QED
  BY <1>1, <1>2 DEF LateRows

\* A worker in the try block of a shift is the only one that has it, and no write to
\* its row is late.
LEMMA TryingAlone ==
    ASSUME IInv, RowsInv, LateRows, NEW w \in Workers, worker[w].pc \in Trying, IsShift(w)
    PROVE  /\ worker[w].job \in DOMAIN jobs /\ JobOf(w).status # "queued"
           /\ ShiftOf(w) \in Shifts
           /\ ~Over(ShiftOf(w))
           /\ ShiftOf(w) \notin landed /\ \A l \in late : l[1] # ShiftOf(w)
           /\ \A v \in Workers \ {w} :
                 worker[v].pc \notin {"idle", "gone"} /\ JobOf(v).kind = "shift" =>
                    ShiftOf(v) # ShiftOf(w)
<1>1. WorkerShape /\ OneHolder /\ WorkersRows /\ JobShape
  BY DEF IInv, RowsInv
<1>2. /\ worker[w].pc \notin {"idle", "gone", "finish", "markfailed"}
      /\ worker[w].pc \in Holding
  BY DEF Trying, Holding
<1>3. /\ worker[w].job \in DOMAIN jobs /\ JobOf(w).status # "queued"
      /\ ShiftOf(w) \in Shifts
  BY <1>1, <1>2 DEF WorkerShape, OneHolder, JobShape, IsShift, JobOf, ShiftOf
<1>4. ~Over(ShiftOf(w))
  BY <1>2 DEF Over, Left, IsShift
<1>5. ASSUME NEW v \in Workers \ {w}, worker[v].pc \notin {"idle", "gone"},
             JobOf(v).kind = "shift", ShiftOf(v) = ShiftOf(w)
      PROVE  FALSE
  <2>1. worker[v].job \in DOMAIN jobs
    BY <1>1, <1>5 DEF WorkerShape
  <2>2. worker[v].job = worker[w].job
    BY <1>3, <1>5, <2>1, OneJob DEF IsShift, JobOf, ShiftOf
  <2> QED
    BY <1>1, <1>2, <1>5, <2>2, OneWorker
<1> QED
  BY <1>3, <1>4, <1>5 DEF LateRows, Awaits

\* A task that is cancelled may leave a write, to a row nobody else will write but
\* to record the failure.
LEMMA AbandonLate ==
    ASSUME IInv, RowsInv, LateRows, [Next]_vars, NEW w \in Workers, Abandon(w),
           worker[w].pc \in Trying, Others(w), UNCHANGED <<proc, landed>>, proc # "down",
           \/ worker'[w].pc \in {"idle", "gone"}
           \/ worker'[w].job = worker[w].job /\ Left(worker'[w].pc, worker'[w].result),
           proc = "up" => worker'[w].pc \notin {"idle", "gone"}
    PROVE  LateRows'
<1>1. WorkerShape /\ WorkersRows /\ JobsGrow /\ shift \in [Shifts -> ShiftStatus]
  BY JobsStep DEF IInv, RowsInv, TypeOK
<1>2. ~Left(worker[w].pc, worker[w].result) /\ worker[w].pc \notin {"idle", "gone"}
  BY DEF Left, Trying
<1>3. ASSUME NEW v \in Workers, NEW s, HasLeft(v, s) PROVE HasLeft(v, s)'
  <2>1. worker'[v] = worker[v]
    BY <1>2, <1>3 DEF HasLeft, Others
  <2> QED
    BY <1>1, <1>3, <2>1 DEF HasLeft, JobsGrow, SameJob, JobOf, ShiftOf
<1>4. ASSUME NEW l \in late PROVE shift'[l[1]] = shift[l[1]] /\ Awaits(l)'
  <2>1. (IsShift(w) => l[1] # ShiftOf(w)) /\ l[1] \in Shifts
    BY TryingAlone DEF IInv, TypeOK
  <2>2. shift'[l[1]] = shift[l[1]]
    BY <1>1, <2>1, Abandoned
  <2>3. Awaits(l)
    BY DEF LateRows
  <2> QED
    BY <1>3, <2>2, <2>3, AwaitsStays
<1>5. \A s \in landed' : Over(s)'
  BY OverStays DEF LateRows
<1>6. CASE UNCHANGED late
  BY <1>4, <1>5, <1>6 DEF LateRows
<1>7. CASE ~UNCHANGED late
  <2> PICK s : s = ShiftOf(w)
    OBVIOUS
  <2>1. PICK to : /\ UNCHANGED shift /\ IsShift(w) /\ late' = late \cup {<<s, to>>}
                  /\ \/ worker[w].pc = "mark" /\ to = "running"
                     \/ worker[w].pc = "markend" /\ to \in {"ok", "failed"}
    BY <1>7, Abandoned DEF EndStatus
  <2>2. /\ worker[w].job \in DOMAIN jobs /\ JobOf(w).status # "queued"
        /\ s \in Shifts /\ ~Over(s) /\ s \notin landed /\ \A l \in late : l[1] # s
        /\ \A v \in Workers \ {w} :
              worker[v].pc \notin {"idle", "gone"} /\ JobOf(v).kind = "shift" => ShiftOf(v) # s
    BY <2>1, TryingAlone
  <2>3. KnowsRow(worker[w].pc, worker[w].result, shift[s], JobOf(w).status)
    BY <1>1, <1>2, <2>1 DEF WorkersRows, IsShift
  <2>4. /\ worker[w].job \in DOMAIN jobs' /\ jobs'[worker[w].job].kind = "shift"
        /\ jobs'[worker[w].job].subject = s /\ jobs'[worker[w].job].status # "queued"
    BY <1>1, <2>1, <2>2 DEF JobsGrow, SameJob, IsShift, JobOf, ShiftOf
  <2>5. ASSUME NEW v \in Workers, worker'[v].pc \notin {"idle", "gone"},
               jobs'[worker'[v].job].kind = "shift", jobs'[worker'[v].job].subject = s
        PROVE  Left(worker'[v].pc, worker'[v].result)
    <3>1. CASE v # w
      <4>1. worker'[v] = worker[v] /\ worker[v].job \in DOMAIN jobs
        BY <1>1, <2>5, <3>1 DEF Others, WorkerShape
      <4> QED
        BY <1>1, <2>2, <2>5, <3>1, <4>1 DEF JobsGrow, SameJob, JobOf, ShiftOf
    <3> QED
      BY <2>5, <3>1
  <2>6. Over(s)'
    BY <2>4, <2>5 DEF Over, JobOf, ShiftOf
  <2>7. proc' = "up" => HasLeft(w, s)'
    BY <2>4 DEF HasLeft, JobOf, ShiftOf
  <2>8. Awaits(<<s, to>>)'
    BY <2>1, <2>2, <2>3, <2>6, <2>7 DEF Awaits, KnowsRow, Waits
  <2>9. \A l, m \in late' : l[1] = m[1] => l = m
    BY <2>1, <2>2 DEF LateRows
  <2> QED
    BY <1>4, <1>5, <2>1, <2>8, <2>9 DEF LateRows
<1> QED
  BY <1>6, <1>7

\* Every step but a late write leaves a row for every write that is late.
LEMMA LateStep == ASSUME IInv, RowsInv, LateRows, [Next]_vars, ~LateWrite PROVE LateRows'
<1>1. /\ WorkerShape /\ JobsGrow /\ JobShape /\ shift \in [Shifts -> ShiftStatus]
      /\ worker \in [Workers -> WorkerRow] /\ late \subseteq Shifts \X {"running", "ok", "failed"}
  BY JobsStep DEF IInv, TypeOK
<1>2. ASSUME NEW v \in Workers, NEW s, HasLeft(v, s), worker'[v] = worker[v] PROVE HasLeft(v, s)'
  BY <1>1, <1>2 DEF HasLeft, JobsGrow, SameJob, JobOf, ShiftOf
<1>3. CASE PlannerStep \/ PlannerFails \/ SendChat \/ Tick \/ UNCHANGED vars
  <2>1. UNCHANGED <<proc, worker, late, landed>>
    BY <1>3 DEF PlannerStep, PlanShifts, DispatchShifts, EnqueueTriage, EnqueueScans,
       PlannerFails, SendChat, Tick, vars
  <2>2. ASSUME NEW s \in Shifts, shift[s] # "absent"
        PROVE  shift'[s] = shift[s] \/ (shift[s] = "scheduled" /\ shift'[s] = "skipped")
    <3>1. CASE PlanShifts
      BY <2>2, <3>1 DEF PlanShifts
    <3>2. CASE DispatchShifts
      BY <2>2, <3>2 DEF DispatchShifts
    <3> QED
      BY <1>3, <3>1, <3>2 DEF PlannerStep, EnqueueTriage, EnqueueScans, PlannerFails, SendChat,
         Tick, vars, tables
  <2>3. \A l \in late : l[1] \in Shifts /\ shift[l[1]] # "absent"
    BY <1>1 DEF LateRows, Awaits, Waits
  <2> QED
    BY <1>2, <2>1, <2>2, <2>3, LateKept DEF LateRows
<1>4. ASSUME NEW w \in Workers, Others(w), UNCHANGED <<proc, late, landed>>, proc = "up",
             ~Left(worker[w].pc, worker[w].result),
             \/ UNCHANGED shift
             \/ /\ worker[w].pc \in Trying /\ IsShift(w)
                /\ \A s \in Shifts \ {ShiftOf(w)} : shift'[s] = shift[s]
      PROVE  LateRows'
  <2>1. ASSUME NEW l \in late PROVE shift'[l[1]] = shift[l[1]]
    <3>1. l[1] \in Shifts
      BY <1>1
    <3> QED
      BY <1>4, <3>1, TryingAlone
  <2>2. \A v \in Workers, s \in Shifts : HasLeft(v, s) => HasLeft(v, s)'
    BY <1>2, <1>4 DEF Others, HasLeft
  <2>3. \A l \in late : l[1] \in Shifts
    BY <1>1
  <2> QED
    BY <1>4, <2>1, <2>2, <2>3, LateKept
<1>5. ASSUME NEW w \in Workers, WorkerStep(w), ~FinishRun(w), ~MarkFailed(w), ~Expire(w)
      PROVE  LateRows'
  <2>1. Others(w)
    BY <1>1, <1>5 DEF WorkerStep, ClaimJob, StartRun, AcquireGpu, MarkRunning, UnloadModels, RunDesks,
       MarkEnd, CheckShift, Work, Raise, Goto, Leave, Others
  <2>2. UNCHANGED <<proc, late, landed>> /\ proc = "up"
    BY <1>5 DEF WorkerStep, ClaimJob, StartRun, AcquireGpu, MarkRunning, UnloadModels, RunDesks,
       MarkEnd, CheckShift, Work, Raise, Running
  <2>3. ~Left(worker[w].pc, worker[w].result)
    BY <1>5 DEF WorkerStep, ClaimJob, StartRun, AcquireGpu, MarkRunning, UnloadModels, RunDesks,
       MarkEnd, CheckShift, Work, Raise, Running, Left, Trying
  <2>4. CASE MarkRunning(w) \/ MarkEnd(w)
    <3>1. worker[w].pc \in Trying /\ IsShift(w)
      BY <1>1, <2>4 DEF MarkRunning, MarkEnd, Running, Trying, WorkerShape, ShiftPc, IsShift
    <3>2. \A s \in Shifts \ {ShiftOf(w)} : shift'[s] = shift[s]
      BY <1>1, <2>4 DEF MarkRunning, MarkEnd
    <3> QED
      BY <1>4, <2>1, <2>2, <2>3, <3>1, <3>2
  <2>5. CASE ~MarkRunning(w) /\ ~MarkEnd(w)
    <3>1. UNCHANGED shift
      BY <1>5, <2>5 DEF WorkerStep, ClaimJob, StartRun, AcquireGpu, UnloadModels, RunDesks,
         CheckShift, Work, Raise, tables
    <3> QED
      BY <1>4, <2>1, <2>2, <2>3, <3>1
  <2> QED
    BY <2>4, <2>5
<1>6. ASSUME NEW w \in Workers, FinishRun(w) PROVE LateRows'
  <2>1. /\ UNCHANGED <<proc, shift, late, landed>> /\ Others(w) /\ proc # "down"
        /\ worker[w].pc = "finish"
    BY <1>1, <1>6 DEF FinishRun, Others
  <2>2. ASSUME NEW s, HasLeft(w, s), proc = "up" PROVE HasLeft(w, s)'
    <3>1. worker[w].result = "raised" /\ IsShift(w)
      BY <2>1, <2>2 DEF HasLeft, Left, IsShift
    <3>2. worker'[w].pc = "markfailed" /\ worker'[w].job = worker[w].job
      BY <1>1, <1>6, <2>2, <3>1 DEF FinishRun, WorkerRow
    <3> QED
      BY <1>1, <2>2, <3>2 DEF HasLeft, Left, JobsGrow, SameJob, JobOf, ShiftOf
  <2>3. \A v \in Workers, s \in Shifts : proc = "up" /\ HasLeft(v, s) => HasLeft(v, s)'
    BY <1>2, <2>1, <2>2 DEF Others
  <2>4. \A l \in late : l[1] \in Shifts
    BY <1>1
  <2> QED
    BY <2>1, <2>3, <2>4, LateKept
<1>7. ASSUME NEW w \in Workers, MarkFailed(w) PROVE LateRows'
  <2>1. /\ UNCHANGED <<proc, late, landed, jobs>> /\ Others(w) /\ proc # "down"
        /\ shift' = [shift EXCEPT ![ShiftOf(w)] = "failed"]
    BY <1>1, <1>7 DEF MarkFailed, Others
  <2>2. ASSUME NEW l \in late
        PROVE  /\ shift'[l[1]] = shift[l[1]] \/ shift'[l[1]] = "failed"
               /\ \/ shift'[l[1]] = "failed"
                  \/ \A v \in Workers : HasLeft(v, l[1]) => HasLeft(v, l[1])'
    <3>1. l[1] \in Shifts
      BY <1>1
    <3>2. CASE l[1] = ShiftOf(w)
      BY <1>1, <2>1, <3>1, <3>2
    <3>3. CASE l[1] # ShiftOf(w)
      <4>1. ~HasLeft(w, l[1])
        BY <3>3 DEF HasLeft
      <4> QED
        BY <1>1, <1>2, <2>1, <3>1, <3>3, <4>1 DEF Others
    <3> QED
      BY <3>2, <3>3
  <2> QED
    BY <2>1, <2>2, LateKept
<1>8. ASSUME NEW w \in Workers, Expire(w) PROVE LateRows'
  <2>1. /\ Others(w) /\ worker[w].pc \in Trying /\ worker'[w].job = worker[w].job
        /\ worker'[w].pc = "finish" /\ worker'[w].result = "raised"
        /\ Abandon(w) /\ UNCHANGED <<proc, landed>> /\ proc = "up"
    BY <1>1, <1>8 DEF Expire, Leave, Running, Others, WorkerRow
  <2> QED
    BY <2>1, AbandonLate DEF Left
<1>9. ASSUME NEW w \in Workers, CancelInside(w) PROVE LateRows'
  <2>1. /\ Others(w) /\ worker[w].pc \in Trying /\ Abandon(w)
        /\ UNCHANGED <<proc, landed>> /\ proc = "stopping"
        /\ \/ worker'[w].pc \in {"idle", "gone"}
           \/ worker'[w].pc = "markfailed" /\ worker'[w].job = worker[w].job
    BY <1>1, <1>9 DEF CancelInside, Others, WorkerRow, Gone
  <2> QED
    BY <2>1, AbandonLate DEF Left
<1>10. CASE Shutdown \/ Exit \/ Kill
       \/ \E w \in Workers : WorkerDies(w) \/ CancelOutside(w)
  <2>1. /\ UNCHANGED <<shift, landed>> /\ late' \subseteq late /\ proc' # "up"
        /\ proc' = "down" => late' = {}
    BY <1>10 DEF Shutdown, Exit, Kill, Down, WorkerDies, CancelOutside, tables
  <2> QED
    BY <2>1, LateKept
<1>11. CASE Restart
  <2>1. late' = {} /\ landed' = {}
    BY <1>11 DEF Restart, LateRows
  <2> QED
    BY <2>1 DEF LateRows
<1> QED
  BY <1>3, <1>5, <1>6, <1>7, <1>8, <1>9, <1>10, <1>11 DEF Next, WorkerStep, ProcessStep

\* A late write finds a row that a worker is about to fail, or overrules its failure.
LEMMA LateWriteKeeps == ASSUME IInv, LInv, [Next]_vars, LateWrite PROVE LInv'
<1>1. /\ JobShape /\ WorkerShape /\ RowsInv /\ LateRows /\ shift \in [Shifts -> ShiftStatus]
      /\ late \subseteq Shifts \X {"running", "ok", "failed"}
  BY DEF IInv, TypeOK, LInv
<1>2. PICK l \in late :
         /\ late' = late \ {l} /\ shift' = [shift EXCEPT ![l[1]] = l[2]]
         /\ landed' = IF shift[l[1]] = "failed" THEN landed \cup {l[1]} ELSE landed
  BY DEF LateWrite
<1>3. UNCHANGED <<proc, jobs, worker>> /\ proc # "down"
  BY DEF LateWrite
<1>4. PICK s \in Shifts, to \in {"running", "ok", "failed"} : l = <<s, to>>
  BY <1>1
<1>5. /\ s = l[1] /\ to = l[2] /\ shift'[s] = to
      /\ \A q \in Shifts \ {s} : shift'[q] = shift[q]
  BY <1>1, <1>2, <1>4
<1>6. Awaits(l) /\ Over(s)
  BY <1>1, <1>5 DEF LateRows, Awaits
<1>7. JobsRows'
  <2> SUFFICES ASSUME NEW k \in DOMAIN jobs, jobs[k].kind = "shift"
               PROVE  /\ shift'[jobs[k].subject] # "absent"
                      /\ jobs[k].status = "queued" => shift'[jobs[k].subject] \in Waits
    BY <1>3 DEF JobsRows
  <2>1. jobs[k].subject \in Shifts
    BY <1>1 DEF JobShape
  <2>2. CASE jobs[k].subject = s
    <3>1. jobs[k].status # "queued"
      BY <1>6, <2>2, OneJob DEF Over
    <3> QED
      BY <1>5, <2>2, <3>1
  <2>3. CASE jobs[k].subject # s
    BY <1>1, <1>5, <2>1, <2>3 DEF RowsInv, JobsRows
  <2> QED
    BY <2>2, <2>3
<1>8. WorkersRows'
  <2> SUFFICES ASSUME NEW v \in Workers, worker[v].pc \notin {"idle", "gone"},
                      JobOf(v).kind = "shift"
               PROVE  KnowsRow(worker[v].pc, worker[v].result, shift'[ShiftOf(v)], JobOf(v).status)
    BY <1>3 DEF WorkersRows, JobOf, ShiftOf
  <2>1. /\ KnowsRow(worker[v].pc, worker[v].result, shift[ShiftOf(v)], JobOf(v).status)
        /\ ShiftOf(v) \in Shifts
    BY <1>1 DEF RowsInv, WorkersRows, WorkerShape, JobShape, JobOf, ShiftOf
  <2>2. CASE ShiftOf(v) = s
    <3>1. Left(worker[v].pc, worker[v].result)
      BY <1>6, <2>2 DEF Over
    <3> QED
      BY <2>1, <3>1 DEF KnowsRow, Left
  <2>3. CASE ShiftOf(v) # s
    BY <1>5, <2>1, <2>3
  <2> QED
    BY <2>2, <2>3
<1>9. OwnedRows'
  <2> SUFFICES ASSUME proc = "up", NEW q \in Shifts \ landed', shift'[q] = "running"
               PROVE  \E w \in Workers : /\ Ends(worker[w].pc, worker[w].result)
                                         /\ worker[w].job \in DOMAIN jobs
                                         /\ JobOf(w).kind = "shift" /\ ShiftOf(w) = q
    BY <1>3 DEF OwnedRows, JobOf, ShiftOf
  <2>1. CASE q = s
    <3>1. shift[s] # "failed"
      BY <1>2, <1>5, <2>1
    <3>2. PICK w \in Workers : HasLeft(w, s)
      BY <1>5, <1>6, <3>1 DEF Awaits
    <3> QED
      BY <2>1, <3>2 DEF HasLeft, Left, Ends
  <2>2. CASE q # s
    BY <1>1, <1>2, <1>5, <2>2 DEF RowsInv, OwnedRows
  <2> QED
    BY <2>1, <2>2
<1>10. ASSUME NEW m \in late' PROVE Awaits(m)'
  <2>1. m \in late /\ m # l /\ Awaits(m) /\ m[1] \in Shifts
    BY <1>1, <1>2, <1>10 DEF LateRows
  <2>2. m[1] # s
    BY <1>1, <1>5, <2>1 DEF LateRows
  <2>3. m[1] \notin landed' /\ shift'[m[1]] = shift[m[1]]
    BY <1>2, <1>5, <2>1, <2>2 DEF Awaits
  <2>4. Over(m[1])' /\ \A w \in Workers : HasLeft(w, m[1]) => HasLeft(w, m[1])'
    BY <1>3, <2>1, OverStays DEF Awaits, HasLeft, JobOf, ShiftOf
  <2> QED
    BY <1>3, <2>1, <2>3, <2>4 DEF Awaits
<1>11. \A q \in landed' : Over(q)'
  BY <1>1, <1>2, <1>5, <1>6, OverStays DEF LateRows
<1>12. LateRows'
  BY <1>1, <1>2, <1>3, <1>10, <1>11 DEF LateRows
<1> QED
  BY <1>7, <1>8, <1>9, <1>12 DEF LInv, RowsInv

\* Every step keeps the rows, their workers and the late writes together.
LEMMA LedgerStep == ASSUME IInv, LInv, [Next]_vars PROVE LInv'
BY RowsKept, LateStep, LateWriteKeeps DEF LInv

LEMMA InitLInv == Init => LInv
<1> SUFFICES ASSUME Init PROVE LInv
  OBVIOUS
<1>1. late = {} /\ landed = {} /\ DOMAIN jobs = {} /\ proc # "up"
  BY DEF Init
<1>2. \A w \in Workers : worker[w].pc = "gone"
  BY DEF Init, Gone
<1> QED
  BY <1>1, <1>2 DEF LInv, RowsInv, LateRows, JobsRows, WorkersRows, OwnedRows

\* While the process is up a running shift has the worker that is going to end it, for
\* any number of shifts, workers and late writes, but where a write overruled the
\* recorded failure: whatever way a worker leaves its shift by, it ends the row or
\* goes on to where it does, and a write that comes before it does is overwritten.
THEOREM RunningShiftsOwned == Spec => []ShiftRowsOwned
<1>1. IInv /\ LInv /\ [Next]_vars => LInv'
  BY LedgerStep
<1>2. LInv => ShiftRowsOwned
  <2> SUFFICES ASSUME LInv, proc = "up", NEW s \in Shifts \ landed, shift[s] = "running"
               PROVE  \E w \in Workers, i \in DOMAIN jobs :
                         /\ Holds(w, i, Holding \cup {"markfailed"})
                         /\ jobs[i].kind = "shift" /\ jobs[i].subject = s
    BY DEF ShiftRowsOwned
  <2>1. PICK w \in Workers : /\ Ends(worker[w].pc, worker[w].result)
                             /\ worker[w].job \in DOMAIN jobs
                             /\ JobOf(w).kind = "shift" /\ ShiftOf(w) = s
    BY DEF LInv, RowsInv, OwnedRows
  <2>2. worker[w].pc \in Holding \cup {"markfailed"}
    BY <2>1 DEF Ends, Holding, Trying
  <2> QED
    BY <2>1, <2>2 DEF Holds, JobOf, ShiftOf
<1> QED
  BY Inductive, InitLInv, <1>1, <1>2, PTL DEF Spec

-----------------------------------------------------------------------------
(* The scheduler implements ShiftLedger.                                   *)

\* The rows of S move to one state, and no desk starts.
LEMMA LedgerMove ==
    ASSUME NEW S \in SUBSET Shifts, NEW From, NEW to, UNCHANGED <<bodies, landed>>,
           \A s \in S : shift[s] \in From,
           shift' = [s \in Shifts |-> IF s \in S THEN to ELSE shift[s]]
    PROVE  Ledger!Move(S, From, to)
BY DEF Ledger!Move

\* The same for one row, as the statements that write one row put it.
LEMMA LedgerWrite ==
    ASSUME shift \in [Shifts -> ShiftStatus], NEW s \in Shifts, NEW From, NEW to,
           UNCHANGED <<bodies, landed>>, shift[s] \in From, shift' = [shift EXCEPT ![s] = to]
    PROVE  Ledger!Move({s}, From, to)
<1>1. shift' = [q \in Shifts |-> IF q \in {s} THEN to ELSE shift[q]]
  OBVIOUS
<1> QED
  BY <1>1, LedgerMove

\* A write of the row a worker works on is a step of the ledger, or no change:
\* the row begins, and what runs ends ok or failed.
LEMMA WriteStep ==
    ASSUME IInv, LInv, NEW w \in Workers, UNCHANGED <<bodies, landed>>,
           worker[w].pc \in {"mark", "markend", "markfailed"},
           NEW to, shift' = [shift EXCEPT ![ShiftOf(w)] = to],
           worker[w].pc = "mark" => to = "running",
           worker[w].pc = "markend" => to \in {"ok", "failed"},
           worker[w].pc = "markfailed" => to = "failed"
    PROVE  [Ledger!Next]_(Ledger!vars)
<1> DEFINE s == ShiftOf(w)
<1>1. /\ shift \in [Shifts -> ShiftStatus] /\ s \in Shifts /\ shift[s] # "absent"
      /\ KnowsRow(worker[w].pc, worker[w].result, shift[s], JobOf(w).status)
  BY DEF IInv, LInv, RowsInv, TypeOK, WorkerShape, JobShape, JobsRows, WorkersRows, ShiftPc, JobOf, ShiftOf
<1> HIDE DEF s
<1>2. shift' = [shift EXCEPT ![s] = to]
  BY DEF s
<1>3. CASE worker[w].pc = "mark"
  <2>1. Ledger!Move({s}, {"scheduled", "skipped"}, "running")
    BY <1>1, <1>2, <1>3, LedgerWrite DEF KnowsRow, Waits
  <2> QED
    BY <1>1, <2>1 DEF Ledger!Next, Ledger!Begin
<1>4. CASE worker[w].pc = "markend" /\ to = "ok"
  <2>1. Ledger!Move({s}, {"running"}, "ok")
    BY <1>1, <1>2, <1>4, LedgerWrite DEF KnowsRow
  <2> QED
    BY <1>1, <2>1 DEF Ledger!Next, Ledger!Succeed
<1>5. CASE to = "failed" /\ shift[s] # "failed"
  <2>1. shift[s] \in {"scheduled", "skipped", "running", "ok"}
    BY <1>1, <1>5 DEF ShiftStatus
  <2>2. Ledger!Move({s}, {"scheduled", "skipped", "running", "ok"}, "failed")
    BY <1>1, <1>2, <1>5, <2>1, LedgerWrite
  <2> QED
    BY <1>1, <2>2 DEF Ledger!Next, Ledger!Fail
<1>6. CASE to = "failed" /\ shift[s] = "failed"
  <2>1. shift' = shift
    BY <1>1, <1>2, <1>6
  <2> QED
    BY <2>1 DEF Ledger!vars
<1> QED
  BY <1>3, <1>4, <1>5, <1>6

\* Every step of the scheduler is a step of the ledger or changes nothing of it.
LEMMA KeepsLedgerStep ==
    ASSUME IInv, LInv, [Next]_vars PROVE [Ledger!Next]_(Ledger!vars)
<1>1. /\ shift \in [Shifts -> ShiftStatus] /\ bodies \in [Shifts -> Nat]
      /\ worker \in [Workers -> WorkerRow]
  BY DEF IInv, TypeOK
<1>2. CASE UNCHANGED <<shift, bodies, landed>>
  BY <1>2 DEF Ledger!vars
<1>3. CASE PlanShifts
  <2> DEFINE rows == {s \in Shifts : /\ Day(At[s]) \in Day(now) .. Day(now) + PlanDays - 1
                                     /\ At[s] > now - Grace /\ shift[s] = "absent"}
  <2>1. CASE shift' = [s \in Shifts |-> IF s \in rows THEN "scheduled" ELSE shift[s]]
    <3>1. rows \in SUBSET Shifts /\ (\A s \in rows : shift[s] \in {"absent"}) /\ UNCHANGED <<bodies, landed>>
      BY <1>3 DEF PlanShifts
    <3> HIDE DEF rows
    <3>2. Ledger!Move(rows, {"absent"}, "scheduled")
      BY <2>1, <3>1, LedgerMove
    <3> QED
      BY <3>1, <3>2 DEF Ledger!Next, Ledger!Plan
  <2> QED
    BY <1>2, <1>3, <2>1 DEF PlanShifts
<1>4. CASE DispatchShifts
  <2> DEFINE due == {s \in Shifts : shift[s] = "scheduled" /\ At[s] <= planner.seen}
             stale == {s \in due : planner.seen - At[s] > Grace}
  <2>1. shift' = [s \in Shifts |-> IF s \in stale THEN "skipped" ELSE shift[s]] /\ UNCHANGED <<bodies, landed>>
    BY <1>4 DEF DispatchShifts
  <2>2. stale \in SUBSET Shifts /\ \A s \in stale : shift[s] \in {"scheduled"}
    OBVIOUS
  <2> HIDE DEF stale
  <2>3. Ledger!Move(stale, {"scheduled"}, "skipped")
    BY <2>1, <2>2, LedgerMove
  <2> QED
    BY <2>2, <2>3 DEF Ledger!Next, Ledger!Skip
<1>5. ASSUME NEW w \in Workers, MarkRunning(w) \/ MarkEnd(w) \/ MarkFailed(w)
      PROVE  [Ledger!Next]_(Ledger!vars)
  BY <1>5, WriteStep DEF MarkRunning, MarkEnd, MarkFailed, Running, EndStatus
<1>6. ASSUME NEW w \in Workers, UnloadModels(w) PROVE [Ledger!Next]_(Ledger!vars)
  <2> DEFINE s == ShiftOf(w)
  <2>1. /\ worker[w].pc = "unload" /\ UNCHANGED <<shift, landed>>
        /\ bodies' = [bodies EXCEPT ![s] = @ + 1]
    BY <1>6 DEF UnloadModels, Running, tables
  <2>2. worker[w].job \in DOMAIN jobs /\ IsShift(w) /\ s \in Shifts /\ shift[s] = "running"
    BY <2>1 DEF IInv, LInv, RowsInv, WorkerShape, JobShape, WorkersRows, KnowsRow, ShiftPc, JobOf, ShiftOf, IsShift
  <2>5. s \notin landed
    BY <2>1, <2>2, TryingAlone DEF LInv, Trying
  <2>3. bodies[s] = 0
    <3> SUFFICES ASSUME bodies[s] # 0 PROVE FALSE
      OBVIOUS
    <3>1. PICK k \in DOMAIN jobs : /\ jobs[k].kind = "shift" /\ jobs[k].subject = s
                                   /\ \A v \in Workers : worker[v].pc \in BeforeBody => worker[v].job # k
      BY <2>2 DEF IInv, StartedOnce
    <3>2. k = worker[w].job
      BY <2>2, <3>1, OneJob DEF IsShift, ShiftOf, JobOf
    <3> QED
      BY <2>1, <3>1, <3>2 DEF BeforeBody
  <2> HIDE DEF s
  <2>4. bodies' = [bodies EXCEPT ![s] = 1]
    BY <1>1, <2>1, <2>2, <2>3
  <2> QED
    BY <2>1, <2>2, <2>3, <2>4, <2>5 DEF Ledger!Next, Ledger!Start
<1>7. ASSUME NEW w \in Workers, Expire(w) \/ CancelInside(w) PROVE [Ledger!Next]_(Ledger!vars)
  <2>1. Abandon(w) /\ worker[w].pc \in Trying /\ UNCHANGED <<bodies, landed>>
    BY <1>7 DEF Expire, CancelInside, Running
  <2>2. EndStatus(w) \in {"ok", "failed"}
    BY DEF EndStatus
  <2>3. \/ UNCHANGED shift
        \/ worker[w].pc = "mark" /\ shift' = [shift EXCEPT ![ShiftOf(w)] = "running"]
        \/ worker[w].pc = "markend" /\ shift' = [shift EXCEPT ![ShiftOf(w)] = EndStatus(w)]
    BY <2>1, Abandoned
  <2> QED
    BY <1>2, <2>1, <2>2, <2>3, WriteStep
<1>8. CASE Restart
  BY <1>8 DEF Restart, Ledger!Next, Ledger!Interrupt
<1>11. CASE LateWrite
  <2>1. PICK l \in late : /\ shift' = [shift EXCEPT ![l[1]] = l[2]]
                          /\ landed' = IF shift[l[1]] = "failed" THEN landed \cup {l[1]} ELSE landed
    BY <1>11 DEF LateWrite
  <2>2. late \subseteq Shifts \X {"running", "ok", "failed"} /\ Awaits(l) /\ UNCHANGED bodies
    BY <1>11 DEF IInv, TypeOK, LInv, LateRows, LateWrite
  <2>3. PICK s \in Shifts, to \in {"running", "ok", "failed"} : l[1] = s /\ l[2] = to
    BY <2>2
  <2>4. shift' = [shift EXCEPT ![s] = to]
    BY <2>1, <2>3
  <2>5. CASE shift[s] = "failed"
    BY <2>1, <2>2, <2>3, <2>4, <2>5 DEF Ledger!Next, Ledger!Overrule
  <2>6. CASE shift[s] # "failed" /\ to = "running"
    <3>1. Ledger!Move({s}, {"scheduled", "skipped"}, "running")
      BY <1>1, <2>1, <2>2, <2>3, <2>4, <2>6, LedgerWrite DEF Awaits, Waits
    <3> QED
      BY <3>1 DEF Ledger!Next, Ledger!Begin
  <2>7. CASE shift[s] # "failed" /\ to = "ok"
    <3>1. Ledger!Move({s}, {"running"}, "ok")
      BY <1>1, <2>1, <2>2, <2>3, <2>4, <2>7, LedgerWrite DEF Awaits
    <3> QED
      BY <3>1 DEF Ledger!Next, Ledger!Succeed
  <2>8. CASE shift[s] # "failed" /\ to = "failed"
    <3>1. Ledger!Move({s}, {"scheduled", "skipped", "running", "ok"}, "failed")
      BY <1>1, <2>1, <2>2, <2>3, <2>4, <2>8, LedgerWrite DEF Awaits
    <3> QED
      BY <3>1 DEF Ledger!Next, Ledger!Fail
  <2> QED
    BY <2>5, <2>6, <2>7, <2>8
<1>9. CASE EnqueueTriage \/ EnqueueScans \/ PlannerFails \/ SendChat \/ Tick
      \/ Shutdown \/ Exit \/ Kill \/ UNCHANGED vars
      \/ \E w \in Workers : WorkerDies(w) \/ CancelOutside(w)
  BY <1>1, <1>2, <1>9 DEF EnqueueTriage, EnqueueScans, PlannerFails, SendChat, Tick,
     Shutdown, Exit, Kill, WorkerDies, CancelOutside, vars, tables
<1>10. ASSUME NEW w \in Workers,
              ClaimJob(w) \/ StartRun(w) \/ AcquireGpu(w) \/ RunDesks(w) \/ CheckShift(w)
              \/ Work(w) \/ Raise(w) \/ FinishRun(w)
       PROVE  [Ledger!Next]_(Ledger!vars)
  BY <1>2, <1>10 DEF ClaimJob, StartRun, AcquireGpu, RunDesks, CheckShift, Work, Raise, FinishRun, tables
<1> QED
  BY <1>3, <1>4, <1>5, <1>6, <1>7, <1>8, <1>9, <1>10, <1>11
  DEF Next, PlannerStep, WorkerStep, ProcessStep

\* The scheduler keeps the promise of ShiftLedger, for any set of shifts: a row moves
\* one way and the desks start once, while it says running, and a write that comes
\* late overrules a failure but starts no desk.
THEOREM ImplementsLedger == Spec => KeepsLedger
<1>1. Init => Ledger!Init
  BY DEF Init, Ledger!Init
<1>2. IInv /\ LInv /\ [Next]_vars => LInv'
  BY LedgerStep
<1>3. IInv /\ LInv /\ [Next]_vars => [Ledger!Next]_(Ledger!vars)
  BY KeepsLedgerStep
<1> QED
  BY Inductive, InitLInv, <1>1, <1>2, <1>3, PTL DEF Spec, KeepsLedger, Ledger!Spec
=============================================================================
