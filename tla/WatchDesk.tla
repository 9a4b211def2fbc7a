------------------------------ MODULE WatchDesk ------------------------------
(***************************************************************************)
(* The watch desk scheduler, src/desk/watch/scheduler.py: one process with *)
(* a planner task and a few worker tasks on one event loop, and the        *)
(* shifts, jobs and job_runs tables they share.                            *)
(*                                                                         *)
(* A step of the model is what other tasks, a crash or a shutdown can see  *)
(* happen at once: one transaction, or the code between two awaits.  The   *)
(* model abstracts what a desk does while it has the GPU to its outcome.   *)
(***************************************************************************)
EXTENDS JobTable, FiniteSets, SequencesExt

CONSTANTS
    Shifts,         \* rows of the shifts table, one per (kind, scheduled_for)
    Workers,        \* WORKERS
    None,           \* nobody: a free lock
    At,             \* [Shifts -> Nat]: scheduled_for
    Grace,          \* shift_grace_minutes
    DayLen,         \* length of a day
    PlanDays,       \* PLAN_DAYS_AHEAD
    JobTimeout,     \* JOB_TIMEOUT_S
    ShiftTimeout,   \* [Shifts -> Nat]: SHIFT_TIMEOUT_S, PRE_MARKET_TIMEOUT_S
    TriageEvery,    \* TRIAGE_SECONDS
    ScanEvery,      \* the cadence of the scans
    Prompt,         \* TRUE: a database step takes no time, FALSE: any time
    \* Bounds of the model, which the code does not have:
    Horizon,        \* the clock stops here
    MaxChats,       \* chat messages sent
    MaxFaults,      \* shutdowns, kills, database and planner errors
    MaxLate         \* writes of a cancelled task that land later

ASSUME ShiftAssumption ==
    /\ IsFiniteSet(Shifts)
    /\ At \in [Shifts -> Nat] /\ ShiftTimeout \in [Shifts -> Nat]
ASSUME WorkerAssumption == IsFiniteSet(Workers) /\ None \notin Workers
ASSUME TimeAssumption ==
    /\ Grace \in Nat /\ JobTimeout \in Nat /\ Horizon \in Nat
    /\ DayLen \in Nat \ {0} /\ PlanDays \in Nat \ {0}
    /\ TriageEvery \in Nat \ {0} /\ ScanEvery \in Nat \ {0}
    /\ Prompt \in BOOLEAN
ASSUME BoundAssumption == MaxChats \in Nat /\ MaxFaults \in Nat /\ MaxLate \in Nat

VARIABLES
    proc,       \* the process: "up", "stopping" (cancelled tasks) or "down"
    now,        \* the clock
    planner,    \* the planner task: where it is and the now it captured
    through,    \* Planner._planned_through, -1 for None
    shift,      \* shifts.status, "absent" before the row is inserted
    jobs,       \* the jobs table
    runs,       \* job_runs.status of the run of each job, "none" before it
    worker,     \* the worker tasks
    gpu,        \* Worker._gpu: the worker that holds the lock
    late,       \* shift writes in threads whose task was cancelled
    faults,     \* faults so far
    bodies,     \* history: how often the desks of a shift started
    landed      \* history: shifts whose recorded failure a late write overruled

tables == <<shift, jobs, runs>>
vars == <<proc, now, planner, through, tables, worker, gpu, late, faults, bodies, landed>>

-----------------------------------------------------------------------------

ShiftStatus == {"absent", "scheduled", "running", "ok", "failed", "skipped"}

Idle == [pc |-> "idle", job |-> 0, deadline |-> 0, result |-> "none"]
Gone == [pc |-> "gone", job |-> 0, deadline |-> 0, result |-> "none"]

\* Where the event loop can take a worker that is inside the try block.
Trying == {"acquire", "mark", "unload", "body", "markend", "check", "work"}

\* A job is queued once per key: a shift, or a slot of time.
Keys == {"shift"} \X Shifts \cup {"triage", "scan"} \X Int \cup {NoKey}

JobRow == [key : Keys, kind : {"shift", "triage", "chat", "scan"},
           subject : Shifts \cup {None}, status : JobStatus,
           attempts : Nat, max : Nat, after : Nat]

WorkerRow == [pc : Trying \cup {"idle", "claimed", "finish", "markfailed", "gone"},
              job : Nat, deadline : Nat, result : {"none", "ok", "error", "raised"}]

TypeOK ==
    /\ proc \in {"up", "stopping", "down"}
    /\ now \in 0 .. Horizon
    /\ planner \in [pc : {"sleep", "dispatch", "triage", "scans"}, seen : -1 .. Horizon]
    /\ through \in Int
    /\ shift \in [Shifts -> ShiftStatus]
    /\ jobs \in Seq(JobRow)
    /\ runs \in Seq({"none", "running", "ok", "failed"}) /\ Len(runs) = Len(jobs)
    /\ worker \in [Workers -> WorkerRow]
    /\ gpu \in Workers \cup {None}
    /\ late \subseteq Shifts \X {"running", "ok", "failed"}
    /\ faults \in 0 .. MaxFaults
    /\ bodies \in [Shifts -> Nat]
    /\ landed \subseteq Shifts

JobOf(w) == jobs[worker[w].job]
ShiftOf(w) == JobOf(w).subject
Due(w) == now >= worker[w].deadline

\* How many chat jobs the API queued so far.
Chats == Cardinality({i \in DOMAIN jobs : jobs[i].kind = "chat"})

Init ==
    /\ proc = "down" /\ now = 0
    /\ planner = [pc |-> "sleep", seen |-> -1] /\ through = -1
    /\ shift = [s \in Shifts |-> "absent"] /\ jobs = <<>> /\ runs = <<>>
    /\ worker = [w \in Workers |-> Gone] /\ gpu = None /\ late = {}
    /\ faults = 0
    /\ bodies = [s \in Shifts |-> 0] /\ landed = {}

-----------------------------------------------------------------------------
(* The planner: plan_forever.                                              *)

PlannerAt(pc) == proc = "up" /\ planner.pc = pc
PlannerTo(pc) == planner' = [planner EXCEPT !.pc = pc]

\* Insert jobs at the end of the table; a new job has no run yet.
Insert(new) ==
    /\ jobs' = jobs \o new
    /\ runs' = runs \o [i \in DOMAIN new |-> "none"]

\* enqueue: nothing happens when the key was queued before.
EnqueueJob(job) ==
    IF Taken(jobs, job.key) THEN UNCHANGED <<jobs, runs>> ELSE Insert(<<job>>)

Day(t) == t \div DayLen

\* plan_shifts: nothing to do until planned_through is less than PlanDays away.
\* The tick captures now here and uses it in all its steps.  With Prompt one
\* tick per unit of time is enough: the others find the same now.
PlanShifts ==
    /\ PlannerAt("sleep") /\ (Prompt => planner.seen # now)
    /\ planner' = [pc |-> "dispatch", seen |-> now]
    /\ LET last == Day(now) + PlanDays - 1
           rows == {s \in Shifts : /\ Day(At[s]) \in Day(now) .. last
                                   /\ At[s] > now - Grace
                                   /\ shift[s] = "absent"}
       IN  IF through # -1 /\ through >= last
           THEN UNCHANGED <<through, shift>>
           ELSE /\ through' = last
                /\ shift' = [s \in Shifts |-> IF s \in rows THEN "scheduled" ELSE shift[s]]
    /\ UNCHANGED <<proc, now, jobs, runs, worker, gpu, late, faults, bodies, landed>>

\* Mutation: dispatch_shifts forgets the dedupe key.
ShiftJobWithoutKey(s) == Queued(NoKey, "shift", s, 1, now)

ShiftJob(s) == Queued(<<"shift", s>>, "shift", s, 1, now)

\* Mutation: dispatch_shifts queues every shift that is due, however late.
DispatchAllShifts ==
    /\ PlannerAt("dispatch") /\ PlannerTo("triage")
    /\ LET due == {s \in Shifts : shift[s] = "scheduled" /\ At[s] <= planner.seen}
           fresh == {s \in due : ~Taken(jobs, ShiftJob(s).key)}
       IN  \E order \in SetToSeqs(fresh) :
              Insert([i \in DOMAIN order |-> ShiftJob(order[i])])
    /\ UNCHANGED <<proc, now, through, shift, worker, gpu, late, faults, bodies, landed>>

\* dispatch_shifts: one transaction over every shift that is due, in the order
\* the table happens to return them.
DispatchShifts ==
    /\ PlannerAt("dispatch") /\ PlannerTo("triage")
    /\ LET due == {s \in Shifts : shift[s] = "scheduled" /\ At[s] <= planner.seen}
           stale == {s \in due : planner.seen - At[s] > Grace}
           fresh == {s \in due \ stale : ~Taken(jobs, ShiftJob(s).key)}
       IN  /\ shift' = [s \in Shifts |-> IF s \in stale THEN "skipped" ELSE shift[s]]
           /\ \E order \in SetToSeqs(fresh) :
                 Insert([i \in DOMAIN order |-> ShiftJob(order[i])])
    /\ UNCHANGED <<proc, now, through, worker, gpu, late, faults, bodies, landed>>

Slot(t, every) == t \div every

\* enqueue_scans: triage has a transaction of its own, before the scans'.
EnqueueTriage ==
    /\ PlannerAt("triage") /\ PlannerTo("scans")
    /\ EnqueueJob(Queued(<<"triage", Slot(planner.seen, TriageEvery)>>, "triage", None, 1, now))
    /\ UNCHANGED <<proc, now, through, shift, worker, gpu, late, faults, bodies, landed>>

EnqueueScans ==
    /\ PlannerAt("scans") /\ PlannerTo("sleep")
    /\ EnqueueJob(Queued(<<"scan", Slot(planner.seen, ScanEvery)>>, "scan", None, 1, now))
    /\ UNCHANGED <<proc, now, through, shift, worker, gpu, late, faults, bodies, landed>>

\* Any exception ends the tick: "planner tick failed".
PlannerFails ==
    /\ proc = "up" /\ planner.pc # "sleep" /\ PlannerTo("sleep")
    /\ faults < MaxFaults /\ faults' = faults + 1
    /\ UNCHANGED <<proc, now, through, tables, worker, gpu, late, bodies, landed>>

\* The API queues a chat job for each message, without a dedupe key.
SendChat ==
    /\ Chats < MaxChats
    /\ Insert(<<Queued(NoKey, "chat", None, 1, now)>>)
    /\ UNCHANGED <<proc, now, planner, through, shift, worker, gpu, late, faults, bodies, landed>>

-----------------------------------------------------------------------------
(* The workers: run_forever.                                               *)

Running(w, pcs) == proc = "up" /\ worker[w].pc \in pcs
Goto(w, pc) == worker' = [worker EXCEPT ![w].pc = pc]
IsShift(w) == JobOf(w).kind = "shift"

\* Leaving the try block: the lock is released and the outcome goes to _finish.
Leave(w, result) ==
    /\ worker' = [worker EXCEPT ![w].pc = "finish", ![w].result = result]
    /\ gpu' = IF gpu = w THEN None ELSE gpu

ClaimJob(w) ==
    /\ Running(w, {"idle"})
    /\ \E i \in Oldest(jobs, now) :
          /\ jobs' = Claim(jobs, i)
          /\ worker' = [worker EXCEPT ![w] = [pc |-> "claimed", job |-> i, deadline |-> 0, result |-> "none"]]
    /\ UNCHANGED <<proc, now, planner, through, shift, runs, gpu, late, faults, bodies, landed>>

\* asyncio.timeout starts here: it includes the wait for the GPU.
Deadline(w) ==
    LET d == now + (IF IsShift(w) THEN ShiftTimeout[ShiftOf(w)] ELSE JobTimeout)
    IN  IF d < Horizon THEN d ELSE Horizon

StartRun(w) ==
    /\ Running(w, {"claimed"})
    /\ runs' = [runs EXCEPT ![worker[w].job] = "running"]
    /\ worker' = [worker EXCEPT ![w].pc = IF JobOf(w).kind = "scan" THEN "work" ELSE "acquire",
                                ![w].deadline = Deadline(w)]
    /\ UNCHANGED <<proc, now, planner, through, shift, jobs, gpu, late, faults, bodies, landed>>

\* Mutation: a lock per worker.
AcquireOwnGpu(w) ==
    /\ Running(w, {"acquire"}) /\ gpu' = w
    /\ Goto(w, IF IsShift(w) THEN "mark" ELSE "check")
    /\ UNCHANGED <<proc, now, planner, through, tables, late, faults, bodies, landed>>

\* async with self._gpu
AcquireGpu(w) ==
    /\ Running(w, {"acquire"}) /\ gpu = None /\ gpu' = w
    /\ Goto(w, IF IsShift(w) THEN "mark" ELSE "check")
    /\ UNCHANGED <<proc, now, planner, through, tables, late, faults, bodies, landed>>

\* _run_shift: set the row running, unload the models, run the desks.
MarkRunning(w) ==
    /\ Running(w, {"mark"}) /\ Goto(w, "unload")
    /\ shift' = [shift EXCEPT ![ShiftOf(w)] = "running"]
    /\ UNCHANGED <<proc, now, planner, through, jobs, runs, gpu, late, faults, bodies, landed>>

UnloadModels(w) ==
    /\ Running(w, {"unload"}) /\ Goto(w, "body")
    /\ bodies' = [bodies EXCEPT ![ShiftOf(w)] = @ + 1]
    /\ UNCHANGED <<proc, now, planner, through, tables, gpu, late, faults, landed>>

\* The desks report success, report an error or raise.
RunDesks(w) ==
    /\ Running(w, {"body"})
    /\ \E r \in {"ok", "error", "raised"} :
          worker' = [worker EXCEPT ![w].pc = "markend", ![w].result = r]
    /\ UNCHANGED <<proc, now, planner, through, tables, gpu, late, faults, bodies, landed>>

\* Mutation: the outcome of the desks goes into the status column as it is.
RawEndStatus(w) == worker[w].result

EndStatus(w) == IF worker[w].result = "ok" THEN "ok" ELSE "failed"

MarkEnd(w) ==
    /\ Running(w, {"markend"}) /\ Leave(w, worker[w].result)
    /\ shift' = [shift EXCEPT ![ShiftOf(w)] = EndStatus(w)]
    /\ UNCHANGED <<proc, now, planner, through, jobs, runs, late, faults, bodies, landed>>

\* Triage and chat: "paused" or "waiting" when a shift is running.
CheckShift(w) ==
    /\ Running(w, {"check"})
    /\ IF \E s \in Shifts : shift[s] = "running"
       THEN Leave(w, "ok")
       ELSE Goto(w, "work") /\ UNCHANGED gpu
    /\ UNCHANGED <<proc, now, planner, through, tables, late, faults, bodies, landed>>

\* Triage, chat and scans.
Work(w) ==
    /\ Running(w, {"work"})
    /\ \E r \in {"ok", "error"} : Leave(w, r)
    /\ UNCHANGED <<proc, now, planner, through, tables, late, faults, bodies, landed>>

\* An exception that reaches run_forever's handler: everything in the try block
\* but the desks of a shift, whose exceptions _run_shift records first.
Raise(w) ==
    /\ Running(w, Trying \ {"acquire", "body"}) /\ Leave(w, "raised")
    /\ UNCHANGED <<proc, now, planner, through, tables, late, faults, bodies, landed>>

\* What a cancelled task was writing to its shift: the thread goes on.
Writing(w) ==
    CASE worker[w].pc = "mark" -> {<<ShiftOf(w), "running">>}
      [] worker[w].pc = "markend" -> {<<ShiftOf(w), EndStatus(w)>>}
      [] OTHER -> {}

\* It commits before the task's handler runs, or at any time after.
Abandon(w) ==
    \/ /\ shift' = [s \in Shifts |->
                      IF \E l \in Writing(w) : l[1] = s
                      THEN (CHOOSE l \in Writing(w) : TRUE)[2] ELSE shift[s]]
       /\ UNCHANGED late
    \/ /\ Writing(w) # {} /\ late' = late \cup Writing(w)
       /\ Cardinality(late') <= MaxLate
       /\ UNCHANGED shift

\* The timeout of the try block.  _run_shift does not catch a cancellation.
Expire(w) ==
    /\ Running(w, Trying) /\ Due(w)
    /\ Abandon(w) /\ Leave(w, "raised")
    /\ UNCHANGED <<proc, now, planner, through, jobs, runs, faults, bodies, landed>>

LateWrite ==
    /\ proc # "down"
    /\ \E l \in late :
          /\ late' = late \ {l}
          /\ shift' = [shift EXCEPT ![l[1]] = l[2]]
          /\ landed' = IF shift[l[1]] = "failed" THEN landed \cup {l[1]} ELSE landed
    /\ UNCHANGED <<proc, now, planner, through, jobs, runs, worker, gpu, faults, bodies>>

Close(w, outcome) ==
    /\ jobs' = Finish(jobs, worker[w].job, outcome, now, 1)
    /\ runs' = [runs EXCEPT ![worker[w].job] = outcome]

\* _finish: the job and its run, in one transaction.  A task cancelled while it
\* waits for this thread ends here; the thread still commits.
FinishRun(w) ==
    /\ proc # "down" /\ worker[w].pc = "finish"
    /\ Close(w, EndStatus(w))
    /\ worker' = [worker EXCEPT ![w] =
          IF proc = "stopping" THEN Gone
          ELSE IF worker[w].result = "raised" /\ IsShift(w) THEN [@ EXCEPT !.pc = "markfailed"]
          ELSE Idle]
    /\ UNCHANGED <<proc, now, planner, through, shift, gpu, late, faults, bodies, landed>>

MarkFailed(w) ==
    /\ proc # "down" /\ worker[w].pc = "markfailed"
    /\ shift' = [shift EXCEPT ![ShiftOf(w)] = "failed"]
    /\ worker' = [worker EXCEPT ![w] = IF proc = "stopping" THEN Gone ELSE Idle]
    /\ UNCHANGED <<proc, now, planner, through, jobs, runs, gpu, late, faults, bodies, landed>>

-----------------------------------------------------------------------------
(* The process: shutdown, failure, kill and restart.                       *)

Fault == faults < MaxFaults /\ faults' = faults + 1

\* Ctrl+C: asyncio.run cancels the tasks.
Shutdown ==
    /\ proc = "up" /\ Fault /\ proc' = "stopping"
    /\ UNCHANGED <<now, planner, through, tables, worker, gpu, late, bodies, landed>>

\* A database error outside the try block ends the worker task, and with it the
\* task group.
WorkerDies(w) ==
    /\ Running(w, {"idle", "claimed", "finish", "markfailed"})
    /\ Fault /\ proc' = "stopping" /\ worker' = [worker EXCEPT ![w] = Gone]
    /\ UNCHANGED <<now, planner, through, tables, gpu, late, bodies, landed>>

\* A worker cancelled outside the try block leaves its rows as they are; the
\* thread that was inserting its run may or may not have done so.
CancelOutside(w) ==
    /\ proc = "stopping" /\ worker[w].pc \in {"idle", "claimed"}
    /\ worker' = [worker EXCEPT ![w] = Gone]
    /\ \/ UNCHANGED runs
       \/ worker[w].pc = "claimed" /\ runs' = [runs EXCEPT ![worker[w].job] = "running"]
    /\ UNCHANGED <<proc, now, planner, through, shift, jobs, gpu, late, faults, bodies, landed>>

\* Inside it, the handler of CancelledError finishes the job and then the shift.
CancelInside(w) ==
    /\ proc = "stopping" /\ worker[w].pc \in Trying
    /\ Abandon(w) /\ Close(w, "failed")
    /\ gpu' = IF gpu = w THEN None ELSE gpu
    /\ worker' = [worker EXCEPT ![w] = IF IsShift(w) THEN [@ EXCEPT !.pc = "markfailed"] ELSE Gone]
    /\ UNCHANGED <<proc, now, planner, through, faults, bodies, landed>>

Down ==
    /\ proc' = "down" /\ planner' = [pc |-> "sleep", seen |-> -1] /\ through' = -1
    /\ worker' = [w \in Workers |-> Gone] /\ gpu' = None /\ late' = {}

\* asyncio.run waits for the threads before it returns.
Exit ==
    /\ proc = "stopping" /\ late = {} /\ \A w \in Workers : worker[w] = Gone
    /\ Down /\ UNCHANGED <<now, tables, faults, bodies, landed>>

\* A crash, or the service manager's kill: a write in a thread is lost.
Kill ==
    /\ proc # "down" /\ Fault
    /\ Down /\ UNCHANGED <<now, tables, bodies, landed>>

\* Mutation: close_interrupted leaves the shifts alone.
RestartWithoutShifts ==
    /\ proc = "down" /\ proc' = "up"
    /\ jobs' = ReleaseStale(jobs)
    /\ runs' = [i \in DOMAIN runs |-> IF runs[i] = "running" THEN "failed" ELSE runs[i]]
    /\ worker' = [w \in Workers |-> Idle] /\ landed' = {}
    /\ UNCHANGED <<now, planner, through, shift, gpu, late, faults, bodies>>

\* main: close_interrupted in one transaction, then the planner and the workers.
Restart ==
    /\ proc = "down" /\ proc' = "up"
    /\ jobs' = ReleaseStale(jobs)
    /\ runs' = [i \in DOMAIN runs |-> IF runs[i] = "running" THEN "failed" ELSE runs[i]]
    /\ shift' = [s \in Shifts |-> IF shift[s] = "running" THEN "failed" ELSE shift[s]]
    /\ worker' = [w \in Workers |-> Idle] /\ landed' = {}
    /\ UNCHANGED <<now, planner, through, gpu, late, faults, bodies>>

-----------------------------------------------------------------------------

\* With Prompt the clock waits for every step the process can take at once: what
\* may take time is a wait for the GPU, a desk or a scan, and being down.
Waiting(w) ==
    \/ worker[w].pc = "idle" /\ Claimable(jobs, now) = {}
    \/ worker[w].pc = "acquire" /\ gpu # None /\ ~Due(w)
    \/ worker[w].pc \in {"unload", "body", "work"} /\ ~Due(w)

Settled ==
    \/ proc = "down"
    \/ /\ proc = "up" /\ late = {} /\ planner = [pc |-> "sleep", seen |-> now]
       /\ \A w \in Workers : Waiting(w)

Tick ==
    /\ now < Horizon /\ now' = now + 1
    /\ Prompt => Settled
    /\ UNCHANGED <<proc, planner, through, tables, worker, gpu, late, faults, bodies, landed>>

PlannerStep == PlanShifts \/ DispatchShifts \/ EnqueueTriage \/ EnqueueScans

WorkerStep(w) ==
    \/ ClaimJob(w) \/ StartRun(w) \/ AcquireGpu(w)
    \/ MarkRunning(w) \/ UnloadModels(w) \/ RunDesks(w) \/ MarkEnd(w)
    \/ CheckShift(w) \/ Work(w) \/ Raise(w) \/ Expire(w)
    \/ FinishRun(w) \/ MarkFailed(w)

ProcessStep ==
    \/ Shutdown \/ Exit \/ Kill \/ Restart
    \/ \E w \in Workers : WorkerDies(w) \/ CancelOutside(w) \/ CancelInside(w)

Next ==
    \/ PlannerStep \/ PlannerFails \/ SendChat
    \/ \E w \in Workers : WorkerStep(w)
    \/ LateWrite \/ ProcessStep \/ Tick

Spec == Init /\ [][Next]_vars

\* What the event loop, asyncio.timeout, the executor's threads, the clock and
\* the service manager guarantee.  Nothing makes a desk end before its timeout.
Fairness ==
    /\ WF_vars(PlannerStep)
    /\ \A w \in Workers :
          /\ WF_vars((ClaimJob(w) \/ StartRun(w)))
          /\ WF_vars((AcquireGpu(w) \/ MarkRunning(w) \/ MarkEnd(w) \/ CheckShift(w)))
          /\ WF_vars((Expire(w) \/ FinishRun(w) \/ MarkFailed(w)))
          /\ WF_vars((CancelOutside(w) \/ CancelInside(w)))
    /\ WF_vars((LateWrite \/ Exit \/ Restart))
    /\ WF_vars(Tick)

FairSpec == Spec /\ Fairness

-----------------------------------------------------------------------------
(* Properties.                                                             *)

Holding == Trying \cup {"claimed", "finish"}

Holds(w, i, pcs) == worker[w].job = i /\ worker[w].pc \in pcs

OnGpu(w) ==
    /\ worker[w].pc \in {"mark", "unload", "body", "markend", "check", "work"}
    /\ JobOf(w).kind # "scan"

\* The desks of a shift start at most once, whatever is cancelled, killed or
\* restarted around them: the dedupe key keeps one job per shift, one worker
\* claims it, and no restart puts it back in the queue.
ShiftRunsAtMostOnce == \A s \in Shifts : bodies[s] <= 1

\* While the process is up every running job has the worker that is going to
\* end it, and a worker about to record an outcome finds the run still running,
\* as record_job_finish demands.
JobRowsOwned ==
    proc = "up" =>
    /\ \A i \in DOMAIN jobs :
          (jobs[i].status = "running") <=> \E w \in Workers : Holds(w, i, Holding)
    /\ \A i \in DOMAIN runs :
          (runs[i] = "running") <=> \E w \in Workers : Holds(w, i, Trying \cup {"finish"})

\* While the process is up every running shift has the worker that is going to
\* end it, so that triage and chat are not paused for nothing.  The one exception:
\* the thread of a cancelled task wrote "running" over the recorded failure, and
\* the row stays so until the next restart.
ShiftRowsOwned ==
    proc = "up" =>
    \A s \in Shifts \ landed : shift[s] = "running" =>
        \E w \in Workers, i \in DOMAIN jobs :
           /\ Holds(w, i, Holding \cup {"markfailed"})
           /\ jobs[i].kind = "shift" /\ jobs[i].subject = s

\* The GPU holds the models of one job: no shift, triage or chat works while
\* another one does, timeouts and cancellations included.
OneModelJob ==
    \A v, w \in Workers : OnGpu(v) /\ OnGpu(w) => v = w

Ledger == INSTANCE ShiftLedger WITH status <- shift, started <- bodies, overruled <- landed

\* The scheduler keeps the promise of ShiftLedger.
KeepsLedger == Ledger!Spec


\* Every planned shift ends ok, failed or skipped, for good, or until a restart
\* its failure is overruled by a write that came late.
EveryShiftEnds ==
    \A s \in Shifts :
        shift[s] = "scheduled" ~>
            [](shift[s] \in {"ok", "failed", "skipped"} \/ s \in landed)

\* Every job the planner or the API queued is run or failed in the end.
EveryJobEnds ==
    <>[](\A i \in DOMAIN jobs : jobs[i].status \in {"ok", "failed"})
=============================================================================
