----------------------------- MODULE Collectors -----------------------------
(***************************************************************************)
(* The collectors of src/desk/collectors: runner.py gives each one a task  *)
(* that collects and then stores in a thread, in one transaction with the  *)
(* end of its run (ingest.py).  A second process may run some of the same  *)
(* collectors (--only).  What a source has is external.                    *)
(*                                                                         *)
(* A record stands for every row with a unique key.  Fills have none: they *)
(* are looked up and then inserted.                                        *)
(***************************************************************************)
EXTENDS Integers, FiniteSets, SequencesExt

CONSTANTS
    Tasks,          \* <<process, collector>>: what each process runs
    Service,        \* the process that runs without --only
    Batches,        \* what a collector can bring: [records: sequence, fills: set]
    \* Bounds of the model, which the code does not have:
    MaxRuns, MaxBreaks      \* runs; broken stores and kills

ASSUME RunsAssumption == MaxRuns \in Nat /\ MaxBreaks \in Nat
\* A fill is known by its broker and exec id, and a broker has one collector.
ASSUME BatchAssumption ==
    /\ \A t \in Tasks : \A b \in Batches[t[2]] :
          b.records \in Seq(Range(b.records)) /\ IsFiniteSet(b.fills)
    /\ \A t, u \in Tasks : t[2] # u[2] =>
          \A a \in Batches[t[2]], b \in Batches[u[2]] : a.fills \cap b.fills = {}

VARIABLES
    proc,           \* the processes: "down", "up" or "stopping"
    task,           \* the tasks: where, the run, and whether it was cancelled
    tx,             \* the transaction of each run's store, which outlives a cancelled task
    runs,           \* job_runs, see Run
    records,        \* content hashes of the raw records
    fills,          \* exec ids of the fill artifacts, in order
    breaks,
    overlapped      \* history: two stores of one collector were open at once

collectorsVars == <<proc, task, tx, runs, records, fills, breaks, overlapped>>
rows == <<records, fills>>

Procs == {t[1] : t \in Tasks}
Scope(p) == {t[2] : t \in {u \in Tasks : p = Service \/ u[1] = p}}
Stores == 1 .. MaxRuns

Gone == [pc |-> "gone", run |-> 0, cancelled |-> FALSE]
Idle == [Gone EXCEPT !.pc = "idle"]
NoStore == [phase |-> "none", batch |-> [records |-> <<>>, fills |-> {}],
            seen |-> {}, todo |-> <<>>, new |-> {}, found |-> {}]

\* A run; by, took and kept are history: its task, what it collected, and whether that
\* was committed.
Run(t) == [job |-> t[2], status |-> "running", partial |-> FALSE,
           by |-> t, took |-> NoStore.batch, kept |-> FALSE]

CollectorsInit ==
    /\ proc = [p \in Procs |-> "down"] /\ task = [t \in Tasks |-> Gone]
    /\ tx = [r \in Stores |-> NoStore]
    /\ runs = <<>> /\ records = {} /\ fills = <<>>
    /\ breaks = 0 /\ overlapped = FALSE

Break == breaks < MaxBreaks /\ breaks' = breaks + 1

-----------------------------------------------------------------------------
(* The task of a collector: run_forever, run_once.                         *)

At(t, pc) == proc[t[1]] # "down" /\ task[t].pc = pc
Goto(t, pc) == task' = [task EXCEPT ![t].pc = pc]
RunOf(t) == task[t].run
Running(r) == runs[r].status = "running"

\* record_job_finish: only a running row can end.
EndRun(r, status) == [runs EXCEPT ![r].status = IF @ = "running" THEN status ELSE @]

\* _start, outside the try block.
StartRun(t) ==
    /\ At(t, "idle") /\ Len(runs) < MaxRuns
    /\ runs' = Append(runs, Run(t))
    /\ task' = [task EXCEPT ![t].pc = "collect", ![t].run = Len(runs) + 1]
    /\ UNCHANGED <<proc, tx, rows, breaks, overlapped>>

\* The source fails as a whole, or the run's timeout ends.
CollectFails(t) == At(t, "collect") /\ Goto(t, "fail")
                   /\ UNCHANGED <<proc, tx, runs, rows, breaks, overlapped>>

Active(r) == tx[r].phase # "none"

\* The collector has its batch, of all its source or a part: the thread of the store
\* opens its transaction and looks up the hashes that are there.
CollectEnds(t) ==
    /\ At(t, "collect") /\ Goto(t, "store")
    /\ \E batch \in Batches[t[2]], partial \in BOOLEAN :
          /\ tx' = [tx EXCEPT ![RunOf(t)] =
                [phase |-> "records", batch |-> batch, seen |-> Range(batch.records) \cap records,
                 todo |-> batch.records, new |-> {}, found |-> {}]]
          /\ runs' = [runs EXCEPT ![RunOf(t)].took = batch, ![RunOf(t)].partial = partial]
    /\ overlapped' = (overlapped \/ \E r \in Stores : Active(r) /\ runs[r].job = t[2])
    /\ UNCHANGED <<proc, rows, breaks>>

-----------------------------------------------------------------------------
(* The transaction of a store: ingest, _store_and_finish.                  *)

\* An insert waits for the open transaction that has the same key.
Waits(r, q) ==
    /\ tx[r].phase = "records" /\ tx[r].todo # <<>>
    /\ Head(tx[r].todo) \notin tx[r].seen
    /\ Head(tx[r].todo) \in tx[q].new /\ r # q

\* Mutation: a record that another transaction is about to add is a duplicate.
NeverBlocked(r) == TRUE

Unblocked(r) == \A q \in Stores : ~Waits(r, q)

\* A savepoint turns the conflict with a record committed since into a duplicate.
InsertRecord(r) ==
    /\ tx[r].phase = "records" /\ tx[r].todo # <<>> /\ Unblocked(r)
    /\ LET record == Head(tx[r].todo)
           held == \E q \in Stores \ {r} : record \in tx[q].new
           duplicate == record \in tx[r].seen \cup records \cup tx[r].new \/ held
       IN  tx' = [tx EXCEPT ![r].todo = Tail(@),
                            ![r].new = IF duplicate THEN @ ELSE @ \cup {record}]
    /\ UNCHANGED <<proc, task, runs, rows, breaks, overlapped>>

\* The fills it has not inserted.  Mutation: each of them is new.
FillsLeft(r) == tx[r].batch.fills \ tx[r].found

\* What a look-up of the fill would not find; what is not committed is not seen.
NewFills(r) == FillsLeft(r) \ Range(fills)

\* The fills are looked up and inserted one by one: those that are there are passed
\* over, and what others commit meanwhile is there for the fills still to come.
AddFill(r) ==
    /\ tx[r].phase = "records" /\ tx[r].todo = <<>>
    /\ \/ \E fill \in NewFills(r) : tx' = [tx EXCEPT ![r].found = @ \cup {fill}]
       \/ NewFills(r) = {} /\ tx' = [tx EXCEPT ![r].phase = "finish"]
    /\ UNCHANGED <<proc, task, runs, rows, breaks, overlapped>>

\* The task that waits for the thread, if it still does.
Return(r, pc) ==
    task' = [t \in Tasks |-> IF task[t].pc = "store" /\ RunOf(t) = r
                             THEN [task[t] EXCEPT !.pc = pc] ELSE task[t]]

RollBack(r) == tx' = [tx EXCEPT ![r] = NoStore] /\ UNCHANGED <<runs, rows>>

CommitRows(r) ==
    /\ records' = records \cup tx[r].new
    /\ \E order \in SetToSeqs(tx[r].found) : fills' = fills \o order
    /\ runs' = [EndRun(r, IF runs[r].partial THEN "failed" ELSE "ok") EXCEPT ![r].kept = TRUE]
    /\ tx' = [tx EXCEPT ![r] = NoStore]

\* Mutation: the rows are committed before the run is ended.
FinishApart(r) == CommitRows(r) /\ Return(r, "idle")

\* The end of the run commits with the rows, or raises and takes them back.
Finish(r) ==
    \/ Running(r) /\ CommitRows(r) /\ Return(r, "idle")
    \/ ~Running(r) /\ RollBack(r) /\ Return(r, "fail")

FinishStore(r) ==
    /\ tx[r].phase = "finish" /\ Finish(r)
    /\ UNCHANGED <<proc, breaks, overlapped>>

\* The database ends one of two transactions that wait for each other.
Deadlock(r) ==
    /\ \E q \in Stores : Waits(r, q) /\ Waits(q, r)
    /\ RollBack(r) /\ Return(r, "fail")
    /\ UNCHANGED <<proc, breaks, overlapped>>

StoreBreaks(r) ==
    /\ Active(r) /\ Break
    /\ RollBack(r) /\ Return(r, "fail")
    /\ UNCHANGED <<proc, overlapped>>

\* _fail.  When it raises, because another process closed the run, the loop starts
\* again all the same.
Fail(t) ==
    /\ At(t, "fail") /\ Goto(t, "idle")
    /\ runs' = EndRun(RunOf(t), "failed")
    /\ UNCHANGED <<proc, tx, rows, breaks, overlapped>>

-----------------------------------------------------------------------------
(* The processes: run_all, close_interrupted_runs.                         *)

StartProcess(p) ==
    /\ proc[p] = "down" /\ proc' = [proc EXCEPT ![p] = "up"]
    /\ runs' = [r \in DOMAIN runs |->
          IF Running(r) /\ runs[r].job \in Scope(p)
          THEN [runs[r] EXCEPT !.status = "failed"] ELSE runs[r]]
    /\ task' = [t \in Tasks |-> IF t[1] = p THEN Idle ELSE task[t]]
    /\ UNCHANGED <<tx, rows, breaks, overlapped>>

\* Ctrl+C: the tasks are cancelled, once.
Shutdown(p) ==
    /\ proc[p] = "up" /\ proc' = [proc EXCEPT ![p] = "stopping"]
    /\ UNCHANGED <<task, tx, runs, rows, breaks, overlapped>>

Cancelled(t, pc) == task' = [task EXCEPT ![t].pc = pc, ![t].cancelled = TRUE]

ToCancel(t, pcs) == proc[t[1]] = "stopping" /\ ~task[t].cancelled /\ task[t].pc \in pcs

\* Outside the try block.  The thread of _start or of _fail goes on: the first leaves a
\* row that nothing closes before the next start.
CancelOutside(t) ==
    /\ ToCancel(t, {"idle", "fail"}) /\ Cancelled(t, "gone")
    /\ \/ task[t].pc = "fail" /\ runs' = EndRun(RunOf(t), "failed")
       \/ task[t].pc = "idle" /\ UNCHANGED runs
       \/ task[t].pc = "idle" /\ Len(runs) < MaxRuns /\ runs' = Append(runs, Run(t))
    /\ UNCHANGED <<proc, tx, rows, breaks, overlapped>>

\* Inside it the handler calls _fail itself; the thread of the store goes on.  When the
\* run is no longer running _fail raises, and run_forever takes that for a crash of the
\* loop: the cancellation is lost, and the task collects again beside that thread.
CancelInside(t) ==
    /\ ToCancel(t, {"collect", "store"})
    /\ Cancelled(t, IF Running(RunOf(t)) THEN "gone" ELSE "idle")
    /\ runs' = EndRun(RunOf(t), "failed")
    /\ UNCHANGED <<proc, tx, rows, breaks, overlapped>>

\* The thread of the store commits between the cancellation and the handler's _fail.
CommitThenCancel(t) ==
    /\ ToCancel(t, {"store"}) /\ tx[RunOf(t)].phase = "finish" /\ Running(RunOf(t))
    /\ CommitRows(RunOf(t)) /\ Cancelled(t, "idle")
    /\ UNCHANGED <<proc, breaks, overlapped>>

StoresOf(p) == {r \in Stores : Active(r) /\ runs[r].by[1] = p}

\* The process waits for its tasks and for their threads.
Exit(p) ==
    /\ proc[p] = "stopping" /\ proc' = [proc EXCEPT ![p] = "down"]
    /\ StoresOf(p) = {} /\ \A t \in Tasks : t[1] = p => task[t].pc = "gone"
    /\ UNCHANGED <<task, tx, runs, rows, breaks, overlapped>>

Kill(p) ==
    /\ proc[p] # "down" /\ proc' = [proc EXCEPT ![p] = "down"] /\ Break
    /\ task' = [t \in Tasks |-> IF t[1] = p THEN Gone ELSE task[t]]
    /\ tx' = [r \in Stores |-> IF r \in StoresOf(p) THEN NoStore ELSE tx[r]]
    /\ UNCHANGED <<runs, rows, overlapped>>

-----------------------------------------------------------------------------

CollectorsNext ==
    \/ \E t \in Tasks :
          \/ StartRun(t) \/ CollectFails(t) \/ CollectEnds(t) \/ Fail(t)
          \/ CancelOutside(t) \/ CancelInside(t) \/ CommitThenCancel(t)
    \/ \E r \in Stores :
          InsertRecord(r) \/ AddFill(r) \/ FinishStore(r) \/ Deadlock(r) \/ StoreBreaks(r)
    \/ \E p \in Procs : StartProcess(p) \/ Shutdown(p) \/ Exit(p) \/ Kill(p)

CollectorsSpec == CollectorsInit /\ [][CollectorsNext]_collectorsVars

-----------------------------------------------------------------------------
(* Properties.                                                             *)

\* A run that ended ok has all it collected in the tables, whoever stored it; one that
\* failed as a whole has added nothing, even when its store was still at work when a
\* shutdown, a restart or another process closed it.
RunTellsStore ==
    \A r \in DOMAIN runs :
        /\ runs[r].status = "ok" =>
              /\ Range(runs[r].took.records) \subseteq records
              /\ runs[r].took.fills \subseteq Range(fills)
        /\ runs[r].kept => runs[r].status = "ok" \/ runs[r].partial

\* However often an execution is reported, it is one fill, but for two stores of one
\* account at the same time (src/desk/collectors/base.py:135).
FillsOnce ==
    ~overlapped => \A m, n \in DOMAIN fills : fills[m] = fills[n] => m = n
=============================================================================
