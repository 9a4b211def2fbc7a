-------------------------------- MODULE Chat --------------------------------
(***************************************************************************)
(* Jon's questions to the desk: src/desk/front_office/chat.py, the API     *)
(* route that takes them (src/desk/api/views.py) and the workers of        *)
(* src/desk/watch/scheduler.py that answer them, in chat jobs and at the   *)
(* end of every triage tick.                                               *)
(*                                                                         *)
(* A message is its place in the order of created_at.  What the model is   *)
(* told and what it says are abstracted to whether its reply passes the    *)
(* checks.  The queue is in the order of run_after.                        *)
(***************************************************************************)
EXTENDS Integers, Sequences, FiniteSets

CONSTANTS
    Workers,        \* WORKERS
    None,           \* nobody: a free lock
    MaxPending,     \* MAX_PENDING
    Slow,           \* messages whose answer raises, or outlasts the timeout, every time
    \* Bounds of the model, which the code does not have:
    MaxMessages, MaxShifts, MaxFaults

ASSUME WorkerAssumption == None \notin Workers
ASSUME PendingAssumption == MaxPending \in Nat

VARIABLES
    sent,       \* the messages 1 .. sent are stored
    unqueued,   \* stored by submit, their job not yet queued by the route
    queue,      \* the kinds of the queued jobs
    worker,     \* the workers: pc, kind of job, messages read and not yet answered
    gpu,        \* Worker._gpu
    shift,      \* a row of shifts is running
    shifts,     \* shifts queued so far
    up,         \* the scheduler process
    replies,    \* the chat_reply rows: the messages they answer, in order
    faults      \* kills, errors and timeouts of jobs that were not slow

vars == <<sent, unqueued, queue, worker, gpu, shift, shifts, up, replies, faults>>

Idle == [pc |-> "idle", kind |-> "none", todo |-> {}]

Replied == {replies[n] : n \in DOMAIN replies}

Init ==
    /\ sent = 0 /\ unqueued = {} /\ queue = <<>>
    /\ worker = [w \in Workers |-> Idle] /\ gpu = None
    /\ shift = FALSE /\ shifts = 0 /\ up = TRUE
    /\ replies = <<>> /\ faults = 0

Fault == faults < MaxFaults /\ faults' = faults + 1

-----------------------------------------------------------------------------
(* The API, a process of its own, and the planner.                         *)

\* submit, in a transaction of its own.
Submit ==
    /\ sent < MaxMessages /\ sent' = sent + 1
    /\ unqueued' = unqueued \cup {sent + 1}
    /\ UNCHANGED <<queue, worker, gpu, shift, shifts, up, replies, faults>>

Enqueue(m) ==
    /\ m \in unqueued /\ unqueued' = unqueued \ {m}
    /\ queue' = Append(queue, "chat")
    /\ UNCHANGED <<sent, worker, gpu, shift, shifts, up, replies, faults>>

\* The API stops between the two.
LoseJob(m) ==
    /\ m \in unqueued /\ unqueued' = unqueued \ {m} /\ Fault
    /\ UNCHANGED <<sent, queue, worker, gpu, shift, shifts, up, replies>>

\* A triage job for each minute; one that waits is enough here.
EnqueueTriage ==
    /\ up /\ \A i \in DOMAIN queue : queue[i] # "triage"
    /\ queue' = Append(queue, "triage")
    /\ UNCHANGED <<sent, unqueued, worker, gpu, shift, shifts, up, replies, faults>>

EnqueueShift ==
    /\ up /\ shifts < MaxShifts /\ shifts' = shifts + 1
    /\ queue' = Append(queue, "shift")
    /\ UNCHANGED <<sent, unqueued, worker, gpu, shift, up, replies, faults>>

-----------------------------------------------------------------------------
(* The workers.                                                            *)

At(w, pc) == up /\ worker[w].pc = pc
Goto(w, pc) == worker' = [worker EXCEPT ![w].pc = pc]

\* The end of a job, with or without an error.
Leave(w) ==
    /\ worker' = [worker EXCEPT ![w] = Idle]
    /\ gpu' = IF gpu = w THEN None ELSE gpu

Claim(w) ==
    /\ At(w, "idle") /\ queue # <<>> /\ queue' = Tail(queue)
    /\ worker' = [worker EXCEPT ![w] = [Idle EXCEPT !.pc = "acquire", !.kind = Head(queue)]]
    /\ UNCHANGED <<sent, unqueued, gpu, shift, shifts, up, replies, faults>>

\* Mutation: a lock per worker.
GpuOf(w) == None

GpuFree(w) == gpu

Acquire(w) ==
    /\ At(w, "acquire") /\ GpuFree(w) = None /\ gpu' = w
    /\ Goto(w, IF worker[w].kind = "shift" THEN "shift" ELSE "check")
    /\ shift' = (shift \/ worker[w].kind = "shift")
    /\ UNCHANGED <<sent, unqueued, queue, shifts, up, replies, faults>>

\* The desks end, or the timeout does; the row is closed by _run_shift, or by the
\* handler after the lock was released.
EndShift(w) ==
    /\ At(w, "shift")
    /\ \/ Leave(w) /\ shift' = FALSE
       \/ gpu' = None /\ Goto(w, "close") /\ UNCHANGED shift
    /\ UNCHANGED <<sent, unqueued, queue, shifts, up, replies, faults>>

CloseShift(w) ==
    /\ At(w, "close") /\ Leave(w) /\ shift' = FALSE
    /\ UNCHANGED <<sent, unqueued, queue, shifts, up, replies, faults>>

\* "waiting" and "paused": a shift holds the GPU.
Check(w) ==
    /\ At(w, "check")
    /\ IF shift THEN Leave(w)
       ELSE /\ Goto(w, IF worker[w].kind = "triage" THEN "triage" ELSE "read")
            /\ UNCHANGED gpu
    /\ UNCHANGED <<sent, unqueued, queue, shift, shifts, up, replies, faults>>

\* Mutation: the triage tick leaves the chat to the chat jobs.
TriageAlone(w) == Leave(w)

AfterTriage(w) == Goto(w, "read") /\ UNCHANGED gpu

\* Triage and intake.
Triage(w) ==
    /\ At(w, "triage") /\ AfterTriage(w)
    /\ UNCHANGED <<sent, unqueued, queue, shift, shifts, up, replies, faults>>

\* Mutation: the newest messages come first.
Newest(ms) == {m \in ms : Cardinality({k \in ms : k >= m}) <= MaxPending}

Oldest(ms) == {m \in ms : Cardinality({k \in ms : k <= m}) <= MaxPending}

\* pending: the oldest messages without a reply, of whatever status.
Pending == Oldest((1 .. sent) \ Replied)

\* _chat, answer_pending
ReadPending(w) ==
    /\ At(w, "read")
    /\ IF Pending = {} THEN Leave(w)
       ELSE /\ worker' = [worker EXCEPT ![w].pc = "answer", ![w].todo = Pending]
            /\ UNCHANGED gpu
    /\ UNCHANGED <<sent, unqueued, queue, shift, shifts, up, replies, faults>>

\* The messages are answered in their order.
First(w) == CHOOSE m \in worker[w].todo : \A k \in worker[w].todo : m <= k

\* answer: the model's reply, or "No answer this time" when it did not pass the checks or
\* the model did not reply; each is stored at once, and counts as an answer.
Answer(w) ==
    /\ At(w, "answer") /\ First(w) \notin Slow
    /\ replies' = Append(replies, First(w))
    /\ IF worker[w].todo = {First(w)} THEN Leave(w)
       ELSE worker' = [worker EXCEPT ![w].todo = @ \ {First(w)}] /\ UNCHANGED gpu
    /\ UNCHANGED <<sent, unqueued, queue, shift, shifts, up, faults>>

\* A slow message takes the rest of its batch with it.
GiveUp(w) ==
    /\ At(w, "answer") /\ First(w) \in Slow /\ Leave(w)
    /\ UNCHANGED <<sent, unqueued, queue, shift, shifts, up, replies, faults>>

\* The timeout ends while a shift has the GPU.
ExpireWaiting(w) ==
    /\ At(w, "acquire") /\ gpu # None /\ worker[gpu].kind = "shift"
    /\ worker[w].kind # "shift" /\ Leave(w)
    /\ UNCHANGED <<sent, unqueued, queue, shift, shifts, up, replies, faults>>

\* Any other timeout or error of a job.
Fails(w) ==
    /\ worker[w].pc \in {"acquire", "check", "triage", "read", "answer"} /\ up
    /\ worker[w].kind # "shift" /\ Fault /\ Leave(w)
    /\ UNCHANGED <<sent, unqueued, queue, shift, shifts, up, replies>>

\* The process stops; what it was doing is lost, its jobs with it.
Kill ==
    /\ up /\ up' = FALSE /\ Fault
    /\ worker' = [w \in Workers |-> Idle] /\ gpu' = None
    /\ UNCHANGED <<sent, unqueued, queue, shift, shifts, replies>>

\* close_interrupted
Restart ==
    /\ ~up /\ up' = TRUE /\ shift' = FALSE
    /\ UNCHANGED <<sent, unqueued, queue, worker, gpu, shifts, replies, faults>>

-----------------------------------------------------------------------------

WorkerStep(w) ==
    \/ Claim(w) \/ Acquire(w) \/ EndShift(w) \/ CloseShift(w) \/ Check(w)
    \/ Triage(w) \/ ReadPending(w) \/ Answer(w) \/ GiveUp(w)

Next ==
    \/ Submit \/ EnqueueTriage \/ EnqueueShift
    \/ \E m \in 1 .. MaxMessages : Enqueue(m) \/ LoseJob(m)
    \/ \E w \in Workers : WorkerStep(w) \/ ExpireWaiting(w) \/ Fails(w)
    \/ Kill \/ Restart

Spec == Init /\ [][Next]_vars

\* The planner ticks, the workers go on, and the service manager restarts the process.
Fairness ==
    /\ WF_vars(EnqueueTriage) /\ WF_vars(Restart)
    /\ \A w \in Workers : WF_vars(WorkerStep(w))

FairSpec == Spec /\ Fairness

-----------------------------------------------------------------------------
(* Properties.                                                             *)

\* No message is answered twice, though chat jobs and triage ticks read the same pending
\* messages and nothing in the tables keeps a second reply out (chat.py:440-466): a
\* shift that ends late, a timeout and a restart leave no second reader.
AnsweredOnce == \A m, n \in DOMAIN replies : replies[m] = replies[n] => m = n

\* The conversation is in order: no message is answered before one that was sent earlier,
\* whatever of a batch was lost.
AnsweredInTurn == \A n \in DOMAIN replies : \A k \in 1 .. replies[n] - 1 : k \in {replies[i] : i \in 1 .. n}

\* A message is answered in the end, though its job was lost, found a shift running or
\* timed out (scheduler.py:594) -- unless it comes after one that is never answered.
EveryAnswered ==
    \A m \in 1 .. MaxMessages :
        (\A s \in Slow : m < s) => [](m <= sent => <>(m \in Replied))
=============================================================================
