----------------------------- MODULE ChatProofs -----------------------------
(***************************************************************************)
(* Proofs about Chat: the messages are answered once each and in the order *)
(* they were sent.                                                         *)
(***************************************************************************)
EXTENDS Chat, FiniteSetTheorems, TLAPS

TypeOK ==
    /\ sent \in Nat
    /\ replies \in Seq(Nat)
    /\ worker \in [Workers -> [pc : {"idle", "acquire", "shift", "close", "check", "triage", "read", "answer"},
                               kind : {"none", "chat", "triage", "shift"}, todo : SUBSET Nat]]
    /\ queue \in Seq({"chat", "triage", "shift"})
    /\ gpu \in Workers \cup {None}
    /\ unqueued \subseteq Nat

\* The messages that have a reply are the oldest ones, in their order.
InOrder ==
    /\ \A n \in DOMAIN replies : replies[n] = n
    /\ Len(replies) <= sent

\* Whoever reads or answers messages has the GPU.
HasGpu ==
    \A w \in Workers :
        worker[w].pc \in {"shift", "check", "triage", "read", "answer"} => gpu = w

\* What a worker still has to answer begins with the oldest message without a reply and
\* leaves none out.
Batch ==
    \A w \in Workers :
        worker[w].pc = "answer" =>
            /\ worker[w].todo # {}
            /\ worker[w].todo \subseteq Len(replies) + 1 .. sent
            /\ \A m \in worker[w].todo : Len(replies) + 1 .. m \subseteq worker[w].todo

IInv == TypeOK /\ InOrder /\ HasGpu /\ Batch

-----------------------------------------------------------------------------

\* The oldest messages of a set of naturals leave out none that is older than one of them.
LEMMA OldestIsPrefix ==
    ASSUME NEW S, S \subseteq Nat, IsFiniteSet(S), NEW m \in Oldest(S), NEW k \in S, k <= m
    PROVE  k \in Oldest(S)
<1> DEFINE upTo(x) == {j \in S : j <= x}
<1>0. m \in S /\ m \in Nat /\ k \in Nat
  BY DEF Oldest
<1>1. upTo(k) \subseteq upTo(m)
  <2>1. \A j \in Nat : j <= k => j <= m
    BY <1>0
  <2>2. QED
    BY <2>1
<1>2. IsFiniteSet(upTo(m))
  BY FS_Subset
<1>3. /\ Cardinality(upTo(k)) \in Nat /\ Cardinality(upTo(m)) \in Nat
      /\ Cardinality(upTo(k)) <= Cardinality(upTo(m))
  BY <1>1, <1>2, FS_Subset, FS_CardinalityType
<1>4. Cardinality(upTo(m)) <= MaxPending
  BY DEF Oldest
<1>5. Cardinality(upTo(k)) <= MaxPending
  BY <1>3, <1>4, PendingAssumption
<1>6. QED
  BY <1>5 DEF Oldest

\* What answer_pending reads.
LEMMA PendingIsPrefix ==
    ASSUME TypeOK, InOrder
    PROVE  /\ Pending \subseteq Len(replies) + 1 .. sent
           /\ \A m \in Pending : Len(replies) + 1 .. m \subseteq Pending
<1> DEFINE S == Len(replies) + 1 .. sent
<1>1. Len(replies) \in Nat /\ DOMAIN replies = 1 .. Len(replies) /\ sent \in Nat
  BY DEF TypeOK
<1>2. Replied = 1 .. Len(replies)
  BY <1>1 DEF Replied, InOrder
<1>3. (1 .. sent) \ Replied = S
  BY <1>1, <1>2 DEF InOrder
<1>4. IsFiniteSet(S)
  BY <1>1, FS_Interval
<1>5. Pending = Oldest(S)
  BY <1>3 DEF Pending
<1>6. Oldest(S) \subseteq S
  BY DEF Oldest
<1>7. S \subseteq Nat
  BY <1>1
<1>8. ASSUME NEW m \in Pending, NEW k \in Len(replies) + 1 .. m PROVE k \in Pending
  <2>1. m \in S /\ k \in S /\ k <= m
    BY <1>1, <1>5, <1>6
  <2>2. QED
    BY <2>1, <1>4, <1>5, <1>7, OldestIsPrefix
<1>9. QED
  BY <1>5, <1>6, <1>8

\* The message a worker answers next is the oldest one without a reply.
LEMMA FirstIsNext ==
    ASSUME TypeOK, Batch, NEW w \in Workers, worker[w].pc = "answer"
    PROVE  First(w) = Len(replies) + 1 /\ First(w) \in worker[w].todo /\ First(w) <= sent
<1> DEFINE next == Len(replies) + 1
<1>1. Len(replies) \in Nat /\ sent \in Nat
  BY DEF TypeOK
<1>2. /\ worker[w].todo # {} /\ worker[w].todo \subseteq next .. sent
      /\ \A m \in worker[w].todo : next .. m \subseteq worker[w].todo
  BY DEF Batch
<1>3. PICK m \in worker[w].todo : m \in next .. sent
  BY <1>2
<1>4. next \in worker[w].todo
  BY <1>1, <1>2, <1>3
<1>5. \A k \in worker[w].todo : next <= k /\ k \in Int
  BY <1>1, <1>2
<1>6. First(w) \in worker[w].todo /\ \A k \in worker[w].todo : First(w) <= k
  BY <1>4, <1>5 DEF First
<1>7. First(w) = next
  BY <1>1, <1>4, <1>5, <1>6
<1>8. QED
  BY <1>1, <1>2, <1>4, <1>7

-----------------------------------------------------------------------------

LEMMA InitIInv == Init => IInv
  BY DEF Init, IInv, TypeOK, InOrder, HasGpu, Batch, Idle

\* A worker that ends its job, or a step that changes no batch, keeps the invariant.
LEMMA LeaveKeeps ==
    ASSUME IInv, NEW w \in Workers, Leave(w), UNCHANGED <<sent, replies>>,
           queue' \in Seq({"chat", "triage", "shift"}), unqueued' \subseteq Nat
    PROVE  IInv'
<1> USE WorkerAssumption DEF IInv, Leave, Idle
<1>1. TypeOK'
  BY DEF TypeOK
<1>2. InOrder'
  BY DEF InOrder
<1>3. HasGpu'
  BY DEF HasGpu, TypeOK
<1>4. Batch'
  BY DEF Batch, TypeOK
<1>5. QED
  BY <1>1, <1>2, <1>3, <1>4

\* Its place changes, to one where it has no batch and has the GPU if it needs it.
LEMMA GotoKeeps ==
    ASSUME IInv, NEW w \in Workers, NEW p \in {"acquire", "shift", "close", "check", "triage", "read"},
           Goto(w, p), UNCHANGED <<sent, replies, queue, unqueued>>,
           gpu' \in Workers \cup {None},
           \A x \in Workers \ {w} : gpu = x => gpu' = x,
           p \in {"shift", "check", "triage", "read"} => gpu' = w
    PROVE  IInv'
<1> USE DEF IInv, Goto
<1>1. TypeOK'
  BY DEF TypeOK
<1>2. InOrder'
  BY DEF InOrder
<1>3. HasGpu'
  BY DEF HasGpu, TypeOK
<1>4. Batch'
  BY DEF Batch, TypeOK
<1>5. QED
  BY <1>1, <1>2, <1>3, <1>4

LEMMA ClaimKeeps == ASSUME IInv, NEW w \in Workers, Claim(w) PROVE IInv'
<1> USE DEF IInv, Claim, Idle, At
<1>1. TypeOK'
  <2>1. Head(queue) \in {"chat", "triage", "shift"} /\ Tail(queue) \in Seq({"chat", "triage", "shift"})
    BY DEF TypeOK
  <2>2. QED
    BY <2>1 DEF TypeOK
<1>2. InOrder'
  BY DEF InOrder
<1>3. HasGpu'
  BY DEF HasGpu, TypeOK
<1>4. Batch'
  BY DEF Batch, TypeOK
<1>5. QED
  BY <1>1, <1>2, <1>3, <1>4

LEMMA ReadKeeps == ASSUME IInv, NEW w \in Workers, ReadPending(w) PROVE IInv'
<1>1. CASE Pending = {}
  BY <1>1, LeaveKeeps DEF ReadPending, IInv, TypeOK
<1>2. CASE Pending # {}
  <2> USE <1>2 DEF ReadPending, At, IInv
  <2>1. Pending \subseteq Nat
    BY PendingIsPrefix DEF TypeOK
  <2>2. TypeOK'
    BY <2>1 DEF TypeOK
  <2>3. InOrder'
    BY DEF InOrder
  <2>4. HasGpu'
    BY DEF HasGpu, TypeOK
  <2>5. Batch'
    BY PendingIsPrefix DEF Batch, TypeOK
  <2>6. QED
    BY <2>2, <2>3, <2>4, <2>5
<1>3. QED
  BY <1>1, <1>2

\* No other worker is answering, so that the reply takes nothing from another batch.
LEMMA AnswerKeeps == ASSUME IInv, NEW w \in Workers, Answer(w) PROVE IInv'
<1> DEFINE next == Len(replies) + 1
<1>1. /\ worker[w].pc = "answer" /\ Len(replies) \in Nat /\ sent \in Nat
      /\ replies' = Append(replies, next) /\ sent' = sent
      /\ next \in worker[w].todo /\ next <= sent /\ First(w) = next
  BY FirstIsNext DEF Answer, At, IInv, TypeOK
<1>2. /\ replies' \in Seq(Nat) /\ Len(replies') = next /\ DOMAIN replies' = 1 .. next
      /\ \A n \in 1 .. Len(replies) : replies'[n] = replies[n]
      /\ replies'[next] = next
  BY <1>1 DEF IInv, TypeOK
<1>3. InOrder'
  BY <1>1, <1>2 DEF InOrder, IInv, TypeOK
<1>4. \A x \in Workers \ {w} : worker[x].pc # "answer"
  BY <1>1 DEF IInv, HasGpu
<1>5. CASE worker[w].todo = {next}
  <2>1. Leave(w)
    BY <1>1, <1>5 DEF Answer
  <2>2. /\ worker' = [worker EXCEPT ![w] = Idle]
        /\ gpu' = IF gpu = w THEN None ELSE gpu
    BY <2>1 DEF Leave
  <2>3. TypeOK'
    BY <1>2, <2>2, <1>1 DEF IInv, TypeOK, Answer, Idle
  <2>4. HasGpu'
    BY <2>2 DEF IInv, HasGpu, Idle, TypeOK
  <2>5. Batch'
    BY <1>4, <2>2 DEF IInv, Batch, Idle, TypeOK
  <2>6. QED
    BY <1>3, <2>3, <2>4, <2>5 DEF IInv
<1>6. CASE worker[w].todo # {next}
  <2>1. worker' = [worker EXCEPT ![w].todo = @ \ {next}] /\ gpu' = gpu
    BY <1>1, <1>6 DEF Answer
  <2>2. TypeOK'
    BY <1>1, <1>2, <2>1 DEF IInv, TypeOK, Answer
  <2>3. HasGpu'
    BY <2>1 DEF IInv, HasGpu, TypeOK
  <2>4. /\ worker[w].todo \subseteq next .. sent
        /\ \A m \in worker[w].todo : next .. m \subseteq worker[w].todo
    BY <1>1 DEF IInv, Batch
  <2>5. /\ worker[w].todo \ {next} # {}
        /\ worker[w].todo \ {next} \subseteq next + 1 .. sent
        /\ \A m \in worker[w].todo \ {next} : next + 1 .. m \subseteq worker[w].todo \ {next}
    BY <1>1, <1>6, <2>4
  <2>6. Batch'
    BY <1>1, <1>2, <1>4, <2>1, <2>5 DEF IInv, Batch, TypeOK
  <2>7. QED
    BY <1>3, <2>2, <2>3, <2>6 DEF IInv
<1>7. QED
  BY <1>5, <1>6

\* The API and the planner.
LEMMA QueueKeeps ==
    ASSUME IInv, \/ Submit \/ EnqueueTriage \/ EnqueueShift
                 \/ \E m \in 1 .. MaxMessages : Enqueue(m) \/ LoseJob(m)
    PROVE  IInv'
<1>1. /\ worker' = worker /\ gpu' = gpu /\ replies' = replies
      /\ sent' = sent \/ sent' = sent + 1
  BY DEF Submit, EnqueueTriage, EnqueueShift, Enqueue, LoseJob
<1>2. queue' \in Seq({"chat", "triage", "shift"}) /\ unqueued' \subseteq Nat
  <2>1. queue \in Seq({"chat", "triage", "shift"}) /\ unqueued \subseteq Nat /\ sent + 1 \in Nat
    BY DEF IInv, TypeOK
  <2>2. /\ \/ queue' = queue
           \/ \E k \in {"chat", "triage", "shift"} : queue' = Append(queue, k)
        /\ unqueued' \subseteq unqueued \cup {sent + 1}
    BY DEF Submit, EnqueueTriage, EnqueueShift, Enqueue, LoseJob
  <2>3. QED
    BY <2>1, <2>2
<1>3. TypeOK' /\ HasGpu'
  BY <1>1, <1>2 DEF IInv, TypeOK, HasGpu
<1>4. InOrder'
  BY <1>1 DEF IInv, TypeOK, InOrder
<1>5. Batch'
  <2> SUFFICES ASSUME NEW w \in Workers, worker[w].pc = "answer"
               PROVE  worker[w].todo \subseteq Len(replies) + 1 .. sent'
    BY <1>1 DEF IInv, Batch
  <2>1. worker[w].todo \subseteq Len(replies) + 1 .. sent /\ Len(replies) \in Nat
    BY DEF IInv, Batch, TypeOK
  <2>2. QED
    BY <1>1, <2>1 DEF IInv, TypeOK
<1>6. QED
  BY <1>3, <1>4, <1>5 DEF IInv

LEMMA NextIInv == ASSUME IInv, [Next]_vars PROVE IInv'
<1> USE DEF At
<1>1. CASE \/ Submit \/ EnqueueTriage \/ EnqueueShift
           \/ \E m \in 1 .. MaxMessages : Enqueue(m) \/ LoseJob(m)
  BY <1>1, QueueKeeps
<1>2. ASSUME NEW w \in Workers, Claim(w) PROVE IInv'
  BY <1>2, ClaimKeeps
<1>3. ASSUME NEW w \in Workers, Acquire(w) PROVE IInv'
  <2>1. /\ gpu = None /\ gpu' = w
        /\ UNCHANGED <<sent, replies, queue, unqueued>>
        /\ \/ Goto(w, "shift")
           \/ Goto(w, "check")
    BY <1>3 DEF Acquire, GpuFree
  <2>2. QED
    BY <2>1, GotoKeeps, WorkerAssumption
<1>4. ASSUME NEW w \in Workers, EndShift(w) PROVE IInv'
  <2>1. CASE Leave(w)
    BY <1>4, <2>1, LeaveKeeps DEF EndShift, IInv, TypeOK
  <2>2. CASE gpu' = None /\ Goto(w, "close")
    <3>1. gpu = w /\ UNCHANGED <<sent, replies, queue, unqueued>>
      BY <1>4 DEF EndShift, IInv, HasGpu
    <3>2. QED
      BY <2>2, <3>1, GotoKeeps
  <2>3. QED
    BY <1>4, <2>1, <2>2 DEF EndShift
<1>5. ASSUME NEW w \in Workers, CloseShift(w) PROVE IInv'
  BY <1>5, LeaveKeeps DEF CloseShift, IInv, TypeOK
<1>6. ASSUME NEW w \in Workers, Check(w) PROVE IInv'
  <2>1. CASE shift
    BY <1>6, <2>1, LeaveKeeps DEF Check, IInv, TypeOK
  <2>2. CASE ~shift
    <3>1. /\ gpu = w /\ gpu' = gpu /\ UNCHANGED <<sent, replies, queue, unqueued>>
          /\ Goto(w, "triage") \/ Goto(w, "read")
      BY <1>6, <2>2 DEF Check, IInv, HasGpu
    <3>2. QED
      BY <3>1, GotoKeeps
  <2>3. QED
    BY <2>1, <2>2
<1>7. ASSUME NEW w \in Workers, Triage(w) PROVE IInv'
  <2>1. gpu = w /\ gpu' = gpu /\ UNCHANGED <<sent, replies, queue, unqueued>> /\ Goto(w, "read")
    BY <1>7 DEF Triage, AfterTriage, IInv, HasGpu
  <2>2. QED
    BY <2>1, GotoKeeps
<1>8. ASSUME NEW w \in Workers, ReadPending(w) PROVE IInv'
  BY <1>8, ReadKeeps
<1>9. ASSUME NEW w \in Workers, Answer(w) PROVE IInv'
  BY <1>9, AnswerKeeps
<1>10. ASSUME NEW w \in Workers, GiveUp(w) \/ ExpireWaiting(w) \/ Fails(w) PROVE IInv'
  BY <1>10, LeaveKeeps DEF GiveUp, ExpireWaiting, Fails, IInv, TypeOK
<1>11. CASE Kill
  BY <1>11 DEF Kill, IInv, TypeOK, InOrder, HasGpu, Batch, Idle
<1>12. CASE Restart
  BY <1>12 DEF Restart, IInv, TypeOK, InOrder, HasGpu, Batch
<1>13. CASE UNCHANGED vars
  BY <1>13 DEF vars, IInv, TypeOK, InOrder, HasGpu, Batch
<1>14. QED
  BY <1>1, <1>2, <1>3, <1>4, <1>5, <1>6, <1>7, <1>8, <1>9, <1>10, <1>11, <1>12, <1>13
  DEF Next, WorkerStep

LEMMA Invariance == Spec => []IInv
  BY InitIInv, NextIInv, PTL DEF Spec

-----------------------------------------------------------------------------

\* Two workers, shifts, timeouts and restarts never answer a message twice: the GPU is
\* held from the reading of the pending messages to the last reply.
THEOREM OneReply == Spec => []AnsweredOnce
<1>1. IInv => AnsweredOnce
  BY DEF IInv, InOrder, AnsweredOnce
<1>2. QED
  BY <1>1, Invariance, PTL

\* No message is answered before an older one, however many fail.
THEOREM RepliesInTurn == Spec => []AnsweredInTurn
<1>1. IInv => AnsweredInTurn
  <2> SUFFICES ASSUME IInv, NEW n \in DOMAIN replies, NEW k \in 1 .. replies[n] - 1
               PROVE  k \in {replies[i] : i \in 1 .. n}
    BY DEF AnsweredInTurn
  <2>1. replies[n] = n /\ DOMAIN replies = 1 .. Len(replies) /\ Len(replies) \in Nat
    BY DEF IInv, InOrder, TypeOK
  <2>2. k \in 1 .. n /\ k \in DOMAIN replies /\ replies[k] = k
    BY <2>1 DEF IInv, InOrder
  <2>3. QED
    BY <2>2
<1>2. QED
  BY <1>1, Invariance, PTL
=============================================================================
