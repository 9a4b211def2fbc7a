------------------------------ MODULE JobTable ------------------------------
(***************************************************************************)
(* The jobs table of src/desk/watch/queue.py as operators on its value: a  *)
(* sequence of rows, the id of a row being its position.  Each operator is *)
(* the one SQL statement of the function it is named for.                  *)
(*                                                                         *)
(* A claim locks the row it takes (FOR UPDATE SKIP LOCKED), so concurrent  *)
(* claims take effect one after the other, each in one step.               *)
(***************************************************************************)
EXTENDS Integers, Sequences

JobStatus == {"queued", "running", "ok", "failed"}

\* The dedupe_key of a job that has none: the unique index ignores it.
NoKey == <<"none", 0>>

\* A row as enqueue inserts it; after is its run_after, subject its payload.
Queued(key, kind, subject, max, t) ==
    [key |-> key, kind |-> kind, subject |-> subject, status |-> "queued",
     attempts |-> 0, max |-> max, after |-> t]

\* The unique index on dedupe_key: whatever became of the first job of a key, no
\* second one is ever inserted (ON CONFLICT DO NOTHING).
Taken(table, key) == key # NoKey /\ \E i \in DOMAIN table : table[i].key = key

Claimable(table, t) ==
    {i \in DOMAIN table : table[i].status = "queued" /\ table[i].after <= t}

\* ORDER BY run_after, id LIMIT 1: the row a claim takes, the only one here.
Oldest(table, t) ==
    {i \in Claimable(table, t) :
        \A k \in Claimable(table, t) :
            \/ table[i].after < table[k].after
            \/ table[i].after = table[k].after /\ i <= k}

Claim(table, i) ==
    [table EXCEPT ![i].status = "running", ![i].attempts = @ + 1]

\* A failed job with attempts left goes back to the queue, RetryAfter later.
Finish(table, i, outcome, t, RetryAfter) ==
    IF outcome = "failed" /\ table[i].attempts < table[i].max
    THEN [table EXCEPT ![i].status = "queued", ![i].after = t + RetryAfter]
    ELSE [table EXCEPT ![i].status = outcome]

\* Mutation: the jobs a restart finds running are tried again.
RequeueStale(table) ==
    [i \in DOMAIN table |->
        IF table[i].status = "running"
        THEN [table[i] EXCEPT !.status = "queued"] ELSE table[i]]

\* Mutation: they are left as they are.
LeaveStale(table) == table

ReleaseStale(table) ==
    [i \in DOMAIN table |->
        IF table[i].status = "running"
        THEN [table[i] EXCEPT !.status = "failed"] ELSE table[i]]
=============================================================================
