----------------------------- MODULE ShiftLedger -----------------------------
(***************************************************************************)
(* What the watch desk promises of a shift, whatever its planner, workers, *)
(* queue, timeouts and restarts do: the row moves one way through its      *)
(* states (migrations/versions/0006_watch_desk.py, table shifts), and the  *)
(* desks of the shift start at most once, while the row says running.      *)
(***************************************************************************)
EXTENDS Naturals

CONSTANT Shifts

VARIABLES
    status,     \* shifts.status, "absent" before the row is inserted
    started,    \* how often the desks of the shift started
    overruled   \* shifts whose failure was overruled since the process began

vars == <<status, started, overruled>>

Init ==
    /\ status = [s \in Shifts |-> "absent"] /\ started = [s \in Shifts |-> 0]
    /\ overruled = {}

\* All shifts of S, which are in one of the states of From, go to state to.
Move(S, From, to) ==
    /\ \A s \in S : status[s] \in From
    /\ status' = [s \in Shifts |-> IF s \in S THEN to ELSE status[s]]
    /\ UNCHANGED <<started, overruled>>

Plan == \E S \in SUBSET Shifts : Move(S, {"absent"}, "scheduled")

Skip == \E S \in SUBSET Shifts : Move(S, {"scheduled"}, "skipped")

\* A shift that waits in the queue or for the GPU past its grace is skipped and
\* then begins all the same.
Begin == \E s \in Shifts : Move({s}, {"scheduled", "skipped"}, "running")

Start ==
    /\ \E s \in Shifts \ overruled : /\ status[s] = "running" /\ started[s] = 0
                                     /\ started' = [started EXCEPT ![s] = 1]
    /\ UNCHANGED <<status, overruled>>

Succeed == \E s \in Shifts : Move({s}, {"running"}, "ok")

\* A shift may fail before it begins, and a cancellation that comes just after
\* its success was recorded makes it a failure.
Fail == \E s \in Shifts : Move({s}, {"scheduled", "skipped", "running", "ok"}, "failed")

\* The thread of a cancelled task writes its status after the failure was
\* recorded.  No desk starts on account of it.
Overrule ==
    /\ \E s \in Shifts, to \in {"running", "ok", "failed"} :
          /\ status[s] = "failed"
          /\ status' = [status EXCEPT ![s] = to] /\ overruled' = overruled \cup {s}
    /\ UNCHANGED started

\* A restart fails what it finds running, an overruled shift included.
Interrupt ==
    /\ status' = [s \in Shifts |-> IF status[s] = "running" THEN "failed" ELSE status[s]]
    /\ overruled' = {}
    /\ UNCHANGED started

Next == Plan \/ Skip \/ Begin \/ Start \/ Succeed \/ Fail \/ Overrule \/ Interrupt

Spec == Init /\ [][Next]_vars
=============================================================================
