----------------------------- MODULE ThesisBook -----------------------------
(***************************************************************************)
(* The theses: src/desk/front_office/intake.py (Jon's drafts),             *)
(* src/desk/desks/idea (the desk's own theses, evidence for Jon's, and the *)
(* checks of all) and src/desk/desks/analyst (the judge's conviction).     *)
(*                                                                         *)
(* A thesis is a chain of versions in the append-only artifacts table; the *)
(* last ok version is the thesis.  The desks and the drafting of messages  *)
(* run one at a time, for each holds the GPU (OneModelJob of WatchDesk);   *)
(* what they read at their start they use until their end, while Jon       *)
(* writes and confirms through the API at any time.                        *)
(*                                                                         *)
(* The texts of models, what research finds and which theses are due for a *)
(* debate are nondeterministic.  Theses are long, and one price is their   *)
(* hard line.  No code makes a thesis triggered, in_position or closed.    *)
(***************************************************************************)
EXTENDS Integers, Sequences, FiniteSets, Functions

CONSTANTS
    Ids,            \* ids of versions: a bound of the model
    None,           \* no version
    Symbols, Unknown,
    Levels,         \* prices of hard lines
    Closes,         \* daily closes
    Deadlines,      \* time limits that Jon gives
    Reviews,        \* days from the writing of a thesis to its time limit
    MaxPending,     \* MAX_PENDING
    \* Bounds of the model, which the code does not have:
    MaxMessages, MaxDay

\* Of a draft without a hard line, and of a thesis without a time limit.
Missing == 0
NoLimit == -1

ASSUME IdAssumption == None \notin Ids /\ Unknown \notin Symbols
ASSUME PriceAssumption == Levels \subseteq Nat \ {Missing} /\ Closes \subseteq Nat
ASSUME DayAssumption ==
    /\ Deadlines \subseteq Nat /\ Reviews \subseteq Nat \ {0}
    /\ {MaxPending, MaxMessages, MaxDay} \subseteq Nat

VARIABLES
    day,        \* today
    latest,     \* the latest stored close of each symbol
    book,       \* the thesis artifacts, by id
    messages,   \* intake messages in their order: the version each answers, or None
    pc,         \* who has the GPU: "idle", "intake", "post" or "analyst"
    todo,       \* pending messages that intake read
    listed,     \* versions that post-market (Jon's) or the analysts (due) read
    chosen,     \* symbols for which post-market is going to write a thesis
    \* History variables:
    checked,    \* day of the last check of all theses
    judged      \* latest at that check

local == <<pc, todo, listed, chosen>>
checks == <<checked, judged>>
vars == <<day, latest, book, messages, local, checks>>

NoClose == [day |-> -1, price |-> 0]

Version == [prev : Ids \cup {None},
            by : {"intake", "confirm", "writer", "evidence", "judge", "status"},
            origin : {"jon", "desk"}, state : {"draft", "active", "invalidated"}, ok : BOOLEAN,
            symbol : Symbols \cup {Unknown}, hard : Levels \cup {Missing},
            limit : Nat \cup {NoLimit},
            message : Nat,      \* the message it was drafted from, or 0
            day : Nat,          \* of created_at
            began : Nat]        \* history: the day its thesis became active

Close == [day : Int, price : Nat]

TypeOK ==
    /\ day \in 0 .. MaxDay
    /\ latest \in [Symbols -> Close] /\ judged \in [Symbols -> Close]
    /\ DOMAIN book \subseteq Ids /\ \A v \in DOMAIN book : book[v] \in Version
    /\ messages \in Seq(Ids \cup {None})
    /\ pc \in {"idle", "intake", "post", "analyst"}
    /\ todo \subseteq DOMAIN messages /\ listed \subseteq DOMAIN book /\ chosen \subseteq Symbols
    /\ checked \in Int

Init ==
    /\ day = 0 /\ latest = [s \in Symbols |-> NoClose]
    /\ book = [v \in {} |-> None] /\ messages = <<>>
    /\ pc = "idle" /\ todo = {} /\ listed = {} /\ chosen = {}
    /\ checked = -1 /\ judged = [s \in Symbols |-> NoClose]

-----------------------------------------------------------------------------
(* The table *)

\* append_artifact for each version of new, under its id.
Appended(b, new, ids) ==
    [w \in DOMAIN b \cup {ids[v] : v \in DOMAIN new} |->
        IF w \in DOMAIN b THEN b[w] ELSE new[CHOOSE v \in DOMAIN new : ids[v] = w]]

\* Ways to give fresh ids to the versions that take the place of S in b.
Fresh(b, S) == Injection(S, Ids \ DOMAIN b)

\* Append one version, which takes the place of v or of None.
Add(v, version) ==
    \E ids \in Fresh(book, {v}) : book' = Appended(book, [u \in {v} |-> version], ids)

\* new_version: all but what it is made from, when and by whom stays the same.
NewVersion(b, v, by) == [b[v] EXCEPT !.prev = v, !.by = by, !.message = 0, !.day = day]

\* The versions of b that end their chains, and stand: open_theses.
Last(b) ==
    {v \in DOMAIN b : b[v].ok /\ ~\E w \in DOMAIN b : b[w].ok /\ b[w].prev = v}

OpenTheses(b) == {v \in Last(b) : b[v].state # "invalidated"}

\* Those of them that are not drafts.
Standing(b) == {v \in OpenTheses(b) : b[v].state # "draft"}

-----------------------------------------------------------------------------
(* Jon, through the API: submit_message and confirm_draft *)

\* A new idea, or an answer to a version of a thesis, whatever its state.
Submit ==
    /\ Len(messages) < MaxMessages /\ DOMAIN book # Ids
    /\ \E v \in DOMAIN book \cup {None} : messages' = Append(messages, v)
    /\ UNCHANGED <<day, latest, book, local, checks>>

\* review: the fields that a draft must have are all there, or one is missing.
Complete(v) == book[v].hard # Missing

\* A draft is confirmed as often as Jon asks; rows never change, so that it does
\* not matter when it was read.
Confirm ==
    /\ \E v \in DOMAIN book :
          /\ book[v].origin = "jon" /\ book[v].state = "draft" /\ book[v].ok /\ Complete(v)
          /\ Add(v, [NewVersion(book, v, "confirm") EXCEPT !.state = "active", !.began = day])
    /\ UNCHANGED <<day, latest, messages, local, checks>>

-----------------------------------------------------------------------------
(* The triage job's drafting: process_pending *)

\* Mutation: a failed draft does not count.
PendingUntilDrafted ==
    {m \in DOMAIN messages : ~\E v \in DOMAIN book : book[v].ok /\ book[v].message = m}

\* pending_messages: those no version was made from, failed ones included.  The
\* earlier messages of a conversation, which are parents of a draft as well, were
\* drafted before.
Pending == {m \in DOMAIN messages : ~\E v \in DOMAIN book : book[v].message = m}

\* Mutation: the rows are counted from 0.
FirstFromZero == {m - 1 : m \in {n \in Pending : Cardinality({k \in Pending : k < n}) < MaxPending}}

\* ORDER BY created_at LIMIT MAX_PENDING
FirstPending == {m \in Pending : Cardinality({k \in Pending : k < m}) < MaxPending}

ReadMessages ==
    /\ pc = "idle" /\ Pending # {}
    /\ pc' = "intake" /\ todo' = FirstPending
    /\ UNCHANGED <<day, latest, book, messages, listed, chosen, checks>>

\* build_draft: what the model took from the conversation.
Draft(m, symbol, hard, limit) ==
    [prev |-> messages[m], by |-> "intake", origin |-> "jon", state |-> "draft", ok |-> TRUE,
     symbol |-> symbol, hard |-> hard, limit |-> limit,
     message |-> m, day |-> day, began |-> 0]

\* _failed_draft: no reply, or one that makes no thesis; without previous_id.
FailedDraft(m) == [Draft(m, Unknown, Missing, NoLimit) EXCEPT !.prev = None, !.ok = FALSE]

\* The oldest of the messages that were read.
DraftNext ==
    /\ pc = "intake"
    /\ \E m \in todo :
          /\ \A k \in todo : m <= k
          /\ todo' = todo \ {m}
          /\ \/ Add(None, FailedDraft(m))
             \/ \E s \in Symbols, h \in Levels \cup {Missing}, l \in Deadlines \cup {NoLimit} :
                   Add(messages[m], Draft(m, s, h, l))
    /\ UNCHANGED <<day, latest, messages, pc, listed, chosen, checks>>

-----------------------------------------------------------------------------
(* The post-market shift: run_post_market *)

\* Mutation: only Jon's theses cover their symbol.
JonCovers(s) == \E v \in Standing(book) : book[v].symbol = s /\ book[v].origin = "jon"

Covered(s) == \E v \in Standing(book) : book[v].symbol = s

\* The candidates that are shortlisted and will have evidence: any of those whose
\* symbol no open thesis covers, one per symbol.
BeginPost ==
    /\ pc = "idle" /\ pc' = "post"
    /\ listed' = {v \in Standing(book) : book[v].origin = "jon"}
    /\ \E C \in SUBSET {s \in Symbols : ~Covered(s)} : chosen' = C
    /\ UNCHANGED <<day, latest, book, messages, todo, checks>>

Written(s, hard, review) ==
    [prev |-> None, by |-> "writer", origin |-> "desk", state |-> "active", ok |-> TRUE,
     symbol |-> s, hard |-> hard, limit |-> day + review,
     message |-> 0, day |-> day, began |-> day]

\* _failed_thesis
FailedThesis(s) ==
    [Written(s, Missing, 0) EXCEPT !.state = "draft", !.ok = FALSE, !.limit = NoLimit, !.began = 0]

\* write_thesis: a thesis, a failed one, or nothing.
WriteThesis(s) ==
    /\ pc = "post" /\ s \in chosen /\ chosen' = chosen \ {s}
    /\ \/ \E h \in Levels, r \in Reviews : Add(None, Written(s, h, r))
       \/ Add(None, FailedThesis(s))
       \/ UNCHANGED book
    /\ UNCHANGED <<day, latest, messages, pc, todo, listed, checks>>

\* The hard line is checked against closes since the version was made.
Crossed(v, close) == close.day >= v.day /\ close.price < v.hard

\* Mutation: the time limit is forgotten.
CrossedOnly(v) == Crossed(v, latest[v.symbol])

\* invalidation_note
Invalid(v) == Crossed(v, latest[v.symbol]) \/ (v.limit # NoLimit /\ day > v.limit)

\* attach_evidence: a new version of each of Jon's theses in E.
Attached(b, E, ids) == Appended(b, [v \in E |-> NewVersion(book, v, "evidence")], ids)

\* check_theses: each of the theses in I is invalidated.
Invalidated(b, I, ids) ==
    Appended(b, [v \in I |-> [NewVersion(b, v, "status") EXCEPT !.state = "invalidated"]], ids)

\* The theses of b that the checks invalidate.
Failing(b) == {v \in Standing(b) : Invalid(b[v])}

\* Mutation: the checks come before the evidence.
CheckFirst ==
    /\ pc = "post" /\ pc' = "idle" /\ listed' = {} /\ chosen' = {}
    /\ \E more \in Fresh(book, Failing(book)), E \in SUBSET listed :
          LET b == Invalidated(book, Failing(book), more)
          IN  \E ids \in Fresh(b, E) : book' = Attached(b, E, ids)
    /\ checked' = day /\ judged' = latest
    /\ UNCHANGED <<day, latest, messages, todo>>

\* The end of the run: evidence and checks are one transaction.
EndPost ==
    /\ pc = "post" /\ pc' = "idle" /\ listed' = {} /\ chosen' = {}
    /\ \E E \in SUBSET listed : \E ids \in Fresh(book, E) :
          LET b == Attached(book, E, ids)
          IN  \E more \in Fresh(b, Failing(b)) : book' = Invalidated(b, Failing(b), more)
    /\ checked' = day /\ judged' = latest
    /\ UNCHANGED <<day, latest, messages, todo>>

-----------------------------------------------------------------------------
(* The pre-market shift's debates: run_analyst_desks *)

\* due_debates: any of the standing theses.  A debate of one of Jon's leaves it as
\* it is; those of the desk are the ones that matter here.
BeginAnalyst ==
    /\ pc = "idle" /\ pc' = "analyst"
    /\ \E D \in SUBSET {v \in Standing(book) : book[v].origin = "desk"} : listed' = D
    /\ UNCHANGED <<day, latest, book, messages, todo, chosen, checks>>

\* debate_thesis: the judge's conviction makes a new version, unless it is the old
\* one or the debate fails.
Debate ==
    /\ pc = "analyst"
    /\ \E v \in listed : /\ listed' = listed \ {v}
                         /\ Add(v, NewVersion(book, v, "judge")) \/ UNCHANGED book
    /\ UNCHANGED <<day, latest, messages, pc, todo, chosen, checks>>

-----------------------------------------------------------------------------
(* Around the desks *)

\* The run is through, or its deadline, its timeout, an error or a crash ends it.
Stop ==
    /\ pc # "idle" /\ pc' = "idle" /\ todo' = {} /\ listed' = {} /\ chosen' = {}
    /\ UNCHANGED <<day, latest, book, messages, checks>>

\* yahoo_daily_bars: the close of a day is stored after the day.
StoreClose(s) ==
    /\ \E d \in latest[s].day + 1 .. day - 1, p \in Closes :
          latest' = [latest EXCEPT ![s] = [day |-> d, price |-> p]]
    /\ UNCHANGED <<day, book, messages, local, checks>>

\* A shift is over long before midnight; drafting may not be.
NextDay ==
    /\ day < MaxDay /\ pc \in {"idle", "intake"} /\ day' = day + 1
    /\ UNCHANGED <<latest, book, messages, local, checks>>

Next ==
    \/ Submit \/ Confirm
    \/ ReadMessages \/ DraftNext
    \/ BeginPost \/ (\E s \in Symbols : WriteThesis(s)) \/ EndPost
    \/ BeginAnalyst \/ Debate
    \/ Stop \/ (\E s \in Symbols : StoreClose(s)) \/ NextDay

Spec == Init /\ [][Next]_vars

-----------------------------------------------------------------------------
(* Properties *)

\* A message is drafted from once, over any failed drafts, timeouts and crashes, and
\* whatever is answered and confirmed meanwhile.
DraftedOnce ==
    \A v, w \in DOMAIN book :
        book[v].message # 0 /\ book[v].message = book[w].message => v = w

ByDesk(v) == book[v].by \in {"evidence", "judge", "status"}

\* The desks build on a thesis that stands, and never twice on the same version: the
\* lists they read at their start are as good at their end.
OneHeir ==
    /\ \A v \in DOMAIN book : ByDesk(v) => /\ book[v].prev \in DOMAIN book
                                           /\ book[book[v].prev].state = "active"
    /\ \A v, w \in DOMAIN book :
          ByDesk(v) /\ ByDesk(w) /\ book[v].prev = book[w].prev => v = w

\* The desk has at most one standing thesis of its own on a symbol.
CoveredOnce ==
    \A v, w \in Standing(book) :
        /\ book[v].origin = "desk" /\ book[w].origin = "desk"
        /\ book[v].symbol = book[w].symbol
        => v = w

\* No thesis stands after a check of a close since its version was made that is past
\* its hard line, or after a check past its time limit.
NoneSurvives ==
    \A v \in Standing(book) :
        /\ ~Crossed(book[v], judged[book[v].symbol])
        /\ book[v].limit # NoLimit /\ book[v].limit < checked => book[v].began >= checked

\* The same for all closes since the thesis became active.
HardLineKept ==
    \A v \in Standing(book) :
        LET close == judged[book[v].symbol]
        IN  close.day >= book[v].began => close.price >= book[v].hard
=============================================================================
