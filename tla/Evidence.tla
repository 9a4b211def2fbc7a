------------------------------ MODULE Evidence ------------------------------
(***************************************************************************)
(* The evidence of the post-market shift: desks/research.py writes         *)
(* dossiers of claims, one subject after the other and one transaction     *)
(* each, then desks/factcheck.py gives every open claim its verdict, all   *)
(* of a run in one transaction.  The model may answer anything; what a     *)
(* draft says is abstracted to what the checks look at.                    *)
(***************************************************************************)
EXTENDS Ascending, Sequences

CONSTANTS
    Subjects,       \* sequence: the holdings, then the plays, see below
    Drafts,         \* drafts the model can return, see below
    ShiftDays,      \* days that have a post-market shift
    Window,         \* since: how far back a run looks, in days
    MaxClaims,      \* MAX_CLAIMS_PER_RUN
    Batch,          \* ENTAILMENT_BATCH
    \* Bounds of the model, which the code does not have:
    LastDate, MaxFailures  \* shifts cut short, requests that fail

ASSUME WindowAssumption ==
    /\ {Window, MaxClaims, LastDate} \subseteq Nat /\ Batch \in Nat \ {0}
    /\ Subjects \in Seq(Range(Subjects))

\* A subject is [symbol, kind, reasons]: "holding" or "play", and the numbers in each of
\* the reasons, those the lanes or Jon had for a play.  A draft is [claims, text].  A
\* claim has digits, the numbers of its quote; sound, whether claim_problems finds
\* nothing; asof, the day of a market move, as days back from the shift's, or -1 without
\* one; right, whether stored closes agree; dated, whether that day is a date.  A
\* sentence of the text has the digits and the refs it uses, a ref being the number of a
\* claim, if there is that claim.

ASSUME DraftAssumption ==
    \A draft \in Drafts :
        /\ draft.claims \in Seq(Range(draft.claims)) /\ draft.text \in Seq(Range(draft.text))
        /\ \A s \in Range(draft.text) : s = [digits |-> s.digits, refs |-> s.refs]

VARIABLES
    date,
    stage,          \* where the shift is
    ran,            \* days whose shift began
    todo,           \* subjects still to research
    claims,         \* claim artifacts, in order: [subject, day, draft]
    dossiers,       \* dossier artifacts: [subject, day, claims, why, text, draft],
                    \* empty if failed; why is the section put in front of the text
    checks,         \* claims the run has read that passed the hard checks: [claim, corrected]
    pending,        \* verdicts of the run, to be committed
    verified,       \* verified_claim artifacts, in order: [claim, verdict, ok, day]
    checked,        \* days whose fact check committed
    failures

evidenceVars == <<date, stage, ran, todo, claims, dossiers, checks, pending, verified, checked, failures>>
research == <<claims, dossiers>>
facts == <<checks, pending, verified, checked>>

-----------------------------------------------------------------------------
(* Drafts and their checks.                                                *)

DigitsOf(cited) == UNION {cited[n].digits : n \in DOMAIN cited}

\* check_draft: every claim is sound and every number of the text is in a quote.
Passes(draft) ==
    /\ \A n \in DOMAIN draft.claims : draft.claims[n].sound
    /\ \A n \in DOMAIN draft.text : draft.text[n].digits \subseteq DigitsOf(draft.claims)

Sound(draft) == Ascending({n \in DOMAIN draft.claims : draft.claims[n].sound})

\* renumber: the place of claim n among the kept ones.
Place(kept, n) == CHOOSE k \in DOMAIN kept : kept[k] = n

\* Mutation: sentences keep the refs they have.
SalvageAsNumbered(draft) ==
    LET kept == Sound(draft)
        cited == [k \in DOMAIN kept |-> draft.claims[kept[k]]]
        stays(s) == /\ s.digits \subseteq DigitsOf(cited)
                    /\ (s.refs = {} \/ s.refs \cap Range(kept) # {})
        left == Ascending({n \in DOMAIN draft.text : stays(draft.text[n])})
    IN  [claims |-> cited, text |-> [n \in DOMAIN left |-> draft.text[left[n]]]]

\* salvage_draft: the sound claims, and the sentences whose numbers they trace and
\* that cite one of them, if any; the refs follow the claims.
Salvage(draft) ==
    LET kept == Sound(draft)
        cited == [k \in DOMAIN kept |-> draft.claims[kept[k]]]
        stays(s) == /\ s.digits \subseteq DigitsOf(cited)
                    /\ (s.refs = {} \/ s.refs \cap Range(kept) # {})
        renumbered(s) == [s EXCEPT !.refs = {Place(kept, n) : n \in @ \cap Range(kept)}]
        left == Ascending({n \in DOMAIN draft.text : stays(draft.text[n])})
    IN  [claims |-> cited, text |-> [n \in DOMAIN left |-> renumbered(draft.text[left[n]])]]

-----------------------------------------------------------------------------
(* Research.                                                               *)

EvidenceInit ==
    /\ date = 0 /\ stage = "idle" /\ ran = {} /\ todo = <<>>
    /\ claims = <<>> /\ dossiers = {}
    /\ checks = <<>> /\ pending = <<>> /\ verified = <<>> /\ checked = {}
    /\ failures = 0

BeginResearch ==
    /\ stage = "idle" /\ date \in ShiftDays \ ran
    /\ ran' = ran \cup {date} /\ stage' = "research" /\ todo' = Subjects
    /\ UNCHANGED <<date, research, facts, failures>>

Researching == stage = "research" /\ todo # <<>>

Subject == Head(todo)

Turn == todo' = Tail(todo) /\ UNCHANGED <<date, stage, ran, facts>>

\* A subject without sources is skipped.
NoSources == Researching /\ Turn /\ UNCHANGED <<research, failures>>

\* "Why selected", added after the checks: the reasons as they are.
Why(subject) == IF subject.kind = "play" THEN subject.reasons ELSE <<>>

Dossier(of, why, text, draft) ==
    [subject |-> Subject.symbol, day |-> date, claims |-> of,
     why |-> why, text |-> text, draft |-> draft]

Failed(draft) == Dossier(<<>>, <<>>, <<>>, draft)

\* The claims and the dossier of a draft, in one transaction.
Keep(kept, draft) ==
    LET new == [n \in DOMAIN kept.claims |->
                   [subject |-> Subject.symbol, day |-> date, draft |-> kept.claims[n]]]
        numbers == [n \in DOMAIN new |-> Len(claims) + n]
    IN  /\ claims' = claims \o new
        /\ dossiers' = dossiers \cup {Dossier(numbers, Why(Subject), kept.text, draft)}

Dated(kept) == \A n \in DOMAIN kept.claims : kept.claims[n].dated

\* A draft that passes, at the first try or the second.
Accept(draft) ==
    /\ Researching /\ Passes(draft) /\ Dated(draft)
    /\ Keep(draft, draft)
    /\ Turn /\ UNCHANGED failures

\* A draft that still fails after its retry keeps what is sound.
AcceptPart(draft) ==
    /\ Researching /\ ~Passes(draft)
    /\ Salvage(draft).claims # <<>> /\ Dated(Salvage(draft))
    /\ Keep(Salvage(draft), draft)
    /\ Turn /\ UNCHANGED failures

\* Nothing of the last draft is sound.
RejectAll(draft) ==
    /\ Researching /\ ~Passes(draft) /\ Salvage(draft).claims = <<>>
    /\ dossiers' = dossiers \cup {Failed(draft)}
    /\ Turn /\ UNCHANGED <<claims, failures>>

\* The request fails, or no reply has the schema: the shift moves on.
NoReply ==
    /\ Researching /\ failures < MaxFailures /\ failures' = failures + 1
    /\ dossiers' = dossiers \cup {Failed([claims |-> <<>>, text |-> <<>>])}
    /\ Turn /\ UNCHANGED claims

\* The date of a market move is parsed only now: one that is none ends the shift.
Misdated(draft) ==
    /\ Researching
    /\ ~Dated(IF Passes(draft) THEN draft ELSE Salvage(draft))
    /\ stage' = "idle" /\ todo' = <<>>
    /\ UNCHANGED <<date, ran, research, facts, failures>>

-----------------------------------------------------------------------------
(* Fact check.                                                             *)

\* Mutation: a claim whose check failed is closed as well.
ClosedByAny(c) == \E n \in DOMAIN verified : verified[n].claim = c

\* Mutation: a verdict does not close the claim it is about.
ClosedNever(c) == FALSE

\* A claim of any run that has a verdict that counts.
Closed(c) == \E n \in DOMAIN verified : verified[n].claim = c /\ verified[n].ok

\* Claims of the last Window days; on the last of them it depends on the hour.
Recent(edge) ==
    {c \in DOMAIN claims : date - claims[c].day < Window + (IF edge THEN 1 ELSE 0)}

\* The oldest claims without an ok verdict.
Open(edge) ==
    LET open == Ascending({c \in Recent(edge) : ~Closed(c)})
    IN  SubSeq(open, 1, IF Len(open) < MaxClaims THEN Len(open) ELSE MaxClaims)

\* closes_for: the close of today is stored tomorrow.
MoveDay(c) == claims[c].day - claims[c].draft.asof
HasMove(c) == claims[c].draft.asof >= 0

\* hard_check.  Research checked the quote against less of the same source.
HardFails(c) == HasMove(c) /\ MoveDay(c) >= date
Corrected(c) == HasMove(c) /\ ~claims[c].draft.right

Verdict(c, verdict, ok) == [claim |-> c, verdict |-> verdict, ok |-> ok, day |-> date]

ReadClaims ==
    /\ stage = "research" /\ todo = <<>>
    /\ \E edge \in BOOLEAN :
          LET failing == Ascending({c \in Range(Open(edge)) : HardFails(c)})
              passing == Ascending({c \in Range(Open(edge)) : ~HardFails(c)})
          IN  /\ pending' = [n \in DOMAIN failing |-> Verdict(failing[n], "rejected", TRUE)]
              /\ checks' = [n \in DOMAIN passing |->
                              [claim |-> passing[n], corrected |-> Corrected(passing[n])]]
    /\ stage' = "check"
    /\ UNCHANGED <<date, ran, todo, research, verified, checked, failures>>

First == SubSeq(checks, 1, IF Len(checks) < Batch THEN Len(checks) ELSE Batch)
Rest == SubSeq(checks, Len(First) + 1, Len(checks))

Judged(check, supported) ==
    Verdict(check.claim, CASE ~supported -> "rejected"
                           [] check.corrected -> "corrected"
                           [] OTHER -> "verified", TRUE)

\* The small model labels a batch.
LabelBatch ==
    /\ stage = "check" /\ checks # <<>>
    /\ \E supported \in [DOMAIN First -> BOOLEAN] :
          pending' = pending \o [n \in DOMAIN First |-> Judged(First[n], supported[n])]
    /\ checks' = Rest
    /\ UNCHANGED <<date, stage, ran, todo, research, verified, checked, failures>>

\* The request or the reply fails: verdicts that do not close their claims.
BatchFails ==
    /\ stage = "check" /\ checks # <<>> /\ failures < MaxFailures /\ failures' = failures + 1
    /\ pending' = pending \o [n \in DOMAIN First |-> Verdict(First[n].claim, "rejected", FALSE)]
    /\ checks' = Rest
    /\ UNCHANGED <<date, stage, ran, todo, research, verified, checked>>

StoreVerdicts ==
    /\ stage = "check" /\ checks = <<>>
    /\ verified' = verified \o pending /\ pending' = <<>>
    /\ checked' = checked \cup {date} /\ stage' = "idle"
    /\ UNCHANGED <<date, ran, todo, research, checks, failures>>

-----------------------------------------------------------------------------

\* The shift is cut short: its timeout, a stop, a kill or an error.
CutShort ==
    /\ stage # "idle" /\ failures < MaxFailures /\ failures' = failures + 1
    /\ stage' = "idle" /\ todo' = <<>> /\ checks' = <<>> /\ pending' = <<>>
    /\ UNCHANGED <<date, ran, research, verified, checked>>

NextDate ==
    /\ stage = "idle" /\ date < LastDate /\ date' = date + 1
    /\ UNCHANGED <<stage, ran, todo, research, facts, failures>>

EvidenceNext ==
    \/ BeginResearch \/ NoSources \/ NoReply
    \/ \E draft \in Drafts : Accept(draft) \/ AcceptPart(draft) \/ RejectAll(draft) \/ Misdated(draft)
    \/ ReadClaims \/ LabelBatch \/ BatchFails \/ StoreVerdicts
    \/ CutShort \/ NextDate

EvidenceSpec == EvidenceInit /\ [][EvidenceNext]_evidenceVars

-----------------------------------------------------------------------------
(* Properties.                                                             *)

\* Whatever runs are cut short, a claim has one verdict that counts.
ClosedOnce ==
    \A m, n \in DOMAIN verified :
        verified[m].ok /\ verified[n].ok /\ verified[m].claim = verified[n].claim => m = n

\* "Why selected" is in the dossiers of plays only, and says why the play was chosen.
ReasonsOfPlay(d) ==
    d.why # <<>> =>
        \E s \in Range(Subjects) : s.kind = "play" /\ d.subject = s.symbol /\ d.why = s.reasons

\* Every number the model wrote into a dossier is in the quote of one of its claims, and
\* every ref is to the claim the model gave that number when it wrote it, or to none
\* because the model had none with that number.  The only other numbers are those of
\* the reasons in front of a play's, which research.py:372 adds after the checks.
DossierTraced ==
    \A d \in dossiers :
        LET cited == [n \in DOMAIN d.claims |-> claims[d.claims[n]].draft] IN
        /\ ReasonsOfPlay(d)
        /\ \A n \in DOMAIN d.text :
              /\ d.text[n].digits \subseteq DigitsOf(cited)
              /\ \E s \in Range(d.draft.text) :
                    /\ s.digits = d.text[n].digits
                    /\ \A r \in d.text[n].refs :
                          IF r \in DOMAIN cited
                          THEN \E o \in s.refs : d.draft.claims[o] = cited[r]
                          ELSE r \in s.refs /\ r \notin DOMAIN d.draft.claims

NextRun(d) ==
    LET later == {e \in checked : e > d} IN CHOOSE e \in later : \A f \in later : e <= f

Retried(v, e) == \E n \in DOMAIN verified : verified[n].claim = v.claim /\ verified[n].day = e

\* factcheck.py:333: a claim whose check failed is checked again by the next run,
\* when that is soon enough and has room.
RetriedInWindow ==
    \A n \in DOMAIN verified :
        LET v == verified[n] IN
        ~v.ok /\ (\E e \in checked : e > v.day) =>
            LET e == NextRun(v.day) IN
            \/ e - claims[v.claim].day >= Window
            \/ Cardinality({m \in DOMAIN verified : verified[m].day = e}) >= MaxClaims
            \/ Retried(v, e)
=============================================================================
