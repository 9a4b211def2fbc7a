---------------------------- MODULE AnalystDesk ----------------------------
(***************************************************************************)
(* The pre-market shift: src/desk/desks/analyst/run.py rates every holding *)
(* (src/desk/desks/holdings) and then argues the theses that are due       *)
(* (src/desk/desks/analyst/debate.py), until a deadline before the         *)
(* briefing.  What it reads at its start it uses until its end.            *)
(*                                                                         *)
(* A fund, its option and the share of an account are rows of a snapshot;  *)
(* the texts of the models, the facts and the citations are left out, the  *)
(* replies are nondeterministic.  ThesisBook says which versions of theses *)
(* there can be; here a chain is the sequence of its versions.             *)
(***************************************************************************)
EXTENDS Ascending, FiniteSetsExt, SequencesExt

CONSTANTS
    None,
    Accounts,
    Order,          \* the symbols in the order of their names
    Funds,          \* leverage_by_fund: those with a daily reset
    Portfolios,     \* sets of rows that an account may report
    WarnShare, TrimShare, WarnDays, TrimDays, ExpiryWarn, ExpirySell,  \* holdings.yaml
    Chains,         \* theses
    Jons,           \* those of Jon's
    RedebateDays,   \* REDEBATE_AFTER
    \* Bounds of the model:
    LastDay, MaxTheses, MaxVersions

\* config/holdings.yaml warns before it forces, which its loader does not check.
ASSUME ThresholdAssumption ==
    /\ {WarnShare, TrimShare, WarnDays, TrimDays, ExpiryWarn, ExpirySell, RedebateDays} \subseteq Int
    /\ WarnShare <= TrimShare /\ WarnDays <= TrimDays /\ ExpirySell <= ExpiryWarn
ASSUME PortfolioAssumption ==
    /\ IsFiniteSet(Accounts) /\ Order \in Seq(ToSet(Order))
    /\ \A p \in Portfolios : IsFiniteSet(p)
    /\ \A p \in Portfolios : \A r \in p : r.share \in Int /\ r.expiry \in Int \cup {None}

Listed == ToSet(Order)

Severity == [buy_add |-> 0, hold |-> 1, trim |-> 2, sell |-> 3]

Ratings == DOMAIN Severity

ASSUME NoneAssumption == None \notin Int \cup Ratings

Verdicts == {"pursue", "watch", "reject"}

VARIABLES
    day,
    snapshot,   \* the latest snapshot of each account
    first,      \* day of the first snapshot ever that shows a symbol, or None
    judged,     \* rating of the latest ok rating of a symbol, or None
    rated,      \* the latest rating of a symbol, of any status
    thesis,     \* the versions of each chain
    zone,       \* chains whose price is in their warning zone
    verdicts,   \* the ok verdicts on each chain
    part,       \* "idle", "ratings" or "debates"
    begun,      \* day of the last shift
    left,       \* holdings as read that are still to be rated, in their order
    due,        \* debates that are due as read
    since       \* history: day since when a symbol has been held, or None

holdings == <<snapshot, first, since>>
shift == <<part, begun, left, due>>
analystVars == <<day, holdings, judged, rated, thesis, zone, verdicts, shift>>

AnalystInit ==
    /\ day = 0
    /\ snapshot = [a \in Accounts |-> {}]
    /\ first = [s \in Listed |-> None] /\ since = first
    /\ judged = [s \in Listed |-> None] /\ rated = judged
    /\ thesis = [c \in Chains |-> <<>>] /\ zone = {} /\ verdicts = thesis
    /\ part = "idle" /\ begun = -1 /\ left = <<>> /\ due = {}

-----------------------------------------------------------------------------
(* Holdings and their flags *)

\* latest_snapshots: an account whose feed has stopped is held as it was last seen.
RowsOf(snaps, s) == {r \in UNION {snaps[a] : a \in Accounts} : r.symbol = s}

Held(snaps) == {s \in Listed : RowsOf(snaps, s) # {}}

Holding(s) == [symbol |-> s, rows |-> RowsOf(snapshot, s), first |-> first[s], since |-> since[s]]

\* load_holdings, in the order of the symbols.
Holdings ==
    LET held == Ascending({i \in DOMAIN Order : Order[i] \in Held(snapshot)})
    IN  [k \in DOMAIN held |-> Holding(Order[held[k]])]

Flag(code, warns, forces, rating) ==
    IF warns THEN {[code |-> code, forces |-> IF forces THEN rating ELSE None]} ELSE {}

\* The largest share of any row in its account.
Share(rows) == Max({r.share : r \in rows})

\* load_holdings: the expiries of the options among the rows.
Expiries(rows) == {r.expiry : r \in {q \in rows : q.expiry # None}}

\* Mutation: the last of the sorted expiries.
LastExpiry(rows) == {Max(Expiries(rows)) : e \in Expiries(rows)}

\* The first of the sorted expiries, if there is an option.
Expiry(rows) == {Min(Expiries(rows)) : e \in Expiries(rows)}

\* risk_flags
RiskFlags(h) ==
    Flag("concentration", Share(h.rows) >= WarnShare, Share(h.rows) >= TrimShare, "trim")
    \cup (IF h.symbol \notin Funds THEN {} ELSE
          Flag("levered_days", day - h.first >= WarnDays, day - h.first >= TrimDays, "trim"))
    \cup UNION {Flag("option_expiry", e - day <= ExpiryWarn, e - day <= ExpirySell, "sell") :
                   e \in Expiry(h.rows)}

Forced(flags) == {f.forces : f \in flags} \ {None}

\* apply_flags: the most severe of the forced ratings, unless the judge's is as severe.
ApplyFlags(rating, flags) ==
    CHOOSE r \in Forced(flags) \cup {rating} :
        \A q \in Forced(flags) \cup {rating} : Severity[q] <= Severity[r]

\* HoldingRating refuses a rating that is milder than a flag.
Consistent(rating, flags) == \A r \in Forced(flags) : Severity[rating] >= Severity[r]

\* An account reports its positions; those of quantity 0 do not count.
Report(a) ==
    /\ \E p \in Portfolios : snapshot' = [snapshot EXCEPT ![a] = p]
    /\ first' = [s \in Listed |-> IF first[s] = None /\ s \in Held(snapshot') THEN day ELSE first[s]]
    /\ since' = [s \in Listed |-> IF s \notin Held(snapshot') THEN None
                                   ELSE IF since[s] = None THEN day ELSE since[s]]
    /\ UNCHANGED <<day, judged, rated, thesis, zone, verdicts, shift>>

-----------------------------------------------------------------------------
(* Theses and which of them are due *)

Version(note, state, evidence) == [note |-> note, state |-> state, evidence |-> evidence]

AppendVersion(c, version) ==
    /\ Len(thesis[c]) < MaxVersions
    /\ thesis' = [thesis EXCEPT ![c] = Append(@, version)]

State(c) == IF thesis[c] = <<>> THEN "none" ELSE Last(thesis[c]).state

Stands(c) == State(c) = "active"

\* The writer's and Jon's theses: Jon confirms a draft, which has no evidence.
WriteThesis(c) ==
    /\ IF c \in Jons THEN State(c) # "active" ELSE State(c) = "none" /\ part = "idle"
    /\ Cardinality({e \in Chains \ {c} : thesis[e] # <<>>}) < MaxTheses
    /\ AppendVersion(c, Version("new", "active", c \notin Jons))
    /\ UNCHANGED <<day, holdings, judged, rated, zone, verdicts, shift>>

\* Jon answers a version of his with another idea of it.
Redraft(c) ==
    /\ c \in Jons /\ Stands(c) /\ AppendVersion(c, Version("draft", "draft", FALSE))
    /\ UNCHANGED <<day, holdings, judged, rated, zone, verdicts, shift>>

\* attach_evidence
AttachEvidence(c) ==
    /\ part = "idle" /\ c \in Jons /\ Stands(c) /\ AppendVersion(c, Version("evidence", "active", TRUE))
    /\ UNCHANGED <<day, holdings, judged, rated, zone, verdicts, shift>>

\* The price enters or leaves the warning zone.
MovePrice(c) ==
    /\ part = "idle" /\ Stands(c) /\ zone' = SymDiff(zone, {c})
    /\ UNCHANGED <<day, holdings, judged, rated, thesis, verdicts, shift>>

\* Mutation: the verdict on this version.
OwnVerdict(c) == {v \in ToSet(verdicts[c]) : v.version = Len(thesis[c])}

\* The latest verdict on the newest version of the chain that has one.
Debated(c) ==
    {v \in ToSet(verdicts[c]) :
        \A w \in ToSet(verdicts[c]) : w.version < v.version \/ (w.version = v.version /\ w.day <= v.day)}

\* A verdict is as old as its debate: on the day the period ends it depends on the hour.
Elapsed(v, late) == day - v.day > RedebateDays \/ (late /\ day - v.day = RedebateDays)

\* Mutation: what the judge rejected comes up again.
WeeklyAll(c, v, late) == Elapsed(v, late)

Weekly(c, v, late) == Elapsed(v, late) /\ (c \in Jons \/ v.verdict # "reject")

\* Why a thesis is due, as a priority: new (Jon's first), in its warning zone and not
\* argued today, with new evidence, or weekly.
Reason(c, late) ==
    IF Debated(c) = {} THEN IF c \in Jons THEN 0 ELSE 1
    ELSE LET v == CHOOSE w \in Debated(c) : TRUE
         IN  IF c \in zone /\ day > v.day THEN 2
             ELSE IF v.version # Len(thesis[c]) /\ Last(thesis[c]).note = "evidence" THEN 3
             ELSE IF Weekly(c, v, late) THEN 4 ELSE None

\* due_debates
DueDebates(late) ==
    {[chain |-> c, version |-> Len(thesis[c]), priority |-> Reason(c, late), zone |-> c \in zone] :
        c \in {d \in Chains : Stands(d) /\ Last(thesis[d]).evidence /\ Reason(d, late) # None}}

-----------------------------------------------------------------------------
(* The shift: run_analyst_desks *)

Begin ==
    /\ part = "idle" /\ begun < day /\ part' = "ratings" /\ begun' = day
    /\ left' = Holdings /\ \E late \in BOOLEAN : due' = DueDebates(late)
    /\ UNCHANGED <<day, holdings, judged, rated, thesis, zone, verdicts>>

\* What stands when a rating fails: that of the latest ok rating.
Previous(s) == IF judged[s] # None THEN judged[s] ELSE "hold"

\* The rating that is stored for the judge's reply, or for none.
Rating(h, reply) == ApplyFlags(IF reply # None THEN reply ELSE Previous(h.symbol), RiskFlags(h))

\* rate_holding: the keeper, the bear and the judge answer, or one of them fails.
RateHolding ==
    /\ part = "ratings" /\ left # <<>> /\ left' = Tail(left)
    /\ LET h == Head(left) IN
       \E reply \in Ratings \cup {None} :
          /\ Consistent(Rating(h, reply), RiskFlags(h))
          /\ rated' = [rated EXCEPT ![h.symbol] =
                         [holding |-> h, day |-> day, rating |-> Rating(h, reply)]]
          /\ judged' = IF reply = None THEN judged
                       ELSE [judged EXCEPT ![h.symbol] = Rating(h, reply)]
    /\ UNCHANGED <<day, holdings, thesis, zone, verdicts, part, begun, due>>

EndRatings ==
    /\ part = "ratings" /\ left = <<>> /\ part' = "debates"
    /\ UNCHANGED <<day, holdings, judged, rated, thesis, zone, verdicts, begun, left, due>>

\* The verdict, and with another conviction a version of a thesis of the desk's.
Judge(d, verdict) ==
    /\ verdicts' = [verdicts EXCEPT ![d.chain] = Append(@,
           [version |-> d.version, day |-> day, verdict |-> verdict, zone |-> d.zone])]
    /\ \/ UNCHANGED thesis
       \/ d.chain \notin Jons /\ AppendVersion(d.chain, Version("judge", "active", TRUE))

\* debate_thesis: bull, bear, rebuttal and judge answer, or one of them fails.
DebateThesis ==
    /\ part = "debates"
    /\ \E d \in due :
          /\ \A e \in due : d.priority <= e.priority
          /\ due' = due \ {d}
          /\ UNCHANGED <<thesis, verdicts>> \/ \E v \in Verdicts : Judge(d, v)
    /\ UNCHANGED <<day, holdings, judged, rated, zone, part, begun, left>>

\* All is done, or the deadline, a timeout, an error or a crash ends the shift.
End ==
    /\ part # "idle" /\ part' = "idle" /\ left' = <<>> /\ due' = {}
    /\ UNCHANGED <<day, holdings, judged, rated, thesis, zone, verdicts, begun>>

NextDay ==
    /\ day < LastDay /\ part = "idle" /\ day' = day + 1
    /\ UNCHANGED <<holdings, judged, rated, thesis, zone, verdicts, shift>>

AnalystNext ==
    \/ \E a \in Accounts : Report(a)
    \/ \E c \in Chains : WriteThesis(c) \/ Redraft(c) \/ AttachEvidence(c) \/ MovePrice(c)
    \/ Begin \/ RateHolding \/ EndRatings \/ DebateThesis \/ End \/ NextDay

AnalystSpec == AnalystInit /\ [][AnalystNext]_analystVars

-----------------------------------------------------------------------------
(* Properties *)

\* No rating, whether the judge gave it or it stands for one that failed, is milder than
\* the holding as it was read demands: sell before an option expires, trim what is too
\* large a part of an account or a daily-reset fund held too long.
NeverMilder ==
    \A s \in Listed : rated[s] # None =>
        LET h == rated[s].holding
        IN  /\ (\E r \in h.rows : r.expiry # None /\ r.expiry - rated[s].day <= ExpirySell)
               => rated[s].rating = "sell"
            /\ (\E r \in h.rows : r.share >= TrimShare)
                   \/ (s \in Funds /\ rated[s].day - h.since >= TrimDays)
               => rated[s].rating \in {"trim", "sell"}

\* A thesis is argued again within the period, or at all when it is the desk's and the
\* last verdict was to reject it, only with a cause: its price is in the warning zone,
\* or evidence came after the version that was argued.
ArguedForCause ==
    \A c \in Chains : \A i \in 2 .. Len(verdicts[c]) :
        LET v == verdicts[c][i - 1]
            w == verdicts[c][i]
        IN  ~w.zone
            /\ ~(\E n \in v.version + 1 .. w.version : thesis[c][n].note = "evidence")
            => w.day - v.day >= RedebateDays /\ (c \in Jons \/ v.verdict # "reject")
=============================================================================
