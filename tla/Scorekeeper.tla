----------------------------- MODULE Scorekeeper -----------------------------
(***************************************************************************)
(* The scorekeeper, src/desk/scoring/run.py: two transactions, the first   *)
(* turns fills into versions of positions, the second scores ideas at      *)
(* their horizons and positions at their exit.  The post-market shift runs *)
(* it every day and `python -m desk.scoring run` at any time; nothing      *)
(* keeps the two apart, nor apart from Jon, who confirms links from the    *)
(* dashboard or the terminal.  One account trades one contract, whose      *)
(* underlying all ideas are about; a day is a trading day.                 *)
(***************************************************************************)
EXTENDS Scoring, Ascending, Bags

CONSTANTS
    Artifacts,      \* what a desk or Jon can append
    Kind,           \* [Artifacts -> {"thesis", "view", "rating", "plan"}]: a verdict is a "view"
    Of,             \* [Artifacts -> Artifacts]: the previous version, or the thesis of a view or plan
    Drafts,         \* theses in state draft
    Pathless,       \* theses without an outcome: relative, or without an invalidation
    AfterClose,     \* ideas made after the close of their day
    Exact, Vetoed,  \* plans on the contract itself, and plans risk turned down
    Terms,          \* [Artifacts -> [sign, entry, stop, target]], entry and target of plans only
    Bar,            \* [days -> [day, low, high, close]]: what the market does
    Date,           \* [days -> Nat]: the date of a trading day
    None,
    Horizons,       \* HORIZONS, in trading days
    LinkWindow,     \* AUTO_LINK_WINDOW, in trading days
    Executions,     \* sequence of [side, quantity, days]: orders, and the days that can fill them
    \* Bounds of the model, which the code does not have:
    LastDay,
    MaxAside        \* links, commands and failed runs

\* A version comes after the one before it, and a view is on a thesis.
ASSUME ArtifactAssumption ==
    /\ None \notin Artifacts /\ Of \in [Artifacts -> Artifacts \cup {None}]
    /\ \A s \in (SUBSET Artifacts) \ {{}} : \E i \in s : Of[i] \notin s
    /\ \A i \in Artifacts :
          /\ Kind[i] = "thesis" /\ Of[i] # None => Kind[Of[i]] = "thesis"
          /\ Kind[i] = "view" => Of[i] # None
ASSUME MarketAssumption ==
    /\ \A d \in 0 .. LastDay :
          /\ Bar[d].day = d /\ {Bar[d].low, Bar[d].close, Bar[d].high} \subseteq Int
          /\ Bar[d].low <= Bar[d].close /\ Bar[d].close <= Bar[d].high
    /\ Terms \in [Artifacts -> [sign : {1, -1}, entry : Int, stop : Int, target : Int]]
    /\ Horizons \subseteq Nat \ {0} /\ LastDay \in Nat

Scorers == {"shift", "command"}

VARIABLES
    date,           \* today, a trading day
    bars,           \* the last day whose daily bar is stored, day 0 being the first
    ideas,          \* artifacts in the order they were appended: [idea, entry], the day
                    \* of the last close known then
    fills,          \* executions in order, with the approved plan that may have led to it
    versions,       \* position artifacts in the order they were appended
    scores,         \* bag of <<subject, horizon>>; <<version, 0>> at exit
    results,        \* what those of ideas say: [idea, horizon, is], ...
    exits,          \* ... and those of positions: [version, honored]
    run,            \* [Scorers -> where its run is]
    pending,        \* [Scorers -> what its transaction has yet to commit]
    links,          \* links Jon wrote
    commands,       \* runs from the terminal
    crossed,        \* history: a command ran while the shift's run did
    faults

scoringVars ==
    <<date, bars, ideas, fills, versions, scores, results, exits, run, pending, links,
      commands, crossed, faults>>
tables == <<versions, scores, results, exits>>
world == <<date, bars, ideas, fills>>
aside == <<links, commands, faults>>

-----------------------------------------------------------------------------
(* Shadow scores.                                                          *)

Stored == {ideas[n].idea : n \in DOMAIN ideas}
IdeaRow(i) == ideas[CHOOSE n \in DOMAIN ideas : ideas[n].idea = i]

\* thesis_roots: the first version of the chain that is no draft.
RootOf[i \in Artifacts] ==
    LET first == IF Of[i] = None THEN None ELSE RootOf[Of[i]] IN
    IF first # None THEN first ELSE IF i \in Drafts THEN None ELSE i

\* Whose path an idea is measured on, and under whose id it is scored.
Basis(i) == CASE Kind[i] = "thesis" -> RootOf[i]
              [] Kind[i] = "view" -> RootOf[Of[i]]
              [] OTHER -> i

\* Mutation: every version of a thesis is scored as its own.
SubjectOfItsOwn(i) == i

Subject(i) == IF Kind[i] = "thesis" THEN RootOf[i] ELSE i

\* Bars.entry and score_path: the horizon is over when that many bars follow
\* the last close known at the start.
HasPath(i, h) == bars - IdeaRow(i).entry >= h

Ready(i, h) == Basis(i) # None /\ Basis(i) \notin Pathless /\ HasPath(Basis(i), h)

DueNow ==
    {<<Subject(k[1]), k[2]>> : k \in {j \in Stored \X Horizons : Ready(j[1], j[2])}}

\* The path of an idea, and what it is measured by: a plan has an entry of its own,
\* the others the last close known at the start; theses have no target, ratings are long.
PathOf(i) == [n \in 1 .. bars - IdeaRow(i).entry |-> Bar[IdeaRow(i).entry + n]]

TermsOf(i) ==
    IF Kind[i] = "plan" THEN Terms[i]
    ELSE [Terms[i] EXCEPT !.entry = Bar[IdeaRow(i).entry].close, !.target = 0]

Outcome(i, h) == ScorePath(PathOf(Basis(i)), h, TermsOf(Basis(i)))

Fresh(keys) == keys \ BagToSet(scores)

-----------------------------------------------------------------------------
(* Positions.                                                              *)

\* latest_positions: the last version of each opening, 0 if there is none.
Latest(opened) ==
    LET of == {n \in DOMAIN versions : versions[n].opened = opened} IN
    IF of = {} THEN 0 ELSE Highest(of)

Linked(plan, thesis, status) == [plan |-> plan, thesis |-> thesis, status |-> status]

\* link_for: the newest approved plan made not long before the first fill, which
\* no later artifact changes; else any thesis on the symbol, the oldest first.
MadeOn(n) == IF ideas[n].idea \in AfterClose THEN ideas[n].entry ELSE ideas[n].entry + 1

RecentPlan ==
    LET plans == {n \in DOMAIN ideas : /\ Kind[ideas[n].idea] = "plan"
                                       /\ ideas[n].idea \notin Vetoed
                                       /\ date - MadeOn(n) <= LinkWindow}
    IN  IF plans = {} THEN None ELSE ideas[Highest(plans)].idea

LinkFor(trip) ==
    LET plan == fills[trip.opened].plan
        theses == {n \in DOMAIN ideas : Kind[ideas[n].idea] = "thesis" /\ ideas[n].idea \notin Drafts}
    IN  IF plan # None
        THEN Linked(plan, Of[plan], IF plan \in Exact THEN "auto" ELSE "suggested")
        ELSE IF theses # {} THEN Linked(None, ideas[Lowest(theses)].idea, "suggested")
        ELSE Linked(None, None, "none")

\* Mutation: only an automatic link is kept.
LinkOrSuggest(trip, old) ==
    IF old # 0 /\ versions[old].link.status = "auto" THEN versions[old].link ELSE LinkFor(trip)

\* Links that are settled stay; the others are worked out anew.
LinkOf(trip, old) ==
    IF old # 0 /\ versions[old].link.status \in {"confirmed", "auto"}
    THEN versions[old].link ELSE LinkFor(trip)

Version(trip, old) ==
    [opened |-> trip.opened, fills |-> {f.at : f \in trip.fills}, closed |-> trip.quantity = 0,
     link |-> LinkOf(trip, old), from |-> old, by |-> "run", read |-> Len(versions)]

\* Mutation: a version whose link is the same is not written again.
SameLink(v) == v.from # 0 /\ versions[v.from].link = v.link

Unchanged(v) ==
    v.from # 0 /\ versions[v.from].fills = v.fills /\ versions[v.from].link = v.link

\* build_position_versions.
NewVersions ==
    LET trips == Trips(fills)
        Now(trip) == Version(trip, Latest(trip.opened))
        \* There are no more trips than fills.
        new == {n \in DOMAIN fills : n \in DOMAIN trips /\ ~Unchanged(Now(trips[n]))}
    IN  [k \in 1 .. Cardinality(new) |-> Now(trips[Ascending(new)[k]])]

\* exit_scores: the latest version of each position that is closed.
ExitsNow == {<<n, 0>> : n \in {m \in DOMAIN versions : /\ m = Latest(versions[m].opened)
                                                       /\ versions[m].closed}}

\* Whether the stop of its plan or else of its thesis was honored, by the bars that are
\* stored of the days it was open.  A stop of 0 is none.
Days(v) == fills[v.opened].on .. fills[Highest(v.fills)].on

HeldBars(ds) ==
    LET dates == {Date[d] : d \in ds} IN
    [t \in dates |-> Bar[CHOOSE d \in ds : Date[d] = t]]

StopOf(link) ==
    LET of == IF link.plan # None THEN link.plan ELSE link.thesis IN
    IF of = None THEN 0 ELSE Terms[of].stop

Honored(v) ==
    StopHonored(HeldBars({d \in Days(v) : d <= bars}),
                [sign |-> fills[v.opened].side, stop |-> StopOf(v.link)],
                Date[fills[Highest(v.fills)].on])

OfIdeas(keys) ==
    {[idea |-> k[1], horizon |-> k[2], is |-> Outcome(k[1], k[2])] : k \in keys}

OfExits(keys) == {[version |-> k[1], honored |-> Honored(versions[k[1]])] : k \in keys}

-----------------------------------------------------------------------------
(* A run, in a thread of the worker or a process of its own.               *)

Nothing == [versions |-> <<>>, scores |-> {}, results |-> {}, exits |-> {}]

ScoringInit ==
    /\ date = 1 /\ bars = 0 /\ ideas = <<>> /\ fills = <<>>
    /\ versions = <<>> /\ scores = EmptyBag /\ results = {} /\ exits = {}
    /\ run = [s \in Scorers |-> "idle"] /\ pending = [s \in Scorers |-> Nothing]
    /\ links = 0 /\ commands = 0 /\ crossed = FALSE /\ faults = 0

Goes(s, to, what) ==
    /\ run' = [run EXCEPT ![s] = to]
    /\ pending' = [pending EXCEPT ![s] = what]

BuildPositions(s) ==
    /\ run[s] = "idle"
    /\ s = "command" => links + commands + faults < MaxAside
    /\ commands' = IF s = "command" THEN commands + 1 ELSE commands
    /\ crossed' = (crossed \/ \E o \in Scorers \ {s} : run[o] # "idle")
    /\ Goes(s, "built", [Nothing EXCEPT !.versions = NewVersions])
    /\ UNCHANGED <<world, tables, links, faults>>

SavePositions(s) ==
    /\ run[s] = "built"
    /\ versions' = versions \o pending[s].versions
    /\ Goes(s, "saved", Nothing)
    /\ UNCHANGED <<world, scores, results, exits, crossed, aside>>

Score(s) ==
    /\ run[s] = "saved"
    /\ Goes(s, "scored", [Nothing EXCEPT !.scores = Fresh(DueNow) \cup Fresh(ExitsNow),
                                         !.results = OfIdeas(Fresh(DueNow)),
                                         !.exits = OfExits(Fresh(ExitsNow))])
    /\ UNCHANGED <<world, tables, crossed, aside>>

SaveScores(s) ==
    /\ run[s] = "scored"
    /\ scores' = scores (+) SetToBag(pending[s].scores)
    /\ results' = results \cup pending[s].results /\ exits' = exits \cup pending[s].exits
    /\ Goes(s, "idle", Nothing)
    /\ UNCHANGED <<world, versions, crossed, aside>>

\* An exception or a stop of the process: the open transaction rolls back.
Fail(s) ==
    /\ run[s] # "idle" /\ links + commands + faults < MaxAside /\ faults' = faults + 1
    /\ Goes(s, "idle", Nothing)
    /\ UNCHANGED <<world, tables, crossed, links, commands>>

\* relink: a copy of any version, the latest or one the page showed before, with
\* the plan or thesis Jon names, or with none.
Link(n, target) ==
    /\ links + commands + faults < MaxAside /\ links' = links + 1
    /\ LET isPlan == target # None /\ Kind[target] = "plan"
           link == Linked(IF isPlan THEN target ELSE None, IF isPlan THEN Of[target] ELSE target,
                          IF target = None THEN "none" ELSE "confirmed")
       IN  versions' = Append(versions, [versions[n] EXCEPT !.link = link, !.from = n, !.by = "Jon"])
    /\ UNCHANGED <<world, scores, results, exits, run, pending, crossed, commands, faults>>

-----------------------------------------------------------------------------
(* What the other parts store.                                             *)

\* An idea is measured from today's close when it comes after it.
Write(i) ==
    /\ i \notin Stored
    /\ Of[i] # None => Of[i] \in Stored
    /\ ideas' = Append(ideas, [idea |-> i, entry |-> IF i \in AfterClose THEN date ELSE date - 1])
    /\ UNCHANGED <<date, bars, fills, tables, run, pending, crossed, aside>>

Execute ==
    /\ Len(fills) < Len(Executions)
    /\ LET next == Executions[Len(fills) + 1]
       IN  /\ date \in next.days
           /\ fills' = Append(fills, [at |-> Len(fills) + 1, on |-> date, side |-> next.side,
              quantity |-> next.quantity, price |-> 1, fee |-> 0, plan |-> RecentPlan])
    /\ UNCHANGED <<date, bars, ideas, tables, run, pending, crossed, aside>>

\* Yahoo's bar of a day is stored once that day is over.
StoreBar ==
    /\ bars < date - 1 /\ bars' = bars + 1
    /\ UNCHANGED <<date, ideas, fills, tables, run, pending, crossed, aside>>

DayEnds ==
    /\ date < LastDay /\ date' = date + 1
    /\ UNCHANGED <<bars, ideas, fills, tables, run, pending, crossed, aside>>

Run(s) == BuildPositions(s) \/ SavePositions(s) \/ Score(s) \/ SaveScores(s)

ScoringNext ==
    \/ \E s \in Scorers : Run(s) \/ Fail(s)
    \/ \E n \in DOMAIN versions :
          \E target \in {i \in Stored : Kind[i] \in {"plan", "thesis"}} \cup {None} : Link(n, target)
    \/ \E i \in Artifacts : Write(i)
    \/ Execute
    \/ StoreBar
    \/ DayEnds

\* Days go by, and the shift's run begins again and again and never hangs.  Its
\* steps are always possible, so that this is weak fairness of Run("shift"),
\* said of where it is.
Fairness ==
    /\ WF_scoringVars(DayEnds)
    /\ []<>(run["shift"] = "idle") /\ []<>(run["shift"] # "idle")

ScoringSpec == ScoringInit /\ [][ScoringNext]_scoringVars /\ Fairness

-----------------------------------------------------------------------------
(* Properties.                                                             *)

\* Each chain of theses, view, rating and plan has one score per horizon, and
\* each version of a position one exit score, however often scoring runs, fails
\* or finds a new version.  A run from the terminal can repeat them only when
\* it ran while the shift's did; all scores of a subject say the same, and of the
\* days of the horizon only, however late they are made.
ShadowOnce ==
    /\ \A k \in BagToSet(scores) : scores[k] <= 1 + IF crossed THEN commands ELSE 0
    /\ \A k, l \in BagToSet(scores) :
          /\ k[2] # 0 /\ k[2] = l[2]
          /\ Kind[k[1]] = "thesis" /\ Kind[l[1]] = "thesis" /\ RootOf[k[1]] = RootOf[l[1]]
          => k = l
    /\ \A r \in results :
          /\ \A q \in results : q.idea = r.idea /\ q.horizon = r.horizon => q = r
          /\ r.is.last = IdeaRow(Basis(r.idea)).entry + r.horizon
          /\ r.is.mae <= r.is.return /\ r.is.return <= r.is.mfe

\* A link Jon confirmed stays on every later version of the position, unless a
\* run that had read the versions before stored its own after it.
LinkKept ==
    \A m \in DOMAIN versions : versions[m].by = "run" =>
       LET jons == {n \in 1 .. m : versions[n].opened = versions[m].opened /\ versions[n].by = "Jon"} IN
       jons # {} /\ versions[Highest(jons)].link.status = "confirmed" =>
          LET n == Highest(jons) IN
          \/ versions[m].link = versions[n].link
          \/ \E k \in n .. m : versions[k].by = "run" /\ versions[k].read < n

ClosedTrips == {t \in {Trips(fills)[k] : k \in DOMAIN Trips(fills)} : t.quantity = 0}

ExitScored(trip) ==
    \E k \in BagToSet(scores) :
        /\ k[2] = 0 /\ versions[k[1]].opened = trip.opened
        /\ versions[k[1]].fills = {f.at : f \in trip.fills}

\* Once the market, the desks and Jon rest, every idea whose horizon is over and
\* every round trip that returned to flat is scored, with all its fills, although
\* Jon linked a version that was no longer the latest, or a run failed.
AllScored == <>[](DueNow \subseteq BagToSet(scores) /\ \A t \in ClosedTrips : ExitScored(t))

\* src/desk/scoring/shadow.py:126: "A stop or an invalidation is honored when the
\* position was closed by the next session."
HonoredInTime ==
    \A r \in exits :
        LET v == versions[r.version]
            plan == [sign |-> fills[v.opened].side, stop |-> StopOf(v.link)]
            breached == {d \in Days(v) : Stopped(Bar[d], plan)}
        IN  breached = {} \/ fills[Highest(v.fills)].on <= Lowest(breached) + 1 => r.honored
=============================================================================
