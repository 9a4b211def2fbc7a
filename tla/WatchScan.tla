------------------------------ MODULE WatchScan ------------------------------
(***************************************************************************)
(* The scans of the watch desk: src/desk/watch/scan.py, the rules of       *)
(* watch/rules.py and Scanner.run of watch/scheduler.py.  A scan is one    *)
(* transaction in a thread of a worker: it loads the tiers, finds its hits *)
(* and emits them one by one, reading what is committed and what it wrote  *)
(* itself.  Nothing keeps two scans apart: both workers take scan jobs,    *)
(* and the thread of a job that timed out runs on.                         *)
(***************************************************************************)
EXTENDS MarketCalendar

CONSTANTS
    Held, Tier1, Universe, Macro,   \* sets of symbols: holdings and configured tiers
    Markets,        \* [Symbols -> set]: what its stored bars, quotes and series can say
    Return,         \* [Symbols -> Int]: N-day returns, all different
    Records,        \* filings, calendar entries and posts a collector can store
    Threads,        \* scans that can run at once
    QuoteMaxAge, NewsLookback, EarningsLookback, Form4Lookback,
    Cooldown, NewsCooldown,
    AtrMultiple,    \* [0 .. 2 -> Nat]: the threshold of a move, by tier
    GapMultiple, GapWindow, RangeBound, PaceMultiple, PaceMinutes,
    RankCount,      \* relative strength: symbols in each slice
    RankLeast,      \* and returns it needs at least
    CloseAfter,     \* close_after_minutes
    Form4Cluster, EarningsAhead,
    EventRules,     \* event_additions.rules
    MaxPerDay, PromotionDays,
    \* Bounds of the model, which the code does not have:
    Horizon,        \* the clock stops here
    MaxScans,       \* scans that start
    MaxMoves,       \* changes of the market
    StoreDelay,     \* from created_at of a record to its commit
    QueueDelay      \* from the planner's tick to the start of the scan

ASSUME LimitAssumption ==
    /\ Cooldown \in Nat /\ NewsCooldown \in Nat /\ MaxPerDay \in Nat
    /\ NewsLookback \in Nat /\ StoreDelay \in Nat
\* A filing is stored once: its content_hash, which is unique, is its accession number.
ASSUME RecordAssumption ==
    \A r, q \in Records : r.kind = "filing" /\ q.kind = "filing"
                          /\ r.symbol = q.symbol /\ r.id = q.id => r = q

Symbols == Held \cup Tier1 \cup Universe \cup Macro
Scans == 1 .. MaxScans

VARIABLES
    now,
    market,         \* what is stored of each symbol, the last quote at quoted
    moves,          \* changes of the market so far
    stored,         \* raw records: [record, at], at being created_at
    triggers,       \* committed triggers: [hit, tier, at, by, began], where by is
                    \* the scan and began its start (history)
    promotions,     \* tier_promotions: [symbol, trigger, at, by, expires]
    scan,           \* [Scans -> row]: what each scan does
    over,           \* history: pairs of scans that ran at the same time
    read            \* history: filings that were hits of scans that committed

vars == <<now, market, moves, stored, triggers, promotions, scan, over, read>>
tables == <<triggers, promotions, read>>

-----------------------------------------------------------------------------
(* Tiers.                                                                  *)

\* load_tier_map: the symbols that are in Tier 1 for a while.
Promoted(day) == {p.symbol : p \in {q \in promotions : q.expires >= day}}

\* TierMap.tier, 9 for None.
Tier(symbol, promoted) ==
    IF symbol \in Held THEN 0
    ELSE IF symbol \in Tier1 \cup promoted THEN 1
    ELSE IF symbol \in Universe THEN 2
    ELSE IF symbol \in Macro THEN 3 ELSE 9

\* TierMap.symbols
SymbolsOf(tiers, promoted) == {s \in Symbols \ Macro : Tier(s, promoted) \in tiers}
                              \cup {s \in Macro : Tier(s, promoted) \in tiers \cap {0, 1}}

-----------------------------------------------------------------------------
(* Rules.  A hit is its fingerprint: rule, subject, what of, which side.   *)

Hit(rule, subject, of, side) == <<rule, subject, of, side>>
RuleOf(hit) == hit[1]
Subject(hit) == hit[2]
Side(x) == IF x > 0 THEN "up" ELSE "down"
Size(x) == IF x < 0 THEN -x ELSE x

\* load_features: a quote counts while it is young.  A spread too wide for a price
\* is no quote at all.
Fresh(m, t) == t - m.quoted <= QuoteMaxAge

\* minutes_since_open: known from the open on, never more than the session.
SinceOpen(t) == IF t < CloseOf(Day(t)) THEN t - OpenOf(Day(t)) ELSE CloseOf(Day(t)) - OpenOf(Day(t))
Opened(t) == IsTradingDay(Day(t)) /\ OpenOf(Day(t)) <= t

Threshold(tier) == AtrMultiple[IF tier \in DOMAIN AtrMultiple THEN tier ELSE 2]

RuleMove(s, m, tier, t) ==
    IF Fresh(m, t) /\ Size(m.last) >= Threshold(tier)
    THEN {Hit("move", s, Day(t), Side(m.last))} ELSE {}

RuleRange(s, m, t) ==
    IF Fresh(m, t) /\ Size(m.last) > RangeBound
    THEN {Hit("range", s, Day(t), Side(m.last))} ELSE {}

RuleGap(s, m, t) ==
    IF Opened(t) /\ SinceOpen(t) <= GapWindow /\ Size(m.gap) >= GapMultiple
    THEN {Hit("gap", s, Day(t), "")} ELSE {}

RuleVolume(s, m, t) ==
    IF Opened(t) /\ SinceOpen(t) >= PaceMinutes /\ m.pace >= PaceMultiple
    THEN {Hit("volume", s, Day(t), "")} ELSE {}

\* intraday_hits: outside the session only the rules that need no volume.
IntradayHits(symbols, promoted, t) ==
    UNION {LET m == market[s] IN
           RuleMove(s, m, Tier(s, promoted), t) \cup RuleRange(s, m, t)
           \cup (IF Phase(t) = "regular" THEN RuleGap(s, m, t) \cup RuleVolume(s, m, t) ELSE {})
           : s \in symbols}

RuleNew52w(s, m, t) ==
    IF m.year = "no" THEN {} ELSE {Hit("new_52w", s, Day(t), m.year)}

RuleIvRank(s, m, t) ==
    IF m.iv = "no" THEN {} ELSE {Hit("iv_rank", s, Day(t), "")}

\* relative_strength_hits: the first and the last of the returns in order.
RelativeStrength(symbols, t) ==
    LET ahead(s) == {x \in symbols : Return[x] > Return[s]}
        behind(s) == {x \in symbols : Return[x] < Return[s]}
    IN  IF Cardinality(symbols) < RankLeast THEN {}
        ELSE {Hit("strength", s, Day(t), "leader") : s \in {x \in symbols : Cardinality(ahead(x)) < RankCount}}
             \cup {Hit("strength", s, Day(t), "laggard") : s \in {x \in symbols : Cardinality(behind(x)) < RankCount}}

\* load_session_bars: only symbols whose minutes cover enough of the session.
CloseHits(all, t) ==
    LET symbols == {s \in all : Opened(t) /\ market[s].covered}
    IN  RelativeStrength(symbols, t)
        \cup UNION {RuleNew52w(s, market[s], t) \cup RuleIvRank(s, market[s], t) : s \in symbols}

\* commodity_hits: positions and inventories, named by their period.
CommodityHits ==
    UNION {(IF market[s].cot = "no" THEN {} ELSE {Hit("cot", s, market[s].period, "")})
           \cup (IF market[s].eia = "no" THEN {} ELSE {Hit("eia", s, market[s].period, "")})
           : s \in Macro}

\* _recent_records
Recent(kind, since) == {x \in stored : x.record.kind = kind /\ x.at >= since}

Watched(promoted) == Held \cup Tier1 \cup promoted \cup Universe

\* The filings a news scan turns into hits.
Filings(promoted, t) ==
    {x.record : x \in {y \in Recent("filing", t - NewsLookback) : y.record.symbol \in Watched(promoted)}}

FilingHit(r) == Hit("filing", r.symbol, r.id, "")

\* Insiders: enough Form 4s of one company in a few days.
Form4Hits(promoted, t) ==
    LET of(s) == {x \in Recent("form4", t - Form4Lookback) : x.record.symbol = s}
    IN  {Hit("filing", s, Day(t), "form4") :
            s \in {x \in Held \cup Tier1 \cup promoted : Cardinality(of(x)) >= Form4Cluster}}

\* One entry per symbol, the oldest that is on the calendar soon.
EarningsHits(promoted, t) ==
    LET soon == {x \in Recent("earnings", t - EarningsLookback) :
                    /\ x.record.day \in Day(t) .. Day(t) + EarningsAhead
                    /\ x.record.symbol \in Watched(promoted)}
        first == {x \in soon : \A y \in soon : y.record.symbol = x.record.symbol => x.at <= y.at}
    IN  {Hit("earnings", x.record.symbol, x.record.day, "") : x \in first}

\* A post names a group of instruments, which is no symbol and has no tier.
PolicyHits(t) ==
    {Hit("policy", "policy", x.record.id, "") : x \in Recent("policy", t - NewsLookback)}

NewsHits(promoted, t) ==
    {FilingHit(r) : r \in Filings(promoted, t)}
    \cup Form4Hits(promoted, t) \cup EarningsHits(promoted, t) \cup PolicyHits(t)

-----------------------------------------------------------------------------
(* Jobs: Planner.enqueue_scans and Scanner.run.                            *)

Job(group, tiers) == [group |-> group, tiers |-> tiers]

ScanJobs(t) ==
    LET phase == Phase(t) IN
    {Job("news", {}), Job("commodity", {})}
    \cup (IF phase = "regular" THEN {Job("intraday", {0, 1}), Job("intraday", {2})} ELSE {})
    \cup (IF phase \in {"pre", "post"} THEN {Job("intraday", {0, 1})} ELSE {})
    \cup (IF phase = "closed" /\ FuturesOpen(t) THEN {Job("futures", {0, 1})} ELSE {})
    \cup (IF IsTradingDay(Day(t)) /\ t >= CloseOf(Day(t)) + CloseAfter
          THEN {Job("close", {0, 1, 2})} ELSE {})

Hits(job, promoted, t) ==
    CASE job.group = "intraday" -> IntradayHits(SymbolsOf(job.tiers, promoted), promoted, t)
      [] job.group = "futures" -> IntradayHits(SymbolsOf(job.tiers, promoted) \cap Macro, promoted, t)
      [] job.group = "close" -> CloseHits(SymbolsOf(job.tiers, promoted), t)
      [] job.group = "news" -> NewsHits(promoted, t)
      [] job.group = "commodity" -> CommodityHits

Unused == [pc |-> "new", began |-> 0, promoted |-> {}, todo |-> {}, rows |-> {},
           promotes |-> {}, filings |-> {}]
Ended == [Unused EXCEPT !.pc = "ended"]

Running == {i \in Scans : scan[i].pc = "run"}

Init ==
    /\ now = 0 /\ moves = 0
    /\ market \in {f \in [Symbols -> UNION {Markets[s] : s \in Symbols}] :
                     \A s \in Symbols : f[s] \in Markets[s]}  \* last quoted too long ago
    /\ stored = {} /\ triggers = {} /\ promotions = {}
    /\ scan = [i \in Scans |-> Unused] /\ over = {} /\ read = {}

\* A worker claims the job: the transaction begins, the tiers are loaded and the
\* hits are found.
Start(i) ==
    /\ scan[i].pc = "new" /\ \A j \in 1 .. i - 1 : scan[j].pc # "new"
    /\ Cardinality(Running) < Threads
    /\ \E queued \in now - QueueDelay .. now : \E job \in ScanJobs(queued) :
          LET promoted == Promoted(Day(now)) IN
          scan' = [scan EXCEPT ![i] =
             [Unused EXCEPT !.pc = "run", !.began = now, !.promoted = promoted,
                !.todo = Hits(job, promoted, now),
                !.filings = IF job.group = "news" THEN Filings(promoted, now) ELSE {}]]
    /\ over' = over \cup {{i, j} : j \in Running}
    /\ UNCHANGED <<now, market, moves, stored, tables>>

-----------------------------------------------------------------------------
(* Emission.                                                               *)

\* Mutation: the hits of the news and of the series use the default as well.
SameCooldown(hit) == Cooldown

CooldownOf(hit) ==
    IF RuleOf(hit) \in {"filing", "earnings", "policy", "cot", "eia"} THEN NewsCooldown ELSE Cooldown

\* Mutation: the moment the cooldown began is past it.
InOpenCooldown(i, hit) ==
    \E t \in triggers \cup scan[i].rows : t.hit = hit /\ t.at > now - CooldownOf(hit)

\* _in_cooldown, as the transaction sees the table.
InCooldown(i, hit) ==
    \E t \in triggers \cup scan[i].rows : t.hit = hit /\ t.at >= now - CooldownOf(hit)

\* Mutation: the checks use a connection of their own.
MayPromoteElsewhere(i, symbol) ==
    LET today == Day(scan[i].began)
    IN  /\ ~\E p \in promotions : p.symbol = symbol /\ p.expires >= today
        /\ Cardinality({p \in promotions : p.at >= today * DayLen}) < MaxPerDay

\* Mutation: one promotion more than the limit.
MayPromoteOneMore(i, symbol) ==
    LET seen == promotions \cup scan[i].promotes
        today == Day(scan[i].began)
    IN  /\ ~\E p \in seen : p.symbol = symbol /\ p.expires >= today
        /\ Cardinality({p \in seen : p.at >= today * DayLen}) <= MaxPerDay

\* _promote: not while it is promoted, and not past the limit of the day.
MayPromote(i, symbol) ==
    LET seen == promotions \cup scan[i].promotes
        today == Day(scan[i].began)
    IN  /\ ~\E p \in seen : p.symbol = symbol /\ p.expires >= today
        /\ Cardinality({p \in seen : p.at >= today * DayLen}) < MaxPerDay

Promotes(i, hit) ==
    /\ RuleOf(hit) \in EventRules
    /\ Subject(hit) # "policy"
    /\ Tier(Subject(hit), scan[i].promoted) \notin {0, 1}
    /\ MayPromote(i, Subject(hit))

\* emit, for one hit.  promoted_at is the start of the transaction.
Emit(i) ==
    /\ scan[i].pc = "run"
    /\ \E hit \in scan[i].todo :
          LET trigger == [hit |-> hit, tier |-> Tier(Subject(hit), scan[i].promoted), at |-> now,
                          by |-> i, began |-> scan[i].began]
              promotion == [symbol |-> Subject(hit), trigger |-> hit, at |-> scan[i].began, by |-> i,
                            expires |-> AddTradingDays(Day(scan[i].began), PromotionDays)]
          IN  scan' = [scan EXCEPT
                 ![i].todo = @ \ {hit},
                 ![i].rows = IF InCooldown(i, hit) THEN @ ELSE @ \cup {trigger},
                 ![i].promotes = IF ~InCooldown(i, hit) /\ Promotes(i, hit)
                                 THEN @ \cup {promotion} ELSE @]
    /\ UNCHANGED <<now, market, moves, stored, tables, over>>

Commit(i) ==
    /\ scan[i].pc = "run" /\ scan[i].todo = {}
    /\ triggers' = triggers \cup scan[i].rows
    /\ promotions' = promotions \cup scan[i].promotes
    /\ read' = read \cup scan[i].filings
    /\ scan' = [scan EXCEPT ![i] = Ended]
    /\ UNCHANGED <<now, market, moves, stored, over>>

\* An exception in the scan, or the process killed: the transaction rolls back.
RollBack(i) ==
    /\ scan[i].pc = "run"
    /\ scan' = [scan EXCEPT ![i] = Ended]
    /\ UNCHANGED <<now, market, moves, stored, tables, over>>

-----------------------------------------------------------------------------
(* Collectors and the clock.                                               *)

Quote(s) ==
    /\ moves < MaxMoves /\ moves' = moves + 1
    /\ \E m \in Markets[s] : market' = [market EXCEPT ![s] = [m EXCEPT !.quoted = now]]
    /\ UNCHANGED <<now, stored, tables, scan, over>>

\* A record becomes visible some time after it was created.
Store(r) ==
    /\ \A x \in stored : x.record # r
    /\ \E at \in now - StoreDelay .. now : stored' = stored \cup {[record |-> r, at |-> at]}
    /\ UNCHANGED <<now, market, moves, tables, scan, over>>

Tick ==
    /\ now < Horizon /\ now' = now + 1
    /\ UNCHANGED <<market, moves, stored, tables, scan, over>>

Next ==
    \/ \E i \in Scans : Start(i) \/ Emit(i) \/ Commit(i) \/ RollBack(i)
    \/ \E s \in Symbols : Quote(s)
    \/ \E r \in Records : Store(r)
    \/ Tick

Spec == Init /\ [][Next]_vars

-----------------------------------------------------------------------------
(* Properties.                                                             *)

Overlapped(a, b) == {a, b} \in over /\ a # b

\* A fingerprint fires once in its cooldown.  Only scans that ran at the same
\* time can both write it: each checked before the other committed.
OneTriggerPerCooldown ==
    \A t, u \in triggers :
        /\ t # u /\ t.hit = u.hit
        /\ t.at <= u.at /\ t.at >= u.at - CooldownOf(u.hit)
        => Overlapped(t.by, u.by)

\* A symbol is not promoted again while it is in Tier 1, but by scans that ran
\* at the same time.
PromotedOnce ==
    \A p, q \in promotions :
        p # q /\ p.symbol = q.symbol /\ p.at <= q.at /\ p.expires >= Day(q.at)
        => Overlapped(p.by, q.by)

\* The limit of promotions a day holds unless two of that day's scans ran at the
\* same time.
PromotionLimit ==
    \A d \in 0 .. Day(Horizon) :
        LET day == {p \in promotions : Day(p.at) = d} IN
        \/ Cardinality(day) <= MaxPerDay
        \/ \E p, q \in day : Overlapped(p.by, q.by)

\* The scan took longer to come to this hit than the cooldown outlasts the lookback.
Long(t) == t.at - t.began > NewsCooldown - NewsLookback

\* A filing a scan found has its own trigger once the scan committed, and no
\* later scan gives it a second one, however often it is still in the lookback:
\* only scans that ran at the same time, or one that took days, can.
EachFilingOnce ==
    \A r \in read :
        LET of == {t \in triggers : t.hit = <<"filing", r.symbol, r.id, "">>}
        IN  /\ of # {}
            /\ \A t, u \in of : t = u \/ Overlapped(t.by, u.by) \/ Long(t) \/ Long(u)
=============================================================================
