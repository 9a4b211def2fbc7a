---------------------------- MODULE QuoteStream ----------------------------
(***************************************************************************)
(* The quotes and session statistics of src/desk/collectors: the stream    *)
(* fills two books in memory (tastytrade_stream.py), a run of the          *)
(* collector drains them (collect) and stores what they held in one        *)
(* transaction (runner.py, ingest.py).                                     *)
(*                                                                         *)
(* The stream, its reconnects and the database's failures are external.    *)
(* Of a quote the model keeps its quote_time, of the statistics which      *)
(* fields have a value.                                                    *)
(***************************************************************************)
EXTENDS Integers

CONSTANTS
    Symbols,
    StatsSymbols,   \* those streamed without candles, which get Trade and Summary events
    \* Bounds of the model, which the code does not have:
    MaxTime,        \* the latest quote_time
    MaxFaults       \* failed stores, and crashes

ASSUME StreamAssumption ==
    StatsSymbols \subseteq Symbols /\ MaxTime \in Nat /\ MaxFaults \in Nat

\* What a Trade event and what a Summary event can carry, besides the time that every
\* entry has; the prices of a Summary are merged alike, and one stands for them.
Trade == {"volume"}
Summary == {"open"}
Fields == {"time"} \cup Trade \cup Summary

\* The quote_time of a row that has none, and of a symbol without a row.
Null == 0
Absent == -1

Times == 1 .. MaxTime

VARIABLES
    fresh,      \* symbols without an event since the last connect
    last,       \* quote_time of the latest Quote event, 0 before the first
    quotes,     \* QuoteBook._changed: 0, or the quote_time of the entry
    stats,      \* DayStatsBook._changed: the fields of the entry, {} without one
    pc,         \* of the collector's loop: "sleep", or "store" with the drained books in hand
    handQuotes, handStats,
    row,        \* quotes_latest: quote_time, Null or Absent
    rowStats,   \* quotes_latest: the fields of the statistics that have a value
    faults,
    \* History variables, since the start of the process.  What a store had in hand when it
    \* failed does not count, unless a later event brought it again:
    newest,     \* the latest quote_time received
    replayed,   \* a reconnect brought a quote older than the one before it
    received    \* the statistics received

books == <<quotes, stats>>
hand == <<handQuotes, handStats>>
table == <<row, rowStats>>
stream == <<fresh, last, newest, replayed, received>>
vars == <<stream, books, pc, hand, table, faults>>

TypeOK ==
    /\ fresh \subseteq Symbols
    /\ {last, quotes, handQuotes, newest} \subseteq [Symbols -> Times \cup {0}]
    /\ {stats, handStats, rowStats, received} \subseteq [Symbols -> SUBSET Fields]
    /\ pc \in {"sleep", "store"}
    /\ row \in [Symbols -> Times \cup {Null, Absent}]
    /\ replayed \in BOOLEAN
    /\ faults \in 0 .. MaxFaults

NoQuotes == [s \in Symbols |-> 0]
NoStats == [s \in Symbols |-> {}]

Init ==
    /\ fresh = Symbols /\ last = NoQuotes /\ quotes = NoQuotes /\ stats = NoStats
    /\ pc = "sleep" /\ handQuotes = NoQuotes /\ handStats = NoStats
    /\ row = [s \in Symbols |-> Absent] /\ rowStats = NoStats
    /\ faults = 0 /\ newest = NoQuotes /\ replayed = FALSE /\ received = NoStats

-----------------------------------------------------------------------------
(* The stream *)

\* The latest quote of a symbol takes the place of the one in the book; the first
\* after a connect can be older than one already received.
QuoteEvent(s, t) ==
    /\ t >= last[s] \/ s \in fresh
    /\ replayed' = (replayed \/ t < last[s])
    /\ quotes' = [quotes EXCEPT ![s] = t]
    /\ last' = [last EXCEPT ![s] = t] /\ fresh' = fresh \ {s}
    /\ newest' = [newest EXCEPT ![s] = IF t > @ THEN t ELSE @]
    /\ UNCHANGED <<received, stats, pc, hand, table, faults>>

\* Mutation: an event takes the place of those before it.
Replaced(old, new) == new

\* DayStatsBook.update: a field that the event does not carry keeps its value.
Merged(old, new) == old \cup new

\* A Trade or a Summary, with its time and those of its values that are above zero.
StatsEvent(s, fields) ==
    /\ s \in StatsSymbols
    /\ stats' = [stats EXCEPT ![s] = Merged(@, fields)]
    /\ received' = [received EXCEPT ![s] = @ \cup fields]
    /\ fresh' = fresh \ {s}
    /\ UNCHANGED <<last, newest, replayed, quotes, pc, hand, table, faults>>

\* The books outlive the connection.
Reconnect ==
    /\ fresh # Symbols /\ fresh' = Symbols
    /\ UNCHANGED <<last, newest, replayed, received, books, pc, hand, table, faults>>

-----------------------------------------------------------------------------
(* A run of the collector *)

\* collect: both books are drained at its end, without an await.
Collect ==
    /\ pc = "sleep" /\ pc' = "store"
    /\ handQuotes' = quotes /\ handStats' = stats
    /\ quotes' = NoQuotes /\ stats' = NoStats
    /\ UNCHANGED <<stream, table, faults>>

\* Mutation: the condition of the upsert is dropped.
AnyQuote(old, new) == TRUE

\* Mutation: the condition of the upsert is the wrong way round.
NotNewer(old, new) == new <= old

\* WHERE quotes_latest.quote_time <= EXCLUDED.quote_time: not true of a NULL.
Newer(old, new) == old # Null /\ old <= new

\* _upsert_quotes
Upserted(s) ==
    IF handQuotes[s] # 0 /\ (row[s] = Absent \/ Newer(row[s], handQuotes[s]))
    THEN handQuotes[s] ELSE row[s]

\* _store_and_finish: _upsert_quotes, then _upsert_day_stats, which makes a row
\* without a quote_time when there is none.
Store ==
    /\ pc = "store" /\ pc' = "sleep"
    /\ row' = [s \in Symbols |->
                 IF Upserted(s) = Absent /\ handStats[s] # {} THEN Null ELSE Upserted(s)]
    /\ rowStats' = [s \in Symbols |-> Merged(rowStats[s], handStats[s])]
    /\ handQuotes' = NoQuotes /\ handStats' = NoStats
    /\ UNCHANGED <<stream, books, faults>>

\* The transaction fails: the run is recorded as failed, what it held is gone, and what
\* came in since it drained the books is still there.
StoreFails ==
    /\ pc = "store" /\ pc' = "sleep"
    /\ faults < MaxFaults /\ faults' = faults + 1
    /\ handQuotes' = NoQuotes /\ handStats' = NoStats
    /\ newest' = [s \in Symbols |-> IF handQuotes[s] # 0 THEN quotes[s] ELSE newest[s]]
    /\ received' = [s \in Symbols |-> received[s] \ (handStats[s] \ stats[s])]
    /\ UNCHANGED <<fresh, last, replayed, books, table>>

\* A kill, or a shutdown that cancels the run, and a new process.
Restart ==
    /\ faults < MaxFaults /\ faults' = faults + 1
    /\ pc' = "sleep" /\ fresh' = Symbols
    /\ last' = NoQuotes /\ newest' = NoQuotes /\ replayed' = FALSE /\ received' = NoStats
    /\ quotes' = NoQuotes /\ stats' = NoStats
    /\ handQuotes' = NoQuotes /\ handStats' = NoStats
    /\ UNCHANGED table

-----------------------------------------------------------------------------
Next ==
    \/ \E s \in Symbols, t \in Times : QuoteEvent(s, t)
    \/ \E s \in Symbols, values \in (SUBSET Trade) \cup (SUBSET Summary) :
          StatsEvent(s, {"time"} \cup values)
    \/ Reconnect \/ Collect \/ Store \/ StoreFails \/ Restart

Spec == Init /\ [][Next]_vars

-----------------------------------------------------------------------------
(* Properties *)

\* No event, in any order and over any reconnect, failure and restart, moves the
\* stored quote of a symbol back in time (the comment at src/desk/collectors/ingest.py:359).
NeverBackwards == [][\A s \in Symbols : row'[s] >= row[s]]_vars

\* A Trade, which has only the volume, never clears what a Summary supplied
\* (src/desk/collectors/base.py:62): what was received is in a book, in hand or stored,
\* but for what a store had in hand when it failed (runner.py:291).
StatsKept ==
    \A s \in Symbols : received[s] \subseteq stats[s] \cup handStats[s] \cup rowStats[s]

Reaches(s, t) == quotes[s] >= t \/ handQuotes[s] >= t \/ row[s] >= t

\* The newest quote received of a symbol, but for those a store had in hand when it
\* failed, is in the book, in hand or stored, as long as no older quote comes after it --
\* unless statistics made the row of the symbol before its first quote, which QuotesLand
\* is about.
NewestKept ==
    ~replayed =>
    \A s \in Symbols : row[s] # Null => Reaches(s, newest[s])

\* A quote that a run stores without an error is in the table, or a newer one is.
QuotesLand ==
    [][Store => \A s \in Symbols : handQuotes[s] # 0 => row'[s] >= handQuotes[s]]_vars
=============================================================================
