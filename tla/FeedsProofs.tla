----------------------------- MODULE FeedsProofs -----------------------------
(***************************************************************************)
(* What is proved of the feeds: the stream of quotes (QuoteStream), for    *)
(* any symbols, times and faults, and the collectors (Collectors), for any *)
(* processes, sources and batches.                                         *)
(***************************************************************************)
EXTENDS QuoteStream, Collectors, FiniteSetTheorems, TLAPS

-----------------------------------------------------------------------------
(* The stream: quotes and statistics.                                      *)

\* The upsert never gives a symbol an older quote_time than its row has.
LEMMA UpsertedForward ==
    ASSUME TypeOK, NEW s \in Symbols
    PROVE  Upserted(s) \in Times \cup {Null, Absent} /\ Upserted(s) >= row[s]
<1>1. /\ row[s] \in Times \cup {Null, Absent} /\ handQuotes[s] \in Times \cup {0}
  BY DEF TypeOK
<1>2. \A t \in Times : t \in Int /\ t >= 1
  BY StreamAssumption, SMT DEF Times
<1>3. row[s] \in Int /\ handQuotes[s] \in Int /\ row[s] >= -1
  <2>1. row[s] \in Times \/ row[s] = 0 \/ row[s] = -1
    BY <1>1 DEF Null, Absent
  <2>2. handQuotes[s] \in Times \/ handQuotes[s] = 0
    BY <1>1
  <2>3. CASE row[s] \in Times
    BY <1>2, <2>2, <2>3, SMT
  <2>4. CASE row[s] = 0 \/ row[s] = -1
    BY <1>2, <2>2, <2>4, SMT
  <2> QED
    BY <2>1, <2>3, <2>4
<1>4. CASE handQuotes[s] # 0 /\ (row[s] = Absent \/ Newer(row[s], handQuotes[s]))
  <2>1. Upserted(s) = handQuotes[s] /\ handQuotes[s] \in Times
    BY <1>1, <1>4 DEF Upserted
  <2>2. handQuotes[s] >= row[s]
    BY <1>2, <1>3, <1>4, <2>1, SMT DEF Newer, Absent
  <2> QED
    BY <2>1, <2>2
<1>5. CASE ~(handQuotes[s] # 0 /\ (row[s] = Absent \/ Newer(row[s], handQuotes[s])))
  <2>1. Upserted(s) = row[s]
    BY <1>5 DEF Upserted
  <2> QED
    BY <1>1, <1>3, <2>1, SMT
<1> QED
  BY <1>4, <1>5

LEMMA StoredTyped ==
    ASSUME TypeOK, Store
    PROVE  /\ row' \in [Symbols -> Times \cup {Null, Absent}]
           /\ rowStats' \in [Symbols -> SUBSET Fields]
           /\ \A s \in Symbols : row'[s] >= row[s]
<1>1. /\ row' = [s \in Symbols |->
                   IF Upserted(s) = Absent /\ handStats[s] # {} THEN Null ELSE Upserted(s)]
      /\ rowStats' = [s \in Symbols |-> Merged(rowStats[s], handStats[s])]
  BY DEF Store
<1>2. ASSUME NEW s \in Symbols
      PROVE  row'[s] \in Times \cup {Null, Absent} /\ row'[s] >= row[s]
  <2>1. Upserted(s) \in Times \cup {Null, Absent} /\ Upserted(s) >= row[s]
    BY UpsertedForward
  <2>2. row[s] \in Int
    BY StreamAssumption, SMT DEF TypeOK, Times, Null, Absent
  <2>3. row'[s] = Upserted(s) \/ (row'[s] = Null /\ Upserted(s) = Absent)
    BY <1>1
  <2> QED
    BY <2>1, <2>2, <2>3, SMT DEF Null, Absent
<1>3. rowStats' \in [Symbols -> SUBSET Fields]
  BY <1>1 DEF TypeOK, Merged
<1> QED
  BY <1>1, <1>2, <1>3

LEMMA TypeInit == Init => TypeOK
<1> SUFFICES ASSUME Init PROVE TypeOK
  OBVIOUS
<1>1. replayed \in BOOLEAN /\ pc \in {"sleep", "store"} /\ fresh \subseteq Symbols
  BY Zenon DEF Init
<1>2. /\ {last, quotes, handQuotes, newest} \subseteq [Symbols -> Times \cup {0}]
      /\ {stats, handStats, rowStats, received} \subseteq [Symbols -> SUBSET Fields]
      /\ row \in [Symbols -> Times \cup {Null, Absent}]
  BY DEF Init, NoQuotes, NoStats
<1>3. faults \in 0 .. MaxFaults
  BY StreamAssumption, SMT DEF Init
<1> QED
  BY <1>1, <1>2, <1>3 DEF TypeOK

LEMMA TypeNext == TypeOK /\ [Next]_vars => TypeOK'
<1> SUFFICES ASSUME TypeOK, [Next]_vars PROVE TypeOK'
  OBVIOUS
<1> USE DEF vars, stream, books, hand, table
<1>1. ASSUME NEW s \in Symbols, NEW t \in Times, QuoteEvent(s, t) PROVE TypeOK'
  BY <1>1 DEF QuoteEvent, TypeOK
<1>2. ASSUME NEW s \in Symbols, NEW fields \in SUBSET Fields, StatsEvent(s, fields) PROVE TypeOK'
  BY <1>2 DEF StatsEvent, TypeOK, Merged
<1>3. CASE Reconnect
  BY <1>3 DEF Reconnect, TypeOK
<1>4. CASE Collect
  BY <1>4 DEF Collect, TypeOK, NoQuotes, NoStats
<1>5. CASE Store
  BY <1>5, StoredTyped DEF Store, TypeOK, NoQuotes, NoStats
<1>6. CASE StoreFails
  <2>1. faults' \in 0 .. MaxFaults
    BY <1>6, StreamAssumption, SMT DEF StoreFails, TypeOK
  <2>2. newest' \in [Symbols -> Times \cup {0}] /\ received' \in [Symbols -> SUBSET Fields]
    BY <1>6 DEF StoreFails, TypeOK
  <2> QED
    BY <1>6, <2>1, <2>2 DEF StoreFails, TypeOK, NoQuotes, NoStats
<1>7. CASE Restart
  <2>1. faults' \in 0 .. MaxFaults
    BY <1>7, StreamAssumption, SMT DEF Restart, TypeOK
  <2> QED
    BY <1>7, <2>1 DEF Restart, TypeOK, NoQuotes, NoStats
<1>8. CASE UNCHANGED vars
  BY <1>8 DEF TypeOK
<1>9. ASSUME NEW values \in (SUBSET Trade) \cup (SUBSET Summary)
      PROVE  {"time"} \cup values \in SUBSET Fields
  <2>1. values \subseteq Trade \/ values \subseteq Summary
    OBVIOUS
  <2>2. Trade \subseteq Fields /\ Summary \subseteq Fields /\ "time" \in Fields
    BY Zenon DEF Fields
  <2>3. values \subseteq Fields
    BY <2>1, <2>2
  <2> QED
    BY <2>2, <2>3
<1> QED
  BY <1>1, <1>2, <1>3, <1>4, <1>5, <1>6, <1>7, <1>8, <1>9 DEF Next

THEOREM Typed == Spec => []TypeOK
BY TypeInit, TypeNext, PTL DEF Spec

\* No event, reconnect, failure or restart moves a stored quote back in time: the
\* condition of the upsert (src/desk/collectors/ingest.py:360) is enough.
THEOREM Forward == Spec => NeverBackwards
<1>1. TypeOK /\ [Next]_vars => [\A s \in Symbols : row'[s] >= row[s]]_vars
  <2> SUFFICES ASSUME TypeOK, Next, NEW s \in Symbols PROVE row'[s] >= row[s]
    OBVIOUS
  <2>1. row[s] \in Int
    BY StreamAssumption, SMT DEF TypeOK, Times, Null, Absent
  <2>2. CASE Store
    BY <2>2, StoredTyped
  <2>3. CASE UNCHANGED row
    BY <2>1, <2>3, SMT
  <2>4. Store \/ UNCHANGED row
    BY DEF Next, QuoteEvent, StatsEvent, Reconnect, Collect, StoreFails, Restart, table
  <2> QED
    BY <2>2, <2>3, <2>4
<1> QED
  BY <1>1, TypeInit, TypeNext, PTL DEF Spec, NeverBackwards

-----------------------------------------------------------------------------
(* Nothing is lost on the way through the books. *)

EmptyHand == pc = "sleep" => handQuotes = NoQuotes /\ handStats = NoStats

\* What holds of a symbol while nothing is replayed: as long as its row has a quote_time,
\* or there is none, a newer quote replaces it.
Kept(s) ==
    /\ newest[s] <= last[s] /\ quotes[s] <= last[s]
    /\ row[s] # Null => Reaches(s, newest[s])

AllKept == ~replayed => \A s \in Symbols : Kept(s)

LEMMA KeptAtFirst ==
    ASSUME NEW s \in Symbols, last[s] = 0, newest[s] = 0, quotes[s] = 0 PROVE Kept(s)
<1>1. newest[s] <= last[s] /\ quotes[s] <= last[s] /\ quotes[s] >= newest[s]
  BY SMT
<1> QED
  BY <1>1 DEF Kept, Reaches

LEMMA NumbersOf ==
    ASSUME TypeOK, NEW s \in Symbols
    PROVE  /\ row[s] \in Int /\ handQuotes[s] \in Nat /\ quotes[s] \in Nat /\ newest[s] \in Nat
           /\ last[s] \in Nat
<1>1. \A t \in Times \cup {0} : t \in Nat
  BY StreamAssumption, SMT DEF Times
<1>2. \A t \in Times \cup {Null, Absent} : t \in Int
  BY StreamAssumption, SMT DEF Times, Null, Absent
<1>3. /\ handQuotes[s] \in Times \cup {0} /\ quotes[s] \in Times \cup {0}
      /\ newest[s] \in Times \cup {0} /\ last[s] \in Times \cup {0}
      /\ row[s] \in Times \cup {Null, Absent}
  BY DEF TypeOK
<1> QED
  BY <1>1, <1>2, <1>3

LEMMA EmptyNext == EmptyHand /\ [Next]_vars => EmptyHand'
BY DEF EmptyHand, Next, vars, hand, QuoteEvent, StatsEvent, Reconnect, Collect, Store,
       StoreFails, Restart

LEMMA KeptNext == TypeOK /\ EmptyHand /\ AllKept /\ [Next]_vars => AllKept'
<1> SUFFICES ASSUME TypeOK, EmptyHand, AllKept, [Next]_vars, ~replayed', NEW s \in Symbols
             PROVE  Kept(s)'
  BY DEF AllKept
<1>1. CASE Restart
  <2>1. last'[s] = 0 /\ newest'[s] = 0 /\ quotes'[s] = 0
    BY <1>1 DEF Restart, NoQuotes
  <2>2. newest'[s] <= last'[s] /\ quotes'[s] <= last'[s] /\ quotes'[s] >= newest'[s]
    BY <2>1, SMT
  <2> QED
    BY <2>2 DEF Kept, Reaches
<1> SUFFICES ASSUME ~Restart PROVE Kept(s)'
  BY <1>1
<1>2. /\ row[s] \in Int /\ handQuotes[s] \in Nat /\ quotes[s] \in Nat /\ newest[s] \in Nat
      /\ last[s] \in Nat
  BY NumbersOf
<1>5. ~replayed
  <2>2. \/ \E r \in Symbols, t \in Times : QuoteEvent(r, t)
        \/ UNCHANGED replayed
    BY DEF Next, vars, stream, StatsEvent, Reconnect, Collect, Store, StoreFails
  <2>3. CASE \E r \in Symbols, t \in Times : QuoteEvent(r, t)
    BY <2>3, Zenon DEF QuoteEvent
  <2> QED
    BY <2>2, <2>3
<1>6. Kept(s)
  BY <1>5 DEF AllKept
<1>7. ASSUME UNCHANGED <<row[s], last[s], newest[s], quotes[s], handQuotes[s]>>
      PROVE  Kept(s)'
  BY <1>6, <1>7 DEF Kept, Reaches
<1>8. ASSUME NEW r \in Symbols, NEW t \in Times, QuoteEvent(r, t) PROVE Kept(s)'
  <2>1. CASE r # s
    BY <1>7, <1>8, <2>1 DEF QuoteEvent, TypeOK, hand, table
  <2>2. CASE r = s
    <3>1. t \in Nat
      BY StreamAssumption, SMT DEF Times
    <3>2. /\ quotes'[s] = t /\ last'[s] = t /\ UNCHANGED row
          /\ newest'[s] = IF t > newest[s] THEN t ELSE newest[s]
      BY <1>8, <2>2 DEF QuoteEvent, TypeOK, hand, table
    <3>3. t >= last[s] /\ newest[s] <= last[s]
      <4>1. ~(t < last[s])
        BY <1>8, <2>2 DEF QuoteEvent
      <4> QED
        BY <1>2, <1>6, <3>1, <4>1, SMT DEF Kept
    <3>4. newest'[s] = t
      BY <1>2, <3>1, <3>2, <3>3, SMT
    <3>5. quotes'[s] >= newest'[s] /\ newest'[s] <= last'[s] /\ quotes'[s] <= last'[s]
      BY <3>1, <3>2, <3>4, SMT
    <3> QED
      BY <3>5 DEF Kept, Reaches
  <2> QED
    BY <2>1, <2>2
<1>9. ASSUME NEW r \in Symbols, NEW fields, StatsEvent(r, fields) PROVE Kept(s)'
  BY <1>7, <1>9 DEF StatsEvent, hand, table
<1>10. CASE Reconnect
  BY <1>7, <1>10 DEF Reconnect, books, hand, table
<1>11. CASE Collect
  <2>1. /\ handQuotes'[s] = quotes[s] /\ handQuotes[s] = 0 /\ quotes'[s] = 0
        /\ UNCHANGED <<row, last, newest>>
    BY <1>11 DEF Collect, NoStats, NoQuotes, EmptyHand, stream, table
  <2>2. row[s] # Null => quotes[s] >= newest[s] \/ 0 >= newest[s] \/ row[s] >= newest[s]
    BY <1>6, <2>1 DEF Kept, Reaches
  <2>3. row'[s] # Null => handQuotes'[s] >= newest'[s] \/ row'[s] >= newest'[s]
    <3>1. row[s] # Null => quotes[s] >= newest[s] \/ row[s] >= newest[s]
      BY <1>2, <2>2, SMT
    <3> QED
      BY <2>1, <3>1
  <2>4. newest'[s] <= last'[s] /\ quotes'[s] <= last'[s]
    BY <1>2, <1>6, <2>1, SMT DEF Kept
  <2> QED
    BY <2>3, <2>4 DEF Kept, Reaches
<1>12. CASE Store
  <2>1. UNCHANGED <<quotes, last, newest>>
    BY <1>12 DEF Store, stream, books
  <2> SUFFICES ASSUME row'[s] # Null PROVE Reaches(s, newest[s])'
    BY <1>6, <2>1 DEF Kept
  <2>2. row'[s] = Upserted(s)
    BY <1>12 DEF Store
  <2>3. row[s] # Null
    BY <2>2 DEF Upserted, Newer, Null, Absent
  <2>4. row'[s] >= row[s] /\ row'[s] \in Int
    BY <1>12, StoredTyped, NumbersOf, <1>2, <2>2 DEF Upserted
  <2>5. handQuotes[s] # 0 => row'[s] >= handQuotes[s]
    BY <1>2, <2>2, <2>3, SMT DEF Upserted, Newer
  <2>6. quotes[s] >= newest[s] \/ row'[s] >= newest[s] \/ newest[s] = 0
    BY <1>2, <1>6, <2>3, <2>4, <2>5, SMT DEF Kept, Reaches
  <2>7. quotes[s] >= newest[s] \/ row'[s] >= newest[s]
    BY <1>2, <2>6, SMT
  <2> QED
    BY <2>1, <2>7 DEF Reaches
<1>13. CASE StoreFails
  <2>1. /\ newest'[s] = IF handQuotes[s] # 0 THEN quotes[s] ELSE newest[s]
        /\ handQuotes'[s] = 0 /\ UNCHANGED <<quotes, last, row>>
    BY <1>13 DEF StoreFails, NoQuotes, books, table
  <2>2. CASE handQuotes[s] = 0
    BY <1>7, <2>1, <2>2
  <2>3. CASE handQuotes[s] # 0
    <3>1. quotes'[s] >= newest'[s] /\ newest'[s] <= last'[s] /\ quotes'[s] <= last'[s]
      BY <1>2, <1>6, <2>1, <2>3, SMT DEF Kept
    <3> QED
      BY <3>1 DEF Kept, Reaches
  <2> QED
    BY <2>2, <2>3
<1>14. CASE UNCHANGED vars
  BY <1>7, <1>14 DEF vars, stream, books, hand, table
<1> QED
  BY <1>8, <1>9, <1>10, <1>11, <1>12, <1>13, <1>14 DEF Next

\* No quote of a symbol is lost between the stream and the table, unless its row was made
\* by statistics or a store failed with it in hand: the newest of the others is in the
\* book, in hand or stored, also after failures and restarts.
THEOREM NewestReaches == Spec => []NewestKept
<1>1. Init => EmptyHand /\ AllKept
  <2>1. ASSUME Init, NEW s \in Symbols PROVE Kept(s)
    BY <2>1, KeptAtFirst DEF Init, NoQuotes
  <2> QED
    BY <2>1 DEF Init, EmptyHand, AllKept
<1>2. AllKept => NewestKept
  BY DEF AllKept, NewestKept, Kept
<1> QED
  BY <1>1, <1>2, TypeInit, TypeNext, EmptyNext, KeptNext, PTL DEF Spec

LEMMA StatsNext == TypeOK /\ EmptyHand /\ StatsKept /\ [Next]_vars => StatsKept'
<1> SUFFICES ASSUME TypeOK, EmptyHand, StatsKept, [Next]_vars, NEW s \in Symbols
             PROVE  (received[s] \subseteq stats[s] \cup handStats[s] \cup rowStats[s])'
  BY DEF StatsKept
<1>4. received[s] \subseteq stats[s] \cup handStats[s] \cup rowStats[s]
  BY DEF StatsKept
<1>5. ASSUME NEW r \in Symbols, NEW t \in Times, QuoteEvent(r, t)
      PROVE  UNCHANGED <<received, stats, handStats, rowStats>>
  BY <1>5 DEF QuoteEvent, hand, table
<1>6. ASSUME NEW r \in Symbols, NEW fields, StatsEvent(r, fields)
      PROVE  (received[s] \subseteq stats[s] \cup handStats[s] \cup rowStats[s])'
  <2>1. /\ received'[s] = IF s = r THEN received[s] \cup fields ELSE received[s]
        /\ stats'[s] = IF s = r THEN stats[s] \cup fields ELSE stats[s]
        /\ UNCHANGED <<handStats, rowStats>>
    BY <1>6 DEF StatsEvent, Merged, TypeOK, hand, table
  <2> QED
    BY <1>4, <2>1
<1>7. CASE Collect
  <2>1. handStats'[s] = stats[s] /\ handStats[s] = {} /\ UNCHANGED <<received, rowStats>>
    BY <1>7 DEF Collect, EmptyHand, NoStats, stream, table
  <2> QED
    BY <1>4, <2>1
<1>8. CASE Store
  <2>1. rowStats'[s] = rowStats[s] \cup handStats[s] /\ UNCHANGED <<received, stats>>
    BY <1>8 DEF Store, Merged, stream, books
  <2> QED
    BY <1>4, <2>1
<1>9. CASE Reconnect \/ UNCHANGED vars
  BY <1>4, <1>9 DEF Reconnect, vars, stream, books, hand, table
<1>10. CASE StoreFails
  <2>1. received'[s] = received[s] \ (handStats[s] \ stats[s]) /\ UNCHANGED <<stats, rowStats>>
    BY <1>10 DEF StoreFails, books, table
  <2> QED
    BY <1>4, <2>1
<1>11. CASE Restart
  BY <1>11 DEF Restart, NoStats
<1> QED
  BY <1>4, <1>5, <1>6, <1>7, <1>8, <1>9, <1>10, <1>11 DEF Next

\* No statistic is lost but those a store had in hand when it failed: neither the merge
\* of the book nor that of the table lets an event clear a field that it does not carry.
THEOREM StatisticsKept == Spec => []StatsKept
<1>1. Init => EmptyHand /\ StatsKept
  BY DEF Init, EmptyHand, StatsKept, NoStats
<1> QED
  BY <1>1, TypeInit, TypeNext, EmptyNext, StatsNext, PTL DEF Spec

-----------------------------------------------------------------------------
(* The collectors: what holds of the tasks, the open stores and the runs.  *)

Jobs == {t[2] : t \in Tasks}
AnyBatch == {NoStore.batch} \cup UNION {Batches[j] : j \in Jobs}
Hashes == UNION {Range(b.records) : b \in AnyBatch}
ExecIds == UNION {b.fills : b \in AnyBatch}

TaskRow == [pc : {"gone", "idle", "collect", "store", "fail"}, run : Nat, cancelled : BOOLEAN]
RunRow == [job : Jobs, status : {"running", "ok", "failed"}, partial : BOOLEAN, by : Tasks,
           took : AnyBatch, kept : BOOLEAN]
StoreRow == [phase : {"none", "records", "finish"}, batch : AnyBatch, seen : SUBSET Hashes,
             todo : Seq(Hashes), new : SUBSET Hashes, found : SUBSET ExecIds]

RowsTyped == runs \in Seq(RunRow) /\ Len(runs) <= MaxRuns /\ fills \in Seq(ExecIds)

StoresTyped == tx \in [Stores -> StoreRow]

\* A task has a run of its own.
TasksTyped ==
    /\ task \in [Tasks -> TaskRow]
    /\ \A t \in Tasks : RunOf(t) <= Len(runs)
    /\ \A t \in Tasks : task[t].pc \in {"collect", "store", "fail"} => RunOf(t) # 0
    /\ \A t, u \in Tasks : RunOf(t) = RunOf(u) /\ RunOf(t) # 0 => t = u

\* While it collects, nothing of its run has been stored.
Collecting ==
    \A t \in Tasks : task[t].pc = "collect" =>
       /\ runs[RunOf(t)].job = t[2] /\ ~Active(RunOf(t))
       /\ ~runs[RunOf(t)].kept /\ runs[RunOf(t)].status # "ok"

\* An open store can account for all its run collected: it is in the tables, in its own
\* inserts, or still to do.
StoreOpen(r) ==
    /\ r \in 1 .. Len(runs) /\ ~runs[r].kept /\ runs[r].status # "ok"
    /\ tx[r].batch = runs[r].took /\ runs[r].took \in Batches[runs[r].job]
    /\ tx[r].seen \subseteq records
    /\ Range(tx[r].batch.records) \subseteq records \cup tx[r].new \cup Range(tx[r].todo)
    /\ tx[r].found \subseteq tx[r].batch.fills
    /\ tx[r].phase = "finish" =>
          tx[r].todo = <<>> /\ tx[r].batch.fills \subseteq tx[r].found \cup Range(fills)

Storing == \A r \in Stores : Active(r) => StoreOpen(r)

\* Unless two stores of a collector met, it has one, and what that found is new.
Apart ==
    ~overlapped =>
       /\ \A q, r \in Stores : Active(q) /\ Active(r) /\ runs[q].job = runs[r].job => q = r
       /\ \A r \in Stores : Active(r) => tx[r].found \cap Range(fills) = {}

TablesInv == Storing /\ Apart /\ RunTellsStore /\ FillsOnce

CollectorsInv == RowsTyped /\ StoresTyped /\ TasksTyped /\ Collecting /\ TablesInv

-----------------------------------------------------------------------------
(* Steps that store nothing.                                               *)

\* Runs are added and closed.
RunsOnward ==
    /\ runs' \in Seq(RunRow) /\ Len(runs) <= Len(runs') /\ Len(runs') <= MaxRuns
    /\ \A r \in 1 .. Len(runs) :
          /\ runs'[r].job = runs[r].job /\ runs'[r].partial = runs[r].partial
          /\ runs'[r].took = runs[r].took /\ runs'[r].kept = runs[r].kept
          /\ (runs'[r].status = runs[r].status \/ (runs[r].status = "running" /\ runs'[r].status = "failed"))
    /\ \A r \in Len(runs) + 1 .. Len(runs') : runs'[r].status = "running" /\ ~runs'[r].kept

\* Stores are given up.
StoresOnward == \A r \in Stores : tx'[r] = tx[r] \/ tx'[r] = NoStore

LEMMA NothingStored ==
    ASSUME RowsTyped, TablesInv, RunsOnward, StoresOnward, UNCHANGED <<records, fills, overlapped>>
    PROVE TablesInv'
<1>1. Len(runs) \in Nat /\ Len(runs') \in Nat /\ Len(runs) <= Len(runs')
  BY DEF RowsTyped, RunsOnward
<1>2. DOMAIN runs = 1 .. Len(runs) /\ DOMAIN runs' = 1 .. Len(runs') BY DEF RowsTyped, RunsOnward
<1>3. ASSUME NEW r \in Stores, Active(r)'
      PROVE tx'[r] = tx[r] /\ Active(r) /\ StoreOpen(r) /\ StoreOpen(r)'
  <2>1. tx'[r] = tx[r] /\ Active(r) BY <1>3 DEF StoresOnward, Active, NoStore
  <2>2. StoreOpen(r) BY <2>1 DEF TablesInv, Storing
  <2>3. r \in 1 .. Len(runs) BY <2>2 DEF StoreOpen
  <2>4. r \in 1 .. Len(runs') BY <1>1, <2>3
  <2>5. /\ ~runs'[r].kept /\ runs'[r].status # "ok" /\ runs'[r].took = runs[r].took
        /\ runs'[r].job = runs[r].job
    BY <2>2, <2>3 DEF RunsOnward, StoreOpen
  <2>6. StoreOpen(r)' BY <2>1, <2>2, <2>4, <2>5 DEF StoreOpen
  <2> QED BY <2>1, <2>2, <2>6
<1>4. Storing' BY <1>3 DEF Storing
<1>5. Apart'
  <2>1. ASSUME NEW r \in Stores, Active(r)' PROVE tx'[r] = tx[r]
    BY <2>1, <1>3
  <2>2. ASSUME NEW r \in Stores, Active(r)' PROVE Active(r) /\ runs'[r].job = runs[r].job
    <3>1. Active(r) /\ r \in 1 .. Len(runs) BY <1>3, <2>2 DEF StoreOpen
    <3> QED BY <3>1 DEF RunsOnward
  <2>3. Apart BY DEF TablesInv
  <2> QED BY <2>1, <2>2, <2>3 DEF Apart
<1>6. RunTellsStore'
  <2> SUFFICES ASSUME NEW r \in 1 .. Len(runs')
               PROVE /\ runs'[r].status = "ok" =>
                           /\ Range(runs'[r].took.records) \subseteq records
                           /\ runs'[r].took.fills \subseteq Range(fills)
                     /\ runs'[r].kept => runs'[r].status = "ok" \/ runs'[r].partial
    BY <1>2 DEF RunTellsStore
  <2>1. CASE r \in 1 .. Len(runs)
    <3>1. /\ runs[r].status = "ok" =>
               /\ Range(runs[r].took.records) \subseteq records
               /\ runs[r].took.fills \subseteq Range(fills)
          /\ runs[r].kept => runs[r].status = "ok" \/ runs[r].partial
      BY <1>2, <2>1 DEF TablesInv, RunTellsStore
    <3> QED BY <2>1, <3>1 DEF RunsOnward
  <2>2. CASE r \notin 1 .. Len(runs)
    <3>1. r \in Len(runs) + 1 .. Len(runs') BY <1>1, <2>2
    <3> QED BY <3>1 DEF RunsOnward
  <2> QED BY <2>1, <2>2
<1>7. FillsOnce' BY DEF TablesInv, FillsOnce
<1> QED BY <1>4, <1>5, <1>6, <1>7 DEF TablesInv

\* Tasks end, fail or are given up; none begins to collect.
TasksOnward ==
    /\ task' \in [Tasks -> TaskRow]
    /\ \A t \in Tasks :
          \/ task'[t].run = task[t].run
             /\ (task'[t].pc \in {"collect", "store", "fail"} => task[t].pc \in {"collect", "store", "fail"})
          \/ task'[t].run = 0 /\ task'[t].pc \in {"gone", "idle"}
    /\ \A t \in Tasks : task'[t].pc = "collect" => task[t].pc = "collect" /\ task'[t].run = task[t].run

LEMMA TasksKept ==
    ASSUME RowsTyped, TasksTyped, TasksOnward, runs' \in Seq(RunRow), Len(runs) <= Len(runs')
    PROVE TasksTyped'
<1>1. Len(runs) \in Nat /\ Len(runs') \in Nat BY DEF RowsTyped
<1>2. \A t \in Tasks : RunOf(t) \in Nat /\ RunOf(t) <= Len(runs) BY DEF TasksTyped, TaskRow, RunOf
<1>3. \A t \in Tasks : task'[t].run = task[t].run \/ task'[t].run = 0 BY DEF TasksOnward
<1>4. \A t \in Tasks : RunOf(t)' <= Len(runs') BY <1>1, <1>2, <1>3 DEF RunOf
<1>5. \A t \in Tasks : task'[t].pc \in {"collect", "store", "fail"} => RunOf(t)' # 0
  <2> SUFFICES ASSUME NEW t \in Tasks, task'[t].pc \in {"collect", "store", "fail"} PROVE task'[t].run # 0
    BY DEF RunOf
  <2>1. task'[t].run = task[t].run /\ task[t].pc \in {"collect", "store", "fail"} BY DEF TasksOnward
  <2> QED BY <2>1 DEF TasksTyped, RunOf
<1>6. \A t, u \in Tasks : RunOf(t)' = RunOf(u)' /\ RunOf(t)' # 0 => t = u
  BY <1>3 DEF TasksTyped, RunOf
<1> QED BY <1>4, <1>5, <1>6 DEF TasksTyped, TasksOnward

\* The step of a task or of a store that stores nothing.
LEMMA Onward ==
    ASSUME CollectorsInv, RunsOnward, StoresOnward, TasksOnward, tx' \in [Stores -> StoreRow],
           UNCHANGED <<records, fills, overlapped>>
    PROVE CollectorsInv'
<1> USE DEF CollectorsInv
<1>1. TablesInv' BY NothingStored
<1>2. TasksTyped' BY TasksKept DEF RunsOnward
<1>3. RowsTyped' BY DEF RowsTyped, RunsOnward
<1>4. StoresTyped' BY DEF StoresTyped
<1>5. Collecting'
  <2> SUFFICES ASSUME NEW t \in Tasks, task'[t].pc = "collect"
               PROVE /\ runs'[task'[t].run].job = t[2] /\ ~(tx'[task'[t].run].phase # "none")
                     /\ ~runs'[task'[t].run].kept /\ runs'[task'[t].run].status # "ok"
    BY DEF Collecting, RunOf, Active
  <2> DEFINE r == task[t].run
  <2>1. task[t].pc = "collect" /\ task'[t].run = r BY DEF TasksOnward
  <2>2. r \in 1 .. Len(runs)
    <3>1. r \in Nat /\ r # 0 /\ r <= Len(runs) /\ Len(runs) \in Nat
      BY <2>1 DEF TasksTyped, TaskRow, RunOf, RowsTyped
    <3> QED BY <3>1
  <2>3. runs[r].job = t[2] /\ tx[r].phase = "none" /\ ~runs[r].kept /\ runs[r].status # "ok"
    BY <2>1 DEF Collecting, RunOf, Active
  <2>4. r \in Stores
    <3>1. Len(runs) \in Nat /\ Len(runs) <= MaxRuns /\ MaxRuns \in Nat BY RunsAssumption DEF RowsTyped
    <3> QED BY <2>2, <3>1 DEF Stores
  <2>5. tx'[r].phase = "none" BY <2>3, <2>4 DEF StoresOnward, NoStore
  <2> HIDE DEF r
  <2>6. runs'[r].job = t[2] /\ ~runs'[r].kept /\ runs'[r].status # "ok" BY <2>2, <2>3 DEF RunsOnward
  <2> QED BY <2>1, <2>5, <2>6
<1> QED BY <1>1, <1>2, <1>3, <1>4, <1>5

LEMMA RunsUnchanged == ASSUME RowsTyped, UNCHANGED runs PROVE RunsOnward
<1>1. Len(runs) \in Nat /\ Len(runs) <= Len(runs) BY DEF RowsTyped
<1>2. Len(runs) + 1 .. Len(runs) = {} BY <1>1
<1>3. runs' \in Seq(RunRow) /\ Len(runs) <= Len(runs') /\ Len(runs') <= MaxRuns BY <1>1 DEF RowsTyped
<1>4. \A r \in Len(runs) + 1 .. Len(runs') : FALSE BY <1>2
<1>5. \A r \in 1 .. Len(runs) : runs'[r] = runs[r] OBVIOUS
<1> QED BY <1>3, <1>4, <1>5 DEF RunsOnward

LEMMA RunBegins ==
    ASSUME RowsTyped, NEW t \in Tasks, Len(runs) < MaxRuns, runs' = Append(runs, Run(t))
    PROVE /\ RunsOnward /\ Len(runs') = Len(runs) + 1
          /\ runs'[Len(runs) + 1].job = t[2]
<1>1. Len(runs) \in Nat /\ runs \in Seq(RunRow) BY DEF RowsTyped
<1>2. Run(t) \in RunRow BY DEF Run, RunRow, Jobs, AnyBatch
<1>3. Run(t).job = t[2] /\ Run(t).status = "running" /\ ~Run(t).kept BY DEF Run
<1> HIDE DEF RunRow
<1>4. /\ runs' \in Seq(RunRow) /\ Len(runs') = Len(runs) + 1 /\ runs'[Len(runs) + 1] = Run(t)
      /\ \A r \in 1 .. Len(runs) : runs'[r] = runs[r]
  BY <1>1, <1>2
<1>5. Len(runs') <= MaxRuns BY <1>1, <1>4, RunsAssumption
<1>6. \A r \in Len(runs) + 1 .. Len(runs') : r = Len(runs) + 1 BY <1>1, <1>4
<1>8. \A r \in Len(runs) + 1 .. Len(runs') : runs'[r].status = "running" /\ ~runs'[r].kept
  BY <1>3, <1>4, <1>6
<1>9. Len(runs) <= Len(runs') BY <1>1, <1>4
<1>7. RunsOnward BY <1>4, <1>5, <1>8, <1>9 DEF RunsOnward
<1> QED BY <1>3, <1>4, <1>7

LEMMA RunEnded ==
    ASSUME RowsTyped, NEW r \in 1 .. Len(runs), runs' = EndRun(r, "failed") PROVE RunsOnward
<1>1. Len(runs) \in Nat /\ runs \in Seq(RunRow) BY DEF RowsTyped
<1>2. \A q \in 1 .. Len(runs) : runs[q] \in RunRow
  <2> HIDE DEF RunRow
  <2> QED BY <1>1
<1>3. runs' = [runs EXCEPT ![r].status = IF @ = "running" THEN "failed" ELSE @] BY DEF EndRun
<1>4. DOMAIN runs' = 1 .. Len(runs) /\ \A q \in 1 .. Len(runs) : q # r => runs'[q] = runs[q]
  <2> HIDE DEF RunRow
  <2> QED BY <1>1, <1>3
<1>5. runs'[r] = [runs[r] EXCEPT !.status = IF @ = "running" THEN "failed" ELSE @]
  <2> HIDE DEF RunRow
  <2> QED BY <1>1, <1>3
<1>6. /\ runs'[r] \in RunRow
      /\ runs'[r].job = runs[r].job /\ runs'[r].partial = runs[r].partial
      /\ runs'[r].took = runs[r].took /\ runs'[r].kept = runs[r].kept
      /\ (runs'[r].status = runs[r].status \/ (runs[r].status = "running" /\ runs'[r].status = "failed"))
  <2>1. CASE runs[r].status = "running"
    <3>1. runs'[r] = [runs[r] EXCEPT !.status = "failed"] BY <1>5, <2>1
    <3>2. runs[r] \in RunRow BY <1>2
    <3> QED BY <2>1, <3>1, <3>2 DEF RunRow
  <2>2. CASE runs[r].status # "running"
    <3>1. runs'[r] = [runs[r] EXCEPT !.status = runs[r].status] BY <1>5, <2>2
    <3>2. runs[r] \in RunRow BY <1>2
    <3>3. runs'[r] = runs[r] BY <3>1, <3>2 DEF RunRow
    <3> QED BY <3>2, <3>3
  <2> QED BY <2>1, <2>2
<1>7. runs' \in [1 .. Len(runs) -> RunRow]
  <2>1. \A q \in 1 .. Len(runs) : runs'[q] \in RunRow BY <1>2, <1>4, <1>6
  <2>2. runs' = [q \in 1 .. Len(runs) |-> runs'[q]]
    <3> HIDE DEF RunRow
    <3> QED BY <1>1, <1>3
  <2> HIDE DEF RunRow
  <2> QED BY <2>1, <2>2
<1>8. runs' \in Seq(RunRow) /\ Len(runs') = Len(runs)
  <2> HIDE DEF RunRow
  <2> QED BY <1>1, <1>7
<1>9. Len(runs) + 1 .. Len(runs') = {} /\ Len(runs) <= Len(runs') /\ Len(runs') <= MaxRuns
  BY <1>1, <1>8 DEF RowsTyped
<1>10. \A q \in 1 .. Len(runs) :
          /\ runs'[q].job = runs[q].job /\ runs'[q].partial = runs[q].partial
          /\ runs'[q].took = runs[q].took /\ runs'[q].kept = runs[q].kept
          /\ (runs'[q].status = runs[q].status \/ (runs[q].status = "running" /\ runs'[q].status = "failed"))
  BY <1>4, <1>6
<1> QED BY <1>8, <1>9, <1>10 DEF RunsOnward

\* close_interrupted_runs.
LEMMA RunsClosed ==
    ASSUME RowsTyped, NEW p, runs' = [r \in DOMAIN runs |->
              IF Running(r) /\ runs[r].job \in Scope(p)
              THEN [runs[r] EXCEPT !.status = "failed"] ELSE runs[r]]
    PROVE RunsOnward
<1>1. Len(runs) \in Nat /\ runs \in Seq(RunRow) BY DEF RowsTyped
<1>2. DOMAIN runs = 1 .. Len(runs) /\ \A q \in 1 .. Len(runs) : runs[q] \in RunRow
  <2> HIDE DEF RunRow
  <2> QED BY <1>1
<1>3. ASSUME NEW q \in 1 .. Len(runs)
      PROVE /\ runs'[q] \in RunRow
            /\ runs'[q].job = runs[q].job /\ runs'[q].partial = runs[q].partial
            /\ runs'[q].took = runs[q].took /\ runs'[q].kept = runs[q].kept
            /\ (runs'[q].status = runs[q].status \/ (runs[q].status = "running" /\ runs'[q].status = "failed"))
  <2>1. runs[q] \in RunRow BY <1>2
  <2>2. runs'[q] = runs[q] \/ (runs[q].status = "running" /\ runs'[q] = [runs[q] EXCEPT !.status = "failed"])
    <3>1. CASE Running(q) /\ runs[q].job \in Scope(p) BY <1>2, <3>1 DEF Running
    <3>2. CASE ~(Running(q) /\ runs[q].job \in Scope(p)) BY <1>2, <3>2
    <3> QED BY <3>1, <3>2
  <2> QED BY <2>1, <2>2 DEF RunRow
<1>4. runs' \in Seq(RunRow) /\ Len(runs') = Len(runs)
  <2>1. runs' \in [1 .. Len(runs) -> RunRow]
    <3> HIDE DEF RunRow
    <3> QED BY <1>2, <1>3
  <2> HIDE DEF RunRow
  <2> QED BY <1>1, <2>1
<1>5. Len(runs) + 1 .. Len(runs') = {} /\ Len(runs) <= Len(runs') BY <1>1, <1>4
<1> QED BY <1>3, <1>4, <1>5 DEF RunsOnward, RowsTyped

LEMMA NoStoreTyped == NoStore \in StoreRow BY DEF NoStore, StoreRow, AnyBatch

\* One store, or some, given up.
LEMMA GivenUp ==
    ASSUME StoresTyped, NEW S, tx' = [r \in Stores |-> IF r \in S THEN NoStore ELSE tx[r]]
    PROVE StoresOnward /\ tx' \in [Stores -> StoreRow]
<1>1. \A r \in Stores : tx[r] \in StoreRow
  <2> HIDE DEF StoreRow
  <2> QED BY DEF StoresTyped
<1>2. NoStore \in StoreRow BY NoStoreTyped
<1> HIDE DEF StoreRow, NoStore
<1> QED BY <1>1, <1>2 DEF StoresOnward

LEMMA RolledBack ==
    ASSUME StoresTyped, NEW r \in Stores, tx' = [tx EXCEPT ![r] = NoStore]
    PROVE StoresOnward /\ tx' \in [Stores -> StoreRow]
<1>1. tx' = [q \in Stores |-> IF q \in {r} THEN NoStore ELSE tx[q]]
  <2> HIDE DEF StoreRow, NoStore
  <2> QED BY DEF StoresTyped
<1> QED BY <1>1, GivenUp

LEMMA StoresUnchanged ==
    ASSUME StoresTyped, UNCHANGED tx PROVE StoresOnward /\ tx' \in [Stores -> StoreRow]
BY DEF StoresOnward, StoresTyped

\* A task that goes on to something else than collecting.
LEMMA TaskOn ==
    ASSUME TasksTyped, NEW t \in Tasks, NEW to, NEW cancelled \in BOOLEAN,
           task' = [task EXCEPT ![t].pc = to, ![t].cancelled = cancelled],
           \/ to \in {"store", "fail"} /\ task[t].pc \in {"collect", "store", "fail"}
           \/ to \in {"gone", "idle"}
    PROVE TasksOnward
<1>1. \A u \in Tasks : task[u] \in TaskRow
  <2> HIDE DEF TaskRow
  <2> QED BY DEF TasksTyped
<1>2. DOMAIN task = Tasks
  <2> HIDE DEF TaskRow
  <2> QED BY DEF TasksTyped
<1>3. ASSUME NEW u \in Tasks
      PROVE /\ task'[u] \in TaskRow /\ task'[u].run = task[u].run
            /\ task'[u].pc = "collect" => task[u].pc = "collect"
            /\ task'[u].pc \in {"collect", "store", "fail"} => task[u].pc \in {"collect", "store", "fail"}
  <2>1. CASE u = t
    <3>1. task'[t] = [task[t] EXCEPT !.pc = to, !.cancelled = cancelled] BY <1>2
    <3>2. task[t] \in TaskRow BY <1>1
    <3>3. to \in {"gone", "idle", "collect", "store", "fail"} OBVIOUS
    <3>4. task'[t] \in TaskRow /\ task'[t].run = task[t].run /\ task'[t].pc = to
      <4>1. task'[t] = [pc |-> to, run |-> task[t].run, cancelled |-> cancelled]
        BY <3>1, <3>2 DEF TaskRow
      <4>2. task[t].run \in Nat BY <3>2 DEF TaskRow
      <4>3. task'[t].run = task[t].run /\ task'[t].pc = to BY <4>1
      <4>4. [pc |-> to, run |-> task[t].run, cancelled |-> cancelled] \in TaskRow
        BY <3>3, <4>2, Zenon DEF TaskRow
      <4> QED BY <4>1, <4>3, <4>4
    <3> QED BY <2>1, <3>4
  <2>2. CASE u # t
    <3>1. task'[u] = task[u] BY <1>2, <2>2
    <3> QED BY <1>1, <3>1
  <2> QED BY <2>1, <2>2
<1>4. task' \in [Tasks -> TaskRow]
  <2>1. task' = [u \in Tasks |-> task'[u]]
    <3> HIDE DEF TaskRow
    <3> QED BY DEF TasksTyped
  <2> HIDE DEF TaskRow
  <2> QED BY <1>3, <2>1
<1> QED BY <1>3, <1>4 DEF TasksOnward

LEMMA TaskGoes ==
    ASSUME TasksTyped, NEW t \in Tasks, NEW to, Goto(t, to),
           \/ to \in {"store", "fail"} /\ task[t].pc \in {"collect", "store", "fail"}
           \/ to \in {"gone", "idle"}
    PROVE TasksOnward
<1>1. task[t] \in TaskRow
  <2> HIDE DEF TaskRow
  <2> QED BY DEF TasksTyped
<1>2. task[t].cancelled \in BOOLEAN BY <1>1 DEF TaskRow
<1>3. task' = [task EXCEPT ![t].pc = to, ![t].cancelled = task[t].cancelled]
  <2>1. task' = [task EXCEPT ![t].pc = to] BY DEF Goto
  <2>2. [task[t] EXCEPT !.pc = to] = [task[t] EXCEPT !.pc = to, !.cancelled = task[t].cancelled]
    BY <1>1 DEF TaskRow
  <2>3. task' = [task EXCEPT ![t] = [task[t] EXCEPT !.pc = to]] BY <2>1
  <2>4. [task EXCEPT ![t].pc = to, ![t].cancelled = task[t].cancelled] =
           [task EXCEPT ![t] = [task[t] EXCEPT !.pc = to, !.cancelled = task[t].cancelled]]
    <3> HIDE DEF TaskRow
    <3> QED BY DEF TasksTyped
  <2> QED BY <2>2, <2>3, <2>4
<1> QED BY <1>2, <1>3, TaskOn

LEMMA TaskReturns ==
    ASSUME TasksTyped, NEW r, NEW to \in {"idle", "fail"}, Return(r, to) PROVE TasksOnward
<1>1. task' = [t \in Tasks |-> IF task[t].pc = "store" /\ task[t].run = r
                               THEN [task[t] EXCEPT !.pc = to] ELSE task[t]]
  BY DEF Return, RunOf
<1>2. \A u \in Tasks : task[u] \in TaskRow
  <2> HIDE DEF TaskRow
  <2> QED BY DEF TasksTyped
<1>3. ASSUME NEW u \in Tasks
      PROVE /\ task'[u] \in TaskRow /\ task'[u].run = task[u].run
            /\ task'[u].pc = "collect" => task[u].pc = "collect"
            /\ task'[u].pc \in {"collect", "store", "fail"} => task[u].pc \in {"collect", "store", "fail"}
  BY <1>1, <1>2 DEF TaskRow
<1>4. task' \in [Tasks -> TaskRow]
  <2> HIDE DEF TaskRow
  <2> QED BY <1>1, <1>3
<1> QED BY <1>3, <1>4 DEF TasksOnward

LEMMA TasksUnchanged == ASSUME TasksTyped, UNCHANGED task PROVE TasksOnward
BY DEF TasksTyped, TasksOnward

\* The tasks of a process, as it starts or is killed.
LEMMA TasksReset ==
    ASSUME TasksTyped, NEW p, NEW reset \in {Gone, Idle},
           task' = [t \in Tasks |-> IF t[1] = p THEN reset ELSE task[t]]
    PROVE TasksOnward
<1>1. reset \in TaskRow /\ reset.run = 0 /\ reset.pc \in {"gone", "idle"}
  <2>1. CASE reset = Gone BY <2>1 DEF Gone, TaskRow
  <2>2. CASE reset = Idle
    <3>1. reset = [pc |-> "idle", run |-> 0, cancelled |-> FALSE] BY <2>2 DEF Gone, Idle
    <3> QED BY <3>1 DEF TaskRow
  <2> QED BY <2>1, <2>2
<1>2. \A u \in Tasks : task[u] \in TaskRow
  <2> HIDE DEF TaskRow
  <2> QED BY DEF TasksTyped
<1>3. \A u \in Tasks : task'[u] = reset \/ task'[u] = task[u] OBVIOUS
<1>4. task' \in [Tasks -> TaskRow]
  <2> HIDE DEF TaskRow
  <2> QED BY <1>1, <1>2
<1>5. reset.pc # "collect" BY <1>1
<1> HIDE DEF TaskRow
<1> QED BY <1>1, <1>3, <1>4, <1>5 DEF TasksOnward

-----------------------------------------------------------------------------
(* Steps that begin a run or a store, and the steps of a store.            *)

LEMMA RunKnown ==
    ASSUME CollectorsInv, NEW t \in Tasks, task[t].pc \in {"collect", "store", "fail"}
    PROVE RunOf(t) \in 1 .. Len(runs) /\ RunOf(t) \in Stores /\ DOMAIN runs = 1 .. Len(runs)
<1>1. RunOf(t) \in Nat /\ RunOf(t) # 0 /\ RunOf(t) <= Len(runs)
  BY DEF CollectorsInv, TasksTyped, TaskRow, RunOf
<1>2. Len(runs) \in Nat /\ Len(runs) <= MaxRuns /\ MaxRuns \in Nat /\ DOMAIN runs = 1 .. Len(runs)
  BY RunsAssumption DEF CollectorsInv, RowsTyped
<1> QED BY <1>1, <1>2 DEF Stores

LEMMA StartKeeps == ASSUME CollectorsInv, NEW t \in Tasks, StartRun(t) PROVE CollectorsInv'
<1> USE DEF CollectorsInv
<1> DEFINE new == Len(runs) + 1
<1>1. /\ task[t].pc = "idle" /\ Len(runs) < MaxRuns /\ runs' = Append(runs, Run(t))
      /\ task' = [task EXCEPT ![t].pc = "collect", ![t].run = new]
      /\ UNCHANGED <<tx, records, fills, overlapped>>
  BY DEF StartRun, At, rows
<1>2. RunsOnward /\ Len(runs') = new /\ runs'[new].job = t[2] BY <1>1, RunBegins
<1>3. Len(runs) \in Nat /\ new \in Nat /\ new \notin 1 .. Len(runs) /\ new # 0 BY DEF RowsTyped
<1>4. runs'[new].status = "running" /\ ~runs'[new].kept
  <2>1. new \in Len(runs) + 1 .. Len(runs') BY <1>2, <1>3
  <2> HIDE DEF new
  <2> QED BY <2>1, <1>2 DEF RunsOnward
<1> HIDE DEF new
<1>5. StoresOnward BY <1>1 DEF StoresOnward
<1>6. TablesInv' BY <1>1, <1>2, <1>5, NothingStored
<1>7. \A u \in Tasks : task[u] \in TaskRow
  <2> HIDE DEF TaskRow
  <2> QED BY DEF TasksTyped
<1>8. /\ task'[t].pc = "collect" /\ task'[t].run = new /\ task'[t].cancelled = task[t].cancelled
      /\ task'[t] \in TaskRow
  <2>1. task'[t] = [task[t] EXCEPT !.pc = "collect", !.run = new] BY <1>1 DEF TasksTyped
  <2> QED BY <2>1, <1>3, <1>7 DEF TaskRow
<1>9. \A u \in Tasks : u # t => task'[u] = task[u] BY <1>1 DEF TasksTyped
<1>10. task' \in [Tasks -> TaskRow]
  <2>1. \A u \in Tasks : task'[u] \in TaskRow BY <1>7, <1>8, <1>9
  <2>2. task' = [u \in Tasks |-> task'[u]] BY <1>1 DEF TasksTyped
  <2> HIDE DEF TaskRow
  <2> QED BY <2>1, <2>2
<1>11. \A u \in Tasks : RunOf(u) \in Nat /\ RunOf(u) <= Len(runs) /\ RunOf(u) # new
  BY <1>3, <1>7 DEF TasksTyped, TaskRow, RunOf, new
<1>12. TasksTyped'
  <2>1. \A u \in Tasks : RunOf(u)' <= Len(runs')
    <3>1. new <= new /\ \A u \in Tasks : RunOf(u) <= new BY <1>3, <1>11 DEF new
    <3> QED BY <3>1, <1>2, <1>8, <1>9 DEF RunOf
  <2>2. \A u \in Tasks : task'[u].pc \in {"collect", "store", "fail"} => RunOf(u)' # 0
    BY <1>3, <1>8, <1>9 DEF TasksTyped, RunOf
  <2>3. \A u, v \in Tasks : RunOf(u)' = RunOf(v)' /\ RunOf(u)' # 0 => u = v
    BY <1>8, <1>9, <1>11 DEF TasksTyped, RunOf
  <2> QED BY <1>10, <2>1, <2>2, <2>3 DEF TasksTyped
<1>13. \A r \in Stores : Active(r) => r # new BY <1>3 DEF TablesInv, Storing, StoreOpen
<1>14. new \in Stores
  <2>1. MaxRuns \in Nat BY RunsAssumption
  <2> QED BY <2>1, <1>1, <1>3 DEF Stores, new
<1>15. Collecting'
  <2> SUFFICES ASSUME NEW u \in Tasks, task'[u].pc = "collect"
               PROVE /\ runs'[task'[u].run].job = u[2] /\ ~(tx'[task'[u].run].phase # "none")
                     /\ ~runs'[task'[u].run].kept /\ runs'[task'[u].run].status # "ok"
    BY DEF Collecting, RunOf, Active
  <2>1. CASE u = t BY <2>1, <1>1, <1>2, <1>4, <1>8, <1>13, <1>14 DEF Active
  <2>2. CASE u # t
    <3>1. task'[u] = task[u] /\ task[u].pc = "collect" BY <2>2, <1>9
    <3>2. RunOf(u) \in 1 .. Len(runs) BY <3>1, RunKnown
    <3>3. /\ runs[RunOf(u)].job = u[2] /\ ~Active(RunOf(u))
          /\ ~runs[RunOf(u)].kept /\ runs[RunOf(u)].status # "ok"
      BY <3>1 DEF Collecting
    <3>4. /\ runs'[RunOf(u)].job = u[2] /\ ~runs'[RunOf(u)].kept /\ runs'[RunOf(u)].status # "ok"
      BY <3>2, <3>3, <1>2 DEF RunsOnward
    <3> QED BY <3>1, <3>3, <3>4, <1>1 DEF RunOf, Active
  <2> QED BY <2>1, <2>2
<1>16. RowsTyped' BY <1>1, <1>2 DEF RowsTyped, RunsOnward
<1>17. StoresTyped' BY <1>1 DEF StoresTyped
<1> QED BY <1>6, <1>12, <1>15, <1>16, <1>17

\* A batch of a collector, and its parts.
LEMMA BatchTyped ==
    ASSUME NEW t \in Tasks, NEW batch \in Batches[t[2]]
    PROVE /\ batch \in AnyBatch /\ batch.records \in Seq(Hashes) /\ Range(batch.records) \subseteq Hashes
          /\ IsFiniteSet(batch.fills) /\ batch.fills \subseteq ExecIds
<1>1. batch \in AnyBatch BY DEF AnyBatch, Jobs
<1>2. Range(batch.records) \subseteq Hashes /\ batch.fills \subseteq ExecIds
  <2> HIDE DEF AnyBatch
  <2> QED BY <1>1 DEF Hashes, ExecIds
<1>3. batch.records \in Seq(Range(batch.records)) /\ IsFiniteSet(batch.fills) BY BatchAssumption
<1>4. batch.records \in Seq(Hashes)
  <2> HIDE DEF Hashes
  <2>1. DOMAIN batch.records = 1 .. Len(batch.records) /\ Len(batch.records) \in Nat BY <1>3
  <2>2. \A n \in 1 .. Len(batch.records) : batch.records[n] \in Hashes BY <1>2, <2>1 DEF Range
  <2>3. batch.records = [n \in 1 .. Len(batch.records) |-> batch.records[n]] BY <1>3, <2>1
  <2>4. batch.records \in [1 .. Len(batch.records) -> Hashes] BY <2>2, <2>3
  <2> QED BY <2>1, <2>4
<1> QED BY <1>1, <1>2, <1>3, <1>4

LEMMA CollectKeeps == ASSUME CollectorsInv, NEW t \in Tasks, CollectEnds(t) PROVE CollectorsInv'
<1> USE DEF CollectorsInv
<1>0. PICK r : r = RunOf(t) OBVIOUS
<1>1. PICK batch \in Batches[t[2]], partial \in BOOLEAN :
         /\ tx' = [tx EXCEPT ![r] =
               [phase |-> "records", batch |-> batch, seen |-> Range(batch.records) \cap records,
                todo |-> batch.records, new |-> {}, found |-> {}]]
         /\ runs' = [runs EXCEPT ![r].took = batch, ![r].partial = partial]
  BY <1>0 DEF CollectEnds
<1> DEFINE opened == [phase |-> "records", batch |-> batch, seen |-> Range(batch.records) \cap records,
                      todo |-> batch.records, new |-> {}, found |-> {}]
<1>2. /\ task[t].pc = "collect" /\ Goto(t, "store") /\ UNCHANGED <<records, fills>>
      /\ overlapped' = (overlapped \/ \E q \in Stores : Active(q) /\ runs[q].job = t[2])
  BY DEF CollectEnds, At, rows
<1>3. r \in 1 .. Len(runs) /\ r \in Stores /\ DOMAIN runs = 1 .. Len(runs) BY <1>0, <1>2, RunKnown
<1>4. /\ runs[r].job = t[2] /\ ~Active(r) /\ ~runs[r].kept /\ runs[r].status # "ok"
  BY <1>0, <1>2 DEF Collecting
<1>5. /\ batch \in AnyBatch /\ batch.records \in Seq(Hashes) /\ Range(batch.records) \subseteq Hashes
  BY BatchTyped
<1>6. opened \in StoreRow
  <2> HIDE DEF AnyBatch, Hashes, ExecIds
  <2> QED BY <1>5 DEF StoreRow
<1>7. tx'[r] = opened /\ \A q \in Stores : q # r => tx'[q] = tx[q] BY <1>1, <1>3 DEF StoresTyped
<1>8. StoresTyped'
  <2>1. \A q \in Stores : tx[q] \in StoreRow
    <3> HIDE DEF StoreRow
    <3> QED BY DEF StoresTyped
  <2>2. tx' = [q \in Stores |-> tx'[q]] BY <1>1 DEF StoresTyped
  <2> HIDE DEF StoreRow, opened
  <2>3. \A q \in Stores : tx'[q] \in StoreRow BY <1>6, <1>7, <2>1
  <2> QED BY <2>2, <2>3 DEF StoresTyped
<1>9. runs[r] \in RunRow /\ Len(runs) \in Nat
  <2> HIDE DEF RunRow
  <2> QED BY <1>3 DEF RowsTyped
<1>10. /\ runs'[r].job = t[2] /\ runs'[r].took = batch /\ ~runs'[r].kept /\ runs'[r].status # "ok"
       /\ runs'[r] \in RunRow
  <2>1. runs'[r] = [runs[r] EXCEPT !.took = batch, !.partial = partial] BY <1>1, <1>3
  <2>2. runs'[r] = [job |-> runs[r].job, status |-> runs[r].status, partial |-> partial,
                    by |-> runs[r].by, took |-> batch, kept |-> runs[r].kept]
    BY <1>9, <2>1 DEF RunRow
  <2>3. runs'[r].job = runs[r].job /\ runs'[r].took = batch /\ runs'[r].kept = runs[r].kept
        /\ runs'[r].status = runs[r].status
    BY <2>2
  <2>4. /\ runs[r].job \in Jobs /\ runs[r].status \in {"running", "ok", "failed"} /\ runs[r].by \in Tasks
        /\ runs[r].kept \in BOOLEAN
    BY <1>9 DEF RunRow
  <2>5. [job |-> runs[r].job, status |-> runs[r].status, partial |-> partial,
         by |-> runs[r].by, took |-> batch, kept |-> runs[r].kept] \in RunRow
    BY <1>5, <2>4, Zenon DEF RunRow
  <2> QED BY <1>4, <2>2, <2>3, <2>5
<1>11. DOMAIN runs' = 1 .. Len(runs) /\ \A q \in 1 .. Len(runs) : q # r => runs'[q] = runs[q]
  BY <1>1, <1>3
<1>12. runs' \in Seq(RunRow) /\ Len(runs') = Len(runs)
  <2>1. \A q \in 1 .. Len(runs) : runs[q] \in RunRow
    <3> HIDE DEF RunRow
    <3> QED BY DEF RowsTyped
  <2>2. runs' = [q \in 1 .. Len(runs) |-> runs'[q]] BY <1>1, <1>3
  <2>3. \A q \in 1 .. Len(runs) : runs'[q] \in RunRow BY <1>10, <1>11, <2>1
  <2> HIDE DEF RunRow
  <2>4. runs' \in [1 .. Len(runs) -> RunRow] BY <2>2, <2>3
  <2> QED BY <1>9, <2>4
<1>13. RowsTyped' BY <1>2, <1>12 DEF RowsTyped
<1>14. TasksOnward BY <1>2, TaskGoes
<1>15. TasksTyped' BY <1>9, <1>12, <1>14, TasksKept
<1> HIDE DEF opened
<1>16. Collecting'
  <2> SUFFICES ASSUME NEW u \in Tasks, task'[u].pc = "collect"
               PROVE /\ runs'[task'[u].run].job = u[2] /\ ~(tx'[task'[u].run].phase # "none")
                     /\ ~runs'[task'[u].run].kept /\ runs'[task'[u].run].status # "ok"
    BY DEF Collecting, RunOf, Active
  <2>1. task[u].pc = "collect" /\ task'[u].run = RunOf(u) BY <1>14 DEF TasksOnward, RunOf
  <2>2. u # t
    <3>1. task'[t].pc = "store" BY <1>2 DEF Goto, TasksTyped
    <3> QED BY <3>1
  <2>3. RunOf(u) \in 1 .. Len(runs) /\ RunOf(u) \in Stores BY <2>1, RunKnown
  <2>4. RunOf(u) # r
    <3>1. RunOf(u) # 0 BY <2>1 DEF TasksTyped
    <3> QED BY <1>0, <2>2, <3>1 DEF TasksTyped
  <2>5. /\ runs[RunOf(u)].job = u[2] /\ ~Active(RunOf(u))
        /\ ~runs[RunOf(u)].kept /\ runs[RunOf(u)].status # "ok"
    BY <2>1 DEF Collecting
  <2>6. runs'[RunOf(u)] = runs[RunOf(u)] /\ tx'[RunOf(u)] = tx[RunOf(u)] BY <1>7, <1>11, <2>3, <2>4
  <2> QED BY <2>1, <2>5, <2>6 DEF Active
<1>17. ASSUME NEW q \in Stores, q # r, Active(q)'
       PROVE Active(q) /\ StoreOpen(q) /\ runs'[q] = runs[q] /\ StoreOpen(q)'
  <2>1. tx'[q] = tx[q] /\ Active(q) BY <1>7, <1>17 DEF Active
  <2>2. StoreOpen(q) BY <2>1 DEF TablesInv, Storing
  <2>3. runs'[q] = runs[q] BY <1>11, <1>17, <2>2 DEF StoreOpen
  <2> QED BY <1>2, <1>12, <2>1, <2>2, <2>3 DEF StoreOpen
<1>18. StoreOpen(r)'
  <2>1. tx'[r].phase = "records" /\ tx'[r].batch = batch /\ tx'[r].seen = Range(batch.records) \cap records
        /\ tx'[r].todo = batch.records /\ tx'[r].found = {}
    BY <1>7 DEF opened
  <2>2. /\ r \in 1 .. Len(runs') /\ ~runs'[r].kept /\ runs'[r].status # "ok"
        /\ tx'[r].batch = runs'[r].took /\ runs'[r].took \in Batches[runs'[r].job]
    BY <1>3, <1>10, <1>12, <2>1
  <2>3. tx'[r].seen \subseteq records' BY <1>2, <2>1
  <2>4. Range(tx'[r].batch.records) \subseteq Range(tx'[r].todo) BY <2>1
  <2>5. tx'[r].phase # "finish" /\ tx'[r].found \subseteq tx'[r].batch.fills BY <2>1
  <2> QED BY <2>2, <2>3, <2>4, <2>5 DEF StoreOpen
<1>19. Storing' BY <1>17, <1>18 DEF Storing
<1>20. Apart'
  <2> SUFFICES ASSUME ~overlapped'
               PROVE /\ \A p, q \in Stores : Active(p)' /\ Active(q)' /\ runs'[p].job = runs'[q].job => p = q
                     /\ \A q \in Stores : Active(q)' => tx'[q].found \cap Range(fills') = {}
    BY DEF Apart
  <2>1. ~overlapped /\ \A q \in Stores : Active(q) => runs[q].job # t[2] BY <1>2
  <2>2. \A p, q \in Stores : Active(p) /\ Active(q) /\ runs[p].job = runs[q].job => p = q
    BY <2>1 DEF TablesInv, Apart
  <2>3. \A q \in Stores : q # r /\ Active(q)' => Active(q) /\ runs'[q].job = runs[q].job BY <1>17
  <2>4. \A q \in Stores : q # r /\ Active(q)' => runs'[q].job # runs'[r].job BY <1>10, <2>1, <2>3
  <2>5. \A p, q \in Stores : Active(p)' /\ Active(q)' /\ runs'[p].job = runs'[q].job => p = q
    BY <2>2, <2>3, <2>4
  <2>6. ASSUME NEW q \in Stores, Active(q)' PROVE tx'[q].found \cap Range(fills') = {}
    <3>1. CASE q = r BY <1>7, <3>1 DEF opened
    <3>2. CASE q # r
      <4>1. Active(q) /\ tx'[q] = tx[q] BY <1>7, <1>17, <2>6, <3>2
      <4> QED BY <1>2, <2>1, <4>1 DEF TablesInv, Apart
    <3> QED BY <3>1, <3>2
  <2> QED BY <2>5, <2>6
<1>21. RunTellsStore'
  <2>1. ASSUME NEW q \in 1 .. Len(runs), q # r
        PROVE /\ runs'[q].status = "ok" =>
                    /\ Range(runs'[q].took.records) \subseteq records
                    /\ runs'[q].took.fills \subseteq Range(fills)
              /\ runs'[q].kept => runs'[q].status = "ok" \/ runs'[q].partial
    <3>1. runs'[q] = runs[q] BY <1>11, <2>1
    <3>2. /\ runs[q].status = "ok" =>
               /\ Range(runs[q].took.records) \subseteq records
               /\ runs[q].took.fills \subseteq Range(fills)
          /\ runs[q].kept => runs[q].status = "ok" \/ runs[q].partial
      BY <1>3 DEF TablesInv, RunTellsStore
    <3> QED BY <3>1, <3>2
  <2> QED BY <1>2, <1>10, <1>11, <2>1 DEF RunTellsStore
<1>22. FillsOnce'
  <2>1. overlapped => overlapped' BY <1>2
  <2> QED BY <1>2, <2>1 DEF TablesInv, FillsOnce
<1> QED BY <1>8, <1>13, <1>15, <1>16, <1>19, <1>20, <1>21, <1>22 DEF TablesInv

\* A store that goes on to row x.
LEMMA StoreGoesOn ==
    ASSUME CollectorsInv, NEW r \in Stores, Active(r), NEW x \in StoreRow, x.phase # "none",
           tx' = [tx EXCEPT ![r] = x], UNCHANGED <<task, runs, records, fills, overlapped>>,
           StoreOpen(r)', ~overlapped => x.found \cap Range(fills) = {}
    PROVE CollectorsInv'
<1> USE DEF CollectorsInv
<1>1. tx'[r] = x /\ \A q \in Stores : q # r => tx'[q] = tx[q] BY DEF StoresTyped
<1>2. StoresTyped'
  <2> HIDE DEF StoreRow
  <2>1. \A q \in Stores : tx'[q] \in StoreRow BY <1>1 DEF StoresTyped
  <2>2. tx' = [q \in Stores |-> tx'[q]] BY DEF StoresTyped
  <2> QED BY <2>1, <2>2 DEF StoresTyped
<1>3. RowsTyped' /\ TasksTyped' BY DEF RowsTyped, TasksTyped, RunOf
<1>4. \A q \in Stores : Active(q)' <=> Active(q) BY <1>1 DEF Active
<1>5. Collecting'
  <2> SUFFICES ASSUME NEW t \in Tasks, task[t].pc = "collect"
               PROVE /\ runs[RunOf(t)].job = t[2] /\ ~(tx'[RunOf(t)].phase # "none")
                     /\ ~runs[RunOf(t)].kept /\ runs[RunOf(t)].status # "ok"
    BY DEF Collecting, RunOf, Active
  <2>1. RunOf(t) \in Stores BY RunKnown
  <2>2. /\ runs[RunOf(t)].job = t[2] /\ ~Active(RunOf(t))
        /\ ~runs[RunOf(t)].kept /\ runs[RunOf(t)].status # "ok"
    BY DEF Collecting
  <2>3. RunOf(t) # r BY <2>2
  <2> QED BY <2>1, <2>2, <2>3, <1>1 DEF Active
<1>6. Storing'
  <2>1. ASSUME NEW q \in Stores, q # r, Active(q)' PROVE StoreOpen(q)'
    <3>1. tx'[q] = tx[q] /\ StoreOpen(q) BY <1>1, <1>4, <2>1 DEF TablesInv, Storing
    <3> QED BY <3>1 DEF StoreOpen
  <2> QED BY <2>1 DEF Storing
<1>7. Apart'
  <2> SUFFICES ASSUME ~overlapped
               PROVE /\ \A p, q \in Stores : Active(p)' /\ Active(q)' /\ runs[p].job = runs[q].job => p = q
                     /\ \A q \in Stores : Active(q)' => tx'[q].found \cap Range(fills) = {}
    BY DEF Apart
  <2>1. ASSUME NEW q \in Stores, Active(q)' PROVE tx'[q].found \cap Range(fills) = {}
    <3>1. CASE q = r BY <1>1, <3>1
    <3>2. CASE q # r BY <1>1, <1>4, <2>1, <3>2 DEF TablesInv, Apart
    <3> QED BY <3>1, <3>2
  <2> QED BY <1>4, <2>1 DEF TablesInv, Apart
<1>8. RunTellsStore' /\ FillsOnce' BY DEF TablesInv, RunTellsStore, FillsOnce
<1> QED BY <1>2, <1>3, <1>5, <1>6, <1>7, <1>8 DEF TablesInv

LEMMA RowOfStore ==
    ASSUME CollectorsInv, NEW r \in Stores
    PROVE /\ tx[r] \in StoreRow
          /\ tx[r] = [phase |-> tx[r].phase, batch |-> tx[r].batch, seen |-> tx[r].seen,
                      todo |-> tx[r].todo, new |-> tx[r].new, found |-> tx[r].found]
          /\ tx[r].phase \in {"none", "records", "finish"} /\ tx[r].batch \in AnyBatch
          /\ tx[r].seen \subseteq Hashes /\ tx[r].todo \in Seq(Hashes) /\ tx[r].new \subseteq Hashes
          /\ tx[r].found \subseteq ExecIds
<1>1. tx[r] \in StoreRow
  <2> HIDE DEF StoreRow
  <2> QED BY DEF CollectorsInv, StoresTyped
<1> HIDE DEF AnyBatch, Hashes, ExecIds
<1> QED BY <1>1 DEF StoreRow

\* The records there are to insert: the next, and the others.
LEMMA NextRecord ==
    ASSUME NEW H, NEW s \in Seq(H), s # <<>>
    PROVE /\ Head(s) \in H /\ Tail(s) \in Seq(H) /\ Range(s) = {Head(s)} \cup Range(Tail(s))
<1>1. Len(s) \in Nat /\ Len(s) # 0 /\ DOMAIN s = 1 .. Len(s) BY s # <<>>
<1>2. Head(s) = s[1] /\ Tail(s) \in Seq(H) /\ Len(Tail(s)) = Len(s) - 1
      /\ \A n \in 1 .. Len(s) - 1 : Tail(s)[n] = s[n + 1]
  BY <1>1
<1>3. DOMAIN Tail(s) = 1 .. Len(s) - 1 BY <1>1, <1>2
<1>4. ASSUME NEW h \in Range(s) PROVE h = Head(s) \/ h \in Range(Tail(s))
  <2>1. PICK n \in 1 .. Len(s) : s[n] = h BY <1>1, <1>4 DEF Range
  <2>2. CASE n = 1 BY <1>2, <2>1, <2>2
  <2>3. CASE n # 1
    <3>1. n - 1 \in 1 .. Len(s) - 1 /\ (n - 1) + 1 = n BY <1>1, <2>1, <2>3
    <3>2. Tail(s)[n - 1] = h BY <1>2, <2>1, <3>1
    <3> QED BY <1>3, <3>1, <3>2 DEF Range
  <2> QED BY <2>2, <2>3
<1>5. ASSUME NEW h \in Range(Tail(s)) PROVE h \in Range(s)
  <2>1. PICK n \in 1 .. Len(s) - 1 : Tail(s)[n] = h BY <1>3, <1>5 DEF Range
  <2>2. s[n + 1] = h /\ n + 1 \in 1 .. Len(s) BY <1>1, <1>2, <2>1
  <2> QED BY <1>1, <2>2 DEF Range
<1>6. 1 \in 1 .. Len(s) BY <1>1
<1>7. Head(s) \in Range(s) BY <1>1, <1>2, <1>6 DEF Range
<1>8. Head(s) \in H BY <1>2, <1>6
<1> QED BY <1>2, <1>4, <1>5, <1>7, <1>8

\* The row of a store, and fields of it that change.
StoreOf(p, c, s, t, n, f) ==
    [phase |-> p, batch |-> c, seen |-> s, todo |-> t, new |-> n, found |-> f]
Inserting(y, a, b) == [y EXCEPT !.todo = a, !.new = b]

LEMMA RowChanged ==
    ASSUME NEW y, NEW a, NEW b, y = StoreOf(y.phase, y.batch, y.seen, y.todo, y.new, y.found)
    PROVE Inserting(y, a, b) = StoreOf(y.phase, y.batch, y.seen, a, b, y.found)
<1>1. PICK p, c, s, t, n, f :
         p = y.phase /\ c = y.batch /\ s = y.seen /\ t = y.todo /\ n = y.new /\ f = y.found
  OBVIOUS
<1>2. y = [phase |-> p, batch |-> c, seen |-> s, todo |-> t, new |-> n, found |-> f]
  BY <1>1 DEF StoreOf
<1>3. [y EXCEPT !.todo = a] = [phase |-> p, batch |-> c, seen |-> s, todo |-> a, new |-> n, found |-> f]
  BY <1>2
<1>4. ASSUME NEW z, z = [phase |-> p, batch |-> c, seen |-> s, todo |-> a, new |-> n, found |-> f]
      PROVE [z EXCEPT !.new = b] = [phase |-> p, batch |-> c, seen |-> s, todo |-> a, new |-> b, found |-> f]
  BY <1>4
<1>5. [y EXCEPT !.todo = a, !.new = b] = [[y EXCEPT !.todo = a] EXCEPT !.new = b] OBVIOUS
<1>6. [y EXCEPT !.todo = a, !.new = b] =
         [phase |-> p, batch |-> c, seen |-> s, todo |-> a, new |-> b, found |-> f]
  BY <1>3, <1>4, <1>5
<1> QED BY <1>1, <1>6 DEF StoreOf, Inserting

LEMMA FoundChanged ==
    ASSUME NEW p, NEW c, NEW s, NEW t, NEW n, NEW f, NEW b
    PROVE [StoreOf(p, c, s, t, n, f) EXCEPT !.found = b] = StoreOf(p, c, s, t, n, b)
BY DEF StoreOf

LEMMA PhaseChanged ==
    ASSUME NEW p, NEW c, NEW s, NEW t, NEW n, NEW f, NEW a
    PROVE [StoreOf(p, c, s, t, n, f) EXCEPT !.phase = a] = StoreOf(a, c, s, t, n, f)
BY DEF StoreOf

LEMMA InsertKeeps == ASSUME CollectorsInv, NEW r \in Stores, InsertRecord(r) PROVE CollectorsInv'
<1> DEFINE record == Head(tx[r].todo)
           held == \E q \in Stores \ {r} : record \in tx[q].new
           duplicate == record \in tx[r].seen \cup records \cup tx[r].new \/ held
           added == IF duplicate THEN tx[r].new ELSE tx[r].new \cup {record}
           x == [phase |-> "records", batch |-> tx[r].batch, seen |-> tx[r].seen,
                 todo |-> Tail(tx[r].todo), new |-> added, found |-> tx[r].found]
<1>1. /\ tx[r].phase = "records" /\ tx[r].todo # <<>> /\ Unblocked(r)
      /\ UNCHANGED <<task, runs, records, fills, overlapped>>
  BY DEF InsertRecord, rows
<1>2. /\ tx[r] \in StoreRow
      /\ tx[r] = [phase |-> tx[r].phase, batch |-> tx[r].batch, seen |-> tx[r].seen,
                  todo |-> tx[r].todo, new |-> tx[r].new, found |-> tx[r].found]
      /\ tx[r].batch \in AnyBatch
      /\ tx[r].seen \subseteq Hashes /\ tx[r].todo \in Seq(Hashes) /\ tx[r].new \subseteq Hashes
      /\ tx[r].found \subseteq ExecIds
  BY RowOfStore
<1>3. tx' = [tx EXCEPT ![r].todo = Tail(@), ![r].new = IF duplicate THEN @ ELSE @ \cup {record}]
  BY DEF InsertRecord
<1>4. record \in Hashes /\ Tail(tx[r].todo) \in Seq(Hashes)
      /\ Range(tx[r].todo) = {record} \cup Range(Tail(tx[r].todo))
  <2> HIDE DEF Hashes
  <2> QED BY <1>1, <1>2, NextRecord
<1>5. held => record \in tx[r].seen BY <1>1 DEF Unblocked, Waits
<1>6. StoreOpen(r) BY <1>1 DEF CollectorsInv, TablesInv, Storing, Active
<1>7. record \in records \cup added /\ tx[r].new \subseteq added BY <1>5, <1>6 DEF StoreOpen
<1>8. added \subseteq Hashes
  <2> HIDE DEF Hashes, duplicate, record
  <2> QED BY <1>2, <1>4
<1> HIDE DEF record, duplicate, added
<1>9. tx' = [tx EXCEPT ![r] = x]
  <2>1. tx' = [tx EXCEPT ![r] = [tx[r] EXCEPT !.todo = Tail(@), !.new = IF duplicate THEN @ ELSE @ \cup {record}]]
    BY <1>3 DEF CollectorsInv, StoresTyped
  <2>2. [tx[r] EXCEPT !.todo = Tail(@), !.new = IF duplicate THEN @ ELSE @ \cup {record}] = x
    <3>1. [tx[r] EXCEPT !.todo = Tail(tx[r].todo), !.new = added] =
             [phase |-> tx[r].phase, batch |-> tx[r].batch, seen |-> tx[r].seen,
              todo |-> Tail(tx[r].todo), new |-> added, found |-> tx[r].found]
      <4> DEFINE y == tx[r]
                 todo == Tail(tx[r].todo)
      <4>1. y = StoreOf(y.phase, y.batch, y.seen, y.todo, y.new, y.found) BY <1>2 DEF StoreOf
      <4> HIDE DEF y, todo
      <4>2. Inserting(y, todo, added) = StoreOf(y.phase, y.batch, y.seen, todo, added, y.found)
        BY <4>1, RowChanged
      <4> QED BY <4>2 DEF y, todo, Inserting, StoreOf
    <3>2. [tx[r] EXCEPT !.todo = Tail(@), !.new = IF duplicate THEN @ ELSE @ \cup {record}] =
             [tx[r] EXCEPT !.todo = Tail(tx[r].todo), !.new = added]
      BY DEF added
    <3> QED BY <1>1, <3>1, <3>2
  <2> QED BY <2>1, <2>2
<1>10. x \in StoreRow
  <2> HIDE DEF Hashes, AnyBatch, ExecIds
  <2> QED BY <1>2, <1>4, <1>8 DEF StoreRow
<1>11. tx'[r] = x BY <1>9 DEF CollectorsInv, StoresTyped
<1>12. x.phase = "records" /\ x.batch = tx[r].batch /\ x.seen = tx[r].seen
       /\ x.todo = Tail(tx[r].todo) /\ x.new = added /\ x.found = tx[r].found
  OBVIOUS
<1> HIDE DEF x
<1>13. StoreOpen(r)'
  <2>1. Range(tx[r].batch.records) \subseteq records \cup added \cup Range(Tail(tx[r].todo))
    BY <1>4, <1>6, <1>7 DEF StoreOpen
  <2> QED BY <1>1, <1>6, <1>11, <1>12, <2>1 DEF StoreOpen
<1>14. Active(r) BY <1>1 DEF Active
<1>15. ~overlapped => x.found \cap Range(fills) = {}
  BY <1>12, <1>14 DEF CollectorsInv, TablesInv, Apart
<1> QED BY <1>1, <1>9, <1>10, <1>12, <1>13, <1>14, <1>15, StoreGoesOn

LEMMA FillsKeep == ASSUME CollectorsInv, NEW r \in Stores, AddFill(r) PROVE CollectorsInv'
<1>1. /\ tx[r].phase = "records" /\ tx[r].todo = <<>>
      /\ UNCHANGED <<task, runs, records, fills, overlapped>>
  BY DEF AddFill, rows
<1>2. /\ tx[r] \in StoreRow
      /\ tx[r] = [phase |-> tx[r].phase, batch |-> tx[r].batch, seen |-> tx[r].seen,
                  todo |-> tx[r].todo, new |-> tx[r].new, found |-> tx[r].found]
      /\ tx[r].batch \in AnyBatch
      /\ tx[r].seen \subseteq Hashes /\ tx[r].todo \in Seq(Hashes) /\ tx[r].new \subseteq Hashes
      /\ tx[r].found \subseteq ExecIds
  BY RowOfStore
<1>3. Active(r) /\ StoreOpen(r) BY <1>1 DEF CollectorsInv, TablesInv, Storing, Active
<1>4. /\ NewFills(r) = (tx[r].batch.fills \ tx[r].found) \ Range(fills)
      /\ tx[r].batch.fills \subseteq ExecIds
  <2>1. tx[r].batch.fills \subseteq ExecIds
    <3> HIDE DEF AnyBatch
    <3> QED BY <1>2 DEF ExecIds
  <2> QED BY <2>1 DEF NewFills, FillsLeft
<1>5. ~overlapped => tx[r].found \cap Range(fills) = {}
  BY <1>3 DEF CollectorsInv, TablesInv, Apart
<1>6. StoreOf(tx[r].phase, tx[r].batch, tx[r].seen, tx[r].todo, tx[r].new, tx[r].found) = tx[r]
  BY <1>2 DEF StoreOf
<1>7. ASSUME NEW phase \in {"records", "finish"}, NEW found \in SUBSET tx[r].batch.fills,
             tx' = [tx EXCEPT ![r] = StoreOf(phase, tx[r].batch, tx[r].seen, tx[r].todo, tx[r].new, found)],
             phase = "finish" => tx[r].batch.fills \subseteq found \cup Range(fills),
             ~overlapped => found \cap Range(fills) = {}
      PROVE CollectorsInv'
  <2> DEFINE x == StoreOf(phase, tx[r].batch, tx[r].seen, tx[r].todo, tx[r].new, found)
  <2>1. found \subseteq ExecIds BY <1>4, <1>7
  <2>2. x \in StoreRow
    <3> HIDE DEF Hashes, AnyBatch, ExecIds
    <3> QED BY <1>2, <1>7, <2>1 DEF StoreRow, StoreOf
  <2>3. tx' = [tx EXCEPT ![r] = x] BY <1>7
  <2>4. tx'[r] = x BY <2>3 DEF CollectorsInv, StoresTyped
  <2>5. x.phase = phase /\ x.batch = tx[r].batch /\ x.seen = tx[r].seen
        /\ x.todo = tx[r].todo /\ x.new = tx[r].new /\ x.found = found
    BY DEF StoreOf
  <2> HIDE DEF x
  <2>6. StoreOpen(r)' BY <1>1, <1>3, <1>7, <2>4, <2>5 DEF StoreOpen
  <2>7. x.phase # "none" BY <1>7, <2>5
  <2> QED BY <1>1, <1>3, <1>7, <2>2, <2>3, <2>5, <2>6, <2>7, StoreGoesOn
<1>8. CASE \E fill \in NewFills(r) : tx' = [tx EXCEPT ![r].found = @ \cup {fill}]
  <2>1. PICK fill \in NewFills(r) : tx' = [tx EXCEPT ![r].found = @ \cup {fill}] BY <1>8
  <2>2. PICK found : found = tx[r].found \cup {fill} OBVIOUS
  <2>3. found \in SUBSET tx[r].batch.fills BY <1>3, <1>4, <2>1, <2>2 DEF StoreOpen
  <2>4. ~overlapped => found \cap Range(fills) = {} BY <1>4, <1>5, <2>1, <2>2
  <2>5. tx' = [tx EXCEPT ![r] = [tx[r] EXCEPT !.found = found]]
    BY <2>1, <2>2 DEF CollectorsInv, StoresTyped
  <2>6. [tx[r] EXCEPT !.found = found] =
           StoreOf("records", tx[r].batch, tx[r].seen, tx[r].todo, tx[r].new, found)
    BY <1>1, <1>6, FoundChanged
  <2>7. tx' = [tx EXCEPT ![r] =
           StoreOf("records", tx[r].batch, tx[r].seen, tx[r].todo, tx[r].new, found)]
    BY <2>5, <2>6
  <2> QED BY <1>7, <2>3, <2>4, <2>7
<1>9. CASE NewFills(r) = {} /\ tx' = [tx EXCEPT ![r].phase = "finish"]
  <2>1. tx[r].batch.fills \subseteq tx[r].found \cup Range(fills) BY <1>4, <1>9
  <2>2. tx[r].found \in SUBSET tx[r].batch.fills BY <1>3 DEF StoreOpen
  <2>3. tx' = [tx EXCEPT ![r] = [tx[r] EXCEPT !.phase = "finish"]]
    BY <1>9 DEF CollectorsInv, StoresTyped
  <2>4. [tx[r] EXCEPT !.phase = "finish"] =
           StoreOf("finish", tx[r].batch, tx[r].seen, tx[r].todo, tx[r].new, tx[r].found)
    BY <1>6, PhaseChanged
  <2>5. tx' = [tx EXCEPT ![r] =
           StoreOf("finish", tx[r].batch, tx[r].seen, tx[r].todo, tx[r].new, tx[r].found)]
    BY <2>3, <2>4
  <2> QED BY <1>5, <1>7, <2>1, <2>2, <2>5
<1> QED BY <1>8, <1>9 DEF AddFill

\* A finite set in an order.
LEMMA OrderOf ==
    ASSUME NEW S, IsFiniteSet(S), NEW order \in SetToSeqs(S)
    PROVE /\ order \in Seq(S) /\ Range(order) = S
          /\ \A m, n \in DOMAIN order : order[m] = order[n] => m = n
<1>1. Cardinality(S) \in Nat BY FS_CardinalityType
<1> DEFINE D == 1 .. Cardinality(S)
<1>2. order \in [D -> S] /\ \A i, j \in D : i # j => order[i] # order[j] BY DEF SetToSeqs
<1>3. IsFiniteSet(D) /\ Cardinality(D) = Cardinality(S)
  <2>1. 1 \in Int /\ Cardinality(S) \in Int BY <1>1
  <2>2. IsFiniteSet(D) /\ Cardinality(D) = IF 1 > Cardinality(S) THEN 0 ELSE Cardinality(S) - 1 + 1
    BY <2>1, FS_Interval
  <2> HIDE DEF D
  <2> QED BY <1>1, <2>2
<1>4. order \in Seq(S) BY <1>1, <1>2
<1> HIDE DEF D
<1>5. order \in Injection(D, S) BY <1>2 DEF Injection, IsInjective
<1>6. order \in Surjection(D, S) BY <1>3, <1>5, FS_Injection
<1>7. \A x \in S : \E i \in D : order[i] = x BY <1>6 DEF Surjection
<1>8. DOMAIN order = D BY <1>2
<1> QED BY <1>2, <1>4, <1>7, <1>8 DEF Range

\* Sequences with nothing in common, one after the other.
LEMMA AppendedApart ==
    ASSUME NEW R, NEW a \in Seq(R), NEW b \in Seq(R)
    PROVE /\ a \o b \in Seq(R) /\ Range(a \o b) = Range(a) \cup Range(b)
          /\ (/\ \A m, n \in DOMAIN a : a[m] = a[n] => m = n
              /\ \A m, n \in DOMAIN b : b[m] = b[n] => m = n
              /\ Range(a) \cap Range(b) = {})
                => \A m, n \in DOMAIN (a \o b) : (a \o b)[m] = (a \o b)[n] => m = n
<1> DEFINE c == a \o b
<1>1. Len(a) \in Nat /\ Len(b) \in Nat /\ c \in Seq(R) /\ Len(c) = Len(a) + Len(b) OBVIOUS
<1>2. DOMAIN a = 1 .. Len(a) /\ DOMAIN b = 1 .. Len(b) /\ DOMAIN c = 1 .. Len(a) + Len(b) BY <1>1
<1>3. \A n \in 1 .. Len(a) : c[n] = a[n] BY <1>1
<1>4. \A n \in 1 .. Len(a) + Len(b) : n \notin 1 .. Len(a) => n - Len(a) \in 1 .. Len(b) /\ c[n] = b[n - Len(a)]
  BY <1>1
<1> HIDE DEF c
<1>5. ASSUME NEW x \in Range(c) PROVE x \in Range(a) \cup Range(b)
  <2>1. PICK n \in 1 .. Len(a) + Len(b) : c[n] = x BY <1>2, <1>5 DEF Range
  <2>2. CASE n \in 1 .. Len(a) BY <1>2, <1>3, <2>1, <2>2 DEF Range
  <2>3. CASE n \notin 1 .. Len(a)
    <3>1. n - Len(a) \in 1 .. Len(b) /\ b[n - Len(a)] = x BY <1>4, <2>1, <2>3
    <3> QED BY <1>2, <3>1 DEF Range
  <2> QED BY <2>2, <2>3
<1>6. ASSUME NEW x \in Range(a) PROVE x \in Range(c)
  <2>1. PICK n \in 1 .. Len(a) : a[n] = x BY <1>2, <1>6 DEF Range
  <2>2. n \in 1 .. Len(a) + Len(b) BY <1>1, <2>1
  <2> QED BY <1>2, <1>3, <2>1, <2>2 DEF Range
<1>7. ASSUME NEW x \in Range(b) PROVE x \in Range(c)
  <2>1. PICK n \in 1 .. Len(b) : b[n] = x BY <1>2, <1>7 DEF Range
  <2>2. /\ Len(a) + n \in 1 .. Len(a) + Len(b) /\ Len(a) + n \notin 1 .. Len(a)
        /\ (Len(a) + n) - Len(a) = n
    BY <1>1, <2>1
  <2>3. c[Len(a) + n] = x BY <1>4, <2>1, <2>2
  <2> QED BY <1>2, <2>2, <2>3 DEF Range
<1>8. ASSUME \A m, n \in DOMAIN a : a[m] = a[n] => m = n, \A m, n \in DOMAIN b : b[m] = b[n] => m = n,
             Range(a) \cap Range(b) = {}, NEW m \in DOMAIN c, NEW n \in DOMAIN c, c[m] = c[n]
      PROVE m = n
  <2>1. CASE m \in 1 .. Len(a) /\ n \in 1 .. Len(a) BY <1>2, <1>3, <1>8, <2>1
  <2>2. CASE m \notin 1 .. Len(a) /\ n \notin 1 .. Len(a)
    <3>1. /\ m - Len(a) \in 1 .. Len(b) /\ c[m] = b[m - Len(a)]
          /\ n - Len(a) \in 1 .. Len(b) /\ c[n] = b[n - Len(a)]
      BY <1>2, <1>4, <2>2
    <3>2. m - Len(a) = n - Len(a) BY <1>2, <1>8, <3>1
    <3> QED BY <1>1, <1>2, <3>2
  <2>3. \A i, k \in DOMAIN c : i \in 1 .. Len(a) /\ k \notin 1 .. Len(a) => c[i] # c[k]
    <3> SUFFICES ASSUME NEW i \in 1 .. Len(a), NEW k \in DOMAIN c, k \notin 1 .. Len(a) PROVE c[i] # c[k]
      OBVIOUS
    <3>1. k - Len(a) \in 1 .. Len(b) /\ c[k] = b[k - Len(a)] BY <1>2, <1>4
    <3>2. c[i] \in Range(a) /\ c[k] \in Range(b) BY <1>2, <1>3, <3>1 DEF Range
    <3> QED BY <1>8, <3>2
  <2> QED BY <1>8, <2>1, <2>2, <2>3
<1> QED BY <1>1, <1>5, <1>6, <1>7, <1>8 DEF c

\* The commit of a store.
LEMMA CommitKeeps ==
    ASSUME CollectorsInv, NEW r \in Stores, tx[r].phase = "finish", Running(r), CommitRows(r),
           TasksOnward, UNCHANGED overlapped
    PROVE CollectorsInv'
<1> USE DEF CollectorsInv
<1>1. StoreOpen(r) /\ Active(r) BY DEF TablesInv, Storing, Active
<1>2. /\ r \in 1 .. Len(runs) /\ tx[r].todo = <<>> /\ tx[r].batch = runs[r].took
      /\ runs[r].took \in Batches[runs[r].job]
      /\ Range(tx[r].batch.records) \subseteq records \cup tx[r].new
      /\ tx[r].batch.fills \subseteq tx[r].found \cup Range(fills) /\ tx[r].found \subseteq tx[r].batch.fills
  <2>1. Range(<<>>) = {} BY DEF Range
  <2> QED BY <1>1, <2>1 DEF StoreOpen
<1>3. Len(runs) \in Nat /\ DOMAIN runs = 1 .. Len(runs) /\ \A q \in 1 .. Len(runs) : runs[q] \in RunRow
  <2> HIDE DEF RunRow
  <2> QED BY DEF RowsTyped
<1>4. \A q \in 1 .. Len(runs) : \E t \in Tasks : runs[q].job = t[2] BY <1>3 DEF RunRow, Jobs
<1>5. PICK order \in SetToSeqs(tx[r].found) : fills' = fills \o order BY DEF CommitRows
<1>6. /\ order \in Seq(tx[r].found) /\ Range(order) = tx[r].found
      /\ \A m, n \in DOMAIN order : order[m] = order[n] => m = n
  <2>1. PICK t \in Tasks : runs[r].job = t[2] BY <1>2, <1>4
  <2>2. IsFiniteSet(tx[r].batch.fills) BY <1>2, <2>1, BatchAssumption
  <2>3. IsFiniteSet(tx[r].found) BY <1>2, <2>2, FS_Subset
  <2> QED BY <2>3, OrderOf
<1>7. order \in Seq(ExecIds)
  <2>1. tx[r].found \subseteq ExecIds BY RowOfStore
  <2> HIDE DEF ExecIds
  <2>2. Len(order) \in Nat /\ order \in [1 .. Len(order) -> tx[r].found] BY <1>6
  <2>3. order \in [1 .. Len(order) -> ExecIds] BY <2>1, <2>2
  <2> QED BY <2>2, <2>3
<1>8. /\ fills' \in Seq(ExecIds) /\ Range(fills') = Range(fills) \cup tx[r].found
  <2> HIDE DEF ExecIds
  <2> QED BY <1>5, <1>6, <1>7, AppendedApart DEF RowsTyped
<1>9. /\ records' = records \cup tx[r].new /\ tx' = [tx EXCEPT ![r] = NoStore]
      /\ runs' = [EndRun(r, IF runs[r].partial THEN "failed" ELSE "ok") EXCEPT ![r].kept = TRUE]
  BY DEF CommitRows
<1> DEFINE status == IF runs[r].partial THEN "failed" ELSE "ok"
           ended == [job |-> runs[r].job, status |-> status, partial |-> runs[r].partial,
                   by |-> runs[r].by, took |-> runs[r].took, kept |-> TRUE]
<1>10. runs' = [runs EXCEPT ![r] = ended]
  <2>1. EndRun(r, status) = [runs EXCEPT ![r] = [runs[r] EXCEPT !.status = status]]
    <3>1. EndRun(r, status) = [runs EXCEPT ![r].status = IF @ = "running" THEN status ELSE @] BY DEF EndRun
    <3> HIDE DEF status, RunRow
    <3>2. runs[r].status = "running" BY DEF Running
    <3> QED BY <1>3, <3>1, <3>2
  <2> HIDE DEF status
  <2>2. runs[r] \in RunRow BY <1>2, <1>3
  <2>3. [runs[r] EXCEPT !.status = status] =
           [job |-> runs[r].job, status |-> status, partial |-> runs[r].partial,
            by |-> runs[r].by, took |-> runs[r].took, kept |-> runs[r].kept]
    <3> HIDE DEF AnyBatch, Jobs
    <3> QED BY <2>2 DEF RunRow
  <2>4. [[runs[r] EXCEPT !.status = status] EXCEPT !.kept = TRUE] = ended
    <3>1. PICK j, s, p, b, t, k :
             /\ j = runs[r].job /\ s = status /\ p = runs[r].partial /\ b = runs[r].by
             /\ t = runs[r].took /\ k = runs[r].kept
      OBVIOUS
    <3>2. [runs[r] EXCEPT !.status = status] =
             [job |-> j, status |-> s, partial |-> p, by |-> b, took |-> t, kept |-> k]
      BY <2>3, <3>1
    <3>3. ASSUME NEW v
          PROVE [[job |-> j, status |-> s, partial |-> p, by |-> b, took |-> t, kept |-> k] EXCEPT !.kept = v] =
                   [job |-> j, status |-> s, partial |-> p, by |-> b, took |-> t, kept |-> v]
      OBVIOUS
    <3> HIDE DEF status
    <3>4. ended = [job |-> j, status |-> s, partial |-> p, by |-> b, took |-> t, kept |-> TRUE]
      BY <3>1
    <3> QED BY <3>2, <3>3, <3>4
  <2>5. runs' = [[runs EXCEPT ![r] = [runs[r] EXCEPT !.status = status]] EXCEPT ![r].kept = TRUE]
    BY <1>9, <2>1 DEF status
  <2>6. \A z : [[runs EXCEPT ![r] = z] EXCEPT ![r].kept = TRUE] = [runs EXCEPT ![r] = [z EXCEPT !.kept = TRUE]]
    <3> HIDE DEF RunRow
    <3> QED BY <1>2, <1>3
  <2> HIDE DEF ended
  <2> QED BY <2>4, <2>5, <2>6
<1>11. ended \in RunRow
  <2>1. runs[r] \in RunRow BY <1>2, <1>3
  <2>2. /\ runs[r].job \in Jobs /\ status \in {"running", "ok", "failed"} /\ runs[r].partial \in BOOLEAN
        /\ runs[r].by \in Tasks /\ runs[r].took \in AnyBatch
    <3> HIDE DEF AnyBatch, Jobs
    <3> QED BY <2>1 DEF RunRow
  <2> HIDE DEF status
  <2> QED BY <2>2, Zenon DEF RunRow
<1>12. /\ ended.job = runs[r].job /\ ended.status = status /\ ended.partial = runs[r].partial
       /\ ended.took = runs[r].took /\ ended.kept
  OBVIOUS
<1>13. status = "ok" \/ runs[r].partial OBVIOUS
<1> HIDE DEF ended, status
<1>14. runs'[r] = ended /\ DOMAIN runs' = 1 .. Len(runs)
       /\ \A q \in 1 .. Len(runs) : q # r => runs'[q] = runs[q]
  BY <1>2, <1>3, <1>10
<1>15. runs' \in Seq(RunRow) /\ Len(runs') = Len(runs)
  <2> HIDE DEF RunRow
  <2>1. runs' = [q \in 1 .. Len(runs) |-> runs'[q]] BY <1>3, <1>10
  <2>2. \A q \in 1 .. Len(runs) : runs'[q] \in RunRow BY <1>3, <1>11, <1>14
  <2>3. runs' \in [1 .. Len(runs) -> RunRow] BY <2>1, <2>2
  <2> QED BY <1>3, <2>3
<1>16. RowsTyped' BY <1>8, <1>15 DEF RowsTyped
<1>17. StoresTyped' BY <1>9, RolledBack DEF StoresTyped
<1>18. TasksTyped' BY <1>3, <1>15, TasksKept
<1>19. tx'[r] = NoStore /\ \A q \in Stores : q # r => tx'[q] = tx[q] BY <1>9 DEF StoresTyped
<1>20. ~Active(r)' BY <1>19 DEF Active, NoStore
<1>21. ASSUME NEW q \in Stores, Active(q)'
       PROVE q # r /\ tx'[q] = tx[q] /\ Active(q) /\ StoreOpen(q) /\ runs'[q] = runs[q] /\ StoreOpen(q)'
  <2>1. q # r /\ tx'[q] = tx[q] /\ Active(q) BY <1>19, <1>20, <1>21 DEF Active
  <2>2. StoreOpen(q) BY <2>1 DEF TablesInv, Storing
  <2>3. runs'[q] = runs[q] BY <1>14, <2>1, <2>2 DEF StoreOpen
  <2>4. records \subseteq records' /\ Range(fills) \subseteq Range(fills') BY <1>8, <1>9
  <2>5. StoreOpen(q)' BY <1>15, <2>1, <2>2, <2>3, <2>4 DEF StoreOpen
  <2> QED BY <2>1, <2>2, <2>3, <2>5
<1>22. Collecting'
  <2> SUFFICES ASSUME NEW u \in Tasks, task'[u].pc = "collect"
               PROVE /\ runs'[task'[u].run].job = u[2] /\ ~(tx'[task'[u].run].phase # "none")
                     /\ ~runs'[task'[u].run].kept /\ runs'[task'[u].run].status # "ok"
    BY DEF Collecting, RunOf, Active
  <2>1. task[u].pc = "collect" /\ task'[u].run = RunOf(u) BY DEF TasksOnward, RunOf
  <2>2. RunOf(u) \in 1 .. Len(runs) /\ RunOf(u) \in Stores BY <2>1, RunKnown
  <2>3. /\ runs[RunOf(u)].job = u[2] /\ ~Active(RunOf(u))
        /\ ~runs[RunOf(u)].kept /\ runs[RunOf(u)].status # "ok"
    BY <2>1 DEF Collecting
  <2>4. RunOf(u) # r BY <1>1, <2>3
  <2>5. runs'[RunOf(u)] = runs[RunOf(u)] /\ tx'[RunOf(u)] = tx[RunOf(u)] BY <1>14, <1>19, <2>2, <2>4
  <2> QED BY <2>1, <2>3, <2>5 DEF Active
<1>23. Storing' BY <1>21 DEF Storing
<1>24. ASSUME ~overlapped, NEW q \in Stores, q # r, Active(q)
       PROVE runs[q].job # runs[r].job /\ tx[q].batch.fills \cap tx[r].batch.fills = {}
  <2>1. runs[q].job # runs[r].job BY <1>1, <1>24 DEF TablesInv, Apart
  <2>2. StoreOpen(q) BY <1>24 DEF TablesInv, Storing
  <2>3. PICK t \in Tasks : runs[q].job = t[2] BY <1>4, <2>2 DEF StoreOpen
  <2>4. PICK u \in Tasks : runs[r].job = u[2] BY <1>2, <1>4
  <2>5. tx[q].batch \in Batches[t[2]] /\ tx[r].batch \in Batches[u[2]] BY <1>2, <2>2, <2>3, <2>4 DEF StoreOpen
  <2> QED BY <2>1, <2>3, <2>4, <2>5, BatchAssumption
<1>25. Apart'
  <2> SUFFICES ASSUME ~overlapped
               PROVE /\ \A p, q \in Stores : Active(p)' /\ Active(q)' /\ runs'[p].job = runs'[q].job => p = q
                     /\ \A q \in Stores : Active(q)' => tx'[q].found \cap Range(fills') = {}
    BY DEF Apart
  <2>1. \A p, q \in Stores : Active(p)' /\ Active(q)' /\ runs'[p].job = runs'[q].job => p = q
    BY <1>21 DEF TablesInv, Apart
  <2>2. ASSUME NEW q \in Stores, Active(q)' PROVE tx'[q].found \cap Range(fills') = {}
    <3>2. q # r /\ tx'[q] = tx[q] /\ Active(q) /\ StoreOpen(q) BY <1>21, <2>2
    <3>3. tx[q].found \cap Range(fills) = {} /\ tx[q].found \subseteq tx[q].batch.fills
      BY <3>2 DEF TablesInv, Apart, StoreOpen
    <3>4. tx[q].batch.fills \cap tx[r].batch.fills = {} BY <1>24, <3>2
    <3> QED BY <1>2, <1>8, <3>2, <3>3, <3>4
  <2> QED BY <2>1, <2>2
<1>26. RunTellsStore'
  <2> SUFFICES ASSUME NEW q \in 1 .. Len(runs)
               PROVE /\ runs'[q].status = "ok" =>
                           /\ Range(runs'[q].took.records) \subseteq records'
                           /\ runs'[q].took.fills \subseteq Range(fills')
                     /\ runs'[q].kept => runs'[q].status = "ok" \/ runs'[q].partial
    BY <1>14 DEF RunTellsStore
  <2>1. CASE q = r
    <3>1. Range(runs[r].took.records) \subseteq records' /\ runs[r].took.fills \subseteq Range(fills')
      BY <1>2, <1>8, <1>9
    <3> QED BY <2>1, <3>1, <1>12, <1>13, <1>14
  <2>2. CASE q # r
    <3>1. runs'[q] = runs[q] BY <1>14, <2>2
    <3>2. records \subseteq records' /\ Range(fills) \subseteq Range(fills') BY <1>8, <1>9
    <3>3. /\ runs[q].status = "ok" =>
                /\ Range(runs[q].took.records) \subseteq records
                /\ runs[q].took.fills \subseteq Range(fills)
          /\ runs[q].kept => runs[q].status = "ok" \/ runs[q].partial
      BY <1>3 DEF TablesInv, RunTellsStore
    <3> QED BY <3>1, <3>2, <3>3
  <2> QED BY <2>1, <2>2
<1>27. FillsOnce'
  <2> SUFFICES ASSUME ~overlapped
               PROVE \A m, n \in DOMAIN fills' : fills'[m] = fills'[n] => m = n
    BY DEF FillsOnce
  <2>1. \A m, n \in DOMAIN fills : fills[m] = fills[n] => m = n BY DEF TablesInv, FillsOnce
  <2>2. Range(fills) \cap Range(order) = {} BY <1>1, <1>6 DEF TablesInv, Apart
  <2> HIDE DEF ExecIds
  <2>3. fills \in Seq(ExecIds) BY DEF RowsTyped
  <2>4. \A m, n \in DOMAIN (fills \o order) : (fills \o order)[m] = (fills \o order)[n] => m = n
    BY <1>6, <1>7, <2>1, <2>2, <2>3, AppendedApart
  <2> QED BY <1>5, <2>4
<1> QED BY <1>16, <1>17, <1>18, <1>22, <1>23, <1>25, <1>26, <1>27 DEF TablesInv

LEMMA CollectorsStep ==
    ASSUME CollectorsInv, [CollectorsNext]_collectorsVars PROVE CollectorsInv'
<1>1. RowsTyped /\ StoresTyped /\ TasksTyped BY DEF CollectorsInv
<1>2. ASSUME NEW t \in Tasks, StartRun(t) PROVE CollectorsInv' BY <1>2, StartKeeps
<1>3. ASSUME NEW t \in Tasks, CollectFails(t) PROVE CollectorsInv'
  <2>1. task[t].pc = "collect" /\ Goto(t, "fail") /\ UNCHANGED <<tx, runs, records, fills, overlapped>>
    BY <1>3 DEF CollectFails, At, rows
  <2>2. TasksOnward BY <1>1, <2>1, TaskGoes
  <2> QED BY <1>1, <2>1, <2>2, RunsUnchanged, StoresUnchanged, Onward
<1>4. ASSUME NEW t \in Tasks, CollectEnds(t) PROVE CollectorsInv' BY <1>4, CollectKeeps
<1>5. ASSUME NEW t \in Tasks, Fail(t) PROVE CollectorsInv'
  <2>1. /\ task[t].pc = "fail" /\ Goto(t, "idle") /\ runs' = EndRun(RunOf(t), "failed")
        /\ UNCHANGED <<tx, records, fills, overlapped>>
    BY <1>5 DEF Fail, At, rows
  <2>2. TasksOnward BY <1>1, <2>1, TaskGoes
  <2>3. RunsOnward BY <1>1, <2>1, RunKnown, RunEnded
  <2> QED BY <1>1, <2>1, <2>2, <2>3, StoresUnchanged, Onward
<1>6. ASSUME NEW t \in Tasks, CancelOutside(t) PROVE CollectorsInv'
  <2>1. Cancelled(t, "gone") /\ UNCHANGED <<tx, records, fills, overlapped>>
    BY <1>6 DEF CancelOutside, rows
  <2>2. TasksOnward BY <1>1, <2>1, TaskOn DEF Cancelled
  <2>3. RunsOnward
    <3>1. \/ task[t].pc = "fail" /\ runs' = EndRun(RunOf(t), "failed")
          \/ UNCHANGED runs
          \/ Len(runs) < MaxRuns /\ runs' = Append(runs, Run(t))
      BY <1>6 DEF CancelOutside
    <3>2. CASE task[t].pc = "fail" /\ runs' = EndRun(RunOf(t), "failed") BY <1>1, <3>2, RunKnown, RunEnded
    <3>3. CASE UNCHANGED runs BY <1>1, <3>3, RunsUnchanged
    <3>4. CASE Len(runs) < MaxRuns /\ runs' = Append(runs, Run(t)) BY <1>1, <3>4, RunBegins
    <3> QED BY <3>1, <3>2, <3>3, <3>4
  <2> QED BY <1>1, <2>1, <2>2, <2>3, StoresUnchanged, Onward
<1>7. ASSUME NEW t \in Tasks, CancelInside(t) PROVE CollectorsInv'
  <2>1. /\ task[t].pc \in {"collect", "store"} /\ runs' = EndRun(RunOf(t), "failed")
        /\ Cancelled(t, IF Running(RunOf(t)) THEN "gone" ELSE "idle")
        /\ UNCHANGED <<tx, records, fills, overlapped>>
    BY <1>7 DEF CancelInside, ToCancel, rows
  <2>2. TasksOnward
    <3>1. CASE Running(RunOf(t)) BY <1>1, <2>1, <3>1, TaskOn DEF Cancelled
    <3>2. CASE ~Running(RunOf(t)) BY <1>1, <2>1, <3>2, TaskOn DEF Cancelled
    <3> QED BY <3>1, <3>2
  <2>3. RunsOnward BY <1>1, <2>1, RunKnown, RunEnded
  <2> QED BY <1>1, <2>1, <2>2, <2>3, StoresUnchanged, Onward
<1>8. ASSUME NEW t \in Tasks, CommitThenCancel(t) PROVE CollectorsInv'
  <2>1. /\ task[t].pc = "store" /\ tx[RunOf(t)].phase = "finish" /\ Running(RunOf(t))
        /\ CommitRows(RunOf(t)) /\ Cancelled(t, "idle") /\ UNCHANGED overlapped
    BY <1>8 DEF CommitThenCancel, ToCancel
  <2>2. TasksOnward BY <1>1, <2>1, TaskOn DEF Cancelled
  <2>3. RunOf(t) \in Stores BY <2>1, RunKnown
  <2> QED BY <2>1, <2>2, <2>3, CommitKeeps
<1>9. ASSUME NEW r \in Stores, InsertRecord(r) PROVE CollectorsInv' BY <1>9, InsertKeeps
<1>10. ASSUME NEW r \in Stores, AddFill(r) PROVE CollectorsInv' BY <1>10, FillsKeep
<1>11. ASSUME NEW r \in Stores, RollBack(r), Return(r, "fail"), UNCHANGED overlapped PROVE CollectorsInv'
  <2>1. tx' = [tx EXCEPT ![r] = NoStore] /\ UNCHANGED <<runs, records, fills>> BY <1>11 DEF RollBack, rows
  <2>2. TasksOnward BY <1>1, <1>11, TaskReturns
  <2> QED BY <1>1, <1>11, <2>1, <2>2, RunsUnchanged, RolledBack, Onward
<1>12. ASSUME NEW r \in Stores, FinishStore(r) PROVE CollectorsInv'
  <2>1. tx[r].phase = "finish" /\ Finish(r) /\ UNCHANGED overlapped BY <1>12 DEF FinishStore
  <2>2. CASE Running(r) /\ CommitRows(r) /\ Return(r, "idle")
    <3>1. TasksOnward BY <1>1, <2>2, TaskReturns
    <3> QED BY <2>1, <2>2, <3>1, CommitKeeps
  <2>3. CASE ~Running(r) /\ RollBack(r) /\ Return(r, "fail") BY <1>11, <2>1, <2>3
  <2> QED BY <2>1, <2>2, <2>3 DEF Finish
<1>13. ASSUME NEW r \in Stores, Deadlock(r) PROVE CollectorsInv' BY <1>11, <1>13 DEF Deadlock
<1>14. ASSUME NEW r \in Stores, StoreBreaks(r) PROVE CollectorsInv' BY <1>11, <1>14 DEF StoreBreaks
<1>15. ASSUME NEW p \in Procs, StartProcess(p) PROVE CollectorsInv'
  <2>1. /\ runs' = [r \in DOMAIN runs |->
               IF Running(r) /\ runs[r].job \in Scope(p)
               THEN [runs[r] EXCEPT !.status = "failed"] ELSE runs[r]]
        /\ task' = [t \in Tasks |-> IF t[1] = p THEN Idle ELSE task[t]]
        /\ UNCHANGED <<tx, records, fills, overlapped>>
    BY <1>15 DEF StartProcess, rows
  <2>2. TasksOnward BY <1>1, <2>1, TasksReset
  <2>3. RunsOnward BY <1>1, <2>1, RunsClosed
  <2> QED BY <1>1, <2>1, <2>2, <2>3, StoresUnchanged, Onward
<1>16. ASSUME UNCHANGED <<task, tx, runs, records, fills, overlapped>> PROVE CollectorsInv'
  BY <1>1, <1>16, RunsUnchanged, StoresUnchanged, TasksUnchanged, Onward
<1>17. ASSUME NEW p \in Procs, Shutdown(p) PROVE CollectorsInv' BY <1>16, <1>17 DEF Shutdown, rows
<1>18. ASSUME NEW p \in Procs, Exit(p) PROVE CollectorsInv' BY <1>16, <1>18 DEF Exit, rows
<1>19. ASSUME NEW p \in Procs, Kill(p) PROVE CollectorsInv'
  <2>1. /\ task' = [t \in Tasks |-> IF t[1] = p THEN Gone ELSE task[t]]
        /\ tx' = [r \in Stores |-> IF r \in StoresOf(p) THEN NoStore ELSE tx[r]]
        /\ UNCHANGED <<runs, records, fills, overlapped>>
    BY <1>19 DEF Kill, rows
  <2>2. TasksOnward BY <1>1, <2>1, TasksReset
  <2>3. StoresOnward /\ tx' \in [Stores -> StoreRow] BY <1>1, <2>1, GivenUp
  <2> QED BY <1>1, <2>1, <2>2, <2>3, RunsUnchanged, Onward
<1>20. CASE UNCHANGED collectorsVars BY <1>16, <1>20 DEF collectorsVars
<1> QED BY <1>2, <1>3, <1>4, <1>5, <1>6, <1>7, <1>8, <1>9, <1>10, <1>12, <1>13, <1>14, <1>15,
           <1>17, <1>18, <1>19, <1>20 DEF CollectorsNext

LEMMA CollectorsStart == CollectorsInit => CollectorsInv
<1> SUFFICES ASSUME CollectorsInit PROVE CollectorsInv OBVIOUS
<1>1. /\ task = [t \in Tasks |-> Gone] /\ tx = [r \in Stores |-> NoStore] /\ runs = <<>> /\ fills = <<>>
  BY DEF CollectorsInit
<1>2. RowsTyped
  <2>1. Len(<<>>) = 0 /\ 0 <= MaxRuns BY RunsAssumption
  <2> HIDE DEF RunRow, ExecIds
  <2> QED BY <1>1, <2>1 DEF RowsTyped
<1>3. StoresTyped BY <1>1, NoStoreTyped DEF StoresTyped
<1>4. Gone \in TaskRow /\ Gone.pc = "gone" /\ Gone.run = 0 BY DEF Gone, TaskRow
<1> HIDE DEF Gone
<1>5. \A t \in Tasks : task[t] = Gone /\ RunOf(t) = 0 BY <1>1, <1>4 DEF RunOf
<1>6. TasksTyped
  <2>1. task \in [Tasks -> TaskRow]
    <3> HIDE DEF TaskRow
    <3> QED BY <1>1, <1>4
  <2>2. Len(runs) = 0 BY <1>1
  <2> QED BY <1>4, <1>5, <2>1, <2>2 DEF TasksTyped
<1>7. Collecting BY <1>4, <1>5 DEF Collecting
<1>8. \A r \in Stores : ~Active(r) /\ tx[r].phase = "none" BY <1>1 DEF Active, NoStore
<1>9. DOMAIN runs = {} /\ DOMAIN fills = {} BY <1>1
<1>10. TablesInv BY <1>8, <1>9 DEF TablesInv, Storing, Apart, RunTellsStore, FillsOnce
<1> QED BY <1>2, <1>3, <1>6, <1>7, <1>10 DEF CollectorsInv

\* What a run of a collector says is true of the tables (src/desk/collectors/runner.py:267),
\* whoever closes it and whatever becomes of its store.
THEOREM RunsTell == CollectorsSpec => []RunTellsStore
<1>1. CollectorsInv => RunTellsStore BY DEF CollectorsInv, TablesInv
<1> QED BY <1>1, CollectorsStart, CollectorsStep, PTL DEF CollectorsSpec

\* An execution is one fill, but for stores that overlap (src/desk/collectors/base.py:135).
THEOREM FillsKeptOnce == CollectorsSpec => []FillsOnce
<1>1. CollectorsInv => FillsOnce BY DEF CollectorsInv, TablesInv
<1> QED BY <1>1, CollectorsStart, CollectorsStep, PTL DEF CollectorsSpec
=============================================================================
