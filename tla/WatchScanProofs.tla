-------------------------- MODULE WatchScanProofs --------------------------
(***************************************************************************)
(* Proofs about WatchScan: whatever two scans write twice, they wrote at   *)
(* the same time.  The cooldown, the promotion of a symbol and the limit   *)
(* of promotions are kept by any number of scans that do not overlap, and  *)
(* a filing that is read again and again fires once.                       *)
(***************************************************************************)
EXTENDS WatchScan, FiniteSetTheorems, TLAPS

\* t fired less than a cooldown before u, or with it.
Close(t, u) == t.hit = u.hit /\ t.at <= u.at /\ t.at >= u.at - CooldownOf(u.hit)

\* q was made while p had its symbol in Tier 1.
Near(p, q) == p.symbol = q.symbol /\ p.at <= q.at /\ p.expires >= Day(q.at)

Expiry(at) == AddTradingDays(Day(at), PromotionDays)

IsRow(row) ==
    row = [pc |-> row.pc, began |-> row.began, promoted |-> row.promoted, todo |-> row.todo,
           rows |-> row.rows, promotes |-> row.promotes, filings |-> row.filings]

Shape ==
    /\ now \in Nat
    /\ scan = [i \in Scans |-> scan[i]]
    /\ \A i \in Scans :
          /\ IsRow(scan[i])
          /\ scan[i].pc \in {"new", "run", "ended"}
          /\ scan[i].pc # "run" => scan[i].rows = {} /\ scan[i].promotes = {}
          /\ scan[i].began \in Nat /\ scan[i].began <= now

\* What a scan has written, and what scans have committed.
Written ==
    \A i \in Scans :
        /\ \A t \in scan[i].rows : t.by = i /\ t.at \in Nat /\ t.at <= now
        /\ \A p \in scan[i].promotes : p.by = i /\ p.at = scan[i].began /\ p.expires = Expiry(p.at)

Committed ==
    /\ \A t \in triggers : /\ t.by \in Scans /\ scan[t.by].pc = "ended"
                           /\ t.at \in Nat /\ t.at <= now
    /\ \A p \in promotions : /\ p.by \in Scans /\ scan[p.by].pc = "ended"
                             /\ p.at \in Nat /\ p.at <= now /\ p.expires = Expiry(p.at)

\* The scans that run now overlap, and one that began later than one of them did.
Together ==
    /\ \A i, j \in Running : i # j => {i, j} \in over
    /\ \A i \in Running : \A p \in promotions : p.at > scan[i].began => {p.by, i} \in over

TriggersApart ==
    \A i \in Scans : \A u \in scan[i].rows :
        /\ \A t \in scan[i].rows : t # u => ~Close(t, u)
        /\ \A t \in triggers : Close(t, u) \/ Close(u, t) => {t.by, i} \in over

PromotionsApart ==
    \A i \in Scans : \A q \in scan[i].promotes :
        /\ \A p \in scan[i].promotes : p # q => ~Near(p, q)
        /\ \A p \in promotions : Near(p, q) \/ Near(q, p) => {p.by, i} \in over

Frame == Shape /\ Written /\ Committed /\ Together

-----------------------------------------------------------------------------

LEMMA CooldownType == ASSUME NEW hit PROVE CooldownOf(hit) \in Nat
<1>1. Cooldown \in Nat /\ NewsCooldown \in Nat
  BY LimitAssumption
<1>2. QED
  BY <1>1 DEF CooldownOf

Updated(row, todo, rows, promotes) ==
    [row EXCEPT !.todo = todo, !.rows = rows, !.promotes = promotes]

\* The fields of a row of scan after an update.
LEMMA RowUpdated ==
    ASSUME NEW row, IsRow(row), NEW todo, NEW rows, NEW promotes
    PROVE  Updated(row, todo, rows, promotes)
           = [pc |-> row.pc, began |-> row.began, promoted |-> row.promoted, todo |-> todo,
              rows |-> rows, promotes |-> promotes, filings |-> row.filings]
<1> DEFINE pc == row.pc
           began == row.began
           promoted == row.promoted
           t == row.todo
           r == row.rows
           p == row.promotes
           filings == row.filings
<1>0. row = [pc |-> pc, began |-> began, promoted |-> promoted, todo |-> t,
             rows |-> r, promotes |-> p, filings |-> filings]
  BY DEF IsRow
<1> HIDE DEF pc, began, promoted, t, r, p, filings
<1> DEFINE first == [row EXCEPT !.todo = todo]
           second == [first EXCEPT !.rows = rows]
<1>1. first = [pc |-> pc, began |-> began, promoted |-> promoted, todo |-> todo,
               rows |-> r, promotes |-> p, filings |-> filings]
  BY <1>0
<1>2. Updated(row, todo, rows, promotes) = [second EXCEPT !.promotes = promotes]
  BY DEF Updated
<1> HIDE DEF first
<1>3. second = [pc |-> pc, began |-> began, promoted |-> promoted, todo |-> todo,
                rows |-> rows, promotes |-> p, filings |-> filings]
  BY <1>1
<1> HIDE DEF second
<1>4. [second EXCEPT !.promotes = promotes]
      = [pc |-> pc, began |-> began, promoted |-> promoted, todo |-> todo,
         rows |-> rows, promotes |-> promotes, filings |-> filings]
  BY <1>3
<1>5. QED
  BY <1>2, <1>4 DEF pc, began, promoted, filings

\* What a step of emit does to the scan that takes it.
LEMMA EmitHit ==
    ASSUME Shape, NEW i \in Scans, Emit(i)
    PROVE  /\ scan[i].pc = "run" /\ scan'[i].pc = "run" /\ scan'[i].began = scan[i].began
           /\ \A j \in Scans : j # i => scan'[j] = scan[j]
           /\ UNCHANGED <<now, triggers, promotions, over>>
           /\ scan'[i].filings = scan[i].filings
           /\ \E hit \in scan[i].todo :
                 /\ scan'[i].todo = scan[i].todo \ {hit}
                 /\ \/ InCooldown(i, hit) /\ scan'[i].rows = scan[i].rows
                    \/ /\ ~InCooldown(i, hit)
                       /\ \E t : /\ t.hit = hit /\ t.at = now /\ t.by = i /\ t.began = scan[i].began
                                 /\ scan'[i].rows = scan[i].rows \cup {t}
                 /\ \/ scan'[i].promotes = scan[i].promotes
                    \/ /\ MayPromote(i, Subject(hit))
                       /\ \E p : /\ p.symbol = Subject(hit) /\ p.at = scan[i].began /\ p.by = i
                                 /\ p.expires = Expiry(p.at)
                                 /\ scan'[i].promotes = scan[i].promotes \cup {p}
           /\ Shape'
<1>1. PICK hit \in scan[i].todo :
          LET trigger == [hit |-> hit, tier |-> Tier(Subject(hit), scan[i].promoted), at |-> now,
                          by |-> i, began |-> scan[i].began]
              promotion == [symbol |-> Subject(hit), trigger |-> hit, at |-> scan[i].began, by |-> i,
                            expires |-> AddTradingDays(Day(scan[i].began), PromotionDays)]
          IN  scan' = [scan EXCEPT
                 ![i].todo = @ \ {hit},
                 ![i].rows = IF InCooldown(i, hit) THEN @ ELSE @ \cup {trigger},
                 ![i].promotes = IF ~InCooldown(i, hit) /\ Promotes(i, hit)
                                 THEN @ \cup {promotion} ELSE @]
  BY DEF Emit
<1> DEFINE trigger == [hit |-> hit, tier |-> Tier(Subject(hit), scan[i].promoted), at |-> now,
                       by |-> i, began |-> scan[i].began]
           promotion == [symbol |-> Subject(hit), trigger |-> hit, at |-> scan[i].began, by |-> i,
                         expires |-> AddTradingDays(Day(scan[i].began), PromotionDays)]
<1>2. scan' = [scan EXCEPT
                 ![i].todo = @ \ {hit},
                 ![i].rows = IF InCooldown(i, hit) THEN @ ELSE @ \cup {trigger},
                 ![i].promotes = IF ~InCooldown(i, hit) /\ Promotes(i, hit)
                                 THEN @ \cup {promotion} ELSE @]
  BY <1>1
<1>3. /\ trigger.hit = hit /\ trigger.at = now /\ trigger.by = i /\ trigger.began = scan[i].began
      /\ promotion.symbol = Subject(hit) /\ promotion.at = scan[i].began /\ promotion.by = i
      /\ promotion.expires = Expiry(promotion.at)
  BY DEF Expiry
<1> HIDE DEF trigger, promotion
<1>4. /\ scan'[i].pc = scan[i].pc /\ scan'[i].began = scan[i].began
      /\ scan'[i].filings = scan[i].filings /\ scan'[i].todo = scan[i].todo \ {hit}
      /\ scan'[i].rows = IF InCooldown(i, hit) THEN scan[i].rows ELSE scan[i].rows \cup {trigger}
      /\ scan'[i].promotes = IF ~InCooldown(i, hit) /\ Promotes(i, hit)
                             THEN scan[i].promotes \cup {promotion} ELSE scan[i].promotes
      /\ \A j \in Scans : j # i => scan'[j] = scan[j]
  BY <1>2 DEF Shape
<1>5. Promotes(i, hit) => MayPromote(i, Subject(hit))
  BY DEF Promotes
<1>6. scan[i].pc = "run" /\ UNCHANGED <<now, triggers, promotions, over>>
  BY DEF Emit, tables
<1>7. scan'[i] = [pc |-> scan[i].pc, began |-> scan[i].began, promoted |-> scan[i].promoted,
                  todo |-> scan'[i].todo, rows |-> scan'[i].rows,
                  promotes |-> scan'[i].promotes, filings |-> scan[i].filings]
  <2> DEFINE todo == scan[i].todo \ {hit}
             rows == IF InCooldown(i, hit) THEN scan[i].rows ELSE scan[i].rows \cup {trigger}
             promotes == IF ~InCooldown(i, hit) /\ Promotes(i, hit)
                         THEN scan[i].promotes \cup {promotion} ELSE scan[i].promotes
  <2>1. scan' = [scan EXCEPT ![i].todo = todo, ![i].rows = rows, ![i].promotes = promotes]
    BY <1>2
  <2> HIDE DEF todo, rows, promotes
  <2>2. scan' = [scan EXCEPT ![i] = Updated(scan[i], todo, rows, promotes)]
    BY <2>1 DEF Shape, Updated
  <2>3. scan'[i] = Updated(scan[i], todo, rows, promotes)
    BY <2>2 DEF Shape
  <2>4. Updated(scan[i], todo, rows, promotes)
        = [pc |-> scan[i].pc, began |-> scan[i].began, promoted |-> scan[i].promoted,
           todo |-> todo, rows |-> rows, promotes |-> promotes, filings |-> scan[i].filings]
    <3>1. IsRow(scan[i])
      BY DEF Shape
    <3>2. QED
      BY <3>1, RowUpdated
  <2>5. QED
    BY <2>3, <2>4
<1>8. scan' = [j \in Scans |-> scan'[j]]
  BY <1>2 DEF Shape
<1>9. Shape'
  BY <1>4, <1>6, <1>7, <1>8 DEF Shape, IsRow
<1>10. QED
  BY <1>3, <1>4, <1>5, <1>6, <1>9

\* The same without the hit itself.
LEMMA EmitFacts ==
    ASSUME Shape, NEW i \in Scans, Emit(i)
    PROVE  /\ scan[i].pc = "run" /\ scan'[i].pc = "run" /\ scan'[i].began = scan[i].began
           /\ \A j \in Scans : j # i => scan'[j] = scan[j]
           /\ UNCHANGED <<now, triggers, promotions, over>>
           /\ \E hit :
                 /\ \/ scan'[i].rows = scan[i].rows
                    \/ /\ ~InCooldown(i, hit)
                       /\ \E t : /\ t.hit = hit /\ t.at = now /\ t.by = i
                                 /\ scan'[i].rows = scan[i].rows \cup {t}
                 /\ \/ scan'[i].promotes = scan[i].promotes
                    \/ /\ MayPromote(i, Subject(hit))
                       /\ \E p : /\ p.symbol = Subject(hit) /\ p.at = scan[i].began /\ p.by = i
                                 /\ p.expires = Expiry(p.at)
                                 /\ scan'[i].promotes = scan[i].promotes \cup {p}
           /\ Shape'
<1>1. PICK hit \in scan[i].todo :
         /\ \/ InCooldown(i, hit) /\ scan'[i].rows = scan[i].rows
            \/ /\ ~InCooldown(i, hit)
               /\ \E t : /\ t.hit = hit /\ t.at = now /\ t.by = i /\ t.began = scan[i].began
                         /\ scan'[i].rows = scan[i].rows \cup {t}
         /\ \/ scan'[i].promotes = scan[i].promotes
            \/ /\ MayPromote(i, Subject(hit))
               /\ \E p : /\ p.symbol = Subject(hit) /\ p.at = scan[i].began /\ p.by = i
                         /\ p.expires = Expiry(p.at)
                         /\ scan'[i].promotes = scan[i].promotes \cup {p}
  BY EmitHit
<1>2. \/ scan'[i].rows = scan[i].rows
      \/ /\ ~InCooldown(i, hit)
         /\ \E t : /\ t.hit = hit /\ t.at = now /\ t.by = i
                   /\ scan'[i].rows = scan[i].rows \cup {t}
  BY <1>1, Zenon
<1>3. QED
  BY <1>1, <1>2, EmitHit

\* A scan begins.
LEMMA StartHits ==
    ASSUME Shape, NEW i \in Scans, Start(i)
    PROVE  /\ scan[i].pc = "new" /\ scan'[i].pc = "run" /\ scan'[i].began = now
           /\ scan'[i].rows = {} /\ scan'[i].promotes = {}
           /\ \E job : /\ scan'[i].todo = Hits(job, Promoted(Day(now)), now)
                       /\ scan'[i].filings = IF job.group = "news" THEN Filings(Promoted(Day(now)), now) ELSE {}
                       /\ job.group \in {"intraday", "futures", "close", "news", "commodity"}
           /\ \A j \in Scans : j # i => scan'[j] = scan[j]
           /\ over' = over \cup {{i, j} : j \in Running}
           /\ UNCHANGED <<now, triggers, promotions>>
           /\ Shape'
<1> DEFINE promoted == Promoted(Day(now))
           Began(job) == [Unused EXCEPT !.pc = "run", !.began = now, !.promoted = promoted,
                             !.todo = Hits(job, promoted, now),
                             !.filings = IF job.group = "news" THEN Filings(promoted, now) ELSE {}]
<1>1. \E queued \in now - QueueDelay .. now : \E job \in ScanJobs(queued) :
          scan' = [scan EXCEPT ![i] = Began(job)]
  BY Zenon DEF Start
<1>2. PICK job : /\ scan' = [scan EXCEPT ![i] = Began(job)]
                 /\ job.group \in {"intraday", "futures", "close", "news", "commodity"}
  <2>1. PICK queued, job : job \in ScanJobs(queued) /\ scan' = [scan EXCEPT ![i] = Began(job)]
    BY <1>1
  <2>2. job.group \in {"intraday", "futures", "close", "news", "commodity"}
    BY <2>1 DEF ScanJobs, Job
  <2> QED
    BY <2>1, <2>2
<1> DEFINE todo == Hits(job, promoted, now)
           filings == IF job.group = "news" THEN Filings(promoted, now) ELSE {}
<1>3. scan' = [scan EXCEPT ![i] = [Unused EXCEPT !.pc = "run", !.began = now, !.promoted = promoted,
                                      !.todo = todo, !.filings = filings]]
  BY <1>2
<1> HIDE DEF promoted, todo, filings
<1>4. scan[i].pc = "new" /\ over' = over \cup {{i, j} : j \in Running}
      /\ UNCHANGED <<now, triggers, promotions>>
  BY DEF Start, tables
<1>5. scan'[i] = [pc |-> "run", began |-> now, promoted |-> promoted, todo |-> todo, rows |-> {},
                  promotes |-> {}, filings |-> filings]
  BY <1>3 DEF Shape, Unused
<1>6. \A j \in Scans : j # i => scan'[j] = scan[j]
  BY <1>3 DEF Shape
<1>7. scan' = [j \in Scans |-> scan'[j]]
  BY <1>3 DEF Shape
<1>8. Shape'
  BY <1>4, <1>5, <1>6, <1>7 DEF Shape, IsRow
<1>9. /\ scan'[i].todo = Hits(job, Promoted(Day(now)), now)
      /\ scan'[i].filings = IF job.group = "news" THEN Filings(Promoted(Day(now)), now) ELSE {}
  <2>1. scan'[i].todo = todo /\ scan'[i].filings = filings
    BY <1>5
  <2> QED
    BY <2>1, Zenon DEF todo, filings, promoted
<1>10. \E q : /\ scan'[i].todo = Hits(q, Promoted(Day(now)), now)
              /\ scan'[i].filings = IF q.group = "news" THEN Filings(Promoted(Day(now)), now) ELSE {}
              /\ q.group \in {"intraday", "futures", "close", "news", "commodity"}
  BY <1>2, <1>9, Zenon
<1>11. QED
  BY <1>4, <1>5, <1>6, <1>8, <1>10

\* The same without what it found.
LEMMA StartFacts ==
    ASSUME Shape, NEW i \in Scans, Start(i)
    PROVE  /\ scan[i].pc = "new" /\ scan'[i].pc = "run" /\ scan'[i].began = now
           /\ scan'[i].rows = {} /\ scan'[i].promotes = {}
           /\ \A j \in Scans : j # i => scan'[j] = scan[j]
           /\ over' = over \cup {{i, j} : j \in Running}
           /\ UNCHANGED <<now, triggers, promotions>>
           /\ Shape'
BY StartHits

\* A scan ends, with a commit or without.
LEMMA EndFacts ==
    ASSUME Shape, NEW i \in Scans, Commit(i) \/ RollBack(i)
    PROVE  /\ scan[i].pc = "run" /\ scan'[i].pc = "ended"
           /\ scan'[i].rows = {} /\ scan'[i].promotes = {}
           /\ \A j \in Scans : j # i => scan'[j] = scan[j]
           /\ UNCHANGED <<now, over>>
           /\ \/ triggers' = triggers \cup scan[i].rows /\ promotions' = promotions \cup scan[i].promotes
              \/ UNCHANGED <<triggers, promotions>>
           /\ Shape'
<1>1. /\ scan[i].pc = "run" /\ scan' = [scan EXCEPT ![i] = Ended]
      /\ UNCHANGED <<now, over>>
      /\ \/ triggers' = triggers \cup scan[i].rows /\ promotions' = promotions \cup scan[i].promotes
         \/ UNCHANGED <<triggers, promotions>>
  BY DEF Commit, RollBack, tables
<1>2. scan'[i] = [pc |-> "ended", began |-> 0, promoted |-> {}, todo |-> {}, rows |-> {},
                  promotes |-> {}, filings |-> {}]
  BY <1>1 DEF Shape, Ended, Unused
<1>3. \A j \in Scans : j # i => scan'[j] = scan[j]
  BY <1>1 DEF Shape
<1>4. scan' = [j \in Scans |-> scan'[j]]
  BY <1>1 DEF Shape
<1>5. Shape'
  BY <1>1, <1>2, <1>3, <1>4 DEF Shape, IsRow
<1>6. QED
  BY <1>1, <1>2, <1>3, <1>5

\* The other steps leave the tables and the scans alone.
Elsewhere == UNCHANGED <<scan, tables, over>> /\ (now' = now \/ now' = now + 1)

LEMMA Steps ==
    ASSUME [Next]_vars
    PROVE  \/ \E i \in Scans : Start(i) \/ Emit(i) \/ Commit(i) \/ RollBack(i)
           \/ Elsewhere
<1>1. CASE \E s \in Symbols : Quote(s)
  BY <1>1 DEF Quote, Elsewhere, tables
<1>2. CASE \E r \in Records : Store(r)
  BY <1>2 DEF Store, Elsewhere, tables
<1>3. CASE Tick
  BY <1>3 DEF Tick, Elsewhere, tables
<1>4. CASE UNCHANGED vars
  BY <1>4 DEF vars, Elsewhere, tables
<1>5. QED
  BY <1>1, <1>2, <1>3, <1>4 DEF Next

-----------------------------------------------------------------------------

LEMMA InitFrame == Init => Frame
<1> SUFFICES ASSUME Init PROVE Frame
  OBVIOUS
<1>1. Shape
  BY DEF Init, Shape, IsRow, Unused
<1>2. Written /\ Committed /\ Together
  BY DEF Init, Written, Committed, Together, Running, Unused
<1>3. QED
  BY <1>1, <1>2 DEF Frame

LEMMA FrameNext == ASSUME Frame, [Next]_vars PROVE Frame'
<1> USE DEF Frame
<1>1. ASSUME NEW i \in Scans, Start(i) PROVE Frame'
  <2> USE <1>1, StartFacts
  <2>1. Written'
    BY DEF Written
  <2>2. Committed'
    BY DEF Committed
  <2>3. Running' = Running \cup {i} /\ i \notin Running
    BY DEF Running
  <2>4. \A j, k \in Running' : j # k => {j, k} \in over'
    BY <2>3 DEF Together
  <2>5. \A j \in Running' : \A p \in promotions' : p.at > scan'[j].began => {p.by, j} \in over'
    <3> SUFFICES ASSUME NEW j \in Running', NEW p \in promotions, p.at > scan'[j].began
                 PROVE  {p.by, j} \in over'
      OBVIOUS
    <3>1. p.at \in Nat /\ p.at <= now /\ now \in Nat
      BY DEF Committed, Shape
    <3>2. j \in Running /\ scan'[j] = scan[j]
      BY <3>1, <2>3 DEF Running
    <3>3. QED
      BY <3>2 DEF Together
  <2>6. QED
    BY <2>1, <2>2, <2>4, <2>5 DEF Together
<1>2. ASSUME NEW i \in Scans, Emit(i) PROVE Frame'
  <2> USE <1>2, EmitFacts
  <2>1. Shape'
    OBVIOUS
  <2>2. Written'
    BY DEF Written, Shape
  <2>3. Committed'
    BY DEF Committed
  <2>4. Running' = Running /\ \A j \in Scans : scan'[j].began = scan[j].began
    BY DEF Running
  <2>5. Together'
    BY <2>4 DEF Together, Running
  <2>6. QED
    BY <2>1, <2>2, <2>3, <2>5
<1>3. ASSUME NEW i \in Scans, Commit(i) \/ RollBack(i) PROVE Frame'
  <2> USE <1>3, EndFacts
  <2>1. Written'
    BY DEF Written
  <2>2. Committed'
    BY DEF Committed, Written, Shape
  <2>3. Running' = Running \ {i} /\ i \in Running
    BY DEF Running
  <2>4. \A j \in Running' : \A p \in promotions' : p.at > scan'[j].began => {p.by, j} \in over'
    <3> SUFFICES ASSUME NEW j \in Running', NEW p \in promotions', p.at > scan'[j].began
                 PROVE  {p.by, j} \in over
      OBVIOUS
    <3>1. j \in Running /\ j # i /\ scan'[j] = scan[j]
      BY <2>3 DEF Running
    <3>2. CASE p \in promotions
      BY <3>1, <3>2 DEF Together
    <3>3. CASE p \in scan[i].promotes
      BY <2>3, <3>1, <3>3 DEF Together, Written
    <3>4. QED
      BY <3>2, <3>3
  <2>5. Together'
    BY <2>3, <2>4 DEF Together
  <2>6. QED
    BY <2>1, <2>2, <2>5
<1>4. CASE Elsewhere
  <2>1. Shape'
    BY <1>4 DEF Elsewhere, Shape
  <2>2. Written' /\ Committed' /\ Together'
    BY <1>4 DEF Elsewhere, tables, Shape, Written, Committed, Together, Running
  <2>3. QED
    BY <2>1, <2>2
<1>5. QED
  BY <1>1, <1>2, <1>3, <1>4, Steps

-----------------------------------------------------------------------------
(* The cooldown.                                                           *)

LEMMA TriggersNext ==
    ASSUME Frame, TriggersApart, OneTriggerPerCooldown, [Next]_vars
    PROVE  TriggersApart' /\ OneTriggerPerCooldown'
<1> USE DEF Frame
<1>1. ASSUME NEW i \in Scans, Start(i) PROVE TriggersApart' /\ OneTriggerPerCooldown'
  <2> USE <1>1, StartFacts
  <2>1. TriggersApart'
    BY DEF TriggersApart, Close
  <2>2. OneTriggerPerCooldown'
    BY DEF OneTriggerPerCooldown, Overlapped
  <2>3. QED
    BY <2>1, <2>2
<1>2. ASSUME NEW i \in Scans, Emit(i) PROVE TriggersApart' /\ OneTriggerPerCooldown'
  <2>1. /\ \A j \in Scans : j # i => scan'[j] = scan[j]
        /\ UNCHANGED <<now, triggers, promotions, over>>
    BY <1>2, EmitFacts
  <2>2. PICK hit :
            \/ scan'[i].rows = scan[i].rows
            \/ /\ ~InCooldown(i, hit)
               /\ \E t : /\ t.hit = hit /\ t.at = now /\ t.by = i
                         /\ scan'[i].rows = scan[i].rows \cup {t}
    BY <1>2, EmitFacts
  <2>3. TriggersApart'
    <3>1. CASE scan'[i].rows = scan[i].rows
      BY <2>1, <3>1 DEF TriggersApart, Close
    <3>2. ASSUME ~InCooldown(i, hit), NEW n, n.hit = hit, n.at = now,
                 scan'[i].rows = scan[i].rows \cup {n}
          PROVE  TriggersApart'
      <4>1. \A t \in triggers \cup scan[i].rows :
                t.at \in Nat /\ t.at <= now /\ now \in Nat /\ CooldownOf(hit) \in Nat
        BY CooldownType DEF Committed, Written, Shape
      <4>2. \A t \in triggers \cup scan[i].rows : ~Close(t, n) /\ ~Close(n, t)
        BY <3>2, <4>1 DEF InCooldown, Close
      <4>3. QED
        BY <2>1, <3>2, <4>2 DEF TriggersApart, Close
    <3>3. QED
      BY <2>2, <3>1, <3>2
  <2>4. OneTriggerPerCooldown'
    BY <2>1 DEF OneTriggerPerCooldown, Overlapped
  <2>5. QED
    BY <2>3, <2>4
<1>3. ASSUME NEW i \in Scans, Commit(i) \/ RollBack(i) PROVE TriggersApart' /\ OneTriggerPerCooldown'
  <2>1. /\ scan[i].pc = "run" /\ scan'[i].rows = {}
        /\ \A j \in Scans : j # i => scan'[j] = scan[j]
        /\ over' = over
        /\ \/ triggers' = triggers \cup scan[i].rows
           \/ triggers' = triggers
    BY <1>3, EndFacts
  <2>2. TriggersApart'
    <3> SUFFICES ASSUME NEW j \in Scans, NEW u \in scan'[j].rows
                 PROVE  /\ \A t \in scan'[j].rows : t # u => ~Close(t, u)
                        /\ \A t \in triggers' : Close(t, u) \/ Close(u, t) => {t.by, j} \in over
      BY <2>1 DEF TriggersApart, Close
    <3>1. j # i /\ u \in scan[j].rows /\ scan'[j].rows = scan[j].rows
      BY <2>1
    <3>2. {i, j} \in over
      BY <2>1, <3>1 DEF Together, Running, Shape
    <3>3. \A t \in scan[i].rows : {t.by, j} \in over
      BY <3>2 DEF Written
    <3>4. QED
      BY <2>1, <3>1, <3>3 DEF TriggersApart
  <2>3. OneTriggerPerCooldown'
    <3> SUFFICES ASSUME NEW t \in triggers', NEW u \in triggers', t # u, Close(t, u)
                 PROVE  Overlapped(t.by, u.by)'
      BY DEF OneTriggerPerCooldown, Close
    <3>1. CASE t \in triggers /\ u \in triggers
      BY <2>1, <3>1 DEF OneTriggerPerCooldown, Close, Overlapped
    <3>2. CASE t \in triggers /\ u \in scan[i].rows
      BY <2>1, <3>2 DEF TriggersApart, Overlapped, Written, Committed
    <3>3. CASE t \in scan[i].rows /\ u \in triggers
      <4>1. {u.by, i} \in over /\ t.by = i /\ u.by # i
        BY <2>1, <3>3 DEF TriggersApart, Written, Committed
      <4>2. {u.by, i} = {i, u.by}
        OBVIOUS
      <4>3. QED
        BY <2>1, <4>1, <4>2 DEF Overlapped
    <3>4. CASE t \in scan[i].rows /\ u \in scan[i].rows
      BY <3>4 DEF TriggersApart
    <3>5. QED
      BY <2>1, <3>1, <3>2, <3>3, <3>4
  <2>4. QED
    BY <2>2, <2>3
<1>4. CASE Elsewhere
  BY <1>4 DEF Elsewhere, tables, TriggersApart, Close, OneTriggerPerCooldown, Overlapped
<1>5. QED
  BY <1>1, <1>2, <1>3, <1>4, Steps

\* Of any number of scans, in threads that outlive their jobs too, only two that ran at
\* the same time give a fingerprint two triggers in its cooldown.
THEOREM CooldownKept == Spec => []OneTriggerPerCooldown
<1> DEFINE Inv == Frame /\ TriggersApart /\ OneTriggerPerCooldown
<1>1. Init => Inv
  <2>1. Init => TriggersApart /\ OneTriggerPerCooldown
    BY DEF Init, TriggersApart, OneTriggerPerCooldown, Unused
  <2>2. QED
    BY <2>1, InitFrame
<1>2. Inv /\ [Next]_vars => Inv'
  BY FrameNext, TriggersNext
<1>3. QED
  BY <1>1, <1>2, PTL DEF Spec

-----------------------------------------------------------------------------
(* Promotions.                                                             *)

\* What an emitted promotion looks like, and what the scan saw before it.
LEMMA PromotionFacts ==
    ASSUME Shape, NEW i \in Scans, Emit(i)
    PROVE  \/ scan'[i].promotes = scan[i].promotes
           \/ \E p : /\ MayPromote(i, p.symbol)
                     /\ p.at = scan[i].began /\ p.by = i /\ p.expires = Expiry(p.at)
                     /\ scan'[i].promotes = scan[i].promotes \cup {p}
  BY EmitFacts

LEMMA PromotionsNext ==
    ASSUME Frame, PromotionsApart, PromotedOnce, [Next]_vars
    PROVE  PromotionsApart' /\ PromotedOnce'
<1> USE DEF Frame
<1>1. ASSUME NEW i \in Scans, Start(i) PROVE PromotionsApart' /\ PromotedOnce'
  <2> USE <1>1, StartFacts
  <2>1. PromotionsApart'
    BY DEF PromotionsApart, Near
  <2>2. PromotedOnce'
    BY DEF PromotedOnce, Overlapped
  <2>3. QED
    BY <2>1, <2>2
<1>2. ASSUME NEW i \in Scans, Emit(i) PROVE PromotionsApart' /\ PromotedOnce'
  <2>1. /\ scan[i].pc = "run"
        /\ \A j \in Scans : j # i => scan'[j] = scan[j]
        /\ UNCHANGED <<now, triggers, promotions, over>>
    BY <1>2, EmitFacts
  <2>2. PromotionsApart'
    <3>1. CASE scan'[i].promotes = scan[i].promotes
      BY <2>1, <3>1 DEF PromotionsApart, Near
    <3>2. ASSUME NEW n, MayPromote(i, n.symbol), n.at = scan[i].began, n.by = i,
                 n.expires = Expiry(n.at), scan'[i].promotes = scan[i].promotes \cup {n}
          PROVE  PromotionsApart'
      <4>1. \A p \in promotions \cup scan[i].promotes : ~(p.symbol = n.symbol /\ p.expires >= Day(n.at))
        BY <3>2 DEF MayPromote
      <4>2. \A p \in scan[i].promotes : ~Near(p, n) /\ ~Near(n, p)
        BY <3>2, <4>1 DEF Near, Written
      <4>3. \A p \in promotions : ~Near(p, n)
        BY <4>1 DEF Near
      <4>4. \A p \in promotions : Near(n, p) => {p.by, i} \in over
        <5> SUFFICES ASSUME NEW p \in promotions, Near(n, p) PROVE {p.by, i} \in over
          OBVIOUS
        <5>1. p.symbol = n.symbol /\ n.at <= p.at /\ n.expires >= Day(p.at)
          BY DEF Near
        <5>2. p.at # n.at
          BY <4>1, <3>2, <5>1 DEF Committed
        <5>3. p.at > scan[i].began
          BY <3>2, <5>1, <5>2 DEF Committed, Shape
        <5>4. QED
          BY <2>1, <5>3 DEF Together, Running
      <4>5. QED
        BY <2>1, <3>2, <4>2, <4>3, <4>4 DEF PromotionsApart, Near
    <3>3. QED
      BY <1>2, <3>1, <3>2, PromotionFacts
  <2>3. PromotedOnce'
    BY <2>1 DEF PromotedOnce, Overlapped
  <2>4. QED
    BY <2>2, <2>3
<1>3. ASSUME NEW i \in Scans, Commit(i) \/ RollBack(i) PROVE PromotionsApart' /\ PromotedOnce'
  <2>1. /\ scan[i].pc = "run" /\ scan'[i].promotes = {}
        /\ \A j \in Scans : j # i => scan'[j] = scan[j]
        /\ over' = over
        /\ \/ promotions' = promotions \cup scan[i].promotes
           \/ promotions' = promotions
    BY <1>3, EndFacts
  <2>2. PromotionsApart'
    <3> SUFFICES ASSUME NEW j \in Scans, NEW q \in scan'[j].promotes
                 PROVE  /\ \A p \in scan'[j].promotes : p # q => ~Near(p, q)
                        /\ \A p \in promotions' : Near(p, q) \/ Near(q, p) => {p.by, j} \in over
      BY <2>1 DEF PromotionsApart, Near
    <3>1. j # i /\ q \in scan[j].promotes /\ scan'[j].promotes = scan[j].promotes
      BY <2>1
    <3>2. {i, j} \in over
      BY <2>1, <3>1 DEF Together, Running, Shape
    <3>3. \A p \in scan[i].promotes : {p.by, j} \in over
      BY <3>2 DEF Written
    <3>4. QED
      BY <2>1, <3>1, <3>3 DEF PromotionsApart
  <2>3. PromotedOnce'
    <3> SUFFICES ASSUME NEW p \in promotions', NEW q \in promotions', p # q, Near(p, q)
                 PROVE  Overlapped(p.by, q.by)'
      BY DEF PromotedOnce, Near
    <3>1. CASE p \in promotions /\ q \in promotions
      BY <2>1, <3>1 DEF PromotedOnce, Near, Overlapped
    <3>2. CASE p \in promotions /\ q \in scan[i].promotes
      BY <2>1, <3>2 DEF PromotionsApart, Overlapped, Written, Committed
    <3>3. CASE p \in scan[i].promotes /\ q \in promotions
      <4>1. {q.by, i} \in over /\ p.by = i /\ q.by # i
        BY <2>1, <3>3 DEF PromotionsApart, Written, Committed
      <4>2. {q.by, i} = {i, q.by}
        OBVIOUS
      <4>3. QED
        BY <2>1, <4>1, <4>2 DEF Overlapped
    <3>4. CASE p \in scan[i].promotes /\ q \in scan[i].promotes
      BY <3>4 DEF PromotionsApart
    <3>5. QED
      BY <2>1, <3>1, <3>2, <3>3, <3>4
  <2>4. QED
    BY <2>2, <2>3
<1>4. CASE Elsewhere
  BY <1>4 DEF Elsewhere, tables, PromotionsApart, Near, PromotedOnce, Overlapped
<1>5. QED
  BY <1>1, <1>2, <1>3, <1>4, Steps

\* A symbol in Tier 1 is promoted again only by a scan that ran at the same time as the
\* one that promoted it.
THEOREM PromotionsKept == Spec => []PromotedOnce
<1> DEFINE Inv == Frame /\ PromotionsApart /\ PromotedOnce
<1>1. Init => Inv
  <2>1. Init => PromotionsApart /\ PromotedOnce
    BY DEF Init, PromotionsApart, PromotedOnce, Unused
  <2>2. QED
    BY <2>1, InitFrame
<1>2. Inv /\ [Next]_vars => Inv'
  BY FrameNext, PromotionsNext
<1>3. QED
  BY <1>1, <1>2, PTL DEF Spec
-----------------------------------------------------------------------------
(* The limit of promotions.                                                *)

OfDay(P, d) == {p \in P : Day(p.at) = d}

\* What a scan is going to commit keeps to the limit of its day, unless a scan that ran at
\* the same time has committed a promotion of that day.
WithinLimit(i) ==
    LET d == Day(scan[i].began) IN
    \/ Cardinality(OfDay(promotions \cup scan[i].promotes, d)) <= MaxPerDay
    \/ \E p \in OfDay(promotions, d) : {p.by, i} \in over

Counted ==
    /\ IsFiniteSet(promotions)
    /\ \A i \in Scans :
          /\ IsFiniteSet(scan[i].promotes)
          /\ scan[i].promotes # {} => WithinLimit(i)

LEMMA DayStart == ASSUME NEW t \in Nat PROVE t >= Day(t) * DayLen
<1>1. DayLen \in Nat /\ DayLen > 0
  BY CalendarAssumption
<1>2. t >= (t \div DayLen) * DayLen
  BY <1>1, SMTT(30)
<1>3. QED
  BY <1>2 DEF Day

LEMMA LimitNext ==
    ASSUME Frame, Counted, PromotionLimit, [Next]_vars
    PROVE  Counted' /\ PromotionLimit'
<1> USE DEF Frame
<1>1. ASSUME NEW i \in Scans, Start(i) PROVE Counted' /\ PromotionLimit'
  <2> USE <1>1, StartFacts
  <2>1. \A j \in Scans : j # i /\ WithinLimit(j) => WithinLimit(j)'
    BY DEF WithinLimit, OfDay
  <2>2. IsFiniteSet({})
    BY FS_EmptySet
  <2>3. Counted'
    BY <2>1, <2>2 DEF Counted
  <2>4. PromotionLimit'
    BY DEF PromotionLimit, Overlapped
  <2>5. QED
    BY <2>3, <2>4
<1>2. ASSUME NEW i \in Scans, Emit(i) PROVE Counted' /\ PromotionLimit'
  <2>1. /\ scan[i].pc = "run" /\ scan'[i].began = scan[i].began
        /\ \A j \in Scans : j # i => scan'[j] = scan[j]
        /\ UNCHANGED <<now, triggers, promotions, over>>
    BY <1>2, EmitFacts
  <2>2. \A j \in Scans : j # i /\ WithinLimit(j) => WithinLimit(j)'
    BY <2>1 DEF WithinLimit, OfDay
  <2>3. IsFiniteSet(scan'[i].promotes) /\ (scan'[i].promotes # {} => WithinLimit(i)')
    <3>1. CASE scan'[i].promotes = scan[i].promotes
      BY <2>1, <3>1 DEF Counted, WithinLimit, OfDay
    <3>2. ASSUME NEW n, MayPromote(i, n.symbol), n.at = scan[i].began,
                 scan'[i].promotes = scan[i].promotes \cup {n}
          PROVE  IsFiniteSet(scan'[i].promotes) /\ WithinLimit(i)'
      <4> DEFINE d == Day(scan[i].began)
                 seen == promotions \cup scan[i].promotes
                 since == {p \in seen : p.at >= d * DayLen}
      <4>1. IsFiniteSet(seen) /\ IsFiniteSet(scan'[i].promotes)
        BY <3>2, FS_Union, FS_AddElement DEF Counted
      <4>2. OfDay(seen, d) \subseteq since /\ since \subseteq seen
        BY DayStart DEF OfDay, Committed, Written, Shape
      <4>3. Cardinality(since) < MaxPerDay
        BY <3>2 DEF MayPromote
      <4>4. IsFiniteSet(since) /\ IsFiniteSet(OfDay(seen, d))
        BY <4>1, <4>2, FS_Subset
      <4>5. /\ Cardinality(OfDay(seen, d)) <= Cardinality(since)
            /\ Cardinality(OfDay(seen, d)) \in Nat /\ Cardinality(since) \in Nat
        BY <4>2, <4>4, FS_Subset, FS_CardinalityType
      <4>6. OfDay(promotions' \cup scan'[i].promotes, d) = OfDay(seen, d) \cup {n}
        BY <2>1, <3>2 DEF OfDay
      <4>7. Cardinality(OfDay(seen, d) \cup {n}) <= Cardinality(OfDay(seen, d)) + 1
        <5> DEFINE S == OfDay(seen, d)
        <5>1. IsFiniteSet(S) /\ Cardinality(S) \in Nat
          BY <4>4, <4>5
        <5> HIDE DEF S
        <5>2. Cardinality(S \cup {n}) = IF n \in S THEN Cardinality(S) ELSE Cardinality(S) + 1
          BY <5>1, FS_AddElement
        <5>3. Cardinality(S \cup {n}) <= Cardinality(S) + 1
          BY <5>1, <5>2
        <5>4. QED
          BY <5>3 DEF S
      <4>8. Cardinality(OfDay(promotions' \cup scan'[i].promotes, d)) <= MaxPerDay
        <5>1. Cardinality(OfDay(seen, d) \cup {n}) \in Nat
          BY <4>4, FS_AddElement, FS_CardinalityType
        <5>2. MaxPerDay \in Nat
          BY LimitAssumption
        <5> HIDE DEF d, seen, since
        <5>3. Cardinality(OfDay(seen, d)) + 1 <= MaxPerDay
          BY <4>3, <4>5, <5>2
        <5>4. Cardinality(OfDay(seen, d) \cup {n}) <= MaxPerDay
          BY <4>5, <4>7, <5>1, <5>2, <5>3
        <5>5. QED
          BY <4>6, <5>4, Zenon
      <4>9. QED
        BY <2>1, <4>1, <4>8 DEF WithinLimit
    <3>3. QED
      BY <1>2, <3>1, <3>2, PromotionFacts
  <2>4. Counted'
    BY <2>1, <2>2, <2>3 DEF Counted
  <2>5. PromotionLimit'
    BY <2>1 DEF PromotionLimit, Overlapped
  <2>6. QED
    BY <2>4, <2>5
<1>3. ASSUME NEW i \in Scans, Commit(i) \/ RollBack(i) PROVE Counted' /\ PromotionLimit'
  <2>1. /\ scan[i].pc = "run" /\ scan'[i].promotes = {}
        /\ \A j \in Scans : j # i => scan'[j] = scan[j]
        /\ over' = over
        /\ \/ promotions' = promotions \cup scan[i].promotes
           \/ promotions' = promotions
    BY <1>3, EndFacts
  <2>2. IsFiniteSet(promotions') /\ IsFiniteSet(scan'[i].promotes)
    <3>1. IsFiniteSet(promotions) /\ IsFiniteSet(scan[i].promotes)
      BY DEF Counted
    <3>2. IsFiniteSet(promotions \cup scan[i].promotes) /\ IsFiniteSet({})
      BY <3>1, FS_Union, FS_EmptySet
    <3>3. QED
      BY <2>1, <3>1, <3>2
  <2>3. ASSUME NEW j \in Scans, j # i, WithinLimit(j), scan[j].promotes # {} PROVE WithinLimit(j)'
    <3> DEFINE d == Day(scan[j].began)
    <3>1. scan'[j] = scan[j] /\ {i, j} \in over
      BY <2>1, <2>3 DEF Together, Running, Shape
    <3>2. CASE \E p \in OfDay(promotions, d) : {p.by, j} \in over
      BY <2>1, <3>1, <3>2 DEF WithinLimit, OfDay
    <3>3. CASE /\ Cardinality(OfDay(promotions \cup scan[j].promotes, d)) <= MaxPerDay
               /\ OfDay(promotions', d) = OfDay(promotions, d)
      <4>1. OfDay(promotions' \cup scan'[j].promotes, d) = OfDay(promotions \cup scan[j].promotes, d)
        BY <3>1, <3>3 DEF OfDay
      <4>2. QED
        BY <3>1, <3>3, <4>1 DEF WithinLimit
    <3>4. CASE OfDay(promotions', d) # OfDay(promotions, d)
      <4>1. PICK p \in scan[i].promotes : p \in OfDay(promotions', d)
        BY <2>1, <3>4 DEF OfDay
      <4>2. {p.by, j} \in over
        BY <3>1 DEF Written
      <4>3. QED
        BY <2>1, <3>1, <4>1, <4>2 DEF WithinLimit
    <3>5. QED
      BY <2>3, <3>2, <3>3, <3>4 DEF WithinLimit
  <2>4. Counted'
    BY <2>1, <2>2, <2>3 DEF Counted
  <2>5. ASSUME NEW d \in 0 .. Day(Horizon)
        PROVE  LET day == OfDay(promotions', d) IN
               \/ Cardinality(day) <= MaxPerDay
               \/ \E p, q \in day : Overlapped(p.by, q.by)'
    <3>1. CASE OfDay(promotions', d) = OfDay(promotions, d)
      BY <2>1, <3>1 DEF PromotionLimit, OfDay, Overlapped
    <3>2. CASE OfDay(promotions', d) # OfDay(promotions, d)
      <4>1. PICK q \in scan[i].promotes : q \in OfDay(promotions', d)
        BY <2>1, <3>2 DEF OfDay
      <4>2. /\ q.by = i /\ Day(scan[i].began) = d /\ WithinLimit(i)
            /\ promotions' = promotions \cup scan[i].promotes
        BY <2>1, <3>2, <4>1 DEF OfDay, Written, Counted
      <4>3. CASE \E p \in OfDay(promotions, d) : {p.by, i} \in over
        <5>1. PICK p \in OfDay(promotions, d) : {p.by, i} \in over
          BY <4>3
        <5>2. p.by # i /\ p \in OfDay(promotions', d)
          BY <2>1, <4>2, <5>1 DEF OfDay, Committed
        <5>3. QED
          BY <2>1, <4>1, <4>2, <5>1, <5>2 DEF Overlapped
      <4>4. QED
        BY <4>2, <4>3 DEF WithinLimit
    <3>3. QED
      BY <3>1, <3>2
  <2>6. PromotionLimit'
    BY <2>5 DEF PromotionLimit, OfDay
  <2>7. QED
    BY <2>4, <2>6
<1>4. CASE Elsewhere
  <2>1. UNCHANGED <<scan, promotions, over>>
    BY <1>4 DEF Elsewhere, tables
  <2>2. \A i \in Scans : WithinLimit(i) => WithinLimit(i)'
    BY <2>1 DEF WithinLimit, OfDay
  <2>3. Counted'
    BY <2>1, <2>2 DEF Counted
  <2>4. PromotionLimit'
    BY <2>1 DEF PromotionLimit, Overlapped
  <2>5. QED
    BY <2>3, <2>4
<1>5. QED
  BY <1>1, <1>2, <1>3, <1>4, Steps

\* The promotions of a day pass their limit only if two scans that made them ran at the
\* same time.
THEOREM LimitKept == Spec => []PromotionLimit
<1> DEFINE Inv == Frame /\ Counted /\ PromotionLimit
<1>1. Init => Inv
  <2> SUFFICES ASSUME Init PROVE Inv
    OBVIOUS
  <2>1. promotions = {} /\ \A i \in Scans : scan[i].promotes = {}
    BY DEF Init, Unused
  <2>2. IsFiniteSet({}) /\ Cardinality({}) = 0
    BY FS_EmptySet
  <2>3. Counted
    BY <2>1, <2>2 DEF Counted
  <2>4. PromotionLimit
    <3>1. ASSUME NEW d PROVE {p \in promotions : Day(p.at) = d} = {}
      BY <2>1
    <3>2. QED
      BY <2>2, <3>1, LimitAssumption DEF PromotionLimit
  <2>5. QED
    BY <2>3, <2>4, InitFrame
<1>2. Inv /\ [Next]_vars => Inv'
  BY FrameNext, LimitNext
<1>3. QED
  BY <1>1, <1>2, PTL DEF Spec

-----------------------------------------------------------------------------
(* The filings.                                                            *)

IsFiling(hit) == RuleOf(hit) = "filing" /\ hit[4] # "form4"

\* A record stored not long before a scan began gave it the hit.
Filed(hit, began) ==
    \E x \in stored : /\ x.record.kind = "filing" /\ hit = FilingHit(x.record)
                      /\ x.at >= began - NewsLookback /\ x.at <= began

StoredShape ==
    \A x \in stored : /\ x.record \in Records /\ x.at \in Int /\ x.at <= now
                      /\ \A y \in stored : y.record = x.record => y = x

\* What a running scan has still to emit, or has emitted, of its filings.
FilingsPending ==
    \A i \in Scans : scan[i].pc = "run" =>
        /\ \A hit \in scan[i].todo : IsFiling(hit) => Filed(hit, scan[i].began)
        /\ \A r \in scan[i].filings : \/ FilingHit(r) \in scan[i].todo
                                      \/ \E t \in triggers \cup scan[i].rows : t.hit = FilingHit(r)

TriggerFiled(t) ==
    /\ t.began \in Nat /\ t.at \in Nat /\ t.began <= t.at
    /\ IsFiling(t.hit) => Filed(t.hit, t.began)

FilingsWritten ==
    /\ \A i \in Scans : \A t \in scan[i].rows : TriggerFiled(t)
    /\ \A t \in triggers : TriggerFiled(t)
    /\ \A r \in read : \E t \in triggers : t.hit = FilingHit(r)

Filing == StoredShape /\ FilingsPending /\ FilingsWritten

LEMMA HitParts ==
    \A rule, subject, of, side : /\ RuleOf(Hit(rule, subject, of, side)) = rule
                                 /\ Subject(Hit(rule, subject, of, side)) = subject
                                 /\ Hit(rule, subject, of, side)[3] = of
                                 /\ Hit(rule, subject, of, side)[4] = side
BY DEF RuleOf, Subject, Hit

LEMMA FilingParts ==
    \A r : /\ IsFiling(FilingHit(r)) /\ RuleOf(FilingHit(r)) = "filing"
           /\ Subject(FilingHit(r)) = r.symbol /\ FilingHit(r)[3] = r.id
<1> TAKE r
<1>1. \E side : side # "form4" /\ FilingHit(r) = Hit("filing", r.symbol, r.id, side)
  <2>1. FilingHit(r) = Hit("filing", r.symbol, r.id, "")
    BY Zenon DEF FilingHit
  <2> QED
    BY <2>1, Zenon
<1> QED
  BY <1>1, HitParts DEF IsFiling

\* The rules that read no records fire under other names.
LEMMA OtherRules ==
    ASSUME NEW symbols, NEW promoted
    PROVE  /\ \A hit \in IntradayHits(symbols, promoted, now) : ~IsFiling(hit)
           /\ \A hit \in CloseHits(symbols, now) : ~IsFiling(hit)
           /\ \A hit \in CommodityHits : ~IsFiling(hit)
<1>1. ASSUME NEW hit \in IntradayHits(symbols, promoted, now) PROVE ~IsFiling(hit)
  <2>1. ASSUME NEW s, NEW m, NEW tier, hit \in RuleMove(s, m, tier, now) PROVE RuleOf(hit) = "move"
    BY <2>1 DEF RuleMove, RuleOf, Hit
  <2>2. ASSUME NEW s, NEW m, hit \in RuleRange(s, m, now) PROVE RuleOf(hit) = "range"
    BY <2>2 DEF RuleRange, RuleOf, Hit
  <2>3. ASSUME NEW s, NEW m, hit \in RuleGap(s, m, now) PROVE RuleOf(hit) = "gap"
    <3>1. \E of, side : hit = Hit("gap", s, of, side)
      BY <2>3, Zenon DEF RuleGap
    <3> QED
      BY <3>1, HitParts
  <2>4. ASSUME NEW s, NEW m, hit \in RuleVolume(s, m, now) PROVE RuleOf(hit) = "volume"
    <3>1. \E of, side : hit = Hit("volume", s, of, side)
      BY <2>4, Zenon DEF RuleVolume
    <3> QED
      BY <3>1, HitParts
  <2>5. \E s \in symbols : \/ hit \in RuleMove(s, market[s], Tier(s, promoted), now)
                           \/ hit \in RuleRange(s, market[s], now)
                           \/ hit \in RuleGap(s, market[s], now)
                           \/ hit \in RuleVolume(s, market[s], now)
    BY DEF IntradayHits
  <2> QED
    BY <2>1, <2>2, <2>3, <2>4, <2>5 DEF IsFiling
<1>2. ASSUME NEW hit \in CloseHits(symbols, now) PROVE ~IsFiling(hit)
  <2>1. ASSUME NEW s, NEW m, hit \in RuleNew52w(s, m, now) PROVE RuleOf(hit) = "new_52w"
    BY <2>1 DEF RuleNew52w, RuleOf, Hit
  <2>2. ASSUME NEW s, NEW m, hit \in RuleIvRank(s, m, now) PROVE RuleOf(hit) = "iv_rank"
    <3>1. \E of, side : hit = Hit("iv_rank", s, of, side)
      BY <2>2, Zenon DEF RuleIvRank
    <3> QED
      BY <3>1, HitParts
  <2>3. ASSUME NEW all, hit \in RelativeStrength(all, now) PROVE RuleOf(hit) = "strength"
    <3>1. \E s, side : hit = Hit("strength", s, Day(now), side)
      BY <2>3 DEF RelativeStrength
    <3> QED
      BY <3>1 DEF RuleOf, Hit
  <2>4. \/ \E s : hit \in RuleNew52w(s, market[s], now) \/ hit \in RuleIvRank(s, market[s], now)
        \/ \E all : hit \in RelativeStrength(all, now)
    BY Zenon DEF CloseHits
  <2> QED
    BY <2>1, <2>2, <2>3, <2>4 DEF IsFiling
<1>3. ASSUME NEW hit \in CommodityHits PROVE ~IsFiling(hit)
  <2>1. \E s, of, side : hit = Hit("cot", s, of, side) \/ hit = Hit("eia", s, of, side)
    BY Zenon DEF CommodityHits
  <2> QED
    BY <2>1, HitParts DEF IsFiling
<1> QED
  BY <1>1, <1>2, <1>3

\* The hits of a news scan: those of its filings, and others.
LEMMA NewsFiled ==
    ASSUME StoredShape, now \in Nat, NEW promoted
    PROVE  /\ \A hit \in NewsHits(promoted, now) : IsFiling(hit) => Filed(hit, now)
           /\ \A r \in Filings(promoted, now) : FilingHit(r) \in NewsHits(promoted, now)
<1>1. ASSUME NEW r \in Filings(promoted, now) PROVE Filed(FilingHit(r), now)
  <2>1. PICK x \in stored : /\ x.record = r /\ x.record.kind = "filing"
                            /\ x.at >= now - NewsLookback
    BY DEF Filings, Recent
  <2> QED
    BY <2>1 DEF Filed, StoredShape
<1>2. ASSUME NEW hit \in Form4Hits(promoted, now) PROVE ~IsFiling(hit)
  <2>1. \E s : hit = Hit("filing", s, Day(now), "form4")
    BY DEF Form4Hits
  <2> QED
    BY <2>1 DEF IsFiling, Hit
<1>3. ASSUME NEW hit \in EarningsHits(promoted, now) PROVE ~IsFiling(hit)
  <2>1. \E subject, of, side : hit = Hit("earnings", subject, of, side)
    BY Zenon DEF EarningsHits
  <2> QED
    BY <2>1, HitParts DEF IsFiling
<1>4. ASSUME NEW hit \in PolicyHits(now) PROVE ~IsFiling(hit)
  <2>1. \E subject, of, side : hit = Hit("policy", subject, of, side)
    BY Zenon DEF PolicyHits
  <2> QED
    BY <2>1, HitParts DEF IsFiling
<1> QED
  BY <1>1, <1>2, <1>3, <1>4 DEF NewsHits

\* What a scan finds.
LEMMA HitsFiled ==
    ASSUME StoredShape, now \in Nat, NEW job, NEW promoted,
           job.group \in {"intraday", "futures", "close", "news", "commodity"}
    PROVE  /\ \A hit \in Hits(job, promoted, now) : IsFiling(hit) => Filed(hit, now)
           /\ job.group = "news" =>
                 \A r \in Filings(promoted, now) : FilingHit(r) \in Hits(job, promoted, now)
<1>1. CASE job.group = "news"
  <2>1. Hits(job, promoted, now) = NewsHits(promoted, now)
    BY <1>1 DEF Hits
  <2> QED
    BY <2>1, NewsFiled
<1>2. CASE job.group # "news"
  <2>1. \/ \E symbols : Hits(job, promoted, now) = IntradayHits(symbols, promoted, now)
        \/ \E symbols : Hits(job, promoted, now) = CloseHits(symbols, now)
        \/ Hits(job, promoted, now) = CommodityHits
    BY <1>2 DEF Hits
  <2> QED
    BY <1>2, <2>1, OtherRules
<1> QED
  BY <1>1, <1>2

\* Records are stored once, and never taken away.
LEMMA StoredNext ==
    ASSUME Shape, StoredShape, [Next]_vars
    PROVE  /\ StoredShape'
           /\ \A hit, began : Filed(hit, began) => Filed(hit, began)'
<1>1. now' \in Nat /\ now' >= now
  BY Steps, StartFacts, EmitFacts, EndFacts DEF Shape, Elsewhere
<1>2. CASE stored' = stored
  BY <1>1, <1>2 DEF StoredShape, Filed, Shape
<1>3. CASE \E r \in Records : Store(r)
  <2>1. PICK r \in Records, at \in now - StoreDelay .. now :
           /\ \A x \in stored : x.record # r
           /\ stored' = stored \cup {[record |-> r, at |-> at]}
    BY <1>3 DEF Store
  <2>2. StoreDelay \in Nat /\ now' = now
    BY <1>3, LimitAssumption DEF Store
  <2>3. at \in Int /\ at <= now
    BY <2>2 DEF Shape
  <2>4. StoredShape'
    BY <2>1, <2>2, <2>3 DEF StoredShape
  <2>5. \A hit, began : Filed(hit, began) => Filed(hit, began)'
    BY <2>1 DEF Filed
  <2> QED
    BY <2>4, <2>5
<1>4. stored' = stored \/ \E r \in Records : Store(r)
  BY DEF Next, vars, Start, Emit, Commit, RollBack, Quote, Tick
<1> QED
  BY <1>2, <1>3, <1>4

LEMMA FilingNext ==
    ASSUME Frame, Filing, [Next]_vars
    PROVE  Filing'
<1> USE DEF Frame
<1>0. StoredShape' /\ \A hit, began : Filed(hit, began) => Filed(hit, began)'
  BY StoredNext DEF Filing
<1>1. \A t : TriggerFiled(t) => TriggerFiled(t)'
  BY <1>0 DEF TriggerFiled
<1>2. ASSUME NEW i \in Scans, Start(i) PROVE FilingsPending' /\ FilingsWritten'
  <2>1. /\ scan'[i].rows = {} /\ scan'[i].began = now
        /\ \A j \in Scans : j # i => scan'[j] = scan[j]
        /\ UNCHANGED <<now, triggers>>
    BY <1>2, StartHits
  <2>2. PICK job : /\ scan'[i].todo = Hits(job, Promoted(Day(now)), now)
                   /\ scan'[i].filings = IF job.group = "news" THEN Filings(Promoted(Day(now)), now) ELSE {}
                   /\ job.group \in {"intraday", "futures", "close", "news", "commodity"}
    BY <1>2, StartHits
  <2>3. /\ \A hit \in scan'[i].todo : IsFiling(hit) => Filed(hit, now)
        /\ \A r \in scan'[i].filings : FilingHit(r) \in scan'[i].todo
    <3>1. now \in Nat /\ StoredShape
      BY DEF Shape, Filing
    <3>2. /\ \A hit \in Hits(job, Promoted(Day(now)), now) : IsFiling(hit) => Filed(hit, now)
          /\ job.group = "news" => \A r \in Filings(Promoted(Day(now)), now) :
                                      FilingHit(r) \in Hits(job, Promoted(Day(now)), now)
      BY <2>2, <3>1, HitsFiled
    <3> QED
      BY <2>2, <3>2
  <2>4. FilingsPending'
    BY <1>0, <2>1, <2>3 DEF FilingsPending, Filing
  <2>5. read' = read
    BY <1>2 DEF Start, tables
  <2>6. FilingsWritten'
    BY <1>1, <2>1, <2>5 DEF FilingsWritten, Filing
  <2> QED
    BY <2>4, <2>6
<1>3. ASSUME NEW i \in Scans, Emit(i) PROVE FilingsPending' /\ FilingsWritten'
  <2>1. /\ scan[i].pc = "run" /\ scan'[i].began = scan[i].began
        /\ scan'[i].filings = scan[i].filings
        /\ \A j \in Scans : j # i => scan'[j] = scan[j]
        /\ UNCHANGED <<now, triggers>>
    BY <1>3, EmitHit
  <2>2. read' = read
    BY <1>3 DEF Emit, tables
  <2>3. PICK hit \in scan[i].todo :
           /\ scan'[i].todo = scan[i].todo \ {hit}
           /\ \/ InCooldown(i, hit) /\ scan'[i].rows = scan[i].rows
              \/ /\ ~InCooldown(i, hit)
                 /\ \E t : /\ t.hit = hit /\ t.at = now /\ t.by = i /\ t.began = scan[i].began
                           /\ scan'[i].rows = scan[i].rows \cup {t}
    BY <1>3, EmitHit
  <2>4. /\ scan[i].rows \subseteq scan'[i].rows
        /\ \E t \in triggers \cup scan'[i].rows : t.hit = hit
        /\ \A t \in scan'[i].rows : t \in scan[i].rows \/ (t.hit = hit /\ t.at = now /\ t.began = scan[i].began)
    BY <2>3 DEF InCooldown
  <2>5. \A r \in scan'[i].filings : \/ FilingHit(r) \in scan'[i].todo
                                    \/ \E t \in triggers \cup scan'[i].rows : t.hit = FilingHit(r)
    <3> SUFFICES ASSUME NEW r \in scan[i].filings, FilingHit(r) \notin scan'[i].todo
                 PROVE  \E t \in triggers \cup scan'[i].rows : t.hit = FilingHit(r)
      BY <2>1
    <3>1. FilingHit(r) \notin scan[i].todo \/ FilingHit(r) = hit
      BY <2>3
    <3>2. \/ FilingHit(r) \in scan[i].todo
          \/ \E t \in triggers \cup scan[i].rows : t.hit = FilingHit(r)
      BY <2>1 DEF Filing, FilingsPending
    <3> QED
      BY <2>4, <3>1, <3>2, Zenon
  <2>6. \A h \in scan'[i].todo : IsFiling(h) => Filed(h, scan'[i].began)
    BY <2>1, <2>3 DEF Filing, FilingsPending
  <2>7. FilingsPending'
    BY <1>0, <2>1, <2>5, <2>6 DEF Filing, FilingsPending
  <2>8. \A t \in scan'[i].rows : TriggerFiled(t)
    <3>1. now \in Nat /\ scan[i].began \in Nat /\ scan[i].began <= now
      BY DEF Shape
    <3>2. IsFiling(hit) => Filed(hit, scan[i].began)
      BY <2>1, <2>3 DEF Filing, FilingsPending
    <3> QED
      BY <2>4, <3>1, <3>2 DEF Filing, FilingsWritten, TriggerFiled
  <2>9. FilingsWritten'
    BY <1>1, <2>1, <2>2, <2>8 DEF Filing, FilingsWritten
  <2> QED
    BY <2>7, <2>9
<1>4. ASSUME NEW i \in Scans, Commit(i) \/ RollBack(i) PROVE FilingsPending' /\ FilingsWritten'
  <2>1. /\ scan[i].pc = "run" /\ scan'[i].pc = "ended" /\ scan'[i].rows = {}
        /\ \A j \in Scans : j # i => scan'[j] = scan[j]
    BY <1>4, EndFacts
  <2>2. \/ /\ scan[i].todo = {} /\ triggers' = triggers \cup scan[i].rows
           /\ read' = read \cup scan[i].filings
        \/ UNCHANGED <<triggers, read>>
    BY <1>4 DEF Commit, RollBack, tables
  <2>3. triggers \subseteq triggers'
    BY <2>2
  <2>4. FilingsPending'
    BY <1>0, <2>1, <2>3 DEF Filing, FilingsPending
  <2>5. \A r \in read' : \E t \in triggers' : t.hit = FilingHit(r)
    BY <2>1, <2>2 DEF Filing, FilingsPending, FilingsWritten
  <2>6. \A t \in triggers' : TriggerFiled(t)
    BY <2>2 DEF Filing, FilingsWritten
  <2>7. FilingsWritten'
    BY <1>1, <2>1, <2>5, <2>6 DEF Filing, FilingsWritten
  <2> QED
    BY <2>4, <2>7
<1>5. CASE Elsewhere
  <2>1. UNCHANGED <<scan, triggers, read>>
    BY <1>5 DEF Elsewhere, tables
  <2> QED
    BY <1>0, <1>1, <2>1 DEF Filing, FilingsPending, FilingsWritten
<1> QED
  BY <1>0, <1>2, <1>3, <1>4, <1>5, Steps DEF Filing

\* Two filings that give the same hit are one.
LEMMA OneFiling ==
    ASSUME StoredShape, NEW hit, NEW b, NEW c, Filed(hit, b), Filed(hit, c), b \in Nat, c \in Nat, b <= c
    PROVE  c - b <= NewsLookback
<1>1. PICK x \in stored : /\ x.record.kind = "filing" /\ hit = FilingHit(x.record)
                          /\ x.at <= b
  BY DEF Filed
<1>2. PICK y \in stored : /\ y.record.kind = "filing" /\ hit = FilingHit(y.record)
                          /\ y.at >= c - NewsLookback
  BY DEF Filed
<1>3. x.record.symbol = y.record.symbol /\ x.record.id = y.record.id
  BY <1>1, <1>2, FilingParts
<1>4. x = y
  BY <1>1, <1>2, <1>3, RecordAssumption DEF StoredShape
<1> QED
  BY <1>1, <1>2, <1>4, LimitAssumption DEF StoredShape

LEMMA FilingsOnce ==
    ASSUME Frame, Filing, OneTriggerPerCooldown
    PROVE  EachFilingOnce
<1>1. ASSUME NEW r \in read, NEW t \in triggers, NEW u \in triggers, t # u,
             t.hit = FilingHit(r), u.hit = FilingHit(r), t.at <= u.at
      PROVE  Overlapped(t.by, u.by) \/ Long(u)
  <2>1. /\ t.at \in Nat /\ t.began \in Nat /\ t.began <= t.at
        /\ u.at \in Nat /\ u.began \in Nat /\ u.began <= u.at
        /\ NewsCooldown \in Nat /\ NewsLookback \in Nat
    BY LimitAssumption DEF Filing, FilingsWritten, TriggerFiled
  <2>2. IsFiling(u.hit) /\ CooldownOf(u.hit) = NewsCooldown
    BY <1>1, FilingParts DEF CooldownOf
  <2>3. CASE t.at >= u.at - NewsCooldown
    BY <1>1, <2>2, <2>3, Zenon DEF OneTriggerPerCooldown
  <2>4. CASE t.at < u.at - NewsCooldown
    <3>1. Filed(u.hit, u.began) /\ Filed(u.hit, t.began) /\ StoredShape
      BY <1>1, <2>2 DEF Filing, FilingsWritten, TriggerFiled
    <3>2. u.began - t.began <= NewsLookback
      <4>1. CASE t.began <= u.began
        BY <2>1, <3>1, <4>1, OneFiling
      <4>2. CASE t.began > u.began
        BY <2>1, <4>2
      <4> QED
        BY <2>1, <4>1, <4>2
    <3>3. u.at - u.began > NewsCooldown - NewsLookback
      BY <2>1, <2>4, <3>2
    <3> QED
      BY <3>3 DEF Long
  <2> QED
    BY <2>1, <2>3, <2>4
<1>2. \A a, b : Overlapped(a, b) => Overlapped(b, a)
  <2>1. \A a, b : {a, b} = {b, a}
    OBVIOUS
  <2> QED
    BY <2>1 DEF Overlapped
<1>3. \A t, u \in triggers : t.at <= u.at \/ u.at <= t.at
  BY DEF Committed, Frame
<1>4. \A r : FilingHit(r) = <<"filing", r.symbol, r.id, "">>
  BY DEF FilingHit, Hit
<1>5. \A r \in read : \E t \in triggers : t.hit = FilingHit(r)
  BY DEF Filing, FilingsWritten
<1> SUFFICES ASSUME NEW r \in read
             PROVE  LET of == {t \in triggers : t.hit = FilingHit(r)}
                    IN  /\ of # {}
                        /\ \A t, u \in of : t = u \/ Overlapped(t.by, u.by) \/ Long(t) \/ Long(u)
  BY <1>4 DEF EachFilingOnce
<1> QED
  BY <1>1, <1>2, <1>3, <1>5, Zenon

\* Every filing a scan found has its trigger once that scan committed, and a second one
\* only from a scan that ran at the same time, or that took longer than the cooldown
\* outlasts the lookback.
THEOREM FilingsReadOnce == Spec => []EachFilingOnce
<1> DEFINE Inv == Frame /\ TriggersApart /\ OneTriggerPerCooldown /\ Filing
<1>1. Init => Inv
  <2>1. Init => TriggersApart /\ OneTriggerPerCooldown /\ Filing
    BY DEF Init, TriggersApart, OneTriggerPerCooldown, Unused, Filing, StoredShape, FilingsPending,
           FilingsWritten
  <2>2. QED
    BY <2>1, InitFrame
<1>2. Inv /\ [Next]_vars => Inv'
  BY FrameNext, TriggersNext, FilingNext
<1>3. Inv => EachFilingOnce
  BY FilingsOnce
<1>4. QED
  BY <1>1, <1>2, <1>3, PTL DEF Spec
=============================================================================
