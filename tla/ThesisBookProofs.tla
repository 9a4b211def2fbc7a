-------------------------- MODULE ThesisBookProofs --------------------------
(***************************************************************************)
(* The properties of ThesisBook for any symbols, prices, deadlines and     *)
(* lengths.  All of them rest on how a table of versions grows: a version  *)
(* that has an heir does not stand any more, and rows never change.        *)
(***************************************************************************)
EXTENDS ThesisBook, TLAPS

-----------------------------------------------------------------------------
(* Tables that grow *)

\* c is b and the rows N.
Grows(b, c, N) ==
    /\ N \cap DOMAIN b = {} /\ DOMAIN c = DOMAIN b \cup N
    /\ \A w \in DOMAIN b : c[w] = b[w]

\* append_artifact keeps the rows and adds the new ones under fresh ids.
LEMMA AppendedGrows ==
    ASSUME NEW b, NEW S, NEW new, DOMAIN new = S, NEW ids \in Fresh(b, S)
    PROVE  LET c == Appended(b, new, ids)
               N == Range(ids)
           IN  /\ Grows(b, c, N) /\ N \subseteq Ids \ DOMAIN b
               /\ \A v \in S : c[ids[v]] = new[v]
<1> DEFINE c == Appended(b, new, ids)
           N == Range(ids)
<1>1. /\ ids \in [S -> Ids \ DOMAIN b]
      /\ \A u, v \in S : ids[u] = ids[v] => u = v
  BY DEF Fresh, Injection, IsInjective
<1>2. N \subseteq Ids \ DOMAIN b
  BY <1>1 DEF Range
<1>3. DOMAIN c = DOMAIN b \cup N /\ \A w \in DOMAIN b : c[w] = b[w]
  BY <1>1 DEF Appended, Range
<1>4. ASSUME NEW v \in S
      PROVE  c[ids[v]] = new[v]
  <2>1. ids[v] \in N /\ ids[v] \notin DOMAIN b
    BY <1>1 DEF Range
  <2>2. c[ids[v]] = new[CHOOSE u \in S : ids[u] = ids[v]]
    BY <2>1 DEF Appended
  <2>3. (CHOOSE u \in S : ids[u] = ids[v]) = v
    BY <1>1
  <2> QED
    BY <2>2, <2>3
<1> QED
  BY <1>2, <1>3, <1>4 DEF Grows

LEMMA AddGrows ==
    ASSUME NEW v, NEW r, Add(v, r)
    PROVE  \E i \in Ids \ DOMAIN book : Grows(book, book', {i}) /\ book'[i] = r
<1>1. PICK ids \in Fresh(book, {v}) : book' = Appended(book, [u \in {v} |-> r], ids)
  BY DEF Add
<1> DEFINE new == [u \in {v} |-> r]
<1>2. /\ Grows(book, book', Range(ids)) /\ Range(ids) \subseteq Ids \ DOMAIN book
      /\ book'[ids[v]] = r
  <2>1. DOMAIN new = {v} /\ new[v] = r
    OBVIOUS
  <2> HIDE DEF new
  <2>2. book' = Appended(book, new, ids)
    BY <1>1 DEF new
  <2> QED
    BY <2>1, <2>2, AppendedGrows
<1>3. Range(ids) = {ids[v]}
  BY DEF Fresh, Injection, Range
<1> QED
  BY <1>2, <1>3

\* What stood and has no heir among the new rows stands; nothing else of the old does.
LEMMA StandingGrows ==
    ASSUME NEW b, NEW c, NEW N, Grows(b, c, N)
    PROVE  /\ Standing(c) \subseteq Standing(b) \cup N
           /\ \A v \in Standing(b) :
                 v \in Standing(c) <=> ~\E w \in N : c[w].ok /\ c[w].prev = v
BY DEF Grows, Standing, OpenTheses, Last

-----------------------------------------------------------------------------
(* Tables as they should be *)

OfDesk(r) == r.by \in {"evidence", "judge", "status"}

Row(r, d) ==
    /\ r \in Version /\ r.day <= d /\ r.began <= d
    /\ r.ok => r.symbol \in Symbols
    /\ OfDesk(r) => r.ok

Rows(b, d) == DOMAIN b \subseteq Ids /\ \A v \in DOMAIN b : Row(b[v], d)

Drafted(b) ==
    \A v, w \in DOMAIN b : b[v].message # 0 /\ b[v].message = b[w].message => v = w

Heirs(b) ==
    /\ \A v \in DOMAIN b : OfDesk(b[v]) => /\ b[v].prev \in DOMAIN b
                                           /\ b[b[v].prev].state = "active"
    /\ \A v, w \in DOMAIN b :
          OfDesk(b[v]) /\ OfDesk(b[w]) /\ b[v].prev = b[w].prev => v = w

Covers(b) ==
    \A v, w \in Standing(b) :
        b[v].origin = "desk" /\ b[w].origin = "desk" /\ b[v].symbol = b[w].symbol => v = w

Good(b, d) == Rows(b, d) /\ Drafted(b) /\ Heirs(b) /\ Covers(b)

\* A version that takes the place of r, made by a desk.
HeirOf(n, r, v, d) ==
    /\ n \in Version /\ n.prev = v /\ n.ok /\ n.message = 0
    /\ n.origin = r.origin /\ n.symbol = r.symbol /\ n.began = r.began /\ n.limit = r.limit
    /\ n.day = d

LEMMA StandingRow ==
    ASSUME NEW b, NEW d, Rows(b, d), NEW v \in Standing(b)
    PROVE  v \in DOMAIN b /\ b[v].ok /\ b[v].state = "active" /\ Row(b[v], d)
BY DEF Standing, OpenTheses, Last, Rows, Row, Version

\* Versions that take the place of standing ones leave a good table.
LEMMA HeirsGood ==
    ASSUME NEW b, NEW d \in Nat, Good(b, d), NEW S, S \subseteq Standing(b),
           NEW new, DOMAIN new = S, \A v \in S : HeirOf(new[v], b[v], v, d),
           NEW ids \in Fresh(b, S)
    PROVE  LET c == Appended(b, new, ids)
               N == Range(ids)
           IN  /\ Good(c, d) /\ Grows(b, c, N)
               /\ \A v \in S : ids[v] \in DOMAIN c /\ c[ids[v]] = new[v]
               /\ \A w \in DOMAIN c \ DOMAIN b : \E v \in S : w = ids[v]
<1> DEFINE c == Appended(b, new, ids)
           N == Range(ids)
<1>1. /\ Grows(b, c, N) /\ N \subseteq Ids \ DOMAIN b
      /\ \A v \in S : c[ids[v]] = new[v]
  BY AppendedGrows
<1> HIDE DEF c
<1>members. /\ \A v \in S : ids[v] \in N
      /\ \A w \in N : \E v \in S : w = ids[v]
  BY DEF Fresh, Injection, Range
<1>2. \A v \in S : ids[v] \in DOMAIN c /\ ids[v] \notin DOMAIN b
  BY <1>1, <1>members DEF Grows
<1>3. \A w \in DOMAIN c : w \in DOMAIN b \/ \E v \in S : w = ids[v]
  BY <1>1, <1>members DEF Grows
<1>4. \A v \in S : /\ v \in DOMAIN b /\ b[v].ok /\ b[v].state = "active" /\ Row(b[v], d)
                   /\ ~\E w \in DOMAIN b : b[w].ok /\ b[w].prev = v
  BY StandingRow DEF Good, Standing, OpenTheses, Last
<1>5. Rows(c, d)
  <2>1. ASSUME NEW v \in S
        PROVE  Row(new[v], d)
    <3>1. new[v].symbol \in Symbols
      BY <1>4 DEF HeirOf, Row
    <3>2. new[v].began <= d /\ new[v].day <= d
      BY <1>4 DEF HeirOf, Row
    <3> QED
      BY <3>1, <3>2 DEF HeirOf, Row
  <2>2. \A w \in DOMAIN c : Row(c[w], d)
    BY <1>1, <1>3, <2>1 DEF Good, Rows, Grows
  <2>3. DOMAIN c \subseteq Ids
    BY <1>1 DEF Good, Rows, Grows
  <2> QED
    BY <2>2, <2>3 DEF Rows
<1>6. Drafted(c)
  <2>1. \A v \in S : c[ids[v]].message = 0
    BY <1>1 DEF HeirOf
  <2> QED
    BY <1>1, <1>3, <2>1 DEF Good, Drafted, Grows
<1>7. Heirs(c)
  <2>1. \A v \in S : c[ids[v]].prev = v
    BY <1>1 DEF HeirOf
  <2>2. ASSUME NEW w \in DOMAIN c, OfDesk(c[w])
        PROVE  c[w].prev \in DOMAIN b /\ c[c[w].prev].state = "active"
    <3>1. CASE w \in DOMAIN b
      BY <1>1, <2>2, <3>1 DEF Good, Heirs, Grows
    <3>2. CASE \E v \in S : w = ids[v]
      BY <1>1, <1>4, <2>1, <3>2 DEF Grows
    <3> QED
      BY <1>3, <3>1, <3>2
  <2>3. ASSUME NEW v \in DOMAIN c, NEW w \in DOMAIN c,
               OfDesk(c[v]), OfDesk(c[w]), c[v].prev = c[w].prev
        PROVE  v = w
    <3>1. CASE v \in DOMAIN b /\ w \in DOMAIN b
      BY <1>1, <2>3, <3>1 DEF Good, Heirs, Grows
    <3>2. ASSUME NEW x \in DOMAIN b, OfDesk(b[x]), NEW u \in S
          PROVE  b[x].prev # u
      <4>1. b[x].ok
        BY <3>2 DEF Good, Rows, Row
      <4> QED
        BY <1>4, <4>1
    <3>3. \A x \in DOMAIN b : c[x] = b[x]
      BY <1>1 DEF Grows
    <3>4. CASE (\E u \in S : v = ids[u]) /\ (\E u \in S : w = ids[u])
      BY <2>1, <2>3, <3>4
    <3> QED
      BY <1>3, <2>1, <2>3, <3>1, <3>2, <3>3, <3>4
  <2> QED
    BY <1>1, <2>2, <2>3 DEF Heirs, Grows
<1>8. Covers(c)
  <2>1. \A w \in Standing(c) : w \in DOMAIN c
    BY DEF Standing, OpenTheses, Last
  \* Each standing version has a standing one of b behind it, no two the same one.
  <2> DEFINE Behind(w, v) ==
        /\ v \in Standing(b) /\ c[w].origin = b[v].origin /\ c[w].symbol = b[v].symbol
        /\ (w = v /\ v \notin S) \/ (v \in S /\ w = ids[v])
  <2>2. ASSUME NEW w \in Standing(c)
        PROVE  \E v : Behind(w, v)
    <3>1. CASE w \in DOMAIN b
      <4>1. w \in Standing(b)
        BY <1>1, <3>1, StandingGrows DEF Grows
      <4>2. w \notin S
        <5>1. SUFFICES ASSUME w \in S
                       PROVE  FALSE
          OBVIOUS
        <5>2. ids[w] \in N /\ c[ids[w]].ok /\ c[ids[w]].prev = w
          BY <1>1, <1>members, <5>1 DEF HeirOf
        <5> QED
          BY <1>1, <4>1, <5>2, StandingGrows
      <4> QED
        BY <1>1, <3>1, <4>1, <4>2 DEF Grows
    <3>2. CASE \E v \in S : w = ids[v]
      BY <1>1, <3>2 DEF HeirOf
    <3> QED
      BY <1>3, <2>1, <3>1, <3>2
  <2>3. ASSUME NEW v \in Standing(c), NEW w \in Standing(c),
               c[v].origin = "desk", c[w].origin = "desk", c[v].symbol = c[w].symbol
        PROVE  v = w
    <3>1. PICK x : Behind(v, x)
      BY <2>2
    <3>2. PICK y : Behind(w, y)
      BY <2>2
    <3>3. x = y
      BY <2>3, <3>1, <3>2 DEF Good, Covers
    <3> QED
      BY <3>1, <3>2, <3>3
  <2> QED
    BY <2>3 DEF Covers
<1> QED
  BY <1>1, <1>2, <1>3, <1>5, <1>6, <1>7, <1>8 DEF Good, c

\* So does a version of Jon, of his messages or of the writer, whose message has no
\* other draft and whose symbol the desk does not cover yet.
LEMMA AddGood ==
    ASSUME NEW b, NEW d \in Nat, Good(b, d), NEW c, NEW i \in Ids, Grows(b, c, {i}),
           Row(c[i], d), ~OfDesk(c[i]),
           c[i].message = 0 \/ \A v \in DOMAIN b : b[v].message # c[i].message,
           i \in Standing(c) /\ c[i].origin = "desk" =>
              \A v \in Standing(b) : b[v].origin = "desk" => b[v].symbol # c[i].symbol
    PROVE  Good(c, d)
<1>1. DOMAIN c = DOMAIN b \cup {i} /\ i \notin DOMAIN b /\ \A w \in DOMAIN b : c[w] = b[w]
  BY DEF Grows
<1>2. Rows(c, d)
  BY <1>1 DEF Good, Rows
<1>3. Drafted(c)
  BY <1>1 DEF Good, Drafted
<1>4. Heirs(c)
  BY <1>1 DEF Good, Heirs
<1>5. Covers(c)
  <2>1. Standing(c) \subseteq Standing(b) \cup {i}
    BY StandingGrows
  <2>2. \A v \in Standing(b) : c[v] = b[v]
    BY <1>1 DEF Standing, OpenTheses, Last
  <2> QED
    BY <2>1, <2>2 DEF Good, Covers
<1> QED
  BY <1>2, <1>3, <1>4, <1>5 DEF Good

-----------------------------------------------------------------------------
(* The inductive invariant *)

\* What intake read was not drafted from since.
TodoFresh == \A m \in todo, v \in DOMAIN book : book[v].message # m

\* What the desks read at their start is as good now: the listed theses stand, and no
\* thesis of the desk covers a chosen symbol.
ListsGood ==
    /\ listed \subseteq Standing(book)
    /\ pc \notin {"post", "analyst"} => listed = {}
    /\ pc # "post" => chosen = {}
    /\ \A s \in chosen, v \in Standing(book) : book[v].origin = "desk" => book[v].symbol # s

\* A close is stored after its day.
Times ==
    /\ \A s \in Symbols : latest[s].day < day /\ judged[s].day < day
    /\ checked <= day

IInv == TypeOK /\ Good(book, day) /\ TodoFresh /\ ListsGood /\ Times /\ NoneSurvives

\* What a check left stands rightly, and so does what was made after it.
LEMMA AddSurvives ==
    ASSUME TypeOK, Good(book, day), Times, NoneSurvives, UNCHANGED <<day, checks>>,
           NEW i \in Ids, Grows(book, book', {i}), Row(book'[i], day), book'[i].day = day,
           \/ book'[i].began = day
           \/ \E v \in Standing(book) : /\ book'[i].began = book[v].began
                                        /\ book'[i].limit = book[v].limit
    PROVE  NoneSurvives'
<1>1. /\ DOMAIN book' = DOMAIN book \cup {i} /\ \A w \in DOMAIN book : book'[w] = book[w]
      /\ Standing(book)' \subseteq Standing(book) \cup {i}
  <2>1. Standing(book') \subseteq Standing(book) \cup {i}
    BY StandingGrows
  <2> QED
    BY <2>1 DEF Grows, Standing, OpenTheses, Last
<1>2. judged' = judged /\ checked' = checked /\ day \in Nat
  BY DayAssumption DEF checks, TypeOK
<1> SUFFICES ASSUME NEW w \in Standing(book)'
             PROVE  /\ ~Crossed(book'[w], judged[book'[w].symbol])
                    /\ book'[w].limit # NoLimit /\ book'[w].limit < checked =>
                          book'[w].began >= checked
  BY <1>2 DEF NoneSurvives, Crossed
<1>3. CASE w \in Standing(book)
  <2>1. book'[w] = book[w]
    BY <1>1, <1>3 DEF Standing, OpenTheses, Last
  <2> QED
    BY <1>3, <2>1 DEF NoneSurvives
<1>4. CASE w = i
  <2>1. book'[w].symbol \in Symbols
    <3>1. book'[w].ok
      BY DEF Standing, OpenTheses, Last
    <3> QED
      BY <1>4, <3>1 DEF Row
  <2>2. judged[book'[w].symbol].day < day /\ judged[book'[w].symbol].day \in Int
    BY <2>1 DEF Times, TypeOK, Close
  <2>3. ~Crossed(book'[w], judged[book'[w].symbol])
    BY <1>2, <1>4, <2>2 DEF Crossed
  <2>4. book'[w].limit # NoLimit /\ book'[w].limit < checked => book'[w].began >= checked
    <3>1. CASE book'[i].began = day
      BY <1>2, <1>4, <3>1 DEF Times, TypeOK
    <3>2. CASE \E v \in Standing(book) : /\ book'[i].began = book[v].began
                                         /\ book'[i].limit = book[v].limit
      BY <1>4, <3>2 DEF NoneSurvives
    <3> QED
      BY <3>1, <3>2
  <2> QED
    BY <2>3, <2>4
<1> QED
  BY <1>1, <1>3, <1>4

-----------------------------------------------------------------------------
(* The steps *)

LEMMA ConfirmKeeps == IInv /\ Confirm => IInv'
<1> SUFFICES ASSUME IInv, Confirm
             PROVE  IInv'
  OBVIOUS
<1>1. PICK v \in DOMAIN book :
        /\ book[v].origin = "jon" /\ book[v].state = "draft" /\ book[v].ok
        /\ Add(v, [NewVersion(book, v, "confirm") EXCEPT !.state = "active", !.began = day])
  BY DEF Confirm
<1>2. PICK i \in Ids \ DOMAIN book :
        /\ Grows(book, book', {i})
        /\ book'[i] = [NewVersion(book, v, "confirm") EXCEPT !.state = "active", !.began = day]
  BY <1>1, AddGrows
<1>3. UNCHANGED <<day, latest, messages, pc, todo, listed, chosen, checked, judged>>
  BY DEF Confirm, local, checks
<1>4. day \in Nat /\ Row(book[v], day) /\ v \in Ids
  BY DayAssumption DEF IInv, TypeOK, Good, Rows
<1>5. /\ book'[i] \in Version /\ book'[i].message = 0 /\ book'[i].by = "confirm"
      /\ book'[i].origin = "jon" /\ book'[i].day = day /\ book'[i].began = day
      /\ book'[i].ok /\ book'[i].prev = v /\ book'[i].symbol = book[v].symbol
  <2> DEFINE r == book[v]
  <2>1. r \in Version /\ r.origin = "jon" /\ r.ok
    BY <1>1, <1>4 DEF Row
  <2>2. book'[i] = [[r EXCEPT !.prev = v, !.by = "confirm", !.message = 0, !.day = day]
                      EXCEPT !.state = "active", !.began = day]
    BY <1>2 DEF NewVersion
  <2> HIDE DEF r
  <2> DEFINE q == [r EXCEPT !.prev = v, !.by = "confirm", !.message = 0, !.day = day]
  <2>typed. q \in Version
    BY <1>4, <2>1 DEF Version
  <2> HIDE DEF q
  <2>3. book'[i] \in Version
    <3>1. book'[i] = [q EXCEPT !.state = "active", !.began = day]
      BY <2>2 DEF q
    <3> QED
      BY <1>4, <2>typed, <3>1 DEF Version
  <2> USE DEF q
  <2>4. /\ book'[i].message = 0 /\ book'[i].by = "confirm"
        /\ book'[i].origin = "jon" /\ book'[i].day = day /\ book'[i].began = day
        /\ book'[i].ok /\ book'[i].prev = v /\ book'[i].symbol = r.symbol
    BY <2>1, <2>2 DEF Version
  <2> QED
    BY <2>3, <2>4 DEF r
<1>6. Row(book'[i], day) /\ ~OfDesk(book'[i])
  BY <1>1, <1>4, <1>5 DEF Row, OfDesk
<1>7. Good(book', day)
  BY <1>2, <1>4, <1>5, <1>6, AddGood DEF IInv
<1>8. NoneSurvives'
  BY <1>2, <1>3, <1>5, <1>6, AddSurvives DEF IInv, checks
<1>9. /\ DOMAIN book' = DOMAIN book \cup {i} /\ \A w \in DOMAIN book : book'[w] = book[w]
  BY <1>2 DEF Grows
<1>10. TypeOK'
  <2>1. DOMAIN book' \subseteq Ids /\ \A w \in DOMAIN book' : book'[w] \in Version
    BY <1>7 DEF Good, Rows, Row
  <2> QED
    BY <1>3, <1>9, <2>1 DEF IInv, TypeOK
<1>11. TodoFresh'
  <2>1. \A m \in todo : m # 0
    BY DEF IInv, TypeOK
  <2> QED
    BY <1>3, <1>5, <1>9, <2>1 DEF IInv, TodoFresh
<1>12. ListsGood'
  <2>1. /\ Standing(book') \subseteq Standing(book) \cup {i}
        /\ \A w \in Standing(book) : w # v => w \in Standing(book')
    <3>1. \A n \in {i} : book'[n].prev = v
      BY <1>5
    <3> QED
      BY <1>2, <3>1, StandingGrows
  <2>2. v \notin Standing(book)
    BY <1>1 DEF Standing
  <2>3. listed \subseteq Standing(book')
    BY <2>1, <2>2 DEF IInv, ListsGood
  <2>4. \A s \in chosen, w \in Standing(book') : book'[w].origin = "desk" => book'[w].symbol # s
    <3>1. \A w \in Standing(book) : book'[w] = book[w]
      BY <1>9 DEF Standing, OpenTheses, Last
    <3> QED
      BY <1>5, <2>1, <3>1 DEF IInv, ListsGood
  <2> QED
    BY <1>3, <2>3, <2>4 DEF IInv, ListsGood
<1>13. Times'
  BY <1>3 DEF IInv, Times
<1> QED
  BY <1>3, <1>7, <1>8, <1>10, <1>11, <1>12, <1>13 DEF IInv

LEMMA DraftNextKeeps == IInv /\ DraftNext => IInv'
<1> SUFFICES ASSUME IInv, DraftNext
             PROVE  IInv'
  OBVIOUS
<1>1. PICK m \in todo :
        /\ todo' = todo \ {m}
        /\ \/ Add(None, FailedDraft(m))
           \/ \E s \in Symbols, h \in Levels \cup {Missing}, l \in Deadlines \cup {NoLimit} :
                 Add(messages[m], Draft(m, s, h, l))
  BY DEF DraftNext
<1>2. /\ UNCHANGED <<day, latest, messages, pc, listed, chosen, checked, judged>>
      /\ pc = "intake"
  BY DEF DraftNext, checks
<1>3. /\ day \in Nat /\ m \in Nat /\ m # 0 /\ messages[m] \in Ids \cup {None}
  BY DayAssumption DEF IInv, TypeOK
<1>4. /\ Missing \in Nat /\ NoLimit \in Nat \cup {NoLimit}
      /\ \A s \in Symbols, h \in Levels \cup {Missing}, l \in Deadlines \cup {NoLimit} :
            Draft(m, s, h, l) \in Version
      /\ FailedDraft(m) \in Version
  BY <1>3, DayAssumption, PriceAssumption DEF Draft, FailedDraft, Version, Missing
<1>5. PICK i \in Ids \ DOMAIN book :
        /\ Grows(book, book', {i}) /\ book'[i] \in Version
        /\ book'[i].message = m /\ book'[i].by = "intake" /\ book'[i].state = "draft"
        /\ book'[i].day = day /\ book'[i].began = 0
        /\ book'[i].ok => book'[i].symbol \in Symbols
  <2>1. CASE Add(None, FailedDraft(m))
    <3>1. /\ FailedDraft(m).message = m /\ FailedDraft(m).by = "intake"
          /\ FailedDraft(m).state = "draft" /\ FailedDraft(m).day = day
          /\ FailedDraft(m).began = 0 /\ ~FailedDraft(m).ok
      BY DEF FailedDraft, Draft
    <3> QED
      BY <1>4, <2>1, <3>1, AddGrows
  <2>2. ASSUME NEW s \in Symbols, NEW h \in Levels \cup {Missing},
               NEW l \in Deadlines \cup {NoLimit}, Add(messages[m], Draft(m, s, h, l))
        PROVE  \E i \in Ids \ DOMAIN book :
                  /\ Grows(book, book', {i}) /\ book'[i] \in Version
                  /\ book'[i].message = m /\ book'[i].by = "intake" /\ book'[i].state = "draft"
                  /\ book'[i].day = day /\ book'[i].began = 0
                  /\ book'[i].ok => book'[i].symbol \in Symbols
    <3>1. PICK i \in Ids \ DOMAIN book :
            Grows(book, book', {i}) /\ book'[i] = Draft(m, s, h, l)
      BY <2>2, AddGrows
    <3>2. book'[i] \in Version
      BY <1>4, <3>1
    <3> QED
      BY <3>1, <3>2 DEF Draft
  <2> QED
    BY <1>1, <2>1, <2>2
<1>6. Row(book'[i], day) /\ ~OfDesk(book'[i])
  BY <1>3, <1>5 DEF Row, OfDesk
<1>7. /\ DOMAIN book' = DOMAIN book \cup {i} /\ \A w \in DOMAIN book : book'[w] = book[w]
  BY <1>5 DEF Grows
<1>8. i \notin Standing(book')
  BY <1>5 DEF Standing
<1>9. Good(book', day)
  <2>1. \A w \in DOMAIN book : book[w].message # m
    BY DEF IInv, TodoFresh
  <2> QED
    BY <1>3, <1>5, <1>6, <1>8, <2>1, AddGood DEF IInv
<1>10. Standing(book') \subseteq Standing(book) /\ \A w \in Standing(book) : book'[w] = book[w]
  <2>1. Standing(book') \subseteq Standing(book) \cup {i}
    BY <1>5, StandingGrows
  <2> QED
    BY <1>7, <1>8, <2>1 DEF Standing, OpenTheses, Last
<1>11. NoneSurvives'
  BY <1>2, <1>10 DEF IInv, NoneSurvives, Crossed
<1>12. TypeOK'
  <2>1. DOMAIN book' \subseteq Ids /\ \A w \in DOMAIN book' : book'[w] \in Version
    BY <1>9 DEF Good, Rows, Row
  <2> QED
    BY <1>1, <1>2, <1>7, <2>1 DEF IInv, TypeOK
<1>13. TodoFresh'
  BY <1>1, <1>5, <1>7 DEF IInv, TodoFresh
<1>14. ListsGood'
  BY <1>2, <1>10 DEF IInv, ListsGood
<1>15. Times'
  BY <1>2 DEF IInv, Times
<1> QED
  BY <1>2, <1>9, <1>11, <1>12, <1>13, <1>14, <1>15 DEF IInv

LEMMA WriteThesisKeeps == ASSUME NEW s \in Symbols, IInv, WriteThesis(s) PROVE IInv'
<1>1. /\ UNCHANGED <<day, latest, messages, pc, todo, listed, checked, judged>>
      /\ pc = "post" /\ s \in chosen /\ chosen' = chosen \ {s}
  BY DEF WriteThesis, checks
<1>2. /\ day \in Nat /\ None \notin Standing(book)
  BY IdAssumption, DayAssumption DEF IInv, TypeOK, Standing, OpenTheses, Last
<1>3. CASE UNCHANGED book
  <2>1. TypeOK'
    BY <1>1, <1>3 DEF IInv, TypeOK
  <2>2. TodoFresh'
    BY <1>1, <1>3 DEF IInv, TodoFresh
  <2>3. ListsGood'
    BY <1>1, <1>3 DEF IInv, ListsGood
  <2>4. Times'
    BY <1>1 DEF IInv, Times
  <2>5. NoneSurvives'
    BY <1>1, <1>3 DEF IInv, NoneSurvives, Crossed
  <2> QED
    BY <1>1, <1>3, <2>1, <2>2, <2>3, <2>4, <2>5 DEF IInv
<1>4. ASSUME NEW r, Add(None, r), r \in Version, r.by = "writer", r.message = 0,
             r.prev = None, r.day = day, r.began <= day,
             r.ok => r.began = day /\ r.symbol = s
      PROVE  IInv'
  <2>1. PICK i \in Ids \ DOMAIN book : Grows(book, book', {i}) /\ book'[i] = r
    BY <1>4, AddGrows
  <2>2. Row(book'[i], day) /\ ~OfDesk(book'[i])
    BY <1>2, <1>4, <2>1 DEF Row, OfDesk
  <2>3. /\ DOMAIN book' = DOMAIN book \cup {i} /\ \A w \in DOMAIN book : book'[w] = book[w]
    BY <2>1 DEF Grows
  <2>4. i \in Standing(book') => r.ok
    BY <2>1 DEF Standing, OpenTheses, Last
  <2>5. Good(book', day)
    <3>1. \A v \in Standing(book) : book[v].origin = "desk" => book[v].symbol # s
      BY <1>1 DEF IInv, ListsGood
    <3> QED
      BY <1>2, <1>4, <2>1, <2>2, <2>4, <3>1, AddGood DEF IInv
  <2>6. /\ Standing(book') \subseteq Standing(book) \cup {i}
        /\ \A w \in Standing(book) : book'[w] = book[w]
    <3>1. Standing(book') \subseteq Standing(book) \cup {i}
      BY <2>1, StandingGrows
    <3> QED
      BY <2>3, <3>1 DEF Standing, OpenTheses, Last
  <2>7. NoneSurvives'
    <3>1. CASE r.ok
      BY <1>1, <1>4, <2>1, <2>2, <3>1, AddSurvives DEF IInv, checks
    <3>2. CASE ~r.ok
      BY <1>1, <2>4, <2>6, <3>2 DEF IInv, NoneSurvives, Crossed
    <3> QED
      BY <3>1, <3>2
  <2>8. TypeOK'
    <3>1. DOMAIN book' \subseteq Ids /\ \A w \in DOMAIN book' : book'[w] \in Version
      BY <2>5 DEF Good, Rows, Row
    <3> QED
      BY <1>1, <2>3, <3>1 DEF IInv, TypeOK
  <2>9. TodoFresh'
    <3>1. \A m \in todo : m # 0
      BY DEF IInv, TypeOK
    <3> QED
      BY <1>1, <1>4, <2>1, <2>3, <3>1 DEF IInv, TodoFresh
  <2>10. ListsGood'
    <3>1. listed \subseteq Standing(book')
      <4>1. \A n \in {i} : book'[n].prev \notin Standing(book)
        BY <1>2, <1>4, <2>1
      <4> QED
        BY <2>1, <4>1, StandingGrows DEF IInv, ListsGood
    <3>2. \A t \in chosen', w \in Standing(book') : book'[w].origin = "desk" => book'[w].symbol # t
      BY <1>1, <1>4, <2>1, <2>4, <2>6 DEF IInv, ListsGood
    <3> QED
      BY <1>1, <3>1, <3>2 DEF IInv, ListsGood
  <2>11. Times'
    BY <1>1 DEF IInv, Times
  <2> QED
    BY <1>1, <2>5, <2>7, <2>8, <2>9, <2>10, <2>11 DEF IInv
<1>5. ASSUME NEW h \in Levels, NEW review \in Reviews, Add(None, Written(s, h, review))
      PROVE  IInv'
  <2> DEFINE r == Written(s, h, review)
  <2>1. day + review \in Nat
    BY <1>2, DayAssumption
  <2>2. r \in Version
    BY <1>2, <2>1 DEF Written, Version
  <2>3. /\ r.by = "writer" /\ r.message = 0 /\ r.prev = None
        /\ r.began = day /\ r.symbol = s /\ r.day = day
    BY DEF Written
  <2> HIDE DEF r
  <2> QED
    BY <1>2, <1>4, <1>5, <2>2, <2>3 DEF r
<1>6. CASE Add(None, FailedThesis(s))
  <2> DEFINE r == FailedThesis(s)
  <2>1. r \in Version
    BY <1>2 DEF FailedThesis, Written, Version, Missing
  <2>2. /\ r.by = "writer" /\ r.message = 0 /\ r.prev = None /\ r.began = 0 /\ ~r.ok /\ r.day = day
    BY DEF FailedThesis, Written
  <2> HIDE DEF r
  <2> QED
    BY <1>2, <1>4, <1>6, <2>1, <2>2 DEF r
<1> QED
  BY <1>3, <1>5, <1>6 DEF WriteThesis

\* new_version of a standing thesis is an heir of it, invalidated or not.
LEMMA NewVersionHeir ==
    ASSUME NEW b, day \in Nat, Rows(b, day), NEW v \in Standing(b),
           NEW by \in {"evidence", "judge", "status"}
    PROVE  LET n == NewVersion(b, v, by)
               m == [NewVersion(b, v, by) EXCEPT !.state = "invalidated"]
           IN  /\ HeirOf(n, b[v], v, day)
               /\ HeirOf(m, b[v], v, day) /\ m.state = "invalidated"
<1> DEFINE r == b[v]
           n == [r EXCEPT !.prev = v, !.by = by, !.message = 0, !.day = day]
           m == [n EXCEPT !.state = "invalidated"]
<1>1. r \in Version /\ r.ok /\ v \in Ids
  BY StandingRow DEF Rows, Row
<1> HIDE DEF r
<1>2. n \in Version
  BY <1>1 DEF Version
<1>3. /\ n.prev = v /\ n.ok /\ n.message = 0 /\ n.day = day
      /\ n.origin = r.origin /\ n.symbol = r.symbol /\ n.began = r.began /\ n.limit = r.limit
  BY <1>1 DEF Version
<1> HIDE DEF n
<1>4. m \in Version
  BY <1>2 DEF Version
<1>5. /\ m.prev = n.prev /\ m.ok = n.ok /\ m.message = n.message /\ m.day = n.day
      /\ m.origin = n.origin /\ m.symbol = n.symbol /\ m.began = n.began /\ m.limit = n.limit
      /\ m.state = "invalidated"
  BY <1>2 DEF Version
<1> QED
  BY <1>2, <1>3, <1>4, <1>5 DEF NewVersion, HeirOf, n, r

LEMMA DebateKeeps == IInv /\ Debate => IInv'
<1> SUFFICES ASSUME IInv, Debate
             PROVE  IInv'
  OBVIOUS
<1>1. PICK v \in listed : /\ listed' = listed \ {v}
                          /\ Add(v, NewVersion(book, v, "judge")) \/ UNCHANGED book
  BY DEF Debate
<1>2. /\ UNCHANGED <<day, latest, messages, pc, todo, chosen, checked, judged>>
      /\ pc = "analyst"
  BY DEF Debate, checks
<1>3. day \in Nat /\ v \in Standing(book) /\ chosen = {}
  BY <1>2, DayAssumption DEF IInv, TypeOK, ListsGood
<1>4. CASE UNCHANGED book
  <2>1. TypeOK'
    BY <1>1, <1>2, <1>4 DEF IInv, TypeOK
  <2>2. TodoFresh'
    BY <1>2, <1>4 DEF IInv, TodoFresh
  <2>3. ListsGood'
    BY <1>1, <1>2, <1>4 DEF IInv, ListsGood
  <2>4. Times'
    BY <1>2 DEF IInv, Times
  <2>5. NoneSurvives'
    BY <1>2, <1>4 DEF IInv, NoneSurvives, Crossed
  <2> QED
    BY <1>2, <1>4, <2>1, <2>2, <2>3, <2>4, <2>5 DEF IInv
<1>5. CASE Add(v, NewVersion(book, v, "judge"))
  <2> DEFINE n == NewVersion(book, v, "judge")
             new == [u \in {v} |-> n]
  <2>1. HeirOf(n, book[v], v, day)
    BY <1>3, NewVersionHeir DEF IInv, Good
  <2>2. PICK ids \in Fresh(book, {v}) : book' = Appended(book, new, ids)
    BY <1>5 DEF Add
  <2> HIDE DEF n
  <2>3. DOMAIN new = {v} /\ new[v] = n
    OBVIOUS
  <2> HIDE DEF new
  <2>4. /\ Good(book', day) /\ Grows(book, book', Range(ids))
        /\ ids[v] \in DOMAIN book' /\ book'[ids[v]] = n
    <3>1. \A u \in {v} : HeirOf(new[u], book[u], u, day)
      BY <2>1, <2>3
    <3>2. {v} \subseteq Standing(book) /\ DOMAIN new = {v}
      BY <1>3, <2>3
    <3> QED
      BY <1>3, <2>2, <2>3, <3>1, <3>2, HeirsGood DEF IInv
  <2> DEFINE i == ids[v]
  <2>5. Range(ids) = {i} /\ i \in Ids \ DOMAIN book
    BY DEF Fresh, Injection, Range
  <2>6. Grows(book, book', {i}) /\ book'[i] = n /\ i \in DOMAIN book'
    BY <2>4, <2>5
  <2> HIDE DEF i
  <2>7. /\ DOMAIN book' = DOMAIN book \cup {i} /\ \A w \in DOMAIN book : book'[w] = book[w]
    BY <2>6 DEF Grows
  <2>8. NoneSurvives'
    <3>1. Row(n, day)
      BY <2>4, <2>6 DEF Good, Rows
    <3>2. n.day = day /\ n.began = book[v].began /\ n.limit = book[v].limit
      BY <2>1 DEF HeirOf
    <3>3. UNCHANGED <<day, checks>>
      BY <1>2 DEF checks
    <3> QED
      BY <1>3, <2>5, <2>6, <3>1, <3>2, <3>3, AddSurvives DEF IInv
  <2>9. TypeOK'
    <3>1. DOMAIN book' \subseteq Ids /\ \A w \in DOMAIN book' : book'[w] \in Version
      BY <2>4 DEF Good, Rows, Row
    <3> QED
      BY <1>1, <1>2, <2>7, <3>1 DEF IInv, TypeOK
  <2>10. TodoFresh'
    <3>1. n.message = 0 /\ \A m \in todo : m # 0
      BY <2>1 DEF HeirOf, IInv, TypeOK
    <3> QED
      BY <1>2, <2>6, <2>7, <3>1 DEF IInv, TodoFresh
  <2>11. ListsGood'
    <3>1. \A k \in {i} : book'[k].prev = v
      BY <2>1, <2>6 DEF HeirOf
    <3>2. \A w \in Standing(book) : w # v => w \in Standing(book')
      BY <2>6, <3>1, StandingGrows
    <3> QED
      BY <1>1, <1>2, <1>3, <3>2 DEF IInv, ListsGood
  <2>12. Times'
    BY <1>2 DEF IInv, Times
  <2> QED
    BY <1>2, <2>4, <2>8, <2>9, <2>10, <2>11, <2>12 DEF IInv
<1> QED
  BY <1>1, <1>4, <1>5

\* Evidence and checks together: what stands in the end did not fail.
LEMMA EndPostTable ==
    ASSUME IInv, day \in Nat, NEW E, E \subseteq Standing(book), NEW ids \in Fresh(book, E),
           NEW more \in Fresh(Attached(book, E, ids), Failing(Attached(book, E, ids)))
    PROVE  LET b == Attached(book, E, ids)
               c == Invalidated(b, Failing(b), more)
           IN  /\ Good(c, day)
               /\ DOMAIN book \subseteq DOMAIN c
               /\ \A w \in DOMAIN c : (w \in DOMAIN book /\ c[w] = book[w]) \/ c[w].message = 0
               /\ \A w \in Standing(c) : Row(c[w], day) /\ ~Invalid(c[w])
<1> DEFINE b == Attached(book, E, ids)
           c == Invalidated(b, Failing(b), more)
           new == [v \in E |-> NewVersion(book, v, "evidence")]
           over == [v \in Failing(b) |->
                      [NewVersion(b, v, "status") EXCEPT !.state = "invalidated"]]
<1>1. /\ Good(b, day) /\ Grows(book, b, Range(ids))
      /\ \A w \in DOMAIN b : w \in DOMAIN book \/ b[w].message = 0
  <2>1. \A v \in E : HeirOf(new[v], book[v], v, day)
    BY NewVersionHeir DEF IInv, Good
  <2>2. b = Appended(book, new, ids) /\ DOMAIN new = E
    BY DEF Attached
  <2> HIDE DEF b, new
  <2>3. /\ Good(b, day) /\ Grows(book, b, Range(ids))
        /\ \A v \in E : ids[v] \in DOMAIN b /\ b[ids[v]] = new[v]
        /\ \A w \in DOMAIN b \ DOMAIN book : \E v \in E : w = ids[v]
    BY <2>1, <2>2, HeirsGood DEF IInv
  <2> QED
    BY <2>1, <2>3 DEF HeirOf
<1>2. more \in Fresh(b, Failing(b))
  OBVIOUS
<1> HIDE DEF b
<1>3. Failing(b) \subseteq Standing(b)
  BY DEF Failing
<1>4. \A v \in Failing(b) : HeirOf(over[v], b[v], v, day) /\ over[v].state = "invalidated"
  BY <1>1, <1>3, NewVersionHeir DEF Good
<1>5. c = Appended(b, over, more) /\ DOMAIN over = Failing(b)
  BY DEF Invalidated
<1> HIDE DEF c, over
<1>6. /\ Good(c, day) /\ Grows(b, c, Range(more))
      /\ \A v \in Failing(b) : more[v] \in DOMAIN c /\ c[more[v]] = over[v]
      /\ \A w \in DOMAIN c \ DOMAIN b : \E v \in Failing(b) : w = more[v]
  BY <1>1, <1>2, <1>3, <1>4, <1>5, HeirsGood
<1>7. \A w \in DOMAIN c : (w \in DOMAIN book /\ c[w] = book[w]) \/ c[w].message = 0
  BY <1>1, <1>4, <1>6 DEF HeirOf, Grows
<1>8. ASSUME NEW w \in Standing(c)
      PROVE  Row(c[w], day) /\ ~Invalid(c[w])
  <2>1. w \in DOMAIN c /\ Row(c[w], day) /\ c[w].state = "active"
    BY <1>6, StandingRow DEF Good
  <2>2. w \in DOMAIN b
    <3>1. SUFFICES ASSUME w \notin DOMAIN b
                   PROVE  FALSE
      OBVIOUS
    <3>2. PICK v \in Failing(b) : w = more[v]
      BY <1>6, <2>1, <3>1
    <3> QED
      BY <1>4, <1>6, <2>1, <3>2
  <2>3. w \in Standing(b) /\ c[w] = b[w]
    BY <1>6, <2>2, StandingGrows DEF Grows
  <2>4. w \notin Failing(b)
    <3>1. SUFFICES ASSUME w \in Failing(b)
                   PROVE  FALSE
      OBVIOUS
    <3>2. more[w] \in Range(more)
      BY <3>1, <1>2 DEF Fresh, Injection, Range
    <3>3. c[more[w]].ok /\ c[more[w]].prev = w
      BY <1>4, <1>6, <3>1 DEF HeirOf
    <3> QED
      BY <1>6, <2>3, <3>2, <3>3, StandingGrows
  <2> QED
    BY <2>1, <2>3, <2>4 DEF Failing
<1>9. DOMAIN book \subseteq DOMAIN c
  BY <1>1, <1>6 DEF Grows
<1> QED
  BY <1>6, <1>7, <1>8, <1>9 DEF b, c

LEMMA EndPostKeeps == IInv /\ EndPost => IInv'
<1> SUFFICES ASSUME IInv, EndPost
             PROVE  IInv'
  OBVIOUS
<1>1. /\ pc = "post" /\ pc' = "idle" /\ listed' = {} /\ chosen' = {}
      /\ checked' = day /\ judged' = latest
      /\ UNCHANGED <<day, latest, messages, todo>>
  BY DEF EndPost
<1>2. day \in Nat
  BY DayAssumption DEF IInv, TypeOK
<1>3. PICK E \in SUBSET listed : \E ids \in Fresh(book, E) :
        LET b == Attached(book, E, ids)
        IN  \E more \in Fresh(b, Failing(b)) : book' = Invalidated(b, Failing(b), more)
  BY DEF EndPost
<1>4. E \subseteq Standing(book)
  BY DEF IInv, ListsGood
<1>5. /\ Good(book', day)
      /\ DOMAIN book \subseteq DOMAIN book'
      /\ \A w \in DOMAIN book' : (w \in DOMAIN book /\ book'[w] = book[w]) \/ book'[w].message = 0
      /\ \A w \in Standing(book') : Row(book'[w], day) /\ ~Invalid(book'[w])
  BY <1>2, <1>3, <1>4, EndPostTable
<1>6. TypeOK'
  <2>1. DOMAIN book' \subseteq Ids /\ \A w \in DOMAIN book' : book'[w] \in Version
    BY <1>5 DEF Good, Rows, Row
  <2> QED
    BY <1>1, <1>2, <2>1 DEF IInv, TypeOK
<1>7. TodoFresh'
  <2>1. \A m \in todo : m # 0
    BY DEF IInv, TypeOK
  <2> QED
    BY <1>1, <1>5, <2>1 DEF IInv, TodoFresh
<1>8. ListsGood'
  BY <1>1 DEF ListsGood
<1>9. Times'
  BY <1>1, <1>2 DEF IInv, Times
<1>10. NoneSurvives'
  <2> SUFFICES ASSUME NEW w \in Standing(book')
               PROVE  /\ ~Crossed(book'[w], latest[book'[w].symbol])
                      /\ book'[w].limit # NoLimit /\ book'[w].limit < day =>
                            book'[w].began >= day
    BY <1>1 DEF NoneSurvives, Crossed
  <2>1. book'[w].limit \in Nat \cup {NoLimit} /\ ~Invalid(book'[w])
    BY <1>5 DEF Row, Version
  <2> QED
    BY <1>2, <2>1 DEF Invalid, NoLimit
<1> QED
  BY <1>1, <1>5, <1>6, <1>7, <1>8, <1>9, <1>10 DEF IInv

LEMMA InitHolds == Init => IInv
<1> SUFFICES ASSUME Init
             PROVE  IInv
  OBVIOUS
<1>1. /\ day = 0 /\ DOMAIN book = {} /\ messages = <<>> /\ pc = "idle"
      /\ todo = {} /\ listed = {} /\ chosen = {} /\ checked = -1
      /\ latest = [s \in Symbols |-> NoClose] /\ judged = [s \in Symbols |-> NoClose]
  BY DEF Init
<1>2. Standing(book) = {}
  BY <1>1 DEF Standing, OpenTheses, Last
<1>3. NoClose \in Close /\ NoClose.day = -1
  BY DEF NoClose, Close
<1>4. TypeOK
  BY <1>1, <1>3, DayAssumption DEF TypeOK
<1>5. Good(book, day)
  BY <1>1, <1>2 DEF Good, Rows, Drafted, Heirs, Covers
<1>6. TodoFresh /\ ListsGood
  BY <1>1, <1>2 DEF TodoFresh, ListsGood
<1>7. Times
  BY <1>1, <1>3 DEF Times
<1>8. NoneSurvives
  BY <1>2 DEF NoneSurvives
<1> QED
  BY <1>4, <1>5, <1>6, <1>7, <1>8 DEF IInv

\* Steps that leave the table and its checks alone.
LEMMA BookSame ==
    ASSUME IInv, UNCHANGED <<book, checked, judged>>
    PROVE  /\ day' = day => Good(book, day)'
           /\ Standing(book)' = Standing(book)
           /\ NoneSurvives'
BY DEF IInv, NoneSurvives, Crossed

LEMMA OthersKeep ==
    ASSUME IInv,
           \/ Submit \/ ReadMessages \/ BeginPost \/ BeginAnalyst \/ Stop
           \/ (\E s \in Symbols : StoreClose(s)) \/ NextDay \/ UNCHANGED vars
    PROVE  IInv'
<1> USE DEF local, checks
<1>1. UNCHANGED <<book, checked, judged>>
  BY DEF Submit, ReadMessages, BeginPost, BeginAnalyst, Stop, StoreClose, NextDay, vars
<1>2. NoneSurvives' /\ (day' = day => Good(book, day)')
  BY <1>1, BookSame
<1>3. TypeOK /\ TodoFresh /\ ListsGood /\ Times /\ day \in Nat
  BY DayAssumption DEF IInv, TypeOK
<1>4. TypeOK' /\ Good(book, day)'
  <2>1. CASE Submit
    BY <1>1, <1>2, <1>3, <2>1 DEF Submit, TypeOK
  <2>2. CASE ReadMessages
    BY <1>1, <1>2, <1>3, <2>2 DEF ReadMessages, FirstPending, Pending, TypeOK
  <2>3. CASE BeginPost
    BY <1>1, <1>2, <1>3, <2>3 DEF BeginPost, Standing, OpenTheses, Last, TypeOK
  <2>4. CASE BeginAnalyst
    BY <1>1, <1>2, <1>3, <2>4 DEF BeginAnalyst, Standing, OpenTheses, Last, TypeOK
  <2>5. CASE Stop
    BY <1>1, <1>2, <1>3, <2>5 DEF Stop, TypeOK
  <2>6. ASSUME NEW s \in Symbols, StoreClose(s)
        PROVE  TypeOK' /\ Good(book, day)'
    <3>1. PICK d \in latest[s].day + 1 .. day - 1, p \in Closes :
            latest' = [latest EXCEPT ![s] = [day |-> d, price |-> p]]
      BY <2>6 DEF StoreClose
    <3>2. latest[s].day \in Int /\ p \in Nat
      BY <1>3, PriceAssumption DEF TypeOK, Close
    <3>3. d \in Int
      BY <1>3, <3>2
    <3>4. [day |-> d, price |-> p] \in Close
      BY <3>2, <3>3 DEF Close
    <3>5. latest' \in [Symbols -> Close]
      BY <1>3, <3>1, <3>4 DEF TypeOK
    <3> QED
      BY <1>1, <1>2, <1>3, <2>6, <3>5 DEF StoreClose, TypeOK
  <2>7. CASE NextDay
    <3>1. day' = day + 1 /\ UNCHANGED <<latest, messages, local>>
      BY <2>7 DEF NextDay
    <3>2. TypeOK'
      BY <1>1, <1>3, <2>7, <3>1, DayAssumption DEF NextDay, TypeOK
    <3>3. \A v \in DOMAIN book : Row(book[v], day) => Row(book[v], day + 1)
      BY <1>3 DEF Row, Version
    <3>4. Good(book, day + 1)
      BY <3>3 DEF IInv, Good, Rows
    <3> QED
      BY <1>1, <3>1, <3>2, <3>4
  <2>8. CASE UNCHANGED vars
    BY <1>1, <1>2, <1>3, <2>8 DEF vars, TypeOK
  <2> QED
    BY <2>1, <2>2, <2>3, <2>4, <2>5, <2>6, <2>7, <2>8
<1>5. TodoFresh'
  BY <1>1, <1>3 DEF Submit, ReadMessages, BeginPost, BeginAnalyst, Stop, StoreClose, NextDay,
                   vars, TodoFresh, FirstPending, Pending
<1>6. ListsGood'
  <2>1. CASE BeginPost
    BY <1>1, <2>1 DEF BeginPost, ListsGood, Covered
  <2>2. CASE BeginAnalyst
    BY <1>1, <1>3, <2>2 DEF BeginAnalyst, ListsGood
  <2>3. CASE \/ Submit \/ ReadMessages \/ Stop \/ (\E s \in Symbols : StoreClose(s)) \/ NextDay
             \/ UNCHANGED vars
    BY <1>1, <1>3, <2>3 DEF Submit, ReadMessages, Stop, StoreClose, NextDay, vars, ListsGood
  <2> QED
    BY <2>1, <2>2, <2>3
<1>7. Times'
  <2>1. ASSUME NEW s \in Symbols, StoreClose(s)
        PROVE  Times'
    <3>1. PICK d \in latest[s].day + 1 .. day - 1, p \in Closes :
            latest' = [latest EXCEPT ![s] = [day |-> d, price |-> p]]
      BY <2>1 DEF StoreClose
    <3>2. latest[s].day \in Int /\ latest \in [Symbols -> Close]
      BY <1>3 DEF TypeOK, Close
    <3>3. d < day
      BY <1>3, <3>2
    <3>4. \A t \in Symbols : latest'[t].day < day
      BY <1>3, <3>1, <3>2, <3>3 DEF Times
    <3> QED
      BY <1>1, <1>3, <2>1, <3>4 DEF StoreClose, Times
  <2>2. CASE NextDay
    <3>1. \A t \in Symbols : latest[t].day \in Int /\ judged[t].day \in Int
      BY <1>3 DEF TypeOK, Close
    <3>2. checked \in Int
      BY <1>3 DEF TypeOK
    <3> QED
      BY <1>1, <1>3, <2>2, <3>1, <3>2 DEF NextDay, Times
  <2>3. CASE \/ Submit \/ ReadMessages \/ BeginPost \/ BeginAnalyst \/ Stop \/ UNCHANGED vars
    BY <1>1, <1>3, <2>3 DEF Submit, ReadMessages, BeginPost, BeginAnalyst, Stop, vars, Times
  <2> QED
    BY <2>1, <2>2, <2>3
<1> QED
  BY <1>2, <1>4, <1>5, <1>6, <1>7 DEF IInv

THEOREM Invariance == Spec => []IInv
<1>1. IInv /\ [Next]_vars => IInv'
  BY ConfirmKeeps, DraftNextKeeps, WriteThesisKeeps, DebateKeeps, EndPostKeeps, OthersKeep
     DEF Next
<1> QED
  BY <1>1, InitHolds, PTL DEF Spec

-----------------------------------------------------------------------------
(* The properties *)

\* Every reachable state of the table and the desks is well typed.
THEOREM TypeCorrect == Spec => []TypeOK
<1>1. IInv => TypeOK
  BY DEF IInv
<1> QED
  BY <1>1, Invariance, PTL

\* Whatever times out, crashes or is answered meanwhile, no message is drafted from
\* twice: process_pending.
THEOREM OneDraft == Spec => []DraftedOnce
<1>1. IInv => DraftedOnce
  BY DEF IInv, Good, Drafted, DraftedOnce
<1> QED
  BY <1>1, Invariance, PTL

\* The desks only build on standing theses and on each version once, although they
\* use lists that they read at their start: attach_evidence, check_theses and
\* debate_thesis.
THEOREM NoFork == Spec => []OneHeir
<1>1. IInv => OneHeir
  BY DEF IInv, Good, Heirs, OfDesk, OneHeir, ByDesk
<1> QED
  BY <1>1, Invariance, PTL

\* The desk never has two standing theses on a symbol: finalize and write_thesis.
THEOREM NotCoveredTwice == Spec => []CoveredOnce
<1>1. IInv => CoveredOnce
  BY DEF IInv, Good, Covers, CoveredOnce
<1> QED
  BY <1>1, Invariance, PTL

\* What failed a check does not stand after it: check_theses.
THEOREM ChecksHold == Spec => []NoneSurvives
<1>1. IInv => NoneSurvives
  BY DEF IInv
<1> QED
  BY <1>1, Invariance, PTL
=============================================================================
