--------------------------- MODULE EvidenceProofs ---------------------------
(***************************************************************************)
(* What is proved of the desks before and after the market: the verdicts   *)
(* of the fact check and the dossiers of research (Evidence), the ratings  *)
(* of the holdings and the debates of the theses (AnalystDesk).            *)
(***************************************************************************)
EXTENDS Evidence, AnalystDesk, FiniteSetTheorems, WellFoundedInduction, TLAPS

-----------------------------------------------------------------------------
(* Finite sets of numbers: their ends, and their elements in order.        *)

Below == {p \in Nat \X Nat : p[1] < p[2]}

LEMMA Least ==
    ASSUME NEW T, T \subseteq Nat, T # {} PROVE \E x \in T : \A y \in T : x <= y
<1>1. OpToRel(<, Nat) = Below BY Zenon DEF OpToRel, Below
<1>2. IsWellFoundedOn(Below, Nat) BY <1>1, NatLessThanWellFounded
<1>3. \E x \in T : \A y \in T : ~(<<y, x>> \in Below) BY <1>2, WFMin, Zenon
<1>4. ASSUME NEW x \in Nat, NEW y \in Nat, y < x PROVE <<y, x>> \in Below BY <1>4, Zenon DEF Below
<1>5. \A x, y \in Nat : ~(y < x) => x <= y BY SMT
<1> QED BY <1>3, <1>4, <1>5, Zenon

\* Induction over the numbers, for a set rather than a predicate.
LEMMA Induction ==
    ASSUME NEW T, 0 \in T, \A n \in Nat : n \in T => n + 1 \in T PROVE Nat \subseteq T
<1> DEFINE C == Nat \ T
<1> SUFFICES ASSUME C # {} PROVE FALSE OBVIOUS
<1>1. PICK m \in C : \A y \in C : m <= y BY Least
<1>2. m # 0 OBVIOUS
<1>3. m - 1 \in Nat /\ m - 1 \notin C BY <1>1, <1>2
<1> QED BY <1>3

\* A finite set of numbers has a least and a greatest one.
LEMMA Ends ==
    ASSUME NEW S, S \subseteq Int, IsFiniteSet(S), S # {}
    PROVE \E lo, hi \in S : \A x \in S : lo <= x /\ x <= hi
<1> DEFINE Bounded(U) == \E lo, hi \in U : \A x \in U : lo <= x /\ x <= hi
           T == {n \in Nat : \A U \in SUBSET Int : IsFiniteSet(U) /\ Cardinality(U) = n + 1 => Bounded(U)}
<1>1. 0 \in T
  <2> SUFFICES ASSUME NEW U \in SUBSET Int, IsFiniteSet(U), Cardinality(U) = 0 + 1 PROVE Bounded(U)
    OBVIOUS
  <2>1. Cardinality(U) = 1 OBVIOUS
  <2>2. PICK x : U = {x} BY <2>1, FS_Singleton
  <2> QED BY <2>2
<1>2. ASSUME NEW n \in Nat, n \in T PROVE n + 1 \in T
  <2> SUFFICES ASSUME NEW U \in SUBSET Int, IsFiniteSet(U), Cardinality(U) = n + 1 + 1 PROVE Bounded(U)
    OBVIOUS
  <2>1. PICK x \in U : TRUE
    <3>1. U # {} BY FS_EmptySet
    <3> QED BY <3>1
  <2>2. IsFiniteSet(U \ {x}) /\ Cardinality(U \ {x}) = n + 1 BY FS_RemoveElement, <2>1
  <2>3. Bounded(U \ {x}) BY <1>2, <2>2
  <2>4. PICK lo \in U \ {x}, hi \in U \ {x} : \A y \in U \ {x} : lo <= y /\ y <= hi BY <2>3
  <2> DEFINE least == IF x < lo THEN x ELSE lo
             most == IF x > hi THEN x ELSE hi
  <2>5. least \in U /\ most \in U BY <2>1, <2>4
  <2>6. ASSUME NEW y \in U PROVE least <= y /\ y <= most
    <3>1. x \in Int /\ y \in Int /\ lo \in Int /\ hi \in Int BY <2>1, <2>4, <2>6
    <3>2. CASE y = x BY <3>1, <3>2
    <3>3. CASE y # x
      <4>1. lo <= y /\ y <= hi BY <2>4, <2>6, <3>3
      <4> QED BY <3>1, <4>1
    <3> QED BY <3>2, <3>3
  <2> HIDE DEF least, most
  <2> QED BY <2>5, <2>6
<1> HIDE DEF T
<1>3. Nat \subseteq T BY <1>1, <1>2, Induction
<1>4. Cardinality(S) - 1 \in Nat BY FS_EmptySet, FS_CardinalityType
<1>5. Cardinality(S) - 1 \in T BY <1>3, <1>4
<1> QED BY <1>4, <1>5, FS_CardinalityType DEF T

\* A finite set of numbers can be put in order.
LEMMA Ordered ==
    ASSUME NEW S, S \subseteq Int, IsFiniteSet(S)
    PROVE \E f \in [1 .. Cardinality(S) -> S] : Enumerates(f, S)
<1> DEFINE T == {n \in Nat : \A U \in SUBSET Int : IsFiniteSet(U) /\ Cardinality(U) = n =>
                                 \E f \in [1 .. n -> U] : Enumerates(f, U)}
<1>1. 0 \in T
  <2> SUFFICES ASSUME NEW U \in SUBSET Int, IsFiniteSet(U), Cardinality(U) = 0
               PROVE \E f \in [1 .. 0 -> U] : Enumerates(f, U)
    OBVIOUS
  <2>1. U = {} BY FS_EmptySet
  <2>2. [i \in 1 .. 0 |-> i] \in [1 .. 0 -> U] BY <2>1
  <2>3. Enumerates([i \in 1 .. 0 |-> i], U) BY <2>1 DEF Enumerates, Range
  <2> QED BY <2>2, <2>3
<1>2. ASSUME NEW n \in Nat, n \in T PROVE n + 1 \in T
  <2> SUFFICES ASSUME NEW U \in SUBSET Int, IsFiniteSet(U), Cardinality(U) = n + 1
               PROVE \E f \in [1 .. n + 1 -> U] : Enumerates(f, U)
    OBVIOUS
  <2>1. PICK hi \in U : \A x \in U : x <= hi
    <3>1. U # {} BY FS_EmptySet
    <3> QED BY <3>1, Ends
  <2>2. IsFiniteSet(U \ {hi}) /\ Cardinality(U \ {hi}) = n
    <3>1. IsFiniteSet(U \ {hi}) /\ Cardinality(U \ {hi}) = Cardinality(U) - 1
      BY FS_RemoveElement, <2>1
    <3> QED BY <3>1, <1>2
  <2>3. PICK g \in [1 .. n -> U \ {hi}] : Enumerates(g, U \ {hi}) BY <1>2, <2>2
  <2> DEFINE f == [k \in 1 .. n + 1 |-> IF k = n + 1 THEN hi ELSE g[k]]
  <2>4. f \in [1 .. n + 1 -> U] BY <2>1, <2>3
  <2>5. Range(f) = U
    <3>1. ASSUME NEW x \in U PROVE \E k \in 1 .. n + 1 : f[k] = x
      <4>1. CASE x = hi BY <4>1
      <4>2. CASE x # hi
        <5>1. PICK k \in 1 .. n : g[k] = x BY <2>3, <4>2 DEF Enumerates, Range
        <5> QED BY <5>1
      <4> QED BY <4>1, <4>2
    <3> QED BY <3>1, <2>4 DEF Range
  <2>6. ASSUME NEW i \in DOMAIN f, NEW k \in DOMAIN f, i < k PROVE f[i] < f[k]
    <3>1. n \in Nat /\ i \in 1 .. n /\ k \in 1 .. n + 1 BY <1>2, <2>6
    <3>2. CASE k = n + 1
      <4>1. g[i] \in U \ {hi} BY <2>3, <3>1
      <4>2. g[i] < hi
        <5>1. g[i] \in Int /\ hi \in Int /\ g[i] <= hi /\ g[i] # hi BY <2>1, <4>1
        <5> QED BY <5>1
      <4>3. i # n + 1 /\ k = n + 1 BY <3>1, <3>2
      <4> QED BY <4>2, <4>3, <3>1
    <3>3. CASE k # n + 1 BY <3>1, <3>3, <2>3, <2>6 DEF Enumerates
    <3> QED BY <3>2, <3>3
  <2> HIDE DEF f
  <2> QED BY <2>4, <2>5, <2>6 DEF Enumerates
<1> HIDE DEF T
<1>3. Nat \subseteq T BY <1>1, <1>2, Induction
<1>4. Cardinality(S) \in T BY <1>3, FS_CardinalityType
<1> QED BY <1>4 DEF T

\* What Ascending gives: all elements, each once, the smaller ones first.
LEMMA AscendingIs ==
    ASSUME NEW S, S \subseteq Int, IsFiniteSet(S)
    PROVE /\ Ascending(S) \in Seq(S) /\ Len(Ascending(S)) = Cardinality(S)
          /\ Cardinality(S) \in Nat
          /\ \A k \in 1 .. Cardinality(S) : Ascending(S)[k] \in S
          /\ \A x \in S : \E k \in 1 .. Cardinality(S) : Ascending(S)[k] = x
          /\ \A i, k \in 1 .. Cardinality(S) : i < k => Ascending(S)[i] < Ascending(S)[k]
<1>1. Cardinality(S) \in Nat BY FS_CardinalityType
<1>2. Ascending(S) \in [1 .. Cardinality(S) -> S] /\ Enumerates(Ascending(S), S)
  BY Ordered, Zenon DEF Ascending
<1>3. Ascending(S) \in Seq(S) /\ Len(Ascending(S)) = Cardinality(S) BY <1>1, <1>2
<1> QED BY <1>1, <1>2, <1>3 DEF Enumerates, Range

-----------------------------------------------------------------------------
(* The ratings of the holdings: NeverMilder.                               *)

AnyRow == UNION Portfolios

ReadRow == [symbol : Listed, rows : SUBSET AnyRow, first : Nat, since : Nat]

\* A holding as load_holdings reads it has a row, and was first seen before it was held
\* for as long as now.
IsRead(h) ==
    h \in ReadRow /\ h.rows # {} /\ IsFiniteSet(h.rows) /\ h.first <= h.since

Snapshots ==
    /\ day \in Nat /\ snapshot \in [Accounts -> Portfolios \cup {{}}]
    /\ first \in [Listed -> Nat \cup {None}] /\ since \in [Listed -> Nat \cup {None}]
    /\ \A s \in Listed : since[s] # None => first[s] # None /\ first[s] <= since[s] /\ since[s] <= day
    /\ \A s \in Listed : first[s] # None => first[s] <= day
    /\ \A s \in Held(snapshot) : since[s] # None

Rated ==
    /\ left \in Seq(ReadRow) /\ \A k \in 1 .. Len(left) : IsRead(left[k])
    /\ judged \in [Listed -> Ratings \cup {None}]
    /\ rated = [s \in Listed |-> rated[s]]

RatingInv == Snapshots /\ Rated /\ NeverMilder

LEMMA RowTypes == ASSUME NEW r \in AnyRow PROVE r.share \in Int /\ r.expiry \in Int \cup {None}
BY PortfolioAssumption DEF AnyRow

LEMMA Severities ==
    /\ Ratings = {"buy_add", "hold", "trim", "sell"}
    /\ Severity["buy_add"] = 0 /\ Severity["hold"] = 1
    /\ Severity["trim"] = 2 /\ Severity["sell"] = 3
BY DEF Ratings, Severity

\* apply_flags gives a rating, and none of the forced ones is more severe.
LEMMA FlagsApplied ==
    ASSUME NEW rating \in Ratings, NEW flags, Forced(flags) \subseteq Ratings
    PROVE /\ ApplyFlags(rating, flags) \in Ratings
          /\ \A q \in Forced(flags) : Severity[q] <= Severity[ApplyFlags(rating, flags)]
<1> DEFINE X == Forced(flags) \cup {rating}
           Top(r) == \A q \in X : Severity[q] <= Severity[r]
<1>1. X \subseteq {"buy_add", "hold", "trim", "sell"} /\ X # {} BY Severities
<1>2. \E r \in X : Top(r)
  <2>1. CASE "sell" \in X BY <1>1, <2>1, Severities
  <2>2. CASE "sell" \notin X /\ "trim" \in X BY <1>1, <2>2, Severities
  <2>3. CASE "sell" \notin X /\ "trim" \notin X /\ "hold" \in X BY <1>1, <2>3, Severities
  <2>4. CASE X = {"buy_add"} BY <1>1, <2>4, Severities
  <2> QED BY <1>1, <2>1, <2>2, <2>3, <2>4
<1>3. ApplyFlags(rating, flags) \in X /\ Top(ApplyFlags(rating, flags))
  BY <1>2, Zenon DEF ApplyFlags
<1> QED BY <1>3

LEMMA GreatestIs ==
    ASSUME NEW S, S \subseteq Int, IsFiniteSet(S), S # {}
    PROVE /\ Max(S) \in S /\ \A x \in S : x <= Max(S)
          /\ Min(S) \in S /\ \A x \in S : Min(S) <= x
<1>1. PICK lo \in S, hi \in S : \A x \in S : lo <= x /\ x <= hi BY Ends
<1>2. \A x \in S : hi >= x BY <1>1
<1>3. Max(S) \in S /\ \A x \in S : Max(S) >= x BY <1>2 DEF Max
<1>4. Min(S) \in S /\ \A x \in S : Min(S) <= x BY <1>1 DEF Min
<1> QED BY <1>3, <1>4

\* A set given by a function of a finite set is finite.
LEMMA ImageFinite ==
    ASSUME NEW f, IsFiniteSet(DOMAIN f) PROVE IsFiniteSet({f[x] : x \in DOMAIN f})
<1> DEFINE S == DOMAIN f
           T == {f[x] : x \in S}
           g == [x \in S |-> f[x]]
<1>1. g \in [S -> T] /\ \A t \in T : \E x \in S : g[x] = t OBVIOUS
<1> HIDE DEF g, T
<1>2. g \in Surjection(S, T) BY <1>1 DEF Surjection
<1>3. IsFiniteSet(T) BY <1>2, FS_Surjection
<1> QED BY <1>3 DEF T

\* The largest share of some rows, and the first of their options.
LEMMA RowsEnds ==
    ASSUME NEW rows \in SUBSET AnyRow, IsFiniteSet(rows), rows # {}
    PROVE /\ Share(rows) \in Int /\ \A r \in rows : r.share <= Share(rows)
          /\ \A r \in rows : r.expiry # None => \E e \in Expiry(rows) : e \in Int /\ e <= r.expiry
<1> DEFINE share == [r \in rows |-> r.share]
           dated == {q \in rows : q.expiry # None}
           expiry == [r \in dated |-> r.expiry]
           shares == {r.share : r \in rows}
           expiries == {r.expiry : r \in dated}
<1>1. \A r \in rows : r.share \in Int /\ r.expiry \in Int \cup {None} BY RowTypes
<1>2. shares = {share[r] : r \in DOMAIN share} OBVIOUS
<1>3. expiries = {expiry[r] : r \in DOMAIN expiry} OBVIOUS
<1>4. DOMAIN share = rows /\ DOMAIN expiry = dated /\ IsFiniteSet(dated)
  BY FS_Subset
<1>5. IsFiniteSet(shares) /\ IsFiniteSet(expiries)
  <2> HIDE DEF share, expiry
  <2>1. IsFiniteSet({share[r] : r \in DOMAIN share}) BY <1>4, ImageFinite
  <2>2. IsFiniteSet({expiry[r] : r \in DOMAIN expiry}) BY <1>4, ImageFinite
  <2> HIDE DEF shares, expiries
  <2> QED BY <2>1, <2>2, <1>2, <1>3
<1>6. shares \subseteq Int /\ shares # {} /\ expiries \subseteq Int BY <1>1
<1>7. Share(rows) \in Int /\ \A r \in rows : r.share <= Share(rows)
  <2>1. Max(shares) \in shares /\ \A x \in shares : x <= Max(shares)
    <3> HIDE DEF shares
    <3> QED BY <1>5, <1>6, GreatestIs
  <2> QED BY <2>1, <1>6 DEF Share
<1>8. ASSUME NEW r \in rows, r.expiry # None PROVE \E e \in Expiry(rows) : e \in Int /\ e <= r.expiry
  <2>1. r.expiry \in expiries BY <1>8
  <2>2. Min(expiries) \in expiries /\ \A x \in expiries : Min(expiries) <= x
    <3> HIDE DEF expiries
    <3> QED BY <1>5, <1>6, <2>1, GreatestIs
  <2>3. Min(expiries) \in Expiry(rows) BY <1>8, <2>1 DEF Expiry, Expiries
  <2> QED BY <2>1, <2>2, <2>3, <1>6
<1> QED BY <1>7, <1>8

\* What the share and the option of a holding force.
LEMMA ForcedBy ==
    ASSUME NEW h, IsRead(h), day \in Nat
    PROVE /\ Forced(RiskFlags(h)) \subseteq {"trim", "sell"}
          /\ (\E r \in h.rows : r.expiry # None /\ r.expiry - day <= ExpirySell)
               => "sell" \in Forced(RiskFlags(h))
          /\ (\E r \in h.rows : r.share >= TrimShare) => "trim" \in Forced(RiskFlags(h))
          /\ h.symbol \in Funds /\ day - h.since >= TrimDays => "trim" \in Forced(RiskFlags(h))
<1>1. /\ h.rows \in SUBSET AnyRow /\ h.rows # {} /\ IsFiniteSet(h.rows)
      /\ h.first \in Nat /\ h.since \in Nat /\ h.first <= h.since
  BY DEF IsRead, ReadRow
<1>2. None # "sell" /\ None # "trim" BY NoneAssumption, Severities
<1>3. {WarnShare, TrimShare, WarnDays, TrimDays, ExpiryWarn, ExpirySell} \subseteq Int
      /\ WarnShare <= TrimShare /\ WarnDays <= TrimDays /\ ExpirySell <= ExpiryWarn
  BY ThresholdAssumption
<1> DEFINE large == Flag("concentration", Share(h.rows) >= WarnShare, Share(h.rows) >= TrimShare, "trim")
           long == IF h.symbol \notin Funds THEN {} ELSE
                   Flag("levered_days", day - h.first >= WarnDays, day - h.first >= TrimDays, "trim")
           ends(e) == Flag("option_expiry", e - day <= ExpiryWarn, e - day <= ExpirySell, "sell")
<1>4. RiskFlags(h) = large \cup long \cup UNION {ends(e) : e \in Expiry(h.rows)}
  BY DEF RiskFlags
<1>5. \A f \in large \cup long : f.forces \in {"trim", None} BY DEF Flag
<1>6. \A e \in Expiry(h.rows) : \A f \in ends(e) : f.forces \in {"sell", None} BY DEF Flag
<1>7. ASSUME NEW r \in h.rows, r.expiry # None, r.expiry - day <= ExpirySell
      PROVE "sell" \in Forced(RiskFlags(h))
  <2>1. PICK e \in Expiry(h.rows) : e \in Int /\ e <= r.expiry BY <1>1, <1>7, RowsEnds
  <2>2. r.expiry \in Int BY <1>1, <1>7, RowTypes
  <2>3. e - day <= ExpiryWarn /\ e - day <= ExpirySell BY <1>3, <1>7, <2>1, <2>2
  <2>4. [code |-> "option_expiry", forces |-> "sell"] \in ends(e) BY <2>3 DEF Flag
  <2> HIDE DEF ends
  <2>5. [code |-> "option_expiry", forces |-> "sell"] \in RiskFlags(h) BY <1>4, <2>1, <2>4
  <2> QED BY <2>5, <1>2 DEF Forced
<1>8. ASSUME [code |-> "concentration", forces |-> "trim"] \in large
             \/ [code |-> "levered_days", forces |-> "trim"] \in long
      PROVE "trim" \in Forced(RiskFlags(h))
  <2> HIDE DEF large, long, ends
  <2> QED BY <1>2, <1>4, <1>8 DEF Forced
<1>9. ASSUME NEW r \in h.rows, r.share >= TrimShare PROVE "trim" \in Forced(RiskFlags(h))
  <2>1. Share(h.rows) \in Int /\ r.share <= Share(h.rows) /\ r.share \in Int
    BY <1>1, <1>9, RowsEnds, RowTypes
  <2>2. [code |-> "concentration", forces |-> "trim"] \in large BY <1>3, <1>9, <2>1 DEF Flag
  <2> QED BY <1>8, <2>2
<1>10. ASSUME h.symbol \in Funds, day - h.since >= TrimDays PROVE "trim" \in Forced(RiskFlags(h))
  <2>1. day - h.first >= TrimDays /\ day - h.first >= WarnDays BY <1>1, <1>3, <1>10
  <2>2. [code |-> "levered_days", forces |-> "trim"] \in long BY <1>10, <2>1 DEF Flag
  <2> QED BY <1>8, <2>2
<1>11. Forced(RiskFlags(h)) \subseteq {"trim", "sell"}
  <2> HIDE DEF large, long, ends
  <2> QED BY <1>4, <1>5, <1>6 DEF Forced
<1> QED BY <1>7, <1>9, <1>10, <1>11

LEMMA HoldingRead ==
    ASSUME Snapshots, NEW s \in Held(snapshot)
    PROVE IsRead(Holding(s))
<1> DEFINE snapshots == {snapshot[a] : a \in Accounts}
<1>1. s \in Listed /\ RowsOf(snapshot, s) # {} BY DEF Held
<1>2. since[s] \in Nat /\ first[s] \in Nat /\ first[s] <= since[s]
  BY <1>1, NoneAssumption DEF Snapshots
<1>3. \A T \in snapshots : T \in Portfolios \cup {{}} BY DEF Snapshots
<1>4. RowsOf(snapshot, s) \subseteq AnyRow BY <1>3 DEF RowsOf, AnyRow
<1>5. IsFiniteSet(RowsOf(snapshot, s))
  <2>1. IsFiniteSet(snapshots)
    <3>1. DOMAIN snapshot = Accounts BY DEF Snapshots
    <3>2. IsFiniteSet(DOMAIN snapshot) BY <3>1, PortfolioAssumption
    <3>3. IsFiniteSet({snapshot[a] : a \in DOMAIN snapshot}) BY <3>2, ImageFinite
    <3> QED BY <3>1, <3>3
  <2>2. \A T \in snapshots : IsFiniteSet(T) BY <1>3, PortfolioAssumption, FS_EmptySet
  <2>3. IsFiniteSet(UNION snapshots)
    <3> HIDE DEF snapshots
    <3> QED BY <2>1, <2>2, FS_UNION
  <2> QED BY <2>3, FS_Subset DEF RowsOf
<1> QED BY <1>1, <1>2, <1>4, <1>5 DEF IsRead, ReadRow, Holding

LEMMA HoldingsRead ==
    ASSUME Snapshots
    PROVE Holdings \in Seq(ReadRow) /\ \A k \in 1 .. Len(Holdings) : IsRead(Holdings[k])
<1> DEFINE S == {i \in DOMAIN Order : Order[i] \in Held(snapshot)}
           held == Ascending(S)
<1>1. Order \in Seq(ToSet(Order)) BY PortfolioAssumption
<1>2. Len(Order) \in Nat /\ S \subseteq 1 .. Len(Order) /\ S \subseteq Int BY <1>1
<1>3. IsFiniteSet(S) BY <1>2, FS_Interval, FS_Subset
<1>4. held \in Seq(S) /\ \A k \in 1 .. Len(held) : held[k] \in S
  <2> HIDE DEF S
  <2> QED BY <1>2, <1>3, AscendingIs
<1>5. DOMAIN held = 1 .. Len(held) /\ Len(held) \in Nat BY <1>4
<1>6. Holdings = [k \in 1 .. Len(held) |-> Holding(Order[held[k]])] BY <1>5 DEF Holdings
<1>7. \A k \in 1 .. Len(held) : IsRead(Holding(Order[held[k]])) BY <1>4, HoldingRead
<1> HIDE DEF held
<1>8. \A k \in 1 .. Len(held) : Holding(Order[held[k]]) \in ReadRow BY <1>7 DEF IsRead
<1>9. Holdings \in [1 .. Len(held) -> ReadRow] BY <1>6, <1>8
<1>10. Holdings \in Seq(ReadRow) /\ Len(Holdings) = Len(held) BY <1>5, <1>9
<1> QED BY <1>6, <1>7, <1>10

LEMMA ReportKeeps == ASSUME RatingInv, NEW a \in Accounts, Report(a) PROVE RatingInv'
<1> USE DEF RatingInv
<1>1. PICK p \in Portfolios : snapshot' = [snapshot EXCEPT ![a] = p] BY DEF Report
<1>2. snapshot' \in [Accounts -> Portfolios \cup {{}}] BY <1>1 DEF Snapshots
<1>3. UNCHANGED <<day, judged, rated, left>> BY DEF Report, shift
<1>4. \A s \in Listed :
        /\ first'[s] = IF first[s] = None /\ s \in Held(snapshot') THEN day ELSE first[s]
        /\ since'[s] = IF s \notin Held(snapshot') THEN None ELSE IF since[s] = None THEN day ELSE since[s]
  BY DEF Report
<1>5. DOMAIN first' = Listed /\ DOMAIN since' = Listed BY DEF Report
<1>6. ASSUME NEW s \in Listed
      PROVE /\ first'[s] \in Nat \cup {None} /\ since'[s] \in Nat \cup {None}
            /\ since'[s] # None => first'[s] # None /\ first'[s] <= since'[s] /\ since'[s] <= day
            /\ first'[s] # None => first'[s] <= day
            /\ s \in Held(snapshot') => since'[s] # None
  BY <1>4, <1>6, NoneAssumption DEF Snapshots
<1>7. first' \in [Listed -> Nat \cup {None}] /\ since' \in [Listed -> Nat \cup {None}]
  <2>1. first' = [s \in Listed |-> first'[s]] /\ since' = [s \in Listed |-> since'[s]]
    BY <1>5 DEF Report
  <2> QED BY <2>1, <1>6
<1>8. \A s \in Held(snapshot') : s \in Listed BY DEF Held
<1>9. Snapshots' BY <1>2, <1>3, <1>6, <1>7, <1>8 DEF Snapshots
<1>10. Rated' /\ NeverMilder' BY <1>3 DEF Rated, NeverMilder
<1> QED BY <1>9, <1>10

LEMMA RateKeeps == ASSUME RatingInv, RateHolding PROVE RatingInv'
<1> USE DEF RatingInv
<1> DEFINE h == Head(left)
<1>1. left # <<>> /\ left' = Tail(left) /\ UNCHANGED <<day, snapshot, first, since>>
  BY DEF RateHolding, holdings
<1>2. PICK reply \in Ratings \cup {None} :
        /\ rated' = [rated EXCEPT ![h.symbol] = [holding |-> h, day |-> day, rating |-> Rating(h, reply)]]
        /\ judged' = IF reply = None THEN judged ELSE [judged EXCEPT ![h.symbol] = Rating(h, reply)]
  BY DEF RateHolding
<1>3. IsRead(h) /\ h.symbol \in Listed /\ h = left[1]
  <2>1. h = left[1] /\ 1 \in 1 .. Len(left) BY <1>1 DEF Rated
  <2> QED BY <2>1 DEF Rated, IsRead, ReadRow
<1>4. left' \in Seq(ReadRow) /\ \A k \in 1 .. Len(left') : IsRead(left'[k])
  <2>1. left' \in Seq(ReadRow) /\ Len(left') = Len(left) - 1
        /\ \A k \in 1 .. Len(left') : left'[k] = left[k + 1]
    BY <1>1 DEF Rated
  <2>2. \A k \in 1 .. Len(left') : k + 1 \in 1 .. Len(left) BY <2>1 DEF Rated
  <2> QED BY <2>1, <2>2 DEF Rated
<1> DEFINE before == IF reply # None THEN reply ELSE Previous(h.symbol)
<1>5. before \in Ratings BY <1>2, <1>3, Severities DEF Previous, Rated
<1>6. /\ Forced(RiskFlags(h)) \subseteq {"trim", "sell"} /\ day \in Nat
      /\ (\E r \in h.rows : r.expiry # None /\ r.expiry - day <= ExpirySell)
           => "sell" \in Forced(RiskFlags(h))
      /\ (\E r \in h.rows : r.share >= TrimShare) => "trim" \in Forced(RiskFlags(h))
      /\ h.symbol \in Funds /\ day - h.since >= TrimDays => "trim" \in Forced(RiskFlags(h))
  <2>1. day \in Nat BY DEF Snapshots
  <2> HIDE DEF h
  <2> QED BY <1>3, <2>1, ForcedBy
<1>7. Rating(h, reply) = ApplyFlags(before, RiskFlags(h)) BY DEF Rating
<1>8. /\ Rating(h, reply) \in Ratings
      /\ \A q \in Forced(RiskFlags(h)) : Severity[q] <= Severity[Rating(h, reply)]
  <2>1. Forced(RiskFlags(h)) \subseteq Ratings BY <1>6, Severities
  <2> HIDE DEF h, before
  <2> QED BY <1>5, <1>7, <2>1, FlagsApplied
<1>9. /\ (\E r \in h.rows : r.expiry # None /\ r.expiry - day <= ExpirySell)
           => Rating(h, reply) = "sell"
      /\ (\E r \in h.rows : r.share >= TrimShare) \/ (h.symbol \in Funds /\ day - h.since >= TrimDays)
           => Rating(h, reply) \in {"trim", "sell"}
  <2> HIDE DEF h
  <2>1. "sell" \in Forced(RiskFlags(h)) => Rating(h, reply) = "sell" BY <1>8, Severities
  <2>2. "trim" \in Forced(RiskFlags(h)) => Rating(h, reply) \in {"trim", "sell"} BY <1>8, Severities
  <2> QED BY <2>1, <2>2, <1>6
<1>10. judged' \in [Listed -> Ratings \cup {None}]
  <2> HIDE DEF h
  <2> QED BY <1>2, <1>8, <1>3 DEF Rated
<1>11. rated' = [s \in Listed |-> rated'[s]]
  <2> HIDE DEF h
  <2>1. DOMAIN rated = Listed BY DEF Rated
  <2> QED BY <1>2, <2>1
<1>12. NeverMilder'
  <2> SUFFICES ASSUME NEW s \in Listed, rated'[s] # None
               PROVE /\ (\E r \in rated'[s].holding.rows :
                            r.expiry # None /\ r.expiry - rated'[s].day <= ExpirySell)
                         => rated'[s].rating = "sell"
                     /\ (\E r \in rated'[s].holding.rows : r.share >= TrimShare)
                            \/ (s \in Funds /\ rated'[s].day - rated'[s].holding.since >= TrimDays)
                         => rated'[s].rating \in {"trim", "sell"}
    BY DEF NeverMilder
  <2>1. CASE s = h.symbol
    <3>1. rated'[s] = [holding |-> h, day |-> day, rating |-> Rating(h, reply)]
      BY <1>2, <1>3, <2>1 DEF Rated
    <3> HIDE DEF h
    <3> QED BY <3>1, <1>9, <2>1
  <2>2. CASE s # h.symbol
    <3>1. rated'[s] = rated[s] BY <1>2, <2>2 DEF Rated
    <3> QED BY <3>1 DEF NeverMilder
  <2> QED BY <2>1, <2>2
<1>13. Snapshots' BY <1>1 DEF Snapshots, Held, RowsOf
<1> QED BY <1>4, <1>10, <1>11, <1>12, <1>13 DEF Rated

LEMMA RatingNext == ASSUME RatingInv, [AnalystNext]_analystVars PROVE RatingInv'
<1> USE DEF RatingInv
<1>1. CASE Begin
  <2>1. left' = Holdings /\ UNCHANGED <<day, snapshot, first, since, judged, rated>>
    BY <1>1 DEF Begin, holdings
  <2>2. Snapshots' BY <2>1 DEF Snapshots, Held, RowsOf
  <2>3. Rated' BY <2>1, HoldingsRead DEF Rated
  <2>4. NeverMilder' BY <2>1 DEF NeverMilder
  <2> QED BY <2>2, <2>3, <2>4
<1>2. CASE End
  <2>1. left' = <<>> /\ UNCHANGED <<day, snapshot, first, since, judged, rated>>
    BY <1>2 DEF End, holdings
  <2>2. Snapshots' BY <2>1 DEF Snapshots, Held, RowsOf
  <2>3. Rated' BY <2>1 DEF Rated
  <2>4. NeverMilder' BY <2>1 DEF NeverMilder
  <2> QED BY <2>2, <2>3, <2>4
<1>3. CASE NextDay
  <2>1. day' = day + 1 /\ UNCHANGED <<snapshot, first, since, judged, rated, left>>
    BY <1>3 DEF NextDay, holdings, shift
  <2>2. Snapshots' BY <2>1, NoneAssumption DEF Snapshots, Held, RowsOf
  <2>3. Rated' /\ NeverMilder' BY <2>1 DEF Rated, NeverMilder
  <2> QED BY <2>2, <2>3
<1>4. ASSUME UNCHANGED <<day, snapshot, first, since, judged, rated, left>> PROVE RatingInv'
  BY <1>4 DEF Snapshots, Held, RowsOf, Rated, NeverMilder
<1>5. ASSUME NEW c \in Chains, WriteThesis(c) \/ Redraft(c) \/ AttachEvidence(c) \/ MovePrice(c)
      PROVE RatingInv'
  BY <1>4, <1>5 DEF WriteThesis, Redraft, AttachEvidence, MovePrice, holdings, shift
<1>6. CASE EndRatings \/ DebateThesis BY <1>4, <1>6 DEF EndRatings, DebateThesis, holdings
<1>7. CASE UNCHANGED analystVars BY <1>4, <1>7 DEF analystVars, holdings, shift
<1> QED BY <1>1, <1>2, <1>3, <1>5, <1>6, <1>7, ReportKeeps, RateKeeps DEF AnalystNext

\* A rating is never milder than its holding demands (src/desk/desks/holdings/rating.py:73),
\* whether the judge gave it or it stands for one that failed.
THEOREM RatingsNeverMilder == AnalystSpec => []NeverMilder
<1>1. AnalystInit => RatingInv
  <2> SUFFICES ASSUME AnalystInit PROVE RatingInv OBVIOUS
  <2>1. Snapshots
    <3>1. \A s : s \notin Held(snapshot) BY DEF AnalystInit, Held, RowsOf
    <3> QED BY <3>1 DEF AnalystInit, Snapshots
  <2>2. Rated /\ NeverMilder BY DEF AnalystInit, Rated, NeverMilder
  <2> QED BY <2>1, <2>2 DEF RatingInv
<1>2. RatingInv => NeverMilder BY DEF RatingInv
<1> QED BY <1>1, <1>2, RatingNext, PTL DEF AnalystSpec

-----------------------------------------------------------------------------
(* The debates of the theses: ArguedForCause.                              *)

VersionRow == [note : {"new", "draft", "evidence", "judge"}, state : {"active", "draft"}, evidence : BOOLEAN]
VerdictRow == [version : Nat, day : Nat, verdict : Verdicts, zone : BOOLEAN]
DueRow == [chain : Chains, version : Nat, priority : 0 .. 4, zone : BOOLEAN]

DebateTypes ==
    /\ day \in Nat /\ begun \in Int /\ begun <= day
    /\ thesis \in [Chains -> Seq(VersionRow)] /\ verdicts \in [Chains -> Seq(VerdictRow)]
    /\ due \subseteq DueRow
    /\ part = "idle" => due = {}
    /\ part # "idle" => begun = day

\* The verdicts on a thesis are of different shifts and on ever newer versions.
VerdictsInOrder ==
    \A c \in Chains :
        /\ \A i \in 1 .. Len(verdicts[c]) :
              verdicts[c][i].day <= begun /\ verdicts[c][i].version <= Len(thesis[c])
        /\ \A i \in 1 .. Len(verdicts[c]) : \A k \in i + 1 .. Len(verdicts[c]) :
              /\ verdicts[c][i].day < verdicts[c][k].day
              /\ verdicts[c][i].version <= verdicts[c][k].version

\* Why a thesis may be argued on this day in this version after verdict v.
Cause(c, v, version, on, warned) ==
    \/ warned
    \/ \E n \in v.version + 1 .. version : thesis[c][n].note = "evidence"
    \/ on - v.day >= RedebateDays /\ (c \in Jons \/ v.verdict # "reject")

\* A due debate was read before any verdict of this shift on its thesis.
DueForCause ==
    \A d \in due :
        /\ d.version <= Len(thesis[d.chain])
        /\ \A i \in 1 .. Len(verdicts[d.chain]) :
              verdicts[d.chain][i].day < day /\ verdicts[d.chain][i].version <= d.version
        /\ verdicts[d.chain] # <<>> =>
              Cause(d.chain, verdicts[d.chain][Len(verdicts[d.chain])], d.version, day, d.zone)

DueOnce == \A d, e \in due : d.chain = e.chain => d = e

AlwaysCause ==
    \A c \in Chains : \A i \in 1 .. Len(verdicts[c]) :
        i > 1 => Cause(c, verdicts[c][i - 1], verdicts[c][i].version, verdicts[c][i].day,
                       verdicts[c][i].zone)

DebateInv == DebateTypes /\ VerdictsInOrder /\ DueForCause /\ DueOnce /\ AlwaysCause

\* Versions of theses are only added.
Grown ==
    /\ thesis' \in [Chains -> Seq(VersionRow)]
    /\ \A c \in Chains : Len(thesis[c]) <= Len(thesis'[c])
                         /\ \A n \in 1 .. Len(thesis[c]) : thesis'[c][n] = thesis[c][n]

LEMMA Appended ==
    ASSUME thesis \in [Chains -> Seq(VersionRow)], NEW c \in Chains, NEW row \in VersionRow,
           AppendVersion(c, row)
    PROVE Grown
<1> DEFINE longer == Append(thesis[c], row)
<1>1. thesis' = [thesis EXCEPT ![c] = longer] BY DEF AppendVersion
<1>2. longer \in Seq(VersionRow) /\ Len(longer) = Len(thesis[c]) + 1
      /\ \A n \in 1 .. Len(thesis[c]) : longer[n] = thesis[c][n]
  OBVIOUS
<1> HIDE DEF longer
<1>3. thesis' \in [Chains -> Seq(VersionRow)] BY <1>1, <1>2
<1>4. ASSUME NEW e \in Chains
      PROVE Len(thesis[e]) <= Len(thesis'[e]) /\ \A n \in 1 .. Len(thesis[e]) : thesis'[e][n] = thesis[e][n]
  <2>1. Len(thesis[e]) \in Nat OBVIOUS
  <2>2. CASE e = c
    <3>1. thesis'[e] = longer BY <1>1, <2>2
    <3> QED BY <3>1, <2>1, <2>2, <1>2
  <2>3. CASE e # c
    <3>1. thesis'[e] = thesis[e] BY <1>1, <2>3
    <3> QED BY <3>1, <2>1
  <2> QED BY <2>2, <2>3
<1> QED BY <1>3, <1>4 DEF Grown

LEMMA CauseStays ==
    ASSUME Grown, thesis \in [Chains -> Seq(VersionRow)], NEW c \in Chains, NEW v \in VerdictRow,
           NEW version \in Nat, version <= Len(thesis[c]), NEW on, NEW warned,
           Cause(c, v, version, on, warned)
    PROVE Cause(c, v, version, on, warned)'
<1>1. \A n \in v.version + 1 .. version : n \in 1 .. Len(thesis[c]) BY DEF VerdictRow
<1>2. \A n \in v.version + 1 .. version : thesis'[c][n] = thesis[c][n] BY <1>1 DEF Grown
<1> QED BY <1>2 DEF Cause

\* A step that argues nothing.
LEMMA NothingArgued ==
    ASSUME DebateInv, Grown, UNCHANGED verdicts, due' \subseteq due, begun' = begun,
           day' \in Nat, day <= day', day' = day \/ due' = {},
           part' = "idle" => due' = {}, part' # "idle" => begun = day'
    PROVE DebateInv'
<1> USE DEF DebateInv
<1>1. DebateTypes' BY DEF DebateTypes, Grown
<1>2. \A c \in Chains : \A i \in 1 .. Len(verdicts[c]) : verdicts[c][i] \in VerdictRow
  BY DEF DebateTypes
<1>3. thesis \in [Chains -> Seq(VersionRow)]
      /\ \A c \in Chains : Len(thesis[c]) \in Nat /\ Len(thesis'[c]) \in Nat /\ Len(verdicts[c]) \in Nat
  BY DEF DebateTypes, Grown
<1>4. VerdictsInOrder'
  <2> SUFFICES ASSUME NEW c \in Chains, NEW i \in 1 .. Len(verdicts[c])
               PROVE verdicts[c][i].version <= Len(thesis'[c])
    BY DEF VerdictsInOrder
  <2> QED BY <1>2, <1>3 DEF VerdictsInOrder, Grown, VerdictRow
<1>5. DueOnce' BY DEF DueOnce
<1>6. DueForCause'
  <2> SUFFICES ASSUME NEW d \in due'
               PROVE /\ d.version <= Len(thesis'[d.chain])
                     /\ \A i \in 1 .. Len(verdicts[d.chain]) :
                           verdicts[d.chain][i].day < day' /\ verdicts[d.chain][i].version <= d.version
                     /\ verdicts[d.chain] # <<>> =>
                           Cause(d.chain, verdicts[d.chain][Len(verdicts[d.chain])],
                                 d.version, day, d.zone)'
    BY DEF DueForCause
  <2>1. d \in due /\ day' = day /\ d.chain \in Chains /\ d.version \in Nat
    BY DEF DebateTypes, DueRow
  <2>2. d.version <= Len(thesis[d.chain]) BY <2>1 DEF DueForCause
  <2>3. d.version <= Len(thesis'[d.chain]) BY <2>1, <2>2, <1>3 DEF Grown
  <2>4. ASSUME verdicts[d.chain] # <<>>
        PROVE Cause(d.chain, verdicts[d.chain][Len(verdicts[d.chain])], d.version, day, d.zone)'
    <3>1. Len(verdicts[d.chain]) \in 1 .. Len(verdicts[d.chain])
      BY <1>3, <2>1, <2>4 DEF DebateTypes
    <3> DEFINE v == verdicts[d.chain][Len(verdicts[d.chain])]
    <3>2. v \in VerdictRow BY <1>2, <2>1, <3>1
    <3>3. Cause(d.chain, v, d.version, day, d.zone) BY <2>1, <2>4 DEF DueForCause
    <3>4. v' = v OBVIOUS
    <3> HIDE DEF v
    <3>5. Cause(d.chain, v, d.version, day, d.zone)' BY <1>3, <2>1, <2>2, <3>2, <3>3, <3>4, CauseStays DEF Cause
    <3> QED BY <3>5 DEF v
  <2> QED BY <2>1, <2>3, <2>4 DEF DueForCause
<1>7. AlwaysCause'
  <2> SUFFICES ASSUME NEW c \in Chains, NEW i \in 1 .. Len(verdicts[c]), i > 1
               PROVE Cause(c, verdicts[c][i - 1], verdicts[c][i].version, verdicts[c][i].day,
                           verdicts[c][i].zone)'
    BY DEF AlwaysCause
  <2>1. i - 1 \in 1 .. Len(verdicts[c]) BY <1>3
  <2> DEFINE v == verdicts[c][i - 1]
             w == verdicts[c][i]
  <2>2. v \in VerdictRow /\ w \in VerdictRow BY <1>2, <2>1
  <2>3. w.version \in Nat /\ w.version <= Len(thesis[c]) BY <2>2 DEF VerdictRow, VerdictsInOrder
  <2>4. Cause(c, v, w.version, w.day, w.zone) BY DEF AlwaysCause
  <2>5. v' = v /\ w' = w OBVIOUS
  <2> HIDE DEF v, w
  <2>6. Cause(c, v, w.version, w.day, w.zone)'
    BY <1>3, <2>2, <2>3, <2>4, <2>5, CauseStays DEF Cause
  <2> QED BY <2>6 DEF v, w
<1> QED BY <1>1, <1>4, <1>5, <1>6, <1>7

\* The verdict of a due debate.
LEMMA JudgeKeeps ==
    ASSUME DebateInv, NEW d \in due, NEW verdict \in Verdicts, Judge(d, verdict),
           due' = due \ {d}, part # "idle", UNCHANGED <<day, part, begun>>
    PROVE DebateInv'
<1> USE DEF DebateInv
<1> DEFINE c == d.chain
           new == [version |-> d.version, day |-> day, verdict |-> verdict, zone |-> d.zone]
           old == verdicts[c]
<1>1. /\ c \in Chains /\ d.version \in Nat /\ d.zone \in BOOLEAN /\ day \in Nat /\ begun = day
      /\ new \in VerdictRow /\ thesis \in [Chains -> Seq(VersionRow)]
      /\ verdicts \in [Chains -> Seq(VerdictRow)] /\ old \in Seq(VerdictRow)
  BY DEF DebateTypes, DueRow, VerdictRow
<1>2. Grown
  <2>1. CASE UNCHANGED thesis
    <3>1. \A e \in Chains : Len(thesis[e]) \in Nat BY <1>1
    <3> QED BY <1>1, <2>1, <3>1 DEF Grown
  <2>2. CASE AppendVersion(c, Version("judge", "active", TRUE))
    <3>1. Version("judge", "active", TRUE) \in VersionRow BY DEF Version, VersionRow
    <3> QED BY <1>1, <2>2, <3>1, Appended
  <2> QED BY <2>1, <2>2 DEF Judge
<1>3. verdicts' = [verdicts EXCEPT ![c] = Append(old, new)] BY DEF Judge
<1>4. /\ verdicts'[c] = Append(old, new) /\ Len(verdicts'[c]) = Len(old) + 1 /\ Len(old) \in Nat
      /\ \A i \in 1 .. Len(old) : verdicts'[c][i] = old[i]
      /\ verdicts'[c][Len(old) + 1] = new
      /\ Append(old, new) \in Seq(VerdictRow)
  BY <1>1, <1>3
<1>5. \A e \in Chains \ {c} : verdicts'[e] = verdicts[e] BY <1>1, <1>3
<1>6. verdicts' \in [Chains -> Seq(VerdictRow)] BY <1>1, <1>3, <1>4
<1>7. DebateTypes' BY <1>1, <1>2, <1>6 DEF DebateTypes, Grown
<1>8. \A e \in Chains : Len(thesis[e]) \in Nat /\ Len(thesis'[e]) \in Nat /\ Len(thesis[e]) <= Len(thesis'[e])
  BY <1>1, <1>2 DEF Grown
<1>9. \A e \in Chains : \A i \in 1 .. Len(verdicts[e]) :
         verdicts[e][i] \in VerdictRow /\ verdicts[e][i].version \in Nat /\ verdicts[e][i].day \in Nat
  <2>1. \A e \in Chains : \A i \in 1 .. Len(verdicts[e]) : verdicts[e][i] \in VerdictRow BY <1>1
  <2> QED BY <2>1 DEF VerdictRow
<1>10. /\ d.version <= Len(thesis[c])
       /\ \A i \in 1 .. Len(old) : old[i].day < day /\ old[i].version <= d.version
       /\ old # <<>> => Cause(c, old[Len(old)], d.version, day, d.zone)
  BY DEF DueForCause
<1> HIDE DEF new
<1>11. new.version = d.version /\ new.day = day /\ new.zone = d.zone BY DEF new
<1>12. VerdictsInOrder'
  <2>1. ASSUME NEW e \in Chains \ {c}
        PROVE /\ \A i \in 1 .. Len(verdicts[e]) :
                    verdicts[e][i].day <= begun /\ verdicts[e][i].version <= Len(thesis'[e])
              /\ \A i \in 1 .. Len(verdicts[e]) : \A k \in i + 1 .. Len(verdicts[e]) :
                    /\ verdicts[e][i].day < verdicts[e][k].day
                    /\ verdicts[e][i].version <= verdicts[e][k].version
    BY <2>1, <1>8, <1>9 DEF VerdictsInOrder
  <2>2. ASSUME NEW i \in 1 .. Len(old) + 1
        PROVE verdicts'[c][i].day <= begun /\ verdicts'[c][i].version <= Len(thesis'[c])
    <3>1. CASE i = Len(old) + 1 BY <3>1, <1>1, <1>4, <1>8, <1>10, <1>11
    <3>2. CASE i \in 1 .. Len(old)
      <4>1. old[i].day <= begun /\ old[i].version <= Len(thesis[c]) BY <3>2, <1>1 DEF VerdictsInOrder
      <4>2. old[i].version \in Nat BY <3>2, <1>1, <1>9
      <4> QED BY <3>2, <4>1, <4>2, <1>1, <1>4, <1>8
    <3> QED BY <3>1, <3>2, <1>4
  <2>3. ASSUME NEW i \in 1 .. Len(old) + 1, NEW k \in i + 1 .. Len(old) + 1
        PROVE /\ verdicts'[c][i].day < verdicts'[c][k].day
              /\ verdicts'[c][i].version <= verdicts'[c][k].version
    <3>1. i \in 1 .. Len(old) /\ verdicts'[c][i] = old[i] BY <2>3, <1>4
    <3>2. CASE k = Len(old) + 1 BY <3>1, <3>2, <1>4, <1>10, <1>11
    <3>3. CASE k \in 1 .. Len(old)
      <4>1. k \in i + 1 .. Len(old) BY <3>3, <2>3
      <4>2. verdicts'[c][k] = old[k] BY <3>3, <1>4
      <4> QED BY <3>1, <4>1, <4>2, <1>1 DEF VerdictsInOrder
    <3> QED BY <3>2, <3>3, <2>3, <1>4
  <2>4. ASSUME NEW e \in Chains
        PROVE /\ \A i \in 1 .. Len(verdicts'[e]) :
                    verdicts'[e][i].day <= begun /\ verdicts'[e][i].version <= Len(thesis'[e])
              /\ \A i \in 1 .. Len(verdicts'[e]) : \A k \in i + 1 .. Len(verdicts'[e]) :
                    /\ verdicts'[e][i].day < verdicts'[e][k].day
                    /\ verdicts'[e][i].version <= verdicts'[e][k].version
    <3>1. CASE e = c BY <3>1, <2>2, <2>3, <1>4
    <3>2. CASE e # c BY <3>2, <2>1, <1>5
    <3> QED BY <3>1, <3>2
  <2> QED BY <2>4 DEF VerdictsInOrder
<1>13. DueOnce' BY DEF DueOnce
<1>14. DueForCause'
  <2> SUFFICES ASSUME NEW e \in due'
               PROVE /\ e.version <= Len(thesis'[e.chain])
                     /\ \A i \in 1 .. Len(verdicts'[e.chain]) :
                           verdicts'[e.chain][i].day < day /\ verdicts'[e.chain][i].version <= e.version
                     /\ verdicts'[e.chain] # <<>> =>
                           Cause(e.chain, verdicts[e.chain][Len(verdicts[e.chain])], e.version, day, e.zone)'
    BY DEF DueForCause
  <2>1. e \in due /\ e.chain \in Chains \ {c} /\ e.version \in Nat
    BY DEF DebateTypes, DueRow, DueOnce
  <2>2. verdicts'[e.chain] = verdicts[e.chain] BY <2>1, <1>5
  <2>3. e.version <= Len(thesis[e.chain]) BY <2>1 DEF DueForCause
  <2>4. e.version <= Len(thesis'[e.chain]) BY <2>1, <2>3, <1>8
  <2>5. ASSUME verdicts[e.chain] # <<>>
        PROVE Cause(e.chain, verdicts[e.chain][Len(verdicts[e.chain])], e.version, day, e.zone)'
    <3>1. Len(verdicts[e.chain]) \in 1 .. Len(verdicts[e.chain]) BY <1>1, <2>1, <2>5
    <3> DEFINE v == verdicts[e.chain][Len(verdicts[e.chain])]
    <3>2. v \in VerdictRow BY <1>9, <2>1, <3>1
    <3>3. Cause(e.chain, v, e.version, day, e.zone) BY <2>1, <2>5 DEF DueForCause
    <3>4. v' = v BY <2>2
    <3> HIDE DEF v
    <3>5. Cause(e.chain, v, e.version, day, e.zone)'
      BY <1>1, <1>2, <2>1, <2>3, <3>2, <3>3, <3>4, CauseStays DEF Cause
    <3> QED BY <3>5 DEF v
  <2> QED BY <2>1, <2>2, <2>4, <2>5 DEF DueForCause
<1>15. ASSUME NEW e \in Chains, NEW v \in VerdictRow, NEW w \in VerdictRow, w.version <= Len(thesis[e]),
              Cause(e, v, w.version, w.day, w.zone)
       PROVE Cause(e, v, w.version, w.day, w.zone)'
  <2>1. w.version \in Nat BY DEF VerdictRow
  <2> QED BY <1>1, <1>2, <1>15, <2>1, CauseStays
<1>16. AlwaysCause'
  <2>1. ASSUME NEW e \in Chains, NEW i \in 1 .. Len(verdicts[e]), i > 1, NEW v, NEW w,
               v = verdicts[e][i - 1], w = verdicts[e][i]
        PROVE Cause(e, v, w.version, w.day, w.zone)'
    <3>1. i - 1 \in 1 .. Len(verdicts[e]) BY <1>1, <2>1
    <3>2. v \in VerdictRow /\ w \in VerdictRow BY <1>9, <2>1, <3>1
    <3>3. w.version <= Len(thesis[e]) BY <2>1 DEF VerdictsInOrder
    <3>4. Cause(e, v, w.version, w.day, w.zone) BY <2>1 DEF AlwaysCause
    <3> QED BY <3>2, <3>3, <3>4, <1>15
  <2>2. ASSUME old # <<>>, NEW v, NEW w, v = old[Len(old)], w = new
        PROVE Cause(c, v, w.version, w.day, w.zone)'
    <3>1. Len(old) \in 1 .. Len(old) BY <1>1, <2>2
    <3>2. v \in VerdictRow BY <1>1, <1>9, <2>2, <3>1
    <3>3. Cause(c, v, w.version, w.day, w.zone) BY <1>10, <1>11, <2>2
    <3> QED BY <1>1, <1>10, <1>11, <1>15, <2>2, <3>2, <3>3
  <2> SUFFICES ASSUME NEW e \in Chains, NEW i \in 1 .. Len(verdicts'[e]), i > 1, NEW v, NEW w,
                      v = verdicts'[e][i - 1], w = verdicts'[e][i]
               PROVE Cause(e, v, w.version, w.day, w.zone)'
    BY DEF AlwaysCause
  <2>3. CASE e # c BY <2>1, <2>3, <1>5
  <2>4. CASE e = c /\ i \in 1 .. Len(old)
    <3>1. i - 1 \in 1 .. Len(old) BY <2>4, <1>4
    <3>2. v = old[i - 1] /\ w = old[i] BY <2>4, <3>1, <1>4
    <3> QED BY <2>1, <2>4, <3>2
  <2>5. CASE e = c /\ i = Len(old) + 1
    <3>1. i - 1 = Len(old) /\ Len(old) \in 1 .. Len(old) BY <2>5, <1>4
    <3>2. v = old[Len(old)] /\ w = new /\ old # <<>> BY <2>5, <3>1, <1>4
    <3> QED BY <2>2, <2>5, <3>2
  <2> QED BY <2>3, <2>4, <2>5, <1>4
<1> QED BY <1>7, <1>12, <1>13, <1>14, <1>16

\* The start of a shift: what it finds due has a cause.
LEMMA BeginKeeps == ASSUME DebateInv, Begin PROVE DebateInv'
<1> USE DEF DebateInv
<1>1. PICK late \in BOOLEAN : due' = DueDebates(late) BY DEF Begin
<1>2. begun < day /\ begun' = day /\ part' = "ratings" /\ UNCHANGED <<day, thesis, zone, verdicts>>
  BY DEF Begin
<1>3. /\ day \in Nat /\ begun \in Int /\ thesis \in [Chains -> Seq(VersionRow)]
      /\ verdicts \in [Chains -> Seq(VerdictRow)]
  BY DEF DebateTypes
<1>4. \A c \in Chains : \A i \in 1 .. Len(verdicts[c]) :
         verdicts[c][i] \in VerdictRow /\ verdicts[c][i].version \in Nat /\ verdicts[c][i].day \in Nat
  <2>1. \A c \in Chains : \A i \in 1 .. Len(verdicts[c]) : verdicts[c][i] \in VerdictRow BY <1>3
  <2> QED BY <2>1 DEF VerdictRow
<1>5. ASSUME NEW d \in due'
      PROVE \E c \in Chains : /\ d = [chain |-> c, version |-> Len(thesis[c]),
                                      priority |-> Reason(c, late), zone |-> c \in zone]
                              /\ Reason(c, late) # None
  BY <1>1, <1>5 DEF DueDebates
<1>6. \A c \in Chains : Reason(c, late) # None => Reason(c, late) \in 0 .. 4 BY DEF Reason
<1>7. due' \subseteq DueRow
  <2> SUFFICES ASSUME NEW d \in due' PROVE d \in DueRow OBVIOUS
  <2>1. PICK c \in Chains : /\ d = [chain |-> c, version |-> Len(thesis[c]),
                                    priority |-> Reason(c, late), zone |-> c \in zone]
                            /\ Reason(c, late) # None
    BY <1>5
  <2>2. Len(thesis[c]) \in Nat /\ Reason(c, late) \in 0 .. 4 BY <1>3, <1>6, <2>1
  <2> QED BY <2>1, <2>2 DEF DueRow
<1>8. DebateTypes' BY <1>2, <1>3, <1>7 DEF DebateTypes
<1>9. VerdictsInOrder'
  <2>1. \A c \in Chains : \A i \in 1 .. Len(verdicts[c]) : verdicts[c][i].day <= day
    BY <1>2, <1>3, <1>4 DEF VerdictsInOrder
  <2> QED BY <1>2, <2>1 DEF VerdictsInOrder
<1>10. DueOnce' BY <1>5 DEF DueOnce
<1>11. AlwaysCause' BY <1>2 DEF AlwaysCause, Cause
<1>12. DueForCause'
  <2> SUFFICES ASSUME NEW d \in due'
               PROVE /\ d.version <= Len(thesis[d.chain])
                     /\ \A i \in 1 .. Len(verdicts[d.chain]) :
                           verdicts[d.chain][i].day < day /\ verdicts[d.chain][i].version <= d.version
                     /\ verdicts[d.chain] # <<>> =>
                           Cause(d.chain, verdicts[d.chain][Len(verdicts[d.chain])],
                                 d.version, day, d.zone)
    BY <1>2 DEF DueForCause, Cause
  <2>1. PICK c \in Chains : /\ d = [chain |-> c, version |-> Len(thesis[c]),
                                    priority |-> Reason(c, late), zone |-> c \in zone]
                            /\ Reason(c, late) # None
    BY <1>5
  <2>2. d.chain = c /\ d.version = Len(thesis[c]) /\ d.zone = (c \in zone) /\ Len(thesis[c]) \in Nat
    BY <2>1, <1>3
  <2>3. \A i \in 1 .. Len(verdicts[c]) : verdicts[c][i].day < day /\ verdicts[c][i].version <= Len(thesis[c])
    BY <1>2, <1>3, <1>4 DEF VerdictsInOrder
  <2>4. ASSUME verdicts[c] # <<>>
        PROVE Cause(c, verdicts[c][Len(verdicts[c])], Len(thesis[c]), day, c \in zone)
    <3> DEFINE top == Len(verdicts[c])
               v == verdicts[c][top]
    <3>1. top \in 1 .. top /\ top \in Nat BY <1>3, <2>4
    <3>2. ToSet(verdicts[c]) = {verdicts[c][i] : i \in 1 .. top}
      <4>1. DOMAIN verdicts[c] = 1 .. top BY <1>3
      <4> QED BY <4>1 DEF ToSet
    <3>3. v \in Debated(c)
      <4>1. ASSUME NEW i \in 1 .. top, i # top
            PROVE verdicts[c][i].day < v.day /\ verdicts[c][i].version <= v.version
        <5>1. top \in i + 1 .. top BY <3>1, <4>1
        <5> QED BY <5>1 DEF VerdictsInOrder
      <4>2. \A w \in ToSet(verdicts[c]) :
               w.version < v.version \/ (w.version = v.version /\ w.day <= v.day)
        BY <1>4, <3>1, <3>2, <4>1
      <4>3. v \in ToSet(verdicts[c]) BY <3>1, <3>2
      <4> HIDE DEF v
      <4> QED BY <4>2, <4>3 DEF Debated
    <3>4. ASSUME NEW w \in Debated(c) PROVE w = v
      <4>1. PICK i \in 1 .. top : w = verdicts[c][i] BY <3>2 DEF Debated
      <4>2. v.version < w.version \/ (v.version = w.version /\ v.day <= w.day)
        BY <3>1, <3>2 DEF Debated
      <4>3. i # top => w.day < v.day /\ w.version <= v.version BY <3>1, <4>1 DEF VerdictsInOrder
      <4>4. {w.version, v.version, w.day, v.day} \subseteq Nat BY <1>4, <3>1, <4>1
      <4> QED BY <4>1, <4>2, <4>3, <4>4
    <3>5. (CHOOSE w \in Debated(c) : TRUE) = v BY <3>3, <3>4
    <3>6. Debated(c) # {} BY <3>3
    <3> HIDE DEF v, top
    <3>7. \/ c \in zone
          \/ v.version # Len(thesis[c]) /\ Last(thesis[c]).note = "evidence"
          \/ Weekly(c, v, late)
      BY <2>1, <3>5, <3>6 DEF Reason
    <3>8. Cause(c, v, Len(thesis[c]), day, c \in zone)
      <4>1. CASE c \in zone BY <4>1 DEF Cause
      <4>2. CASE v.version # Len(thesis[c]) /\ Last(thesis[c]).note = "evidence"
        <5>1. v.version \in Nat /\ v.version <= Len(thesis[c]) BY <2>3, <1>4, <3>1 DEF v, top
        <5>2. Len(thesis[c]) \in v.version + 1 .. Len(thesis[c]) BY <2>2, <4>2, <5>1
        <5>3. thesis[c][Len(thesis[c])].note = "evidence" BY <4>2 DEF Last
        <5> QED BY <5>2, <5>3 DEF Cause
      <4>3. CASE Weekly(c, v, late)
        <5>1. v.day \in Nat /\ RedebateDays \in Int BY <1>4, <3>1, ThresholdAssumption DEF v, top
        <5>2. day - v.day >= RedebateDays BY <1>3, <4>3, <5>1 DEF Weekly, Elapsed
        <5> QED BY <4>3, <5>2 DEF Weekly, Cause
      <4> QED BY <3>7, <4>1, <4>2, <4>3
    <3> QED BY <3>8 DEF v, top
  <2> QED BY <2>2, <2>3, <2>4
<1> QED BY <1>8, <1>9, <1>10, <1>11, <1>12

LEMMA DebateNext == ASSUME DebateInv, [AnalystNext]_analystVars PROVE DebateInv'
<1> USE DEF DebateInv
<1>1. day \in Nat /\ begun \in Int /\ begun <= day /\ thesis \in [Chains -> Seq(VersionRow)]
      /\ (part = "idle" => due = {}) /\ (part # "idle" => begun = day)
  BY DEF DebateTypes
<1>2. ASSUME UNCHANGED thesis PROVE Grown
  <2>1. \A c \in Chains : Len(thesis[c]) \in Nat BY <1>1
  <2> QED BY <1>1, <1>2, <2>1 DEF Grown
<1>3. ASSUME NEW c \in Chains, WriteThesis(c) \/ Redraft(c) \/ AttachEvidence(c) PROVE DebateInv'
  <2>1. Grown
    <3>1. \A x \in {"new", "draft", "evidence", "judge"} : \A y \in {"active", "draft"} :
            \A b \in BOOLEAN : Version(x, y, b) \in VersionRow
      BY DEF Version, VersionRow
    <3>2. CASE WriteThesis(c)
      <4>1. AppendVersion(c, Version("new", "active", c \notin Jons)) BY <3>2 DEF WriteThesis
      <4>2. Version("new", "active", c \notin Jons) \in VersionRow BY <3>1
      <4> QED BY <4>1, <4>2, <1>1, Appended
    <3>3. CASE Redraft(c)
      <4>1. AppendVersion(c, Version("draft", "draft", FALSE)) BY <3>3 DEF Redraft
      <4>2. Version("draft", "draft", FALSE) \in VersionRow BY <3>1
      <4> QED BY <4>1, <4>2, <1>1, Appended
    <3>4. CASE AttachEvidence(c)
      <4>1. AppendVersion(c, Version("evidence", "active", TRUE)) BY <3>4 DEF AttachEvidence
      <4>2. Version("evidence", "active", TRUE) \in VersionRow BY <3>1
      <4> QED BY <4>1, <4>2, <1>1, Appended
    <3> QED BY <1>3, <3>2, <3>3, <3>4
  <2>2. UNCHANGED <<day, verdicts, part, begun, due>>
    BY <1>3 DEF WriteThesis, Redraft, AttachEvidence, shift
  <2> QED BY <1>1, <2>1, <2>2, NothingArgued
<1>4. ASSUME UNCHANGED <<day, thesis, verdicts, part, begun, due>> PROVE DebateInv'
  <2>1. Grown BY <1>2, <1>4
  <2> QED BY <1>1, <1>4, <2>1, NothingArgued
<1>5. ASSUME NEW a \in Accounts, Report(a) PROVE DebateInv' BY <1>4, <1>5 DEF Report, shift
<1>6. ASSUME NEW c \in Chains, MovePrice(c) PROVE DebateInv' BY <1>4, <1>6 DEF MovePrice, shift
<1>7. CASE RateHolding BY <1>4, <1>7 DEF RateHolding
<1>8. CASE EndRatings
  <2>1. Grown BY <1>2, <1>8 DEF EndRatings
  <2>2. part = "ratings" /\ part' = "debates" /\ UNCHANGED <<day, verdicts, begun, due>>
    BY <1>8 DEF EndRatings
  <2> QED BY <1>1, <2>1, <2>2, NothingArgued
<1>9. CASE DebateThesis
  <2>1. PICK d \in due : /\ due' = due \ {d}
                         /\ UNCHANGED <<thesis, verdicts>> \/ \E v \in Verdicts : Judge(d, v)
    BY <1>9 DEF DebateThesis
  <2>2. part = "debates" /\ UNCHANGED <<day, part, begun>> BY <1>9 DEF DebateThesis
  <2>3. CASE UNCHANGED <<thesis, verdicts>>
    <3>1. Grown BY <1>2, <2>3
    <3> QED BY <1>1, <2>1, <2>2, <2>3, <3>1, NothingArgued
  <2>4. CASE \E v \in Verdicts : Judge(d, v) BY <2>1, <2>2, <2>4, JudgeKeeps
  <2> QED BY <2>1, <2>3, <2>4
<1>10. CASE End
  <2>1. Grown BY <1>2, <1>10 DEF End
  <2>2. part' = "idle" /\ due' = {} /\ UNCHANGED <<day, verdicts, begun>> BY <1>10 DEF End
  <2> QED BY <1>1, <2>1, <2>2, NothingArgued
<1>11. CASE NextDay
  <2>1. Grown BY <1>2, <1>11 DEF NextDay
  <2>2. part = "idle" /\ part' = "idle" /\ day' = day + 1 /\ UNCHANGED <<verdicts, begun, due>>
    BY <1>11 DEF NextDay, shift
  <2> QED BY <1>1, <2>1, <2>2, NothingArgued
<1>12. CASE UNCHANGED analystVars BY <1>4, <1>12 DEF analystVars, shift
<1> QED BY <1>3, <1>5, <1>6, <1>7, <1>8, <1>9, <1>10, <1>11, <1>12, BeginKeeps DEF AnalystNext

\* A thesis is argued again early, or after a rejection, only for a cause
\* (src/desk/desks/analyst/debate.py:411).
THEOREM DebatedForCause == AnalystSpec => []ArguedForCause
<1>1. AnalystInit => DebateInv
  BY DEF AnalystInit, DebateInv, DebateTypes, VerdictsInOrder, DueForCause, DueOnce, AlwaysCause
<1>2. DebateInv => ArguedForCause
  <2> SUFFICES ASSUME DebateInv, NEW c \in Chains, NEW i \in 2 .. Len(verdicts[c]),
                      ~verdicts[c][i].zone,
                      ~(\E n \in verdicts[c][i - 1].version + 1 .. verdicts[c][i].version :
                           thesis[c][n].note = "evidence")
               PROVE /\ verdicts[c][i].day - verdicts[c][i - 1].day >= RedebateDays
                     /\ c \in Jons \/ verdicts[c][i - 1].verdict # "reject"
    BY DEF ArguedForCause
  <2>1. Len(verdicts[c]) \in Nat BY DEF DebateInv, DebateTypes
  <2>2. i \in 1 .. Len(verdicts[c]) /\ i > 1 BY <2>1
  <2>3. Cause(c, verdicts[c][i - 1], verdicts[c][i].version, verdicts[c][i].day, verdicts[c][i].zone)
    BY <2>2 DEF DebateInv, AlwaysCause
  <2> QED BY <2>3 DEF Cause
<1> QED BY <1>1, <1>2, DebateNext, PTL DEF AnalystSpec

-----------------------------------------------------------------------------
(* The verdicts of the fact check: ClosedOnce and RetriedInWindow.         *)

ClaimRow == [subject : {s.symbol : s \in Range(Subjects)}, day : Nat, draft : UNION {Range(x.claims) : x \in Drafts}]
CheckRow == [claim : Nat, corrected : BOOLEAN]
VerifiedRow == [claim : Nat, verdict : {"verified", "corrected", "rejected"}, ok : BOOLEAN, day : Nat]

EvidenceTypes ==
    /\ date \in Nat /\ stage \in {"idle", "research", "check"}
    /\ todo \in Seq(Range(Subjects)) /\ claims \in Seq(ClaimRow)
    /\ checks \in Seq(CheckRow) /\ pending \in Seq(VerifiedRow) /\ verified \in Seq(VerifiedRow)
    /\ stage # "check" => checks = <<>> /\ pending = <<>>

\* A day has one shift, and so one fact check.
ShiftsOnce ==
    /\ ran \subseteq 0 .. date /\ checked \subseteq ran
    /\ stage # "idle" => date \in ran /\ date \notin checked

\* The claims a fact check has read: those it has judged, then the others.
Read == [n \in 1 .. Len(pending) + Len(checks) |->
            IF n <= Len(pending) THEN pending[n].claim ELSE checks[n - Len(pending)].claim]

\* It reads each open claim of the window once, as many as there is room for.
ReadOpen ==
    /\ \A n \in 1 .. Len(pending) : pending[n].day = date
    /\ \A n \in DOMAIN Read : Read[n] \in 1 .. Len(claims) /\ ~Closed(Read[n])
    /\ \A m, n \in DOMAIN Read : Read[m] = Read[n] => m = n
    /\ stage = "check" =>
          \A c \in 1 .. Len(claims) : date - claims[c].day < Window /\ ~Closed(c) =>
              \/ \E n \in DOMAIN Read : Read[n] = c
              \/ Len(pending) + Len(checks) >= MaxClaims

\* After the verdict that counts there is none on the same claim.
VerifiedRows ==
    /\ \A n \in 1 .. Len(verified) :
          verified[n].day \in checked /\ verified[n].claim \in 1 .. Len(claims)
    /\ \A m, n \in 1 .. Len(verified) :
          ~verified[m].ok /\ verified[n].ok /\ verified[m].claim = verified[n].claim
             => verified[m].day < verified[n].day

EvidenceInv ==
    EvidenceTypes /\ ShiftsOnce /\ ReadOpen /\ VerifiedRows /\ ClosedOnce /\ RetriedInWindow

\* Claims are only added.
ClaimsGrow ==
    /\ claims' \in Seq(ClaimRow) /\ Len(claims) <= Len(claims')
    /\ \A c \in 1 .. Len(claims) : claims'[c] = claims[c]

\* The step of a shift that stores no verdict.
LEMMA NothingVerified ==
    ASSUME EvidenceInv, ClaimsGrow, UNCHANGED <<verified, checked>>
    PROVE VerifiedRows' /\ ClosedOnce' /\ RetriedInWindow'
<1> USE DEF EvidenceInv
<1>1. Len(claims) \in Nat /\ Len(claims') \in Nat /\ Len(claims) <= Len(claims')
  BY DEF EvidenceTypes, ClaimsGrow
<1>2. VerifiedRows' BY <1>1 DEF VerifiedRows
<1>3. ClosedOnce' BY DEF ClosedOnce
<1>4. DOMAIN verified = 1 .. Len(verified) BY DEF EvidenceTypes
<1>5. \A n \in DOMAIN verified : claims'[verified[n].claim] = claims[verified[n].claim]
  BY <1>4 DEF VerifiedRows, ClaimsGrow
<1>6. \A d : NextRun(d)' = NextRun(d) BY DEF NextRun
<1>7. RetriedInWindow' BY <1>5, <1>6, Zenon DEF RetriedInWindow, Retried
<1> QED BY <1>2, <1>3, <1>7

\* A sequence after another.
LEMMA Joined ==
    ASSUME NEW R, NEW a \in Seq(R), NEW b \in Seq(R)
    PROVE /\ a \o b \in Seq(R) /\ Len(a \o b) = Len(a) + Len(b)
          /\ Len(a) \in Nat /\ Len(b) \in Nat
          /\ \A k \in 1 .. Len(a) : (a \o b)[k] = a[k]
          /\ \A k \in 1 .. Len(b) : (a \o b)[Len(a) + k] = b[k]
<1>1. Len(a) \in Nat /\ Len(b) \in Nat /\ a \o b \in Seq(R) /\ Len(a \o b) = Len(a) + Len(b)
  OBVIOUS
<1>2. ASSUME NEW k \in 1 .. Len(a) PROVE (a \o b)[k] = a[k] BY <1>1, <1>2
<1>3. ASSUME NEW k \in 1 .. Len(b) PROVE (a \o b)[Len(a) + k] = b[k]
  <2>1. Len(a) + k \in 1 .. Len(a) + Len(b) /\ ~(Len(a) + k <= Len(a)) BY <1>1, <1>3
  <2>2. Len(a) + k - Len(a) = k BY <1>1, <1>3
  <2> QED BY <1>1, <1>3, <2>1, <2>2
<1> QED BY <1>1, <1>2, <1>3

\* What a draft adds to the claims.
LEMMA KeepGrows ==
    ASSUME claims \in Seq(ClaimRow), date \in Nat, Subject \in Range(Subjects), NEW kept, NEW draft,
           kept.claims \in Seq(UNION {Range(x.claims) : x \in Drafts}), Keep(kept, draft)
    PROVE /\ ClaimsGrow /\ Len(claims') = Len(claims) + Len(kept.claims) /\ Len(kept.claims) \in Nat
          /\ \A n \in 1 .. Len(kept.claims) : claims'[Len(claims) + n].draft = kept.claims[n]
<1> DEFINE new == [n \in DOMAIN kept.claims |->
                      [subject |-> Subject.symbol, day |-> date, draft |-> kept.claims[n]]]
<1>1. DOMAIN kept.claims = 1 .. Len(kept.claims) /\ Len(kept.claims) \in Nat OBVIOUS
<1>2. claims' = claims \o new BY DEF Keep
<1>3. \A n \in 1 .. Len(kept.claims) : new[n] \in ClaimRow /\ new[n].draft = kept.claims[n]
  BY <1>1 DEF ClaimRow
<1>4. new \in Seq(ClaimRow) /\ Len(new) = Len(kept.claims)
  <2>1. new \in [1 .. Len(kept.claims) -> ClaimRow] BY <1>1, <1>3
  <2> HIDE DEF new
  <2> QED BY <1>1, <2>1
<1> HIDE DEF new
<1>5. /\ claims \o new \in Seq(ClaimRow) /\ Len(claims \o new) = Len(claims) + Len(new)
      /\ \A c \in 1 .. Len(claims) : (claims \o new)[c] = claims[c]
      /\ \A n \in 1 .. Len(new) : (claims \o new)[Len(claims) + n] = new[n]
  <2>1. claims \in Seq(ClaimRow) /\ new \in Seq(ClaimRow) BY <1>4
  <2> HIDE DEF ClaimRow
  <2>2. claims \o new \in Seq(ClaimRow) BY <2>1, Joined
  <2>3. Len(claims \o new) = Len(claims) + Len(new) BY <2>1, Joined
  <2>4. \A c \in 1 .. Len(claims) : (claims \o new)[c] = claims[c] BY <2>1, Joined
  <2>5. \A n \in 1 .. Len(new) : (claims \o new)[Len(claims) + n] = new[n] BY <2>1, Joined
  <2> QED BY <2>2, <2>3, <2>4, <2>5
<1>6. Len(claims) \in Nat OBVIOUS
<1> QED BY <1>1, <1>2, <1>3, <1>4, <1>5, <1>6 DEF ClaimsGrow

\* The claims that a salvaged draft keeps are its own.
LEMMA KeptClaims ==
    ASSUME NEW draft \in Drafts
    PROVE /\ draft.claims \in Seq(UNION {Range(x.claims) : x \in Drafts})
          /\ Salvage(draft).claims \in Seq(UNION {Range(x.claims) : x \in Drafts})
          /\ DOMAIN Salvage(draft).claims = 1 .. Len(Sound(draft))
          /\ Sound(draft) \in Seq(Nat)
          /\ \A k \in 1 .. Len(Sound(draft)) :
                /\ Sound(draft)[k] \in DOMAIN draft.claims
                /\ Salvage(draft).claims[k] = draft.claims[Sound(draft)[k]]
<1> DEFINE C == UNION {Range(x.claims) : x \in Drafts}
           S == {n \in DOMAIN draft.claims : draft.claims[n].sound}
           kept == Sound(draft)
<1>1. draft.claims \in Seq(Range(draft.claims)) /\ Range(draft.claims) \subseteq C BY DraftAssumption
<1>2. \A n \in DOMAIN draft.claims : draft.claims[n] \in C BY <1>1 DEF Range
<1>3. draft.claims \in Seq(C) /\ DOMAIN draft.claims = 1 .. Len(draft.claims) /\ Len(draft.claims) \in Nat
  <2>1. DOMAIN draft.claims = 1 .. Len(draft.claims) /\ Len(draft.claims) \in Nat BY <1>1
  <2>2. draft.claims \in [1 .. Len(draft.claims) -> C]
    <3> HIDE DEF C
    <3> QED BY <1>1, <1>2, <2>1
  <2> HIDE DEF C
  <2> QED BY <2>1, <2>2
<1>4. S \subseteq Int /\ S \subseteq Nat /\ IsFiniteSet(S)
  <2>1. S \subseteq 1 .. Len(draft.claims) BY <1>3
  <2>2. IsFiniteSet(1 .. Len(draft.claims)) BY <1>3, FS_Interval
  <2>3. IsFiniteSet(S)
    <3> HIDE DEF S
    <3> QED BY <2>1, <2>2, FS_Subset
  <2> QED BY <1>3, <2>1, <2>3
<1>5. kept \in Seq(S) /\ \A k \in 1 .. Len(kept) : kept[k] \in S
  <2> HIDE DEF S
  <2>1. Ascending(S) \in Seq(S) /\ \A k \in 1 .. Len(Ascending(S)) : Ascending(S)[k] \in S
    BY <1>4, AscendingIs
  <2> QED BY <2>1 DEF Sound, S
<1>6. kept \in Seq(Nat) /\ DOMAIN kept = 1 .. Len(kept) /\ Len(kept) \in Nat
  <2>1. DOMAIN kept = 1 .. Len(kept) /\ Len(kept) \in Nat
    <3> HIDE DEF S
    <3> QED BY <1>5
  <2>2. \A k \in 1 .. Len(kept) : kept[k] \in Nat BY <1>4, <1>5
  <2>3. kept = [k \in 1 .. Len(kept) |-> kept[k]]
    <3> HIDE DEF S
    <3> QED BY <1>5
  <2> HIDE DEF kept, S
  <2>4. kept \in [1 .. Len(kept) -> Nat] BY <2>2, <2>3
  <2> QED BY <2>1, <2>4
<1>7. Salvage(draft).claims = [k \in DOMAIN kept |-> draft.claims[kept[k]]] BY DEF Salvage
<1> HIDE DEF kept
<1>8. Salvage(draft).claims \in [1 .. Len(kept) -> C]
  <2>1. \A k \in 1 .. Len(kept) : draft.claims[kept[k]] \in C BY <1>2, <1>5
  <2> HIDE DEF C
  <2> QED BY <1>6, <1>7, <2>1
<1>9. Salvage(draft).claims \in Seq(C)
  <2> HIDE DEF C
  <2> QED BY <1>6, <1>8
<1> QED BY <1>3, <1>5, <1>6, <1>7, <1>9 DEF kept

\* A sequence cut in two.
LEMMA CutInTwo ==
    ASSUME NEW R, NEW s \in Seq(R), NEW k \in 0 .. Len(s)
    PROVE /\ SubSeq(s, 1, k) \in Seq(R) /\ Len(SubSeq(s, 1, k)) = k
          /\ \A i \in 1 .. k : SubSeq(s, 1, k)[i] = s[i]
          /\ SubSeq(s, k + 1, Len(s)) \in Seq(R) /\ Len(SubSeq(s, k + 1, Len(s))) = Len(s) - k
          /\ \A i \in 1 .. Len(s) - k : SubSeq(s, k + 1, Len(s))[i] = s[k + i]
<1>1. Len(s) \in Nat /\ k \in Nat /\ k <= Len(s) OBVIOUS
<1>2. SubSeq(s, 1, k) = [i \in 1 .. k |-> s[i]]
  <2>1. 1 + k - 1 = k BY <1>1
  <2> QED BY <1>1, <2>1
<1>3. SubSeq(s, k + 1, Len(s)) = [i \in 1 .. Len(s) - k |-> s[k + i]]
  <2>1. 1 + Len(s) - (k + 1) = Len(s) - k BY <1>1
  <2>2. \A i \in 1 .. Len(s) - k : (k + 1) + i - 1 = k + i BY <1>1
  <2> QED BY <1>1, <2>1, <2>2
<1>4. [i \in 1 .. k |-> s[i]] \in [1 .. k -> R] BY <1>1
<1>5. [i \in 1 .. Len(s) - k |-> s[k + i]] \in [1 .. Len(s) - k -> R]
  <2>1. \A i \in 1 .. Len(s) - k : k + i \in 1 .. Len(s) BY <1>1
  <2> QED BY <1>1, <2>1
<1>6. SubSeq(s, 1, k) \in Seq(R) /\ Len(SubSeq(s, 1, k)) = k BY <1>1, <1>2, <1>4
<1>7. Len(s) - k \in Nat BY <1>1
<1>8. SubSeq(s, k + 1, Len(s)) \in Seq(R) /\ Len(SubSeq(s, k + 1, Len(s))) = Len(s) - k
  BY <1>3, <1>5, <1>7
<1> QED BY <1>2, <1>3, <1>6, <1>8

\* A batch of verdicts: the claims that were read stay the same.
LEMMA BatchKeeps ==
    ASSUME EvidenceInv, stage = "check", checks # <<>>, NEW verdict,
           verdict \in [DOMAIN First -> VerifiedRow],
           \A n \in DOMAIN First : verdict[n].claim = First[n].claim /\ verdict[n].day = date,
           pending' = pending \o verdict, checks' = Rest,
           UNCHANGED <<date, stage, ran, todo, claims, verified, checked>>
    PROVE EvidenceInv'
<1> USE DEF EvidenceInv
<1> DEFINE k == IF Len(checks) < Batch THEN Len(checks) ELSE Batch
<1>1. checks \in Seq(CheckRow) /\ pending \in Seq(VerifiedRow) BY DEF EvidenceTypes
<1>2. k \in 0 .. Len(checks)
  <2>1. Batch \in Nat /\ Len(checks) \in Nat BY <1>1, WindowAssumption
  <2> QED BY <2>1
<1>3. First = SubSeq(checks, 1, k) BY DEF First
<1> HIDE DEF k
<1>4. Len(First) = k /\ First \in Seq(CheckRow) /\ \A i \in 1 .. k : First[i] = checks[i]
  BY <1>1, <1>2, <1>3, CutInTwo
<1>5. Rest = SubSeq(checks, k + 1, Len(checks)) BY <1>4 DEF Rest
<1>6. /\ Rest \in Seq(CheckRow) /\ Len(Rest) = Len(checks) - k
      /\ \A i \in 1 .. Len(checks) - k : Rest[i] = checks[k + i]
  BY <1>1, <1>2, <1>5, CutInTwo
<1>7. Len(pending) \in Nat /\ Len(checks) \in Nat /\ k \in Nat /\ k <= Len(checks)
      /\ DOMAIN First = 1 .. k
  BY <1>1, <1>2, <1>4
<1>8. verdict \in Seq(VerifiedRow) /\ Len(verdict) = k BY <1>7
<1>9. /\ pending' \in Seq(VerifiedRow) /\ Len(pending') = Len(pending) + k
      /\ \A n \in 1 .. Len(pending) : pending'[n] = pending[n]
      /\ \A n \in 1 .. k : pending'[Len(pending) + n] = verdict[n]
  <2> HIDE DEF VerifiedRow
  <2>1. pending' \in Seq(VerifiedRow) BY <1>1, <1>8, Joined
  <2>2. Len(pending \o verdict) = Len(pending) + Len(verdict) BY <1>1, <1>8, Joined
  <2>3. \A n \in 1 .. Len(pending) : (pending \o verdict)[n] = pending[n] BY <1>1, <1>8, Joined
  <2>4. \A n \in 1 .. Len(verdict) : (pending \o verdict)[Len(pending) + n] = verdict[n]
    BY <1>1, <1>8, Joined
  <2> QED BY <1>8, <2>1, <2>2, <2>3, <2>4
<1>10. Len(checks') = Len(checks) - k /\ \A i \in 1 .. Len(checks) - k : checks'[i] = checks[k + i]
  BY <1>6
<1>11. Len(pending') + Len(checks') = Len(pending) + Len(checks) BY <1>7, <1>9, <1>10
<1>12. Read' = Read
  <2>1. DOMAIN Read' = 1 .. Len(pending) + Len(checks) /\ DOMAIN Read = 1 .. Len(pending) + Len(checks)
    BY <1>11 DEF Read
  <2>2. ASSUME NEW n \in 1 .. Len(pending) + Len(checks) PROVE Read'[n] = Read[n]
    <3>1. Read'[n] = IF n <= Len(pending') THEN pending'[n].claim ELSE checks'[n - Len(pending')].claim
      BY <1>11 DEF Read
    <3>2. Read[n] = IF n <= Len(pending) THEN pending[n].claim ELSE checks[n - Len(pending)].claim
      BY DEF Read
    <3>3. CASE n <= Len(pending)
      <4>1. n \in 1 .. Len(pending) /\ n <= Len(pending') BY <3>3, <1>7, <1>9
      <4> QED BY <3>1, <3>2, <3>3, <4>1, <1>9
    <3>4. CASE n > Len(pending) /\ n <= Len(pending) + k
      <4>1. PICK i \in 1 .. k : n = Len(pending) + i
        <5>1. n - Len(pending) \in 1 .. k /\ n = Len(pending) + (n - Len(pending)) BY <3>4, <1>7
        <5> QED BY <5>1
      <4>2. pending'[n].claim = First[i].claim BY <4>1, <1>7, <1>9
      <4>3. First[i] = checks[i] /\ n - Len(pending) = i BY <4>1, <1>4, <1>7
      <4> QED BY <3>1, <3>2, <3>4, <4>2, <4>3, <1>7, <1>9
    <3>5. CASE n > Len(pending) + k
      <4>1. n - Len(pending') \in 1 .. Len(checks) - k /\ k + (n - Len(pending')) = n - Len(pending)
        BY <3>5, <1>7, <1>9
      <4>2. checks'[n - Len(pending')] = checks[n - Len(pending)] BY <4>1, <1>10
      <4> QED BY <3>1, <3>2, <3>5, <4>2, <1>7, <1>9
    <3> QED BY <3>3, <3>4, <3>5, <1>7
  <2>3. Read = [n \in DOMAIN Read |-> Read[n]] /\ Read' = [n \in DOMAIN Read' |-> Read'[n]]
    BY DEF Read
  <2> QED BY <2>1, <2>2, <2>3
<1>13. EvidenceTypes' BY <1>6, <1>9 DEF EvidenceTypes
<1>14. ShiftsOnce' BY DEF ShiftsOnce
<1>15. ASSUME NEW n \in 1 .. Len(pending') PROVE pending'[n].day = date
  <2>1. CASE n \in 1 .. Len(pending) BY <2>1, <1>9 DEF ReadOpen
  <2>2. CASE n \notin 1 .. Len(pending)
    <3>1. PICK i \in 1 .. k : n = Len(pending) + i
      <4>1. n - Len(pending) \in 1 .. k /\ n = Len(pending) + (n - Len(pending)) BY <2>2, <1>7, <1>9
      <4> QED BY <4>1
    <3> QED BY <3>1, <1>7, <1>9
  <2> QED BY <2>1, <2>2
<1>16. ReadOpen'
  <2>1. \A c : Closed(c)' = Closed(c) BY DEF Closed
  <2> QED BY <1>11, <1>12, <1>15, <2>1 DEF ReadOpen
<1>17. ClaimsGrow
  <2>1. Len(claims) \in Nat /\ claims \in Seq(ClaimRow) BY DEF EvidenceTypes
  <2> QED BY <2>1 DEF ClaimsGrow
<1> QED BY <1>13, <1>14, <1>16, <1>17, NothingVerified

\* A step that reads or judges no claim.
LEMMA NothingRead ==
    ASSUME EvidenceInv, ClaimsGrow, UNCHANGED <<verified, checked>>, EvidenceTypes', ShiftsOnce',
           stage' # "check"
    PROVE EvidenceInv'
<1> USE DEF EvidenceInv
<1>1. Len(pending') = 0 /\ Len(checks') = 0 /\ pending' = <<>> /\ checks' = <<>> BY DEF EvidenceTypes
<1>2. 1 .. Len(pending') + Len(checks') = {} BY <1>1
<1>3. ReadOpen' BY <1>1, <1>2 DEF ReadOpen, Read
<1> QED BY <1>3, NothingVerified

\* The claims a fact check reads.
LEMMA ReadClaimsKeeps == ASSUME EvidenceInv, ReadClaims PROVE EvidenceInv'
<1> USE DEF EvidenceInv
<1>1. PICK edge \in BOOLEAN :
        LET failing == Ascending({c \in Range(Open(edge)) : HardFails(c)})
            passing == Ascending({c \in Range(Open(edge)) : ~HardFails(c)})
        IN  /\ pending' = [n \in DOMAIN failing |-> Verdict(failing[n], "rejected", TRUE)]
            /\ checks' = [n \in DOMAIN passing |->
                            [claim |-> passing[n], corrected |-> Corrected(passing[n])]]
  BY DEF ReadClaims
<1> DEFINE S == {c \in Recent(edge) : ~Closed(c)}
           open == Ascending(S)
           k == IF Len(open) < MaxClaims THEN Len(open) ELSE MaxClaims
           K == Range(Open(edge))
           F == {c \in K : HardFails(c)}
           P == {c \in K : ~HardFails(c)}
           failing == Ascending(F)
           passing == Ascending(P)
<1>2. /\ stage = "research" /\ stage' = "check"
      /\ UNCHANGED <<date, ran, todo, claims, verified, checked>>
      /\ pending' = [n \in DOMAIN failing |-> Verdict(failing[n], "rejected", TRUE)]
      /\ checks' = [n \in DOMAIN passing |-> [claim |-> passing[n], corrected |-> Corrected(passing[n])]]
  BY <1>1 DEF ReadClaims, research
<1>3. claims \in Seq(ClaimRow) /\ Len(claims) \in Nat /\ DOMAIN claims = 1 .. Len(claims)
      /\ date \in Nat /\ Window \in Nat /\ MaxClaims \in Nat
  BY WindowAssumption DEF EvidenceTypes
<1>4. S \subseteq 1 .. Len(claims) /\ S \subseteq Int /\ IsFiniteSet(S)
  <2>1. S \subseteq 1 .. Len(claims) /\ S \subseteq Int BY <1>3 DEF Recent
  <2>2. IsFiniteSet(1 .. Len(claims)) BY <1>3, FS_Interval
  <2> HIDE DEF S
  <2> QED BY <2>1, <2>2, FS_Subset
<1>5. /\ open \in Seq(S) /\ Len(open) = Cardinality(S) /\ Cardinality(S) \in Nat
      /\ \A i \in 1 .. Len(open) : open[i] \in S
      /\ \A c \in S : \E i \in 1 .. Len(open) : open[i] = c
      /\ \A i, j \in 1 .. Len(open) : i < j => open[i] < open[j]
  <2> HIDE DEF S
  <2> QED BY <1>4, AscendingIs
<1>6. k \in 0 .. Len(open) /\ k \in Nat BY <1>3, <1>5
<1>7. /\ Len(Open(edge)) = k /\ Open(edge) \in Seq(S)
      /\ \A i \in 1 .. k : Open(edge)[i] = open[i]
  <2>1. Open(edge) = SubSeq(open, 1, k) BY DEF Open
  <2> HIDE DEF S, k, open
  <2> QED BY <1>5, <1>6, <2>1, CutInTwo
<1> HIDE DEF k
<1>8. DOMAIN Open(edge) = 1 .. k
  <2> HIDE DEF S
  <2> QED BY <1>6, <1>7
<1>9. K = {open[i] : i \in 1 .. k} /\ K \subseteq S
  <2>1. K = {Open(edge)[i] : i \in 1 .. k} BY <1>8 DEF Range
  <2>2. \A i \in 1 .. k : i \in 1 .. Len(open) BY <1>5, <1>6
  <2> HIDE DEF K, open, S
  <2> QED BY <1>5, <1>7, <2>1, <2>2
<1>10. IsFiniteSet(K) /\ Cardinality(K) = k
  <2>1. Open(edge) \in [1 .. k -> K]
    <3>1. Open(edge) = [i \in 1 .. k |-> Open(edge)[i]]
      <4> HIDE DEF S
      <4> QED BY <1>6, <1>7, <1>8
    <3>2. \A i \in 1 .. k : Open(edge)[i] \in K BY <1>8 DEF Range
    <3> HIDE DEF K
    <3> QED BY <3>1, <3>2
  <2>2. ASSUME NEW i \in 1 .. k, NEW j \in 1 .. k, Open(edge)[i] = Open(edge)[j] PROVE i = j
    <3>1. i \in 1 .. Len(open) /\ j \in 1 .. Len(open) BY <1>5, <1>6
    <3>2. open[i] = open[j] BY <2>2, <1>7
    <3>3. open[i] \in Int /\ open[j] \in Int BY <3>1, <1>4, <1>5
    <3>4. i < j => open[i] < open[j] BY <3>1, <1>5
    <3>5. j < i => open[j] < open[i] BY <3>1, <1>5
    <3> HIDE DEF open
    <3> QED BY <3>2, <3>3, <3>4, <3>5
  <2>3. \A c \in K : \E i \in 1 .. k : Open(edge)[i] = c BY <1>8 DEF Range
  <2> HIDE DEF K
  <2>4. Open(edge) \in Injection(1 .. k, K) BY <2>1, <2>2 DEF Injection, IsInjective
  <2>5. Open(edge) \in Surjection(1 .. k, K) BY <2>1, <2>3 DEF Surjection
  <2>6. IsFiniteSet(1 .. k) /\ Cardinality(1 .. k) = k BY <1>6, FS_Interval
  <2> QED BY <2>4, <2>5, <2>6, FS_Surjection
<1>11. /\ IsFiniteSet(F) /\ IsFiniteSet(P) /\ F \subseteq Int /\ P \subseteq Int
       /\ Cardinality(F) + Cardinality(P) = k /\ F \cap P = {} /\ F \cup P = K
  <2>1. F \subseteq K /\ P \subseteq K /\ F \cap P = {} /\ F \cup P = K OBVIOUS
  <2>2. K \subseteq Int BY <1>4, <1>9
  <2> HIDE DEF F, P, K
  <2>3. IsFiniteSet(F) /\ IsFiniteSet(P) BY <1>10, <2>1, FS_Subset
  <2>4. Cardinality(F \cup P) = Cardinality(F) + Cardinality(P) - Cardinality(F \cap P)
    BY <2>3, FS_Union
  <2>5. Cardinality(F \cap P) = 0 BY <2>1, FS_EmptySet
  <2>6. Cardinality(F) \in Nat /\ Cardinality(P) \in Nat BY <2>3, FS_CardinalityType
  <2>7. Cardinality(F) + Cardinality(P) = k BY <1>10, <2>1, <2>4, <2>5, <2>6
  <2> QED BY <2>1, <2>2, <2>3, <2>7
<1> HIDE DEF F, P, K, S, open
<1>12. /\ failing \in Seq(F) /\ Len(failing) = Cardinality(F) /\ Cardinality(F) \in Nat
       /\ \A i \in 1 .. Len(failing) : failing[i] \in F
       /\ \A c \in F : \E i \in 1 .. Len(failing) : failing[i] = c
       /\ \A i, j \in 1 .. Len(failing) : i < j => failing[i] < failing[j]
  BY <1>11, AscendingIs
<1>13. /\ passing \in Seq(P) /\ Len(passing) = Cardinality(P) /\ Cardinality(P) \in Nat
       /\ \A i \in 1 .. Len(passing) : passing[i] \in P
       /\ \A c \in P : \E i \in 1 .. Len(passing) : passing[i] = c
       /\ \A i, j \in 1 .. Len(passing) : i < j => passing[i] < passing[j]
  BY <1>11, AscendingIs
<1> HIDE DEF failing, passing
<1>14. DOMAIN failing = 1 .. Len(failing) /\ DOMAIN passing = 1 .. Len(passing) BY <1>12, <1>13
<1>15. \A c \in K : c \in 1 .. Len(claims) /\ c \in Nat /\ ~Closed(c) BY <1>3, <1>4, <1>9 DEF S
<1>16. /\ pending' \in Seq(VerifiedRow) /\ Len(pending') = Len(failing)
       /\ \A n \in 1 .. Len(failing) : pending'[n].claim = failing[n] /\ pending'[n].day = date
  <2>1. pending' = [n \in 1 .. Len(failing) |-> Verdict(failing[n], "rejected", TRUE)] BY <1>2, <1>14
  <2>2. \A n \in 1 .. Len(failing) : Verdict(failing[n], "rejected", TRUE) \in VerifiedRow
    BY <1>3, <1>11, <1>12, <1>15 DEF Verdict, VerifiedRow
  <2>3. pending' \in [1 .. Len(failing) -> VerifiedRow] BY <2>1, <2>2
  <2>4. pending' \in Seq(VerifiedRow) /\ Len(pending') = Len(failing) BY <2>3, <1>12
  <2> QED BY <2>1, <2>4 DEF Verdict
<1>17. /\ checks' \in Seq(CheckRow) /\ Len(checks') = Len(passing)
       /\ \A n \in 1 .. Len(passing) : checks'[n].claim = passing[n]
  <2>1. checks' = [n \in 1 .. Len(passing) |-> [claim |-> passing[n], corrected |-> Corrected(passing[n])]]
    BY <1>2, <1>14
  <2>2. \A n \in 1 .. Len(passing) : [claim |-> passing[n], corrected |-> Corrected(passing[n])] \in CheckRow
    BY <1>11, <1>13, <1>15 DEF CheckRow, Corrected
  <2>3. checks' \in [1 .. Len(passing) -> CheckRow] BY <2>1, <2>2
  <2>4. checks' \in Seq(CheckRow) /\ Len(checks') = Len(passing) BY <2>3, <1>13
  <2> QED BY <2>1, <2>4
<1>18. Len(pending') + Len(checks') = k BY <1>11, <1>12, <1>13, <1>16, <1>17
<1> DEFINE last == Len(failing)
<1>19. DOMAIN Read' = 1 .. k BY <1>18 DEF Read
<1>20. ASSUME NEW n \in 1 .. k
       PROVE \/ n \in 1 .. last /\ Read'[n] = failing[n] /\ Read'[n] \in F
             \/ n > last /\ n - last \in 1 .. Len(passing)
                /\ Read'[n] = passing[n - last] /\ Read'[n] \in P
  <2>1. Read'[n] = IF n <= Len(pending') THEN pending'[n].claim ELSE checks'[n - Len(pending')].claim
    BY <1>18 DEF Read
  <2>2. last \in Nat /\ Len(passing) \in Nat /\ last + Len(passing) = k
    BY <1>11, <1>12, <1>13
  <2>3. CASE n <= last
    <3>1. n \in 1 .. last BY <2>2, <2>3
    <3> QED BY <2>1, <2>3, <3>1, <1>12, <1>16
  <2>4. CASE n > last
    <3>1. n - last \in 1 .. Len(passing) /\ ~(n <= last) BY <2>2, <2>4, <1>6
    <3> QED BY <2>1, <2>4, <3>1, <1>13, <1>16, <1>17
  <2> QED BY <2>2, <2>3, <2>4
<1>21. \A n \in DOMAIN Read' : Read'[n] \in 1 .. Len(claims) /\ ~Closed(Read'[n])
  <2>1. \A n \in 1 .. k : Read'[n] \in K BY <1>11, <1>20
  <2> QED BY <1>15, <1>19, <2>1
<1>22. ASSUME NEW m \in DOMAIN Read', NEW n \in DOMAIN Read', Read'[m] = Read'[n] PROVE m = n
  <2>0. m \in 1 .. k /\ n \in 1 .. k /\ last \in Nat BY <1>12, <1>19
  <2>1. CASE m \in 1 .. last /\ n \in 1 .. last
    <3>1. failing[m] = failing[n] /\ failing[m] \in Int
      <4>1. ~(m > last) /\ ~(n > last) BY <2>0, <2>1
      <4>2. Read'[m] = failing[m] /\ Read'[n] = failing[n] BY <1>20, <2>0, <4>1
      <4>3. failing[m] \in F BY <1>12, <2>1
      <4> QED BY <4>2, <4>3, <1>11, <1>22
    <3>2. m < n => failing[m] < failing[n] BY <1>12, <2>1
    <3>3. n < m => failing[n] < failing[m] BY <1>12, <2>1
    <3> QED BY <2>0, <3>1, <3>2, <3>3
  <2>2. CASE m > last /\ n > last
    <3>1. m - last \in 1 .. Len(passing) /\ n - last \in 1 .. Len(passing)
          /\ passing[m - last] = passing[n - last] /\ passing[m - last] \in Int
      <4>1. ~(m \in 1 .. last) /\ ~(n \in 1 .. last) BY <2>0, <2>2
      <4>2. /\ Read'[m] = passing[m - last] /\ m - last \in 1 .. Len(passing)
            /\ Read'[n] = passing[n - last] /\ n - last \in 1 .. Len(passing)
        BY <1>20, <2>0, <4>1
      <4>3. passing[m - last] \in P BY <1>13, <4>2
      <4> QED BY <4>2, <4>3, <1>11, <1>22
    <3>2. m - last < n - last => passing[m - last] < passing[n - last] BY <1>13, <3>1
    <3>3. n - last < m - last => passing[n - last] < passing[m - last] BY <1>13, <3>1
    <3> QED BY <2>0, <3>1, <3>2, <3>3
  <2>3. CASE (m \in 1 .. last /\ n > last) \/ (n \in 1 .. last /\ m > last)
    <3>1. \A i \in 1 .. k : i \in 1 .. last => Read'[i] \in F BY <1>20, <2>0
    <3>2. \A i \in 1 .. k : i > last => Read'[i] \in P BY <1>20, <2>0
    <3> QED BY <3>1, <3>2, <1>11, <1>22, <2>0, <2>3
  <2> QED BY <2>0, <2>1, <2>2, <2>3, <1>6
<1>23. ASSUME NEW c \in 1 .. Len(claims), date - claims[c].day < Window, ~Closed(c)
       PROVE (\E n \in DOMAIN Read' : Read'[n] = c) \/ k >= MaxClaims
  <2>1. c \in S
    <3>1. claims[c].day \in Nat
      <4>1. claims[c] \in ClaimRow BY <1>3
      <4> QED BY <4>1 DEF ClaimRow
    <3>2. date - claims[c].day < Window + (IF edge THEN 1 ELSE 0) BY <1>3, <1>23, <3>1
    <3> QED BY <1>3, <1>23, <3>2 DEF S, Recent
  <2>2. CASE Len(open) < MaxClaims
    <3>1. c \in K BY <1>5, <1>9, <2>1, <2>2 DEF k
    <3>2. CASE c \in F
      <4>1. PICK i \in 1 .. Len(failing) : failing[i] = c BY <1>12, <3>2
      <4>2. i \in 1 .. k /\ ~(i > last) BY <4>1, <1>11, <1>12, <1>13
      <4> QED BY <4>1, <4>2, <1>19, <1>20
    <3>3. CASE c \in P
      <4>1. PICK i \in 1 .. Len(passing) : passing[i] = c BY <1>13, <3>3
      <4>2. last + i \in 1 .. k /\ last + i > last /\ last + i - last = i /\ ~(last + i \in 1 .. last)
        BY <4>1, <1>11, <1>12, <1>13
      <4> QED BY <4>1, <4>2, <1>19, <1>20
    <3> QED BY <3>1, <3>2, <3>3, <1>11
  <2>3. CASE ~(Len(open) < MaxClaims) BY <2>3, <1>3 DEF k
  <2> QED BY <2>2, <2>3
<1>24. EvidenceTypes' BY <1>2, <1>16, <1>17 DEF EvidenceTypes
<1>25. ShiftsOnce' BY <1>2 DEF ShiftsOnce
<1>26. ReadOpen'
  <2>1. \A c : Closed(c)' = Closed(c) BY <1>2 DEF Closed
  <2>2. \A n \in 1 .. Len(pending') : pending'[n].day = date' BY <1>2, <1>16
  <2>3. (\A n \in DOMAIN Read : Read[n] \in 1 .. Len(claims) /\ ~Closed(Read[n]))'
    BY <1>2, <1>21 DEF Closed
  <2>4. \A m, n \in DOMAIN Read' : Read'[m] = Read'[n] => m = n BY <1>22
  <2>5. \A c \in 1 .. Len(claims') : date' - claims'[c].day < Window /\ ~Closed(c)' =>
              \/ \E n \in DOMAIN Read' : Read'[n] = c
              \/ Len(pending') + Len(checks') >= MaxClaims
    BY <1>2, <1>18, <1>23, <2>1
  <2> QED BY <2>2, <2>3, <2>4, <2>5 DEF ReadOpen
<1>27. ClaimsGrow BY <1>2, <1>3 DEF ClaimsGrow
<1> QED BY <1>2, <1>24, <1>25, <1>26, <1>27, NothingVerified

LEMMA BlockSize == ASSUME NEW a \in Nat, NEW k \in Nat PROVE Cardinality(a + 1 .. a + k) = k
<1> DEFINE p == a + 1
           q == a + k
<1>1. p \in Int /\ q \in Int OBVIOUS
<1>2. p > q <=> k = 0 OBVIOUS
<1>3. q - p + 1 = k OBVIOUS
<1> SUFFICES Cardinality(p .. q) = k OBVIOUS
<1> HIDE DEF p, q
<1>4. Cardinality(p .. q) = IF p > q THEN 0 ELSE q - p + 1 BY <1>1, FS_Interval
<1> QED BY <1>2, <1>3, <1>4

\* The commit of a fact check.
LEMMA StoreKeeps == ASSUME EvidenceInv, StoreVerdicts PROVE EvidenceInv'
<1> USE DEF EvidenceInv
<1>1. /\ stage = "check" /\ checks = <<>> /\ verified' = verified \o pending /\ pending' = <<>>
      /\ checked' = checked \cup {date} /\ stage' = "idle"
      /\ UNCHANGED <<date, ran, todo, claims, checks>>
  BY DEF StoreVerdicts, research
<1> DEFINE N == Len(verified)
<1>2. /\ verified \in Seq(VerifiedRow) /\ pending \in Seq(VerifiedRow) /\ Len(claims) \in Nat
      /\ date \in Nat /\ date \in ran /\ date \notin checked /\ checked \subseteq 0 .. date /\ claims \in Seq(ClaimRow)
  BY <1>1 DEF EvidenceTypes, ShiftsOnce
<1>19. \A x \in checked : x \in Nat /\ x < date BY <1>2
<1>3. /\ verified' \in Seq(VerifiedRow) /\ Len(verified') = N + Len(pending) /\ N \in Nat /\ Len(pending) \in Nat
      /\ \A n \in 1 .. N : verified'[n] = verified[n]
      /\ \A n \in 1 .. Len(pending) : verified'[N + n] = pending[n]
  <2> HIDE DEF VerifiedRow
  <2>1. verified \o pending \in Seq(VerifiedRow) BY <1>2, Joined
  <2>2. Len(verified \o pending) = Len(verified) + Len(pending) BY <1>2, Joined
  <2>3. \A n \in 1 .. Len(verified) : (verified \o pending)[n] = verified[n] BY <1>2, Joined
  <2>4. \A n \in 1 .. Len(pending) : (verified \o pending)[Len(verified) + n] = pending[n]
    BY <1>2, Joined
  <2>5. Len(verified) \in Nat /\ Len(pending) \in Nat BY <1>2
  <2> QED BY <1>1, <2>1, <2>2, <2>3, <2>4, <2>5
<1> HIDE DEF N
<1>4. \A n \in 1 .. N : /\ verified[n].day \in checked /\ verified[n].day < date
                        /\ verified[n].claim \in 1 .. Len(claims)
  <2>1. \A e \in checked : e < date BY <1>2
  <2> QED BY <2>1 DEF VerifiedRows, N
<1>5. Len(checks) = 0 /\ DOMAIN Read = 1 .. Len(pending)
      /\ \A n \in 1 .. Len(pending) : Read[n] = pending[n].claim
  <2>1. Len(checks) = 0 BY <1>1
  <2>2. Len(pending) + Len(checks) = Len(pending) BY <1>3, <2>1
  <2>3. DOMAIN Read = 1 .. Len(pending) BY <2>2 DEF Read
  <2>4. \A n \in 1 .. Len(pending) : Read[n] = pending[n].claim BY <2>2, <1>3 DEF Read
  <2> QED BY <2>1, <2>3, <2>4
<1>6. /\ \A n \in 1 .. Len(pending) : /\ pending[n].day = date /\ pending[n].claim \in 1 .. Len(claims)
                                      /\ ~Closed(pending[n].claim)
      /\ \A m, n \in 1 .. Len(pending) : pending[m].claim = pending[n].claim => m = n
  BY <1>5 DEF ReadOpen
<1>7. DOMAIN verified = 1 .. N /\ DOMAIN verified' = 1 .. N + Len(pending) BY <1>2, <1>3 DEF N
<1>8. \A n \in 1 .. Len(pending) : \A m \in 1 .. N : verified[m].claim = pending[n].claim => ~verified[m].ok
  BY <1>6, <1>7 DEF Closed
<1>9. ASSUME NEW n \in 1 .. N + Len(pending)
      PROVE \/ n \in 1 .. N /\ verified'[n] = verified[n]
            \/ n \notin 1 .. N /\ n - N \in 1 .. Len(pending) /\ verified'[n] = pending[n - N]
  <2>1. CASE n \in 1 .. N BY <2>1, <1>3
  <2>2. CASE n \notin 1 .. N
    <3>1. n - N \in 1 .. Len(pending) /\ N + (n - N) = n BY <2>2, <1>3
    <3> QED BY <2>2, <3>1, <1>3
  <2> QED BY <2>1, <2>2
<1>10. EvidenceTypes' BY <1>1, <1>3 DEF EvidenceTypes
<1>11. ShiftsOnce' BY <1>1, <1>2 DEF ShiftsOnce
<1>12. ReadOpen'
  <2>1. 1 .. Len(pending') + Len(checks') = {} /\ 1 .. Len(pending') = {} BY <1>1
  <2> QED BY <1>1, <2>1 DEF ReadOpen, Read
<1>13. ASSUME NEW n \in 1 .. N + Len(pending)
       PROVE verified'[n].day \in checked' /\ verified'[n].claim \in 1 .. Len(claims)
  <2>1. CASE n \in 1 .. N BY <1>1, <1>3, <1>4, <2>1
  <2>2. CASE n \notin 1 .. N
    <3>1. n - N \in 1 .. Len(pending) /\ verified'[n] = pending[n - N] BY <2>2, <1>9
    <3>2. pending[n - N].day = date /\ pending[n - N].claim \in 1 .. Len(claims) BY <3>1, <1>6
    <3>3. date \in checked' BY <1>1
    <3> QED BY <3>1, <3>2, <3>3
  <2> QED BY <2>1, <2>2
<1>14. ASSUME NEW m \in 1 .. N + Len(pending), NEW n \in 1 .. N + Len(pending),
              ~verified'[m].ok, verified'[n].ok, verified'[m].claim = verified'[n].claim
       PROVE verified'[m].day < verified'[n].day
  <2>1. CASE m \in 1 .. N /\ n \in 1 .. N BY <1>3, <1>14, <2>1 DEF VerifiedRows, N
  <2>2. CASE m \in 1 .. N /\ n \notin 1 .. N
    <3>1. n - N \in 1 .. Len(pending) /\ verified'[n] = pending[n - N] BY <2>2, <1>9
    <3> QED BY <1>3, <1>4, <1>6, <2>2, <3>1
  <2>3. CASE m \notin 1 .. N /\ n \in 1 .. N
    <3>1. m - N \in 1 .. Len(pending) /\ verified'[m] = pending[m - N] BY <2>3, <1>9
    <3> QED BY <1>3, <1>8, <1>14, <2>3, <3>1
  <2>4. CASE m \notin 1 .. N /\ n \notin 1 .. N
    <3>1. /\ m - N \in 1 .. Len(pending) /\ verified'[m] = pending[m - N]
          /\ n - N \in 1 .. Len(pending) /\ verified'[n] = pending[n - N]
      BY <2>4, <1>9
    <3>2. m - N = n - N BY <1>6, <1>14, <3>1
    <3> QED BY <1>14, <3>1, <3>2
  <2> QED BY <2>1, <2>2, <2>3, <2>4
<1>15. VerifiedRows' BY <1>1, <1>3, <1>13, <1>14 DEF VerifiedRows
<1>16. ASSUME NEW m \in 1 .. N + Len(pending), NEW n \in 1 .. N + Len(pending),
              verified'[m].ok, verified'[n].ok, verified'[m].claim = verified'[n].claim
       PROVE m = n
  <2>1. CASE m \in 1 .. N /\ n \in 1 .. N BY <1>3, <1>7, <1>16, <2>1 DEF ClosedOnce
  <2>2. CASE m \in 1 .. N /\ n \notin 1 .. N
    <3>1. n - N \in 1 .. Len(pending) /\ verified'[n] = pending[n - N] BY <2>2, <1>9
    <3> QED BY <1>3, <1>8, <1>16, <2>2, <3>1
  <2>3. CASE m \notin 1 .. N /\ n \in 1 .. N
    <3>1. m - N \in 1 .. Len(pending) /\ verified'[m] = pending[m - N] BY <2>3, <1>9
    <3> QED BY <1>3, <1>8, <1>16, <2>3, <3>1
  <2>4. CASE m \notin 1 .. N /\ n \notin 1 .. N
    <3>1. /\ m - N \in 1 .. Len(pending) /\ verified'[m] = pending[m - N]
          /\ n - N \in 1 .. Len(pending) /\ verified'[n] = pending[n - N]
      BY <2>4, <1>9
    <3>2. m - N = n - N BY <1>6, <1>16, <3>1
    <3> QED BY <3>2, <1>3
  <2> QED BY <2>1, <2>2, <2>3, <2>4
<1>17. ClosedOnce' BY <1>7, <1>16 DEF ClosedOnce
<1>18. RetriedInWindow'
  <2> DEFINE Due(v, e) ==
        \/ e - claims[v.claim].day >= Window
        \/ Cardinality({m \in 1 .. N + Len(pending) : verified'[m].day = e}) >= MaxClaims
        \/ \E m \in 1 .. N + Len(pending) : verified'[m].claim = v.claim /\ verified'[m].day = e
  <2>6. \A d : NextRun(d)' = CHOOSE x \in {y \in checked' : y > d} : \A f \in {y \in checked' : y > d} : x <= f
    BY DEF NextRun
  <2>7. ASSUME \A n \in 1 .. N + Len(pending) :
                  ~verified'[n].ok /\ (\E x \in checked' : x > verified'[n].day) =>
                     Due(verified'[n], CHOOSE x \in {y \in checked' : y > verified'[n].day} :
                                          \A f \in {y \in checked' : y > verified'[n].day} : x <= f)
        PROVE RetriedInWindow'
    BY <1>1, <1>7, <2>6, <2>7 DEF RetriedInWindow, Retried, NextRun
  <2> SUFFICES ASSUME NEW n \in 1 .. N + Len(pending), ~verified'[n].ok,
                      NEW later \in checked', later > verified'[n].day
               PROVE Due(verified'[n], CHOOSE x \in {y \in checked' : y > verified'[n].day} :
                                          \A f \in {y \in checked' : y > verified'[n].day} : x <= f)
    BY <2>7
  <2> DEFINE v == verified'[n]
             e == CHOOSE x \in {y \in checked' : y > v.day} : \A f \in {y \in checked' : y > v.day} : x <= f
  <2> HIDE DEF v, e
  <2> SUFFICES Due(v, e) BY DEF v, e
  <2>1. \A x \in checked' : x \in Nat /\ x <= date
    <3>1. date \in Nat /\ checked' = checked \cup {date} BY <1>1, <1>2
    <3> QED BY <3>1, <1>19
  <2>2. n \in 1 .. N /\ v = verified[n] /\ v.day \in checked /\ v.day \in Nat /\ v.day < date
    <3>1. v.day < date
      <4>1. v.day \in checked' /\ later <= date /\ later > v.day /\ later \in Nat BY <2>1, <1>13 DEF v
      <4>2. date \in Nat /\ v.day \in Nat BY <1>2, <2>1, <4>1
      <4> QED BY <4>1, <4>2
    <3>2. n \in 1 .. N
      <4>1. CASE n \notin 1 .. N
        <5>1. v.day = date BY <4>1, <1>6, <1>9 DEF v
        <5> QED BY <3>1, <5>1, <1>2
      <4> QED BY <4>1
    <3> QED BY <3>1, <3>2, <1>3, <1>4, <1>19 DEF v
  <2>3. e = CHOOSE x \in {y \in checked \cup {date} : y > v.day} :
                \A f \in {y \in checked \cup {date} : y > v.day} : x <= f
    BY <1>1 DEF e
  <2>4. CASE \E x \in checked : x > v.day
    <3> DEFINE S == {y \in checked : y > v.day}
               T == {y \in checked \cup {date} : y > v.day}
               IsLeast(x) == x \in S /\ \A f \in S : x <= f
    <3>1. \E x \in S : \A f \in S : x <= f
      <4>1. S \subseteq Nat /\ S # {} BY <2>4, <1>19
      <4> HIDE DEF S
      <4> QED BY <4>1, Least
    <3>2. \A x : (x \in T /\ \A f \in T : x <= f) <=> IsLeast(x)
      <4>1. \A x \in S : x \in T /\ x < date /\ x \in Nat BY <1>2
      <4>2. \A x \in T : x \in S \/ x = date OBVIOUS
      <4> HIDE DEF S, T
      <4>3. PICK x \in S : \A f \in S : x <= f BY <3>1
      <4>4. ASSUME NEW y, IsLeast(y) PROVE y \in T /\ \A f \in T : y <= f
        BY <4>1, <4>2, <4>4, <1>2
      <4>5. ASSUME NEW y \in T, \A f \in T : y <= f PROVE IsLeast(y)
        <5>1. y # date BY <4>1, <4>3, <4>5, <1>2
        <5> QED BY <4>1, <4>2, <4>5, <5>1
      <4> QED BY <4>4, <4>5
    <3>3. e = CHOOSE x : x \in T /\ \A f \in T : x <= f
      <4>1. e = CHOOSE x \in T : \A f \in T : x <= f BY <2>3
      <4> HIDE DEF T
      <4> QED BY <4>1
    <3>4. NextRun(v.day) = CHOOSE x : IsLeast(x)
      <4>1. NextRun(v.day) = CHOOSE x \in S : \A f \in S : x <= f BY DEF NextRun
      <4> HIDE DEF S
      <4> QED BY <4>1
    <3>5. e = NextRun(v.day)
      <4> HIDE DEF T, IsLeast
      <4>1. (CHOOSE x : x \in T /\ \A f \in T : x <= f) = CHOOSE x : IsLeast(x) BY <3>2, Zenon
      <4> QED BY <3>3, <3>4, <4>1
    <3>6. e \in S
      <4> HIDE DEF S
      <4>1. (CHOOSE x : IsLeast(x)) \in S BY <3>1, Zenon
      <4> QED BY <3>4, <3>5, <4>1
    <3>7. e # date /\ e \in Nat BY <1>2, <3>6
    <3>8. {m \in 1 .. N + Len(pending) : verified'[m].day = e} = {m \in 1 .. N : verified[m].day = e}
      <4>1. ASSUME NEW m \in 1 .. N + Len(pending), verified'[m].day = e PROVE m \in 1 .. N /\ verified[m].day = e
        BY <4>1, <1>6, <1>9, <3>7
      <4>2. ASSUME NEW m \in 1 .. N, verified[m].day = e
            PROVE m \in 1 .. N + Len(pending) /\ verified'[m].day = e
        BY <4>2, <1>3
      <4> QED BY <4>1, <4>2
    <3>9. \/ e - claims[v.claim].day >= Window
          \/ Cardinality({m \in 1 .. N : verified[m].day = e}) >= MaxClaims
          \/ \E m \in 1 .. N : verified[m].claim = v.claim /\ verified[m].day = e
      <4>1. n \in DOMAIN verified /\ ~verified[n].ok /\ (\E x \in checked : x > verified[n].day)
        BY <1>7, <2>2, <2>4 DEF v
      <4>2. verified[n] = v /\ NextRun(verified[n].day) = e BY <2>2, <3>5
      <4> HIDE DEF Due
      <4> QED BY <1>7, <4>1, <4>2 DEF RetriedInWindow, Retried
    <3>10. ASSUME NEW m \in 1 .. N, verified[m].claim = v.claim, verified[m].day = e
           PROVE \E i \in 1 .. N + Len(pending) : verified'[i].claim = v.claim /\ verified'[i].day = e
      <4>1. m \in 1 .. N + Len(pending) BY <1>3
      <4> QED BY <4>1, <3>10, <1>3
    <3> QED BY <3>8, <3>9, <3>10
  <2>5. CASE ~(\E x \in checked : x > v.day)
    <3>1. {y \in checked \cup {date} : y > v.day} = {date} BY <2>2, <2>5, <1>2
    <3>2. e = date
      <4>1. e = CHOOSE x \in {date} : \A f \in {date} : x <= f BY <2>3, <3>1
      <4>2. \A f \in {date} : date <= f BY <1>2
      <4> QED BY <4>1, <4>2
    <3>3. ASSUME Closed(v.claim) PROVE FALSE
      <4>1. PICK m \in 1 .. N : verified[m].claim = v.claim /\ verified[m].ok BY <3>3, <1>7 DEF Closed
      <4>2. v.day < verified[m].day
        <5>1. ~verified[n].ok /\ verified[m].claim = verified[n].claim BY <4>1, <2>2 DEF v
        <5>2. verified[n].day < verified[m].day BY <4>1, <5>1, <2>2 DEF VerifiedRows, N
        <5> QED BY <5>2, <2>2
      <4> QED BY <4>1, <4>2, <1>4, <2>5, <2>2, <1>2
    <3>4. v.claim \in 1 .. Len(claims) BY <2>2, <1>4
    <3>5. claims[v.claim].day \in Nat /\ Window \in Nat
      <4>1. claims[v.claim] \in ClaimRow BY <3>4, <1>2
      <4> QED BY <4>1, WindowAssumption DEF ClaimRow
    <3>6. CASE date - claims[v.claim].day < Window
      <4>1. (\E i \in 1 .. Len(pending) : pending[i].claim = v.claim) \/ Len(pending) >= MaxClaims
        <5>1. Len(pending) + Len(checks) = Len(pending) BY <1>3, <1>5
        <5>2. (\E i \in 1 .. Len(pending) : Read[i] = v.claim) \/ Len(pending) >= MaxClaims
          BY <1>1, <1>5, <3>3, <3>4, <3>6, <5>1 DEF ReadOpen
        <5> QED BY <5>2, <1>5
      <4>2. CASE \E i \in 1 .. Len(pending) : pending[i].claim = v.claim
        <5>1. PICK i \in 1 .. Len(pending) : pending[i].claim = v.claim BY <4>2
        <5>2. N + i \in 1 .. N + Len(pending) BY <5>1, <1>3
        <5>3. verified'[N + i].claim = v.claim /\ verified'[N + i].day = e BY <5>1, <1>3, <1>6, <3>2
        <5> QED BY <5>2, <5>3
      <4>3. CASE Len(pending) >= MaxClaims
        <5> DEFINE M == {m \in 1 .. N + Len(pending) : verified'[m].day = e}
        <5>1. M = N + 1 .. N + Len(pending)
          <6>1. ASSUME NEW m \in 1 .. N + Len(pending), verified'[m].day = e PROVE m \in N + 1 .. N + Len(pending)
            BY <6>1, <1>3, <1>4, <1>9, <3>2, <1>2
          <6>2. ASSUME NEW m \in N + 1 .. N + Len(pending)
                PROVE m \in 1 .. N + Len(pending) /\ verified'[m].day = e
            <7>1. m \in 1 .. N + Len(pending) /\ m \notin 1 .. N BY <6>2, <1>3
            <7> QED BY <7>1, <1>6, <1>9, <3>2
          <6> QED BY <6>1, <6>2
        <5>2. Cardinality(N + 1 .. N + Len(pending)) = Len(pending) BY <1>3, BlockSize
        <5> QED BY <4>3, <5>1, <5>2
      <4> QED BY <4>1, <4>2, <4>3
    <3>7. CASE ~(date - claims[v.claim].day < Window) BY <3>2, <3>5, <3>7, <1>2
    <3> QED BY <3>6, <3>7
  <2> QED BY <2>4, <2>5
<1> QED BY <1>10, <1>11, <1>12, <1>15, <1>17, <1>18

\* The claims of the next batch.
LEMMA FirstRows ==
    ASSUME checks \in Seq(CheckRow) PROVE \A n \in DOMAIN First : First[n].claim \in Nat
<1> DEFINE k == IF Len(checks) < Batch THEN Len(checks) ELSE Batch
<1>1. k \in 0 .. Len(checks)
  <2>1. Batch \in Nat /\ Len(checks) \in Nat BY WindowAssumption
  <2> QED BY <2>1
<1>2. First = SubSeq(checks, 1, k) BY DEF First
<1> HIDE DEF k
<1>3. First \in Seq(CheckRow) BY <1>1, <1>2, CutInTwo
<1>4. \A n \in DOMAIN First : First[n] \in CheckRow
  <2> HIDE DEF CheckRow
  <2> QED BY <1>3
<1> QED BY <1>4 DEF CheckRow

LEMMA EvidenceStep == ASSUME EvidenceInv, [EvidenceNext]_evidenceVars PROVE EvidenceInv'
<1> USE DEF EvidenceInv
<1>1. /\ claims \in Seq(ClaimRow) /\ date \in Nat /\ todo \in Seq(Range(Subjects))
      /\ checks \in Seq(CheckRow) /\ pending \in Seq(VerifiedRow)
  BY DEF EvidenceTypes
<1>2. ASSUME UNCHANGED claims PROVE ClaimsGrow
  <2>1. Len(claims) \in Nat BY <1>1
  <2> QED BY <1>1, <1>2, <2>1 DEF ClaimsGrow
<1>3. CASE BeginResearch
  <2>1. /\ stage = "idle" /\ stage' = "research" /\ date \notin ran /\ ran' = ran \cup {date}
        /\ todo' = Subjects /\ UNCHANGED <<date, claims, checks, pending, verified, checked>>
    BY <1>3 DEF BeginResearch, research, facts
  <2>2. EvidenceTypes' BY <2>1, WindowAssumption DEF EvidenceTypes
  <2>3. ShiftsOnce' BY <2>1, <1>1 DEF ShiftsOnce
  <2> QED BY <1>2, <2>1, <2>2, <2>3, NothingRead
<1>4. ASSUME Researching, Turn, ClaimsGrow PROVE EvidenceInv'
  <2>1. stage = "research" /\ todo # <<>> /\ todo' = Tail(todo)
        /\ UNCHANGED <<date, stage, ran, checks, pending, verified, checked>>
    BY <1>4 DEF Researching, Turn, facts
  <2>2. todo' \in Seq(Range(Subjects)) BY <1>1, <2>1
  <2>3. EvidenceTypes' BY <1>4, <2>1, <2>2 DEF EvidenceTypes, ClaimsGrow
  <2>4. ShiftsOnce' BY <2>1 DEF ShiftsOnce
  <2> QED BY <1>4, <2>1, <2>3, <2>4, NothingRead
<1>5. ASSUME Researching PROVE Subject \in Range(Subjects)
  <2>1. todo # <<>> BY <1>5 DEF Researching
  <2>2. todo[1] \in Range(Subjects) /\ Head(todo) = todo[1] BY <1>1, <2>1
  <2> QED BY <2>2 DEF Subject
<1>6. CASE NoSources BY <1>2, <1>4, <1>6 DEF NoSources, research
<1>7. CASE NoReply BY <1>2, <1>4, <1>7 DEF NoReply
<1>8. ASSUME NEW draft \in Drafts, Accept(draft) PROVE EvidenceInv'
  <2>1. Researching /\ Turn /\ Keep(draft, draft) BY <1>8 DEF Accept
  <2> QED BY <1>1, <1>4, <1>5, <2>1, KeptClaims, KeepGrows
<1>9. ASSUME NEW draft \in Drafts, AcceptPart(draft) PROVE EvidenceInv'
  <2>1. Researching /\ Turn /\ Keep(Salvage(draft), draft) BY <1>9 DEF AcceptPart
  <2> QED BY <1>1, <1>4, <1>5, <2>1, KeptClaims, KeepGrows
<1>10. ASSUME NEW draft \in Drafts, RejectAll(draft) PROVE EvidenceInv'
  BY <1>2, <1>4, <1>10 DEF RejectAll
<1>11. ASSUME stage' = "idle", todo' = <<>>, checks' = <<>>, pending' = <<>>,
              UNCHANGED <<date, ran, claims, verified, checked>>
       PROVE EvidenceInv'
  <2>1. EvidenceTypes' BY <1>11 DEF EvidenceTypes
  <2>2. ShiftsOnce' BY <1>11 DEF ShiftsOnce
  <2> QED BY <1>2, <1>11, <2>1, <2>2, NothingRead
<1>12. ASSUME NEW draft \in Drafts, Misdated(draft) PROVE EvidenceInv'
  <2>1. stage = "research" /\ checks = <<>> /\ pending = <<>>
    BY <1>12 DEF Misdated, Researching, EvidenceTypes
  <2> QED BY <1>11, <1>12, <2>1 DEF Misdated, research, facts
<1>13. CASE LabelBatch
  <2>1. PICK supported \in [DOMAIN First -> BOOLEAN] :
          pending' = pending \o [n \in DOMAIN First |-> Judged(First[n], supported[n])]
    BY <1>13 DEF LabelBatch
  <2> DEFINE verdict == [n \in DOMAIN First |-> Judged(First[n], supported[n])]
  <2>2. \A n \in DOMAIN First : First[n].claim \in Nat BY FirstRows, <1>1
  <2>3. \A n \in DOMAIN First : /\ verdict[n] \in VerifiedRow
                                /\ verdict[n].claim = First[n].claim /\ verdict[n].day = date
    BY <1>1, <2>2 DEF Judged, Verdict, VerifiedRow
  <2>4. verdict \in [DOMAIN First -> VerifiedRow] BY <2>3
  <2> HIDE DEF verdict
  <2>5. stage = "check" /\ checks # <<>> /\ pending' = pending \o verdict /\ checks' = Rest
        /\ UNCHANGED <<date, stage, ran, todo, claims, verified, checked>>
    BY <1>13, <2>1 DEF LabelBatch, research, verdict
  <2> QED BY <2>3, <2>4, <2>5, BatchKeeps
<1>14. CASE BatchFails
  <2> DEFINE verdict == [n \in DOMAIN First |-> Verdict(First[n].claim, "rejected", FALSE)]
  <2>1. \A n \in DOMAIN First : First[n].claim \in Nat BY FirstRows, <1>1
  <2>2. \A n \in DOMAIN First : /\ verdict[n] \in VerifiedRow
                                /\ verdict[n].claim = First[n].claim /\ verdict[n].day = date
    BY <1>1, <2>1 DEF Verdict, VerifiedRow
  <2>3. verdict \in [DOMAIN First -> VerifiedRow] BY <2>2
  <2> HIDE DEF verdict
  <2>4. stage = "check" /\ checks # <<>> /\ pending' = pending \o verdict /\ checks' = Rest
        /\ UNCHANGED <<date, stage, ran, todo, claims, verified, checked>>
    BY <1>14 DEF BatchFails, research, verdict
  <2> QED BY <2>2, <2>3, <2>4, BatchKeeps
<1>15. CASE CutShort BY <1>11, <1>15 DEF CutShort, research
<1>16. CASE NextDate
  <2>1. stage = "idle" /\ date' = date + 1
        /\ UNCHANGED <<stage, ran, todo, claims, checks, pending, verified, checked>>
    BY <1>16 DEF NextDate, research, facts
  <2>2. EvidenceTypes' BY <1>1, <2>1 DEF EvidenceTypes
  <2>3. ShiftsOnce' BY <1>1, <2>1 DEF ShiftsOnce
  <2> QED BY <1>2, <2>1, <2>2, <2>3, NothingRead
<1>17. CASE UNCHANGED evidenceVars
  <2>1. UNCHANGED <<date, stage, ran, todo, claims, checks, pending, verified, checked>>
    BY <1>17 DEF evidenceVars
  <2>2. EvidenceTypes' BY <2>1 DEF EvidenceTypes
  <2>3. ShiftsOnce' BY <2>1 DEF ShiftsOnce
  <2>4. ReadOpen' BY <2>1 DEF ReadOpen, Read, Closed
  <2> QED BY <1>2, <2>1, <2>2, <2>3, <2>4, NothingVerified
<1> QED BY <1>3, <1>6, <1>7, <1>8, <1>9, <1>10, <1>12, <1>13, <1>14, <1>15, <1>16, <1>17,
           ReadClaimsKeeps, StoreKeeps DEF EvidenceNext

LEMMA EvidenceStart == EvidenceInit => EvidenceInv
<1> SUFFICES ASSUME EvidenceInit PROVE EvidenceInv OBVIOUS
<1>1. EvidenceTypes BY DEF EvidenceInit, EvidenceTypes
<1>2. ShiftsOnce BY DEF EvidenceInit, ShiftsOnce
<1>3. 1 .. Len(pending) + Len(checks) = {} /\ 1 .. Len(pending) = {} BY DEF EvidenceInit
<1>4. ReadOpen BY <1>3 DEF EvidenceInit, ReadOpen, Read
<1>5. DOMAIN verified = {} /\ 1 .. Len(verified) = {} BY DEF EvidenceInit
<1>6. VerifiedRows /\ ClosedOnce /\ RetriedInWindow
  BY <1>5 DEF VerifiedRows, ClosedOnce, RetriedInWindow
<1> QED BY <1>1, <1>2, <1>4, <1>6 DEF EvidenceInv

\* A claim has one verdict that counts (src/desk/desks/factcheck.py:295), however many
\* shifts are cut short.
THEOREM VerdictsOnce == EvidenceSpec => []ClosedOnce
<1>1. EvidenceInv => ClosedOnce BY DEF EvidenceInv
<1> QED BY <1>1, EvidenceStart, EvidenceStep, PTL DEF EvidenceSpec

\* A claim whose check failed is checked by the next run that has room
\* (src/desk/desks/factcheck.py:333).
THEOREM ChecksRetried == EvidenceSpec => []RetriedInWindow
<1>1. EvidenceInv => RetriedInWindow BY DEF EvidenceInv
<1> QED BY <1>1, EvidenceStart, EvidenceStep, PTL DEF EvidenceSpec

-----------------------------------------------------------------------------
(* The dossiers.                                                           *)

\* What DossierTraced says of a text over the claims it is kept with.
TextTraced(text, cited, draft) ==
    \A n \in DOMAIN text :
        /\ text[n].digits \subseteq DigitsOf(cited)
        /\ \E s \in Range(draft.text) :
              /\ s.digits = text[n].digits
              /\ \A r \in text[n].refs :
                    IF r \in DOMAIN cited THEN \E o \in s.refs : draft.claims[o] = cited[r]
                    ELSE r \in s.refs /\ r \notin DOMAIN draft.claims

\* The numbers in a dossier are those of claims, and claims keep theirs.
DossierClaims == \A d \in dossiers : \A n \in DOMAIN d.claims : d.claims[n] \in 1 .. Len(claims)

TracedInv == DossierClaims /\ DossierTraced

\* A text that passes is kept as it is.
LEMMA PassesTraced ==
    ASSUME NEW draft \in Drafts, Passes(draft) PROVE TextTraced(draft.text, draft.claims, draft)
<1> SUFFICES ASSUME NEW n \in DOMAIN draft.text
             PROVE /\ draft.text[n].digits \subseteq DigitsOf(draft.claims)
                   /\ \E s \in Range(draft.text) :
                         /\ s.digits = draft.text[n].digits
                         /\ \A r \in draft.text[n].refs :
                               IF r \in DOMAIN draft.claims
                               THEN \E o \in s.refs : draft.claims[o] = draft.claims[r]
                               ELSE r \in s.refs /\ r \notin DOMAIN draft.claims
  BY DEF TextTraced
<1>1. draft.text[n].digits \subseteq DigitsOf(draft.claims) BY DEF Passes
<1>2. draft.text[n] \in Range(draft.text) BY DEF Range
<1>3. \A r \in draft.text[n].refs :
         IF r \in DOMAIN draft.claims
         THEN \E o \in draft.text[n].refs : draft.claims[o] = draft.claims[r]
         ELSE r \in draft.text[n].refs /\ r \notin DOMAIN draft.claims
  OBVIOUS
<1> QED BY <1>1, <1>2, <1>3, Zenon

\* A sentence that is salvaged keeps its numbers, and its refs follow their claims.
LEMMA SalvageTraced ==
    ASSUME NEW draft \in Drafts
    PROVE TextTraced(Salvage(draft).text, Salvage(draft).claims, draft)
<1> DEFINE kept == Sound(draft)
           cited == [k \in DOMAIN kept |-> draft.claims[kept[k]]]
           stays(s) == /\ s.digits \subseteq DigitsOf(cited)
                       /\ (s.refs = {} \/ s.refs \cap Range(kept) # {})
           S == {n \in DOMAIN draft.text : stays(draft.text[n])}
           chosen == Ascending(S)
           followed(s) == {Place(kept, n) : n \in s.refs \cap Range(kept)}
           text == Salvage(draft).text
<1>1. Salvage(draft).claims = cited BY DEF Salvage
<1>2. text = [n \in DOMAIN chosen |->
                 [draft.text[chosen[n]] EXCEPT !.refs = {Place(kept, m) : m \in @ \cap Range(kept)}]]
  BY DEF Salvage
<1>3. draft.text \in Seq(Range(draft.text)) /\ \A s \in Range(draft.text) : s = [digits |-> s.digits, refs |-> s.refs]
  BY DraftAssumption
<1>4. S \subseteq Int /\ IsFiniteSet(S)
  <2>1. DOMAIN draft.text = 1 .. Len(draft.text) /\ Len(draft.text) \in Nat BY <1>3
  <2>2. S \subseteq 1 .. Len(draft.text) BY <2>1
  <2>3. IsFiniteSet(1 .. Len(draft.text)) BY <2>1, FS_Interval
  <2>4. 1 .. Len(draft.text) \subseteq Int BY <2>1
  <2> HIDE DEF S
  <2> QED BY <2>2, <2>3, <2>4, FS_Subset
<1>5. \A n \in DOMAIN chosen : chosen[n] \in S
  <2> HIDE DEF S
  <2>1. Ascending(S) \in Seq(S) /\ \A k \in 1 .. Len(Ascending(S)) : Ascending(S)[k] \in S
    BY <1>4, AscendingIs
  <2>2. DOMAIN Ascending(S) = 1 .. Len(Ascending(S)) BY <2>1
  <2> QED BY <2>1, <2>2
<1>6. ASSUME NEW m \in Range(kept) PROVE Place(kept, m) \in DOMAIN kept /\ kept[Place(kept, m)] = m
  <2> HIDE DEF kept
  <2>1. \E k \in DOMAIN kept : kept[k] = m BY DEF Range
  <2> QED BY <2>1, Zenon DEF Place
<1> SUFFICES ASSUME NEW n \in DOMAIN text
             PROVE /\ text[n].digits \subseteq DigitsOf(cited)
                   /\ \E s \in Range(draft.text) :
                         /\ s.digits = text[n].digits
                         /\ \A r \in text[n].refs :
                               IF r \in DOMAIN cited THEN \E o \in s.refs : draft.claims[o] = cited[r]
                               ELSE r \in s.refs /\ r \notin DOMAIN draft.claims
  <2> HIDE DEF text, cited
  <2> QED BY <1>1 DEF TextTraced, text
<1> DEFINE s == draft.text[chosen[n]]
<1>7. n \in DOMAIN chosen
  <2> HIDE DEF chosen
  <2> QED BY <1>2
<1>8. s \in Range(draft.text) /\ stays(s)
  <2>1. chosen[n] \in S BY <1>5, <1>7
  <2> HIDE DEF chosen
  <2> QED BY <2>1 DEF Range
<1>9. text[n] = [s EXCEPT !.refs = {Place(kept, m) : m \in @ \cap Range(kept)}]
  <2> HIDE DEF chosen, kept, text
  <2> QED BY <1>2, <1>7
<1>10. s = [digits |-> s.digits, refs |-> s.refs]
  <2> HIDE DEF s
  <2> QED BY <1>3, <1>8
<1>11. text[n].digits = s.digits /\ text[n].refs = followed(s)
  <2> HIDE DEF s, text, kept
  <2> QED BY <1>9, <1>10
<1>12. ASSUME NEW r \in text[n].refs
       PROVE r \in DOMAIN cited /\ \E o \in s.refs : draft.claims[o] = cited[r]
  <2> HIDE DEF s, text, kept
  <2>1. PICK m \in s.refs \cap Range(kept) : r = Place(kept, m) BY <1>11, <1>12
  <2>2. r \in DOMAIN kept /\ kept[r] = m BY <1>6, <2>1
  <2> QED BY <2>1, <2>2
<1>13. text[n].digits \subseteq DigitsOf(cited)
  <2> HIDE DEF s, text, cited
  <2> QED BY <1>8, <1>11
<1> HIDE DEF s, text, cited
<1> QED BY <1>8, <1>11, <1>12, <1>13

\* The dossiers there are keep their claims.
LEMMA DossiersKept ==
    ASSUME claims \in Seq(ClaimRow), TracedInv, ClaimsGrow, NEW d \in dossiers
    PROVE /\ \A n \in DOMAIN d.claims : d.claims[n] \in 1 .. Len(claims')
          /\ ReasonsOfPlay(d)
          /\ TextTraced(d.text, [n \in DOMAIN d.claims |-> claims'[d.claims[n]].draft], d.draft)
<1>1. \A n \in DOMAIN d.claims : d.claims[n] \in 1 .. Len(claims) BY DEF TracedInv, DossierClaims
<1>2. Len(claims) \in Nat /\ Len(claims') \in Nat /\ Len(claims) <= Len(claims')
  BY DEF ClaimsGrow
<1>3. \A n \in DOMAIN d.claims : claims'[d.claims[n]] = claims[d.claims[n]] BY <1>1 DEF ClaimsGrow
<1>4. [n \in DOMAIN d.claims |-> claims'[d.claims[n]].draft] =
         [n \in DOMAIN d.claims |-> claims[d.claims[n]].draft]
  BY <1>3
<1>5. /\ ReasonsOfPlay(d)
      /\ TextTraced(d.text, [n \in DOMAIN d.claims |-> claims[d.claims[n]].draft], d.draft)
  <2>1. DossierTraced BY DEF TracedInv
  <2> QED BY <2>1, Zenon DEF DossierTraced, TextTraced
<1> QED BY <1>1, <1>2, <1>4, <1>5

\* Every dossier that is added is traced.
LEMMA DossierAdded ==
    ASSUME claims \in Seq(ClaimRow), TracedInv, ClaimsGrow, NEW d, dossiers' = dossiers \cup {d},
           \A n \in DOMAIN d.claims : d.claims[n] \in 1 .. Len(claims'), ReasonsOfPlay(d),
           TextTraced(d.text, [n \in DOMAIN d.claims |-> claims'[d.claims[n]].draft], d.draft)
    PROVE TracedInv'
<1>1. ASSUME NEW x \in dossiers'
      PROVE /\ \A n \in DOMAIN x.claims : x.claims[n] \in 1 .. Len(claims')
            /\ ReasonsOfPlay(x)
            /\ TextTraced(x.text, [n \in DOMAIN x.claims |-> claims'[x.claims[n]].draft], x.draft)
  <2>1. CASE x \in dossiers BY <2>1, DossiersKept
  <2>2. CASE x = d BY <2>2
  <2> QED BY <2>1, <2>2
<1>2. DossierClaims' BY <1>1 DEF DossierClaims
<1>3. DossierTraced' BY <1>1, Zenon DEF DossierTraced, TextTraced, DigitsOf, ReasonsOfPlay
<1> QED BY <1>2, <1>3 DEF TracedInv

LEMMA NoDossier ==
    ASSUME claims \in Seq(ClaimRow), TracedInv, ClaimsGrow, dossiers' = dossiers
    PROVE TracedInv'
<1>1. ASSUME NEW x \in dossiers'
      PROVE /\ \A n \in DOMAIN x.claims : x.claims[n] \in 1 .. Len(claims')
            /\ ReasonsOfPlay(x)
            /\ TextTraced(x.text, [n \in DOMAIN x.claims |-> claims'[x.claims[n]].draft], x.draft)
  BY DossiersKept
<1>2. DossierClaims' BY <1>1 DEF DossierClaims
<1>3. DossierTraced' BY <1>1, Zenon DEF DossierTraced, TextTraced, DigitsOf, ReasonsOfPlay
<1> QED BY <1>2, <1>3 DEF TracedInv

\* The dossier of a draft that is kept.
LEMMA KeepTraced ==
    ASSUME claims \in Seq(ClaimRow), date \in Nat, Subject \in Range(Subjects), TracedInv,
           NEW kept, NEW draft, kept.claims \in Seq(UNION {Range(x.claims) : x \in Drafts}),
           Keep(kept, draft), TextTraced(kept.text, kept.claims, draft)
    PROVE TracedInv'
<1>1. /\ ClaimsGrow /\ Len(claims') = Len(claims) + Len(kept.claims) /\ Len(kept.claims) \in Nat
      /\ \A n \in 1 .. Len(kept.claims) : claims'[Len(claims) + n].draft = kept.claims[n]
  BY KeepGrows
<1>2. DOMAIN kept.claims = 1 .. Len(kept.claims) /\ Len(claims) \in Nat BY <1>1
<1> DEFINE numbers == [n \in 1 .. Len(kept.claims) |-> Len(claims) + n]
           d == Dossier(numbers, Why(Subject), kept.text, draft)
<1>3. dossiers' = dossiers \cup {d}
  <2> DEFINE new == [n \in DOMAIN kept.claims |->
                        [subject |-> Subject.symbol, day |-> date, draft |-> kept.claims[n]]]
  <2>1. dossiers' = dossiers \cup
                       {Dossier([n \in DOMAIN new |-> Len(claims) + n], Why(Subject), kept.text, draft)}
    BY DEF Keep
  <2>2. [n \in DOMAIN new |-> Len(claims) + n] = numbers BY <1>2
  <2> QED BY <2>1, <2>2
<1>4. d.claims = numbers /\ d.text = kept.text /\ d.draft = draft BY DEF Dossier
<1>5. \A n \in DOMAIN numbers : numbers[n] \in 1 .. Len(claims') BY <1>1, <1>2
<1>6. [n \in DOMAIN numbers |-> claims'[numbers[n]].draft] = kept.claims
  <2>1. \A n \in 1 .. Len(kept.claims) : claims'[numbers[n]].draft = kept.claims[n] BY <1>1
  <2>2. kept.claims = [n \in 1 .. Len(kept.claims) |-> kept.claims[n]] BY <1>2
  <2> QED BY <2>1, <2>2
<1>7. ReasonsOfPlay(d)
  <2>1. d.why = Why(Subject) /\ d.subject = Subject.symbol BY DEF Dossier
  <2> QED BY <2>1 DEF Why, ReasonsOfPlay
<1> HIDE DEF d, numbers
<1> QED BY <1>1, <1>3, <1>4, <1>5, <1>6, <1>7, DossierAdded

LEMMA TracedStep ==
    ASSUME EvidenceInv, TracedInv, [EvidenceNext]_evidenceVars PROVE TracedInv'
<1>1. claims \in Seq(ClaimRow) /\ date \in Nat /\ todo \in Seq(Range(Subjects))
  BY DEF EvidenceInv, EvidenceTypes
<1>2. ASSUME UNCHANGED claims PROVE ClaimsGrow
  <2>1. Len(claims) \in Nat BY <1>1
  <2> QED BY <1>1, <1>2, <2>1 DEF ClaimsGrow
<1>3. ASSUME UNCHANGED <<claims, dossiers>> PROVE TracedInv' BY <1>1, <1>2, <1>3, NoDossier
<1>4. ASSUME Researching PROVE Subject \in Range(Subjects)
  <2>1. todo # <<>> BY <1>4 DEF Researching
  <2>2. todo[1] \in Range(Subjects) /\ Head(todo) = todo[1] BY <1>1, <2>1
  <2> QED BY <2>2 DEF Subject
<1>5. ASSUME UNCHANGED claims, NEW draft, dossiers' = dossiers \cup {Failed(draft)}
      PROVE TracedInv'
  <2> DEFINE d == Failed(draft)
  <2>1. d.claims = <<>> /\ d.text = <<>> /\ d.why = <<>> BY DEF Failed, Dossier
  <2>2. DOMAIN d.claims = {} /\ DOMAIN d.text = {} BY <2>1
  <2> HIDE DEF d
  <2>3. TextTraced(d.text, [n \in DOMAIN d.claims |-> claims'[d.claims[n]].draft], d.draft)
    BY <2>2 DEF TextTraced
  <2>4. dossiers' = dossiers \cup {d} BY <1>5 DEF d
  <2>5. ReasonsOfPlay(d) BY <2>1 DEF ReasonsOfPlay
  <2> QED BY <1>1, <1>2, <1>5, <2>2, <2>3, <2>4, <2>5, DossierAdded
<1>6. CASE BeginResearch BY <1>3, <1>6 DEF BeginResearch, research
<1>7. CASE NoSources BY <1>3, <1>7 DEF NoSources, research
<1>8. CASE NoReply BY <1>5, <1>8 DEF NoReply
<1>9. ASSUME NEW draft \in Drafts, Accept(draft) PROVE TracedInv'
  <2>1. Researching /\ Passes(draft) /\ Keep(draft, draft) BY <1>9 DEF Accept
  <2> QED BY <1>1, <1>4, <2>1, KeptClaims, PassesTraced, KeepTraced
<1>10. ASSUME NEW draft \in Drafts, AcceptPart(draft) PROVE TracedInv'
  <2>1. Researching /\ Keep(Salvage(draft), draft) BY <1>10 DEF AcceptPart
  <2> QED BY <1>1, <1>4, <2>1, KeptClaims, SalvageTraced, KeepTraced
<1>11. ASSUME NEW draft \in Drafts, RejectAll(draft) PROVE TracedInv'
  BY <1>5, <1>11 DEF RejectAll
<1>12. ASSUME NEW draft \in Drafts, Misdated(draft) PROVE TracedInv'
  BY <1>3, <1>12 DEF Misdated, research
<1>13. CASE ReadClaims BY <1>3, <1>13 DEF ReadClaims, research
<1>14. CASE LabelBatch BY <1>3, <1>14 DEF LabelBatch, research
<1>15. CASE BatchFails BY <1>3, <1>15 DEF BatchFails, research
<1>16. CASE StoreVerdicts BY <1>3, <1>16 DEF StoreVerdicts, research
<1>17. CASE CutShort BY <1>3, <1>17 DEF CutShort, research
<1>18. CASE NextDate BY <1>3, <1>18 DEF NextDate, research
<1>19. CASE UNCHANGED evidenceVars BY <1>3, <1>19 DEF evidenceVars
<1> QED BY <1>6, <1>7, <1>8, <1>9, <1>10, <1>11, <1>12, <1>13, <1>14, <1>15, <1>16, <1>17,
           <1>18, <1>19 DEF EvidenceNext

\* What the model says in a dossier can be traced to the claims it was written with,
\* salvaged or not (src/desk/desks/research.py:226); what else is in it are the reasons
\* of a play (src/desk/desks/research.py:372).
THEOREM DossiersTraced == EvidenceSpec => []DossierTraced
<1>1. EvidenceInit => TracedInv BY DEF EvidenceInit, TracedInv, DossierClaims, DossierTraced
<1>2. TracedInv => DossierTraced BY DEF TracedInv
<1> QED BY <1>1, <1>2, EvidenceStart, EvidenceStep, TracedStep, PTL DEF EvidenceSpec
=============================================================================
