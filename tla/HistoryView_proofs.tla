-------------------------- MODULE HistoryView_proofs --------------------------
(***************************************************************************)
(* Proofs about HistoryView, for every database, every size of the page,   *)
(* every strip of filters, and any number of switches and failures.        *)
(***************************************************************************)
EXTENDS HistoryView, FiniteSetTheorems, SequenceTheorems, TLAPS

-----------------------------------------------------------------------------
(* Sorting.                                                                 *)

\* A strict order that compares any two elements, as a set of pairs.
Orders(Q, S) ==
    /\ \A x \in S : <<x, x>> \notin Q
    /\ \A x, y, z \in S : <<x, y>> \in Q /\ <<y, z>> \in Q => <<x, z>> \in Q
    /\ \A x, y \in S : x # y => <<x, y>> \in Q \/ <<y, x>> \in Q

Rank(x, S, Q) == Cardinality({y \in S : <<y, x>> \in Q})

\* Each place in a finite set so ordered is taken, by one element.
LEMMA RanksAreTaken ==
    ASSUME NEW S, IsFiniteSet(S), NEW Q, Orders(Q, S)
    PROVE  /\ Cardinality(S) \in Nat
           /\ \A x \in S : Rank(x, S, Q) \in 0 .. Cardinality(S) - 1
           /\ \A x, y \in S : <<x, y>> \in Q => Rank(x, S, Q) < Rank(y, S, Q)
           /\ \A x, y \in S : Rank(x, S, Q) = Rank(y, S, Q) => x = y
           /\ \A k \in 1 .. Cardinality(S) : \E x \in S : Rank(x, S, Q) = k - 1
<1> DEFINE n == Cardinality(S)
           before(x) == {y \in S : <<y, x>> \in Q}
           place == [x \in S |-> Rank(x, S, Q)]
<1>1. n \in Nat
  BY FS_CardinalityType
<1>2. \A x \in S : IsFiniteSet(before(x)) /\ Rank(x, S, Q) \in Nat
  <2> SUFFICES ASSUME NEW x \in S
               PROVE  IsFiniteSet(before(x)) /\ Rank(x, S, Q) \in Nat
    OBVIOUS
  <2>1. before(x) \in SUBSET S
    OBVIOUS
  <2>2. IsFiniteSet(before(x))
    BY <2>1, FS_Subset
  <2>3. QED
    BY <2>2, FS_CardinalityType DEF Rank
<1>3. \A x \in S : Rank(x, S, Q) < n
  <2> SUFFICES ASSUME NEW x \in S
               PROVE  Rank(x, S, Q) < n
    OBVIOUS
  <2>1. before(x) \in SUBSET S /\ x \notin before(x)
    BY DEF Orders
  <2>2. Cardinality(before(x)) <= n /\ (n = Cardinality(before(x)) => S = before(x))
    BY <2>1, FS_Subset
  <2>3. Cardinality(before(x)) \in Nat
    BY <1>2 DEF Rank
  <2>4. n # Cardinality(before(x))
    BY <2>1, <2>2
  <2>5. QED
    BY <1>1, <2>2, <2>3, <2>4 DEF Rank
<1>4. \A x, y \in S : <<x, y>> \in Q => Rank(x, S, Q) < Rank(y, S, Q)
  <2> SUFFICES ASSUME NEW x \in S, NEW y \in S, <<x, y>> \in Q
               PROVE  Rank(x, S, Q) < Rank(y, S, Q)
    OBVIOUS
  <2>1. before(x) \in SUBSET before(y) /\ x \in before(y) /\ x \notin before(x)
    BY DEF Orders
  <2>2. /\ Cardinality(before(x)) <= Cardinality(before(y))
        /\ Cardinality(before(y)) = Cardinality(before(x)) => before(y) = before(x)
    BY <1>2, <2>1, FS_Subset
  <2>3. Cardinality(before(x)) \in Nat /\ Cardinality(before(y)) \in Nat
    BY <1>2 DEF Rank
  <2>4. Cardinality(before(y)) # Cardinality(before(x))
    BY <2>1, <2>2
  <2>5. QED
    BY <2>2, <2>3, <2>4 DEF Rank
<1> HIDE DEF n, before
<1>5. \A x \in S : Rank(x, S, Q) \in 0 .. n - 1
  BY <1>1, <1>2, <1>3
<1>6. \A x, y \in S : Rank(x, S, Q) = Rank(y, S, Q) => x = y
  <2> SUFFICES ASSUME NEW x \in S, NEW y \in S, x # y
               PROVE  Rank(x, S, Q) # Rank(y, S, Q)
    OBVIOUS
  <2>1. <<x, y>> \in Q \/ <<y, x>> \in Q
    BY DEF Orders
  <2>2. Rank(x, S, Q) < Rank(y, S, Q) \/ Rank(y, S, Q) < Rank(x, S, Q)
    BY <1>4, <2>1
  <2>3. QED
    BY <1>2, <2>2
<1>7. place \in Injection(S, 0 .. n - 1)
  <2>1. place \in [S -> 0 .. n - 1]
    BY <1>5
  <2>2. \A x, y \in S : place[x] = place[y] => x = y
    BY <1>6
  <2> HIDE DEF place
  <2>3. QED
    BY <2>1, <2>2 DEF Injection, IsInjective
<1>8. IsFiniteSet(0 .. n - 1) /\ Cardinality(0 .. n - 1) = n
  <2>1. /\ IsFiniteSet(0 .. n - 1)
        /\ Cardinality(0 .. n - 1) = IF 0 > n - 1 THEN 0 ELSE n - 1 - 0 + 1
    BY <1>1, FS_Interval
  <2>2. QED
    BY <1>1, <2>1
<1>9. place \in Surjection(S, 0 .. n - 1)
  <2> HIDE DEF place
  <2>1. Cardinality(S) = Cardinality(0 .. n - 1)
    BY <1>8 DEF n
  <2>2. QED
    BY <1>7, <1>8, <2>1, FS_Injection
<1>10. ASSUME NEW k \in 1 .. n
       PROVE  \E x \in S : Rank(x, S, Q) = k - 1
  <2>1. k - 1 \in 0 .. n - 1
    BY <1>1
  <2>2. \E x \in S : place[x] = k - 1
    <3> HIDE DEF place
    <3> QED
      BY <1>9, <2>1 DEF Surjection
  <2>3. QED
    BY <2>2
<1>11. QED
  BY <1>1, <1>4, <1>5, <1>6, <1>10 DEF n

\* A sequence that has at each place the element of that rank.
Arranges(f, S, Q) ==
    /\ f \in [1 .. Cardinality(S) -> S]
    /\ \A k \in 1 .. Cardinality(S) : Rank(f[k], S, Q) = k - 1

\* Such a sequence has every element once.
LEMMA ArrangedOnce ==
    ASSUME NEW S, IsFiniteSet(S), NEW Q, Orders(Q, S), NEW f, Arranges(f, S, Q)
    PROVE  /\ f \in Seq(S) /\ Len(f) = Cardinality(S)
           /\ \A j, k \in 1 .. Len(f) : f[j] = f[k] => j = k
           /\ \A x \in S : \E k \in 1 .. Len(f) : f[k] = x
<1> DEFINE n == Cardinality(S)
<1>1. /\ n \in Nat
      /\ \A x \in S : Rank(x, S, Q) \in 0 .. n - 1
      /\ \A x, y \in S : Rank(x, S, Q) = Rank(y, S, Q) => x = y
  BY RanksAreTaken
<1>2. f \in [1 .. n -> S] /\ \A k \in 1 .. n : Rank(f[k], S, Q) = k - 1
  BY DEF Arranges
<1> HIDE DEF n
<1>3. f \in Seq(S) /\ Len(f) = n
  BY <1>1, <1>2
<1>4. \A j, k \in 1 .. n : f[j] = f[k] => j = k
  <2> SUFFICES ASSUME NEW j \in 1 .. n, NEW k \in 1 .. n, f[j] = f[k]
               PROVE  j = k
    OBVIOUS
  <2>1. j - 1 = k - 1
    BY <1>2
  <2>2. QED
    BY <1>1, <2>1
<1>5. ASSUME NEW x \in S
      PROVE  \E k \in 1 .. n : f[k] = x
  <2> DEFINE k == Rank(x, S, Q) + 1
  <2>1. k \in 1 .. n /\ Rank(x, S, Q) = k - 1
    BY <1>1
  <2> HIDE DEF k
  <2>2. f[k] \in S /\ Rank(f[k], S, Q) = Rank(x, S, Q)
    BY <1>2, <2>1
  <2>3. f[k] = x
    BY <1>1, <2>2
  <2>4. QED
    BY <2>1, <2>3
<1>6. QED
  BY <1>3, <1>4, <1>5 DEF n

-----------------------------------------------------------------------------
(* The list and its visible rows.                                           *)

OneRowEach(s) == \A c, d \in s : c.id = d.id => c = d

\* The list has every clip of the database, once.
LEMMA ListIsComplete ==
    ASSUME NEW s \in SUBSET Clip, IsFiniteSet(s), OneRowEach(s)
    PROVE  /\ ListForDisplay(s) \in Seq(s)
           /\ \A j, k \in DOMAIN ListForDisplay(s) :
                 ListForDisplay(s)[j] = ListForDisplay(s)[k] => j = k
           /\ \A c \in s : \E k \in DOMAIN ListForDisplay(s) :
                 ListForDisplay(s)[k] = c
<1> DEFINE Q == {p \in s \X s : Before(p[1], p[2])}
           f == ListForDisplay(s)
           n == Cardinality(s)
<1>1. \A x, y \in s : <<x, y>> \in Q <=> Before(x, y)
  OBVIOUS
<1>2. Orders(Q, s)
  <2> HIDE DEF Q
  <2>1. \A c \in s : c.id \in Nat /\ c.last \in Nat /\ c.pinned \in BOOLEAN
    BY DEF Clip
  <2>2. \A x \in s : <<x, x>> \notin Q
    BY <1>1, <2>1 DEF Before, Newer
  <2>3. \A x, y, z \in s : <<x, y>> \in Q /\ <<y, z>> \in Q => <<x, z>> \in Q
    <3> SUFFICES ASSUME NEW x \in s, NEW y \in s, NEW z \in s,
                        Before(x, y), Before(y, z)
                 PROVE  Before(x, z)
      BY <1>1
    <3> QED
      BY <2>1 DEF Before, Newer
  <2>4. \A x, y \in s : x # y => <<x, y>> \in Q \/ <<y, x>> \in Q
    <3> SUFFICES ASSUME NEW x \in s, NEW y \in s, x # y
                 PROVE  Before(x, y) \/ Before(y, x)
      BY <1>1
    <3>1. x.id # y.id
      BY DEF OneRowEach
    <3>2. QED
      BY <2>1, <3>1 DEF Before, Newer
  <2>5. QED
    BY <2>2, <2>3, <2>4 DEF Orders
<1>3. \A x \in s : {y \in s : Before(y, x)} = {y \in s : <<y, x>> \in Q}
  <2> HIDE DEF Q
  <2> QED
    BY <1>1
<1>4. \A x \in s : Cardinality({y \in s : Before(y, x)}) = Rank(x, s, Q)
  BY <1>3 DEF Rank
<1> HIDE DEF Q
<1>5. \A k \in 1 .. n : \E x \in s : Cardinality({y \in s : Before(y, x)}) = k - 1
  BY <1>2, <1>4, RanksAreTaken
<1>6. f = [k \in 1 .. n |->
             CHOOSE x \in s : Cardinality({y \in s : Before(y, x)}) = k - 1]
  BY DEF ListForDisplay, Sorted
<1> HIDE DEF f, n
<1>7. ASSUME NEW k \in 1 .. n
      PROVE  f[k] \in s /\ Rank(f[k], s, Q) = k - 1
  <2>1. f[k] = CHOOSE x \in s : Cardinality({y \in s : Before(y, x)}) = k - 1
    BY <1>6
  <2>2. f[k] \in s /\ Cardinality({y \in s : Before(y, f[k])}) = k - 1
    BY <1>5, <2>1
  <2>3. QED
    BY <1>4, <2>2
<1>8. f \in [1 .. n -> s]
  BY <1>6, <1>7
<1>9. Arranges(f, s, Q)
  BY <1>7, <1>8 DEF Arranges, n
<1>10. /\ f \in Seq(s)
       /\ \A j, k \in 1 .. Len(f) : f[j] = f[k] => j = k
       /\ \A x \in s : \E k \in 1 .. Len(f) : f[k] = x
  BY <1>2, <1>9, ArrangedOnce
<1>11. DOMAIN f = 1 .. Len(f)
  BY <1>10
<1>12. QED
  BY <1>10, <1>11 DEF f

Passes(c, tx, ty) == PassesType(c, ty) /\ (tx = "" \/ c.matches)

Distinct(rs) == \A i, j \in DOMAIN rs : rs[i].id = rs[j].id => i = j

\* The visible rows are the rows that pass the filters, once each.
LEMMA VisibleRowsPass ==
    ASSUME NEW rs \in Seq(Clip), NEW tx, NEW ty
    PROVE  /\ VisibleRows(rs, tx, ty) \in Seq(Clip)
           /\ \A k \in DOMAIN VisibleRows(rs, tx, ty) :
                 \E i \in DOMAIN rs : /\ VisibleRows(rs, tx, ty)[k] = rs[i]
                                      /\ Passes(rs[i], tx, ty)
           /\ \A i \in DOMAIN rs : Passes(rs[i], tx, ty) =>
                 \E k \in DOMAIN VisibleRows(rs, tx, ty) :
                    VisibleRows(rs, tx, ty)[k] = rs[i]
           /\ Distinct(rs) => Distinct(VisibleRows(rs, tx, ty))
<1> DEFINE S == {i \in DOMAIN rs : Passes(rs[i], tx, ty)}
           InFront(i, j) == IF rs[i].pinned = rs[j].pinned THEN i < j
                            ELSE rs[i].pinned
           Q == {p \in S \X S : InFront(p[1], p[2])}
           n == Cardinality(S)
           f == [k \in 1 .. n |->
                   CHOOSE x \in S : Cardinality({y \in S : InFront(y, x)}) = k - 1]
           vis == VisibleRows(rs, tx, ty)
<1>1. \A x, y \in S : <<x, y>> \in Q <=> InFront(x, y)
  OBVIOUS
<1>2. Len(rs) \in Nat /\ DOMAIN rs = 1 .. Len(rs)
  OBVIOUS
<1>3. IsFiniteSet(S)
  <2>1. IsFiniteSet(1 .. Len(rs))
    BY <1>2, FS_Interval
  <2>2. S \in SUBSET (1 .. Len(rs))
    BY <1>2
  <2> HIDE DEF S
  <2>3. QED
    BY <2>1, <2>2, FS_Subset
<1>4. Orders(Q, S)
  <2> HIDE DEF Q
  <2>1. \A i \in S : i \in Nat /\ rs[i].pinned \in BOOLEAN
    <3>1. \A c \in Clip : c.pinned \in BOOLEAN
      BY DEF Clip
    <3>2. \A i \in S : i \in 1 .. Len(rs) /\ rs[i] \in Clip
      BY <1>2
    <3> HIDE DEF S
    <3>3. QED
      BY <1>2, <3>1, <3>2
  <2> HIDE DEF S
  <2>2. \A x \in S : <<x, x>> \notin Q
    BY <1>1, <2>1
  <2>3. \A x, y, z \in S : <<x, y>> \in Q /\ <<y, z>> \in Q => <<x, z>> \in Q
    <3> SUFFICES ASSUME NEW x \in S, NEW y \in S, NEW z \in S,
                        InFront(x, y), InFront(y, z)
                 PROVE  InFront(x, z)
      BY <1>1
    <3> QED
      BY <2>1
  <2>4. \A x, y \in S : x # y => <<x, y>> \in Q \/ <<y, x>> \in Q
    <3> SUFFICES ASSUME NEW x \in S, NEW y \in S, x # y
                 PROVE  InFront(x, y) \/ InFront(y, x)
      BY <1>1
    <3> QED
      BY <2>1
  <2>5. QED
    BY <2>2, <2>3, <2>4 DEF Orders
<1>5. \A x \in S : {y \in S : InFront(y, x)} = {y \in S : <<y, x>> \in Q}
  <2> HIDE DEF Q
  <2> QED
    BY <1>1
<1>6. vis = [k \in DOMAIN f |-> rs[f[k]]]
  BY DEF VisibleRows, Sorted, Passes
<1> HIDE DEF Q, S, vis
<1>7. \A x \in S : Cardinality({y \in S : InFront(y, x)}) = Rank(x, S, Q)
  BY <1>5 DEF Rank
<1> HIDE DEF InFront
<1>8. \A k \in 1 .. n : \E x \in S : Cardinality({y \in S : InFront(y, x)}) = k - 1
  BY <1>3, <1>4, <1>7, RanksAreTaken
<1>9. ASSUME NEW k \in 1 .. n
      PROVE  f[k] \in S /\ Rank(f[k], S, Q) = k - 1
  <2>1. f[k] = CHOOSE x \in S : Cardinality({y \in S : InFront(y, x)}) = k - 1
    OBVIOUS
  <2>2. f[k] \in S /\ Cardinality({y \in S : InFront(y, f[k])}) = k - 1
    BY <1>8, <2>1
  <2>3. QED
    BY <1>7, <2>2
<1>10. f \in [1 .. n -> S]
  BY <1>9
<1> HIDE DEF f
<1>11. Arranges(f, S, Q)
  BY <1>9, <1>10 DEF Arranges
<1>12. /\ f \in Seq(S) /\ DOMAIN f = 1 .. Len(f) /\ Len(f) \in Nat
       /\ \A j, k \in 1 .. Len(f) : f[j] = f[k] => j = k
       /\ \A x \in S : \E k \in 1 .. Len(f) : f[k] = x
  <2>1. /\ f \in Seq(S)
        /\ \A j, k \in 1 .. Len(f) : f[j] = f[k] => j = k
        /\ \A x \in S : \E k \in 1 .. Len(f) : f[k] = x
    BY <1>3, <1>4, <1>11, ArrangedOnce
  <2>2. QED
    BY <2>1
<1>13. \A k \in DOMAIN f : f[k] \in DOMAIN rs /\ Passes(rs[f[k]], tx, ty)
  BY <1>12 DEF S
<1>14. DOMAIN vis = DOMAIN f /\ \A k \in DOMAIN f : vis[k] = rs[f[k]]
  BY <1>6
<1>15. vis \in Seq(Clip)
  <2>1. \A k \in DOMAIN f : rs[f[k]] \in Clip
    BY <1>13
  <2>2. vis = [k \in 1 .. Len(f) |-> rs[f[k]]]
    BY <1>6, <1>12
  <2>3. QED
    BY <1>12, <2>1, <2>2
<1>16. \A k \in DOMAIN vis : \E i \in DOMAIN rs : vis[k] = rs[i] /\ Passes(rs[i], tx, ty)
  BY <1>13, <1>14
<1>17. \A i \in DOMAIN rs : Passes(rs[i], tx, ty) => \E k \in DOMAIN vis : vis[k] = rs[i]
  <2> SUFFICES ASSUME NEW i \in DOMAIN rs, Passes(rs[i], tx, ty)
               PROVE  \E k \in DOMAIN vis : vis[k] = rs[i]
    OBVIOUS
  <2>1. i \in S
    BY DEF S
  <2>2. PICK k \in 1 .. Len(f) : f[k] = i
    BY <1>12, <2>1
  <2>3. QED
    BY <1>12, <1>14, <2>2
<1>18. Distinct(rs) => Distinct(vis)
  <2> SUFFICES ASSUME Distinct(rs), NEW j \in DOMAIN vis, NEW k \in DOMAIN vis,
                      vis[j].id = vis[k].id
               PROVE  j = k
    BY DEF Distinct
  <2>1. f[j] = f[k]
    BY <1>13, <1>14 DEF Distinct
  <2>2. QED
    BY <1>12, <1>14, <2>1
<1>19. QED
  BY <1>15, <1>16, <1>17, <1>18 DEF vis

-----------------------------------------------------------------------------
(* Where the view goes.                                                     *)

Views == [sel : Nat, top : Nat]

LEMMA TopIsAView == Top \in Views
BY DEF Top, Views

LEMMA ScrollIsNatural ==
    ASSUME NEW pos \in Nat, NEW top \in Nat, NEW pg \in Nat
    PROVE  ScrollTo(pos, top, pg) \in Nat
BY DEF ScrollTo

LEMMA RemovalLeavesAView ==
    ASSUME NEW sel \in Nat, NEW top \in Nat, NEW n \in Nat, NEW pg \in Nat
    PROVE  ViewAfterRemoval(sel, top, n, pg) \in Views
<1>1. CASE n = 0
  BY <1>1 DEF ViewAfterRemoval, Top, Views
<1>2. CASE n # 0
  <2> DEFINE s == Least(sel, n - 1)
             t == Least(top, Most(n - pg, 0))
  <2>1. s \in Nat /\ t \in Nat
    BY <1>2 DEF Least, Most
  <2>2. ViewAfterRemoval(sel, top, n, pg) = [sel |-> s, top |-> ScrollTo(s, t, pg)]
    BY <1>2 DEF ViewAfterRemoval
  <2> HIDE DEF s, t
  <2>3. ScrollTo(s, t, pg) \in Nat
    BY <2>1, ScrollIsNatural
  <2>4. QED
    BY <2>1, <2>2, <2>3 DEF Views
<1>3. QED
  BY <1>1, <1>2

\* Where a clip is among the visible rows.
LEMMA PositionIsThere ==
    ASSUME NEW vis \in Seq(Clip), NEW id
    PROVE  LET pos == PositionOf(id, vis)
           IN  /\ pos \in Nat \cup {NoRow}
               /\ pos # NoRow => pos < Len(vis) /\ vis[pos + 1].id = id
               /\ pos = NoRow => \A i \in DOMAIN vis : vis[i].id # id
<1>1. Len(vis) \in Nat /\ DOMAIN vis = 1 .. Len(vis)
  OBVIOUS
<1>2. CASE \E i \in DOMAIN vis : vis[i].id = id
  <2> DEFINE i == CHOOSE i \in DOMAIN vis : vis[i].id = id
  <2>1. i \in DOMAIN vis /\ vis[i].id = id
    BY <1>2
  <2>2. PositionOf(id, vis) = i - 1
    BY <1>2 DEF PositionOf
  <2> HIDE DEF i
  <2>3. i \in Nat /\ i >= 1 /\ i <= Len(vis)
    BY <1>1, <2>1
  <2>4. (i - 1) + 1 = i /\ i - 1 \in Nat
    BY <2>3
  <2>5. QED
    BY <1>1, <2>1, <2>2, <2>3, <2>4 DEF NoRow
<1>3. CASE ~ \E i \in DOMAIN vis : vis[i].id = id
  BY <1>3 DEF PositionOf, NoRow
<1>4. QED
  BY <1>2, <1>3

LEMMA NewestIsThere ==
    ASSUME NEW vis \in Seq(Clip), Distinct(vis), vis # <<>>
    PROVE  \E i \in DOMAIN vis :
              \A j \in DOMAIN vis \ {i} : Newer(vis[i], vis[j])
<1> DEFINE S == DOMAIN vis
           Q == {p \in S \X S : Newer(vis[p[1]], vis[p[2]])}
<1>1. \A x, y \in S : <<x, y>> \in Q <=> Newer(vis[x], vis[y])
  OBVIOUS
<1>2. Len(vis) \in Nat /\ S = 1 .. Len(vis) /\ Len(vis) # 0
  OBVIOUS
<1>3. IsFiniteSet(S) /\ Cardinality(S) = Len(vis)
  <2>1. IsFiniteSet(1 .. Len(vis)) /\ Cardinality(1 .. Len(vis)) =
          IF 1 > Len(vis) THEN 0 ELSE Len(vis) - 1 + 1
    BY <1>2, FS_Interval
  <2>2. QED
    BY <1>2, <2>1
<1>4. \A i \in S : vis[i].id \in Nat /\ vis[i].last \in Nat
  <2>1. \A c \in Clip : c.id \in Nat /\ c.last \in Nat
    BY DEF Clip
  <2>2. \A i \in S : vis[i] \in Clip
    OBVIOUS
  <2>3. QED
    BY <2>1, <2>2
<1>5. \A i, j \in S : i # j => vis[i].id # vis[j].id
  BY DEF Distinct
<1> HIDE DEF Q, S
<1>6. Orders(Q, S)
  <2>1. \A x \in S : <<x, x>> \notin Q
    BY <1>1, <1>4 DEF Newer
  <2>2. \A x, y, z \in S : <<x, y>> \in Q /\ <<y, z>> \in Q => <<x, z>> \in Q
    <3> SUFFICES ASSUME NEW x \in S, NEW y \in S, NEW z \in S,
                        Newer(vis[x], vis[y]), Newer(vis[y], vis[z])
                 PROVE  Newer(vis[x], vis[z])
      BY <1>1
    <3>1. /\ vis[x].id \in Nat /\ vis[y].id \in Nat /\ vis[z].id \in Nat
          /\ vis[x].last \in Nat /\ vis[y].last \in Nat /\ vis[z].last \in Nat
      BY <1>4
    <3>2. QED
      BY <3>1 DEF Newer
  <2>3. \A x, y \in S : x # y => <<x, y>> \in Q \/ <<y, x>> \in Q
    BY <1>1, <1>4, <1>5 DEF Newer
  <2>4. QED
    BY <2>1, <2>2, <2>3 DEF Orders
<1>7. PICK i \in S : Rank(i, S, Q) = 0
  <2>1. 1 \in 1 .. Cardinality(S)
    BY <1>2, <1>3
  <2>2. \E i \in S : Rank(i, S, Q) = 1 - 1
    BY <1>3, <1>6, <2>1, RanksAreTaken
  <2>3. QED
    BY <2>2
<1>8. ASSUME NEW j \in S \ {i}
      PROVE  Newer(vis[i], vis[j])
  <2>1. Rank(j, S, Q) \in 0 .. Cardinality(S) - 1
    BY <1>3, <1>6, RanksAreTaken
  <2>2. ~ (Rank(j, S, Q) < Rank(i, S, Q))
    BY <1>7, <2>1
  <2>3. <<j, i>> \notin Q
    BY <1>3, <1>6, <2>2, RanksAreTaken
  <2>4. QED
    BY <1>1, <1>6, <2>3 DEF Orders
<1>9. QED
  BY <1>8 DEF S

LEMMA DefaultIsAView ==
    ASSUME NEW vis \in Seq(Clip), Distinct(vis), NEW pg \in Nat
    PROVE  DefaultView(vis, pg) \in Views
<1>1. CASE vis = <<>>
  BY <1>1 DEF DefaultView, Top, Views
<1>2. CASE vis # <<>>
  <2> DEFINE i == CHOOSE i \in DOMAIN vis :
                    \A j \in DOMAIN vis \ {i} : Newer(vis[i], vis[j])
  <2>1. i \in DOMAIN vis
    BY <1>2, NewestIsThere
  <2>2. DefaultView(vis, pg) = ViewAfterRemoval(i - 1, 0, Len(vis), pg)
    BY <1>2 DEF DefaultView
  <2> HIDE DEF i
  <2>3. i - 1 \in Nat /\ 0 \in Nat /\ Len(vis) \in Nat
    BY <2>1
  <2>4. QED
    BY <2>2, <2>3, RemovalLeavesAView
<1>3. QED
  BY <1>1, <1>2

LEMMA DeletionLeavesAView ==
    ASSUME NEW kept, NEW was \in Views, NEW vis \in Seq(Clip), NEW pg \in Nat
    PROVE  ViewAfterDelete(kept, was, vis, pg) \in Views
<1> DEFINE s == IF PositionOf(kept, vis) = NoRow THEN was.sel ELSE PositionOf(kept, vis)
<1>1. s \in Nat /\ was.top \in Nat /\ Len(vis) \in Nat
  BY PositionIsThere DEF Views
<1>2. ViewAfterDelete(kept, was, vis, pg) = ViewAfterRemoval(s, was.top, Len(vis), pg)
  BY DEF ViewAfterDelete
<1> HIDE DEF s
<1>3. QED
  BY <1>1, <1>2, RemovalLeavesAView

-----------------------------------------------------------------------------
(* The inductive invariant.                                                 *)

Agree(c, d) == c.id = d.id => c.type = d.type /\ c.matches = d.matches

NewestId == Cardinality(FirstClips) + turns

\* The identifiers of the database are unique, and a copy takes a new one.
StoreInv ==
    /\ turns \in 0 .. MaxTurns
    /\ store \in SUBSET Clip /\ IsFiniteSet(store) /\ OneRowEach(store)
    /\ \A c \in store : c.id <= NewestId

\* So are those of the rows, which show what a clip cannot change.
RowsInv ==
    /\ rows \in Seq(Clip) /\ Distinct(rows)
    /\ \A i \in DOMAIN rows : rows[i].id <= NewestId
    /\ \A i \in DOMAIN rows : \A c \in store : Agree(rows[i], c)

\* The window knows of a switch from its start to its end.
SwitchInv == (toggle = "none") <=> (switch = "none")

\* A double click is possible only over what the first click has met; the list
\* has not moved since, unless the first click was on a button.
ClickInv ==
    /\ ~open => clicked = NoClick /\ dialog # "menu"
    /\ dialog \in {"menu", "delete_all", "delete_some", "recreate"} =>
          clicked = NoClick
    /\ clicked.aim # 0 =>
          /\ toggle = "none"
          /\ ~guard =>
                /\ error = "none"
                /\ view.top + clicked.at.slot < Len(Shown)
                /\ Shown[view.top + clicked.at.slot + 1].id = clicked.aim

\* The row of the menu is a row, and still that of the clip pointed at.
MenuInv ==
    /\ dialog = "menu" => toggle = "none"
    /\ dialog = "menu" /\ menu.row # 0 =>
          /\ menu.row \in DOMAIN rows
          /\ menu.aim # 0 => rows[menu.row].id = menu.aim

\* A dialog and a click put the preview away.
QuietInv ==
    dialog # "none" \/ clicked.at # Outside => hover = NoHover /\ popup = 0

\* The types of the variables, in parts.
SwitchTyped ==
    /\ protected \in BOOLEAN /\ reader \in BOOLEAN /\ wiped \in BOOLEAN
    /\ switch \in {"none", "queued", "ended", "failed"}
    /\ error \in {"none", "io", "corrupted"}
    /\ toggle \in {"none", "on", "off"}
    /\ switches \in 0 .. MaxSwitches

WindowTyped ==
    /\ open \in BOOLEAN /\ page \in Pages
    /\ text \in {"", "typed"} /\ type \in {Segments[i] : i \in DOMAIN Segments}
    /\ strip \in BOOLEAN /\ view \in Views
    /\ dialog \in {"none", "menu", "message", "delete_all", "delete_some",
                   "recreate"}

MouseTyped ==
    /\ mouse \in Points \cup {Outside} /\ tracking \in BOOLEAN
    /\ hover \in [row : Nat \cup {NoRow}, armed : BOOLEAN, fired : BOOLEAN,
                  shown : BOOLEAN]
    /\ popup \in Nat

ClickTyped ==
    /\ guard \in BOOLEAN
    /\ clicked \in [at : Points \cup {Outside}, aim : Nat]
    /\ menu \in [row : Nat, pin : BOOLEAN, aim : Nat]
    /\ acted \in [on : Nat, aim : Nat]

ScreenTyped ==
    /\ screen \in [shows : {"nothing", "switching", "recreate", "error", "list"},
                   page : Seq(Clip), sel : Nat, hot : Hits]
    /\ dirty \in BOOLEAN

LEMMA TypesTogether ==
    StoreInv /\ RowsInv /\ SwitchTyped /\ WindowTyped /\ MouseTyped
    /\ ClickTyped /\ ScreenTyped => TypeOK
BY DEF StoreInv, RowsInv, SwitchTyped, WindowTyped, MouseTyped, ClickTyped,
       ScreenTyped, TypeOK, Views

-----------------------------------------------------------------------------
(* What is shown, selected and pointed at.                                  *)

ShownIsRight ==
    /\ Shown \in Seq(Clip) /\ Len(Shown) \in Nat
    /\ DOMAIN Shown = 1 .. Len(Shown) /\ Distinct(Shown)
    /\ \A k \in DOMAIN Shown : \E i \in DOMAIN rows : Shown[k] = rows[i]

LEMMA RowsAreShown == RowsInv => ShownIsRight
<1> SUFFICES ASSUME RowsInv PROVE ShownIsRight
  OBVIOUS
<1>1. rows \in Seq(Clip) /\ Distinct(rows)
  BY DEF RowsInv
<1>2. /\ Shown \in Seq(Clip)
      /\ \A k \in DOMAIN Shown : \E i \in DOMAIN rows : Shown[k] = rows[i]
      /\ Distinct(Shown)
  BY <1>1, VisibleRowsPass DEF Shown
<1>3. Len(Shown) \in Nat /\ DOMAIN Shown = 1 .. Len(Shown)
  BY <1>2
<1>4. QED
  BY <1>2, <1>3 DEF ShownIsRight

LEMMA ClipTyped == \A c \in Clip : c.id \in Nat /\ c.id # 0 /\ c.pinned \in BOOLEAN
BY DEF Clip

\* A visible row is a row.
LEMMA RowIsThere ==
    ASSUME RowsInv, NEW pos \in Nat, pos < Len(Shown)
    PROVE  /\ Shown[pos + 1] \in Clip
           /\ RowAt(pos) \in DOMAIN rows
           /\ rows[RowAt(pos)] \in Clip
           /\ rows[RowAt(pos)].id = Shown[pos + 1].id
<1>1. ShownIsRight
  BY RowsAreShown
<1>2. pos + 1 \in DOMAIN Shown
  BY <1>1 DEF ShownIsRight
<1>3. Shown[pos + 1] \in Clip /\ \E i \in DOMAIN rows : Shown[pos + 1] = rows[i]
  BY <1>1, <1>2 DEF ShownIsRight
<1>4. \E i \in DOMAIN rows : rows[i].id = Shown[pos + 1].id
  BY <1>3
<1>5. RowAt(pos) \in DOMAIN rows /\ rows[RowAt(pos)].id = Shown[pos + 1].id
  BY <1>4 DEF RowAt
<1>6. rows[RowAt(pos)] \in Clip
  BY <1>5 DEF RowsInv
<1>7. QED
  BY <1>3, <1>5, <1>6

\* A drawn row is a visible row on the page.
LEMMA DrawnIsThere ==
    ASSUME RowsInv, WindowTyped, NEW p \in Points \cup {Outside}
    PROVE  /\ DrawnRowAt(p) # NoRow =>
                 /\ DrawnRowAt(p) = view.top + p.slot
                 /\ DrawnRowAt(p) \in Nat /\ DrawnRowAt(p) < Len(Shown)
                 /\ p.slot \in Nat /\ p.slot < page /\ p.zone \in Zones
           /\ RowHit(p) # NoRow =>
                 /\ error = "none" /\ toggle = "none"
                 /\ RowHit(p) = DrawnRowAt(p)
           /\ NoRow \notin Nat /\ page \in Nat /\ view.top \in Nat
<1>1. page \in Nat \ {0} /\ view.top \in Nat
  BY ViewAssumption DEF WindowTyped, Views
<1>2. NoRow \notin Nat
  BY DEF NoRow
<1>3. CASE p.slot \in 0 .. page - 1 /\ view.top + p.slot < Len(Shown)
  <2>1. DrawnRowAt(p) = view.top + p.slot
    BY <1>3 DEF DrawnRowAt
  <2>2. p.slot \in Nat /\ p.slot < page /\ view.top + p.slot \in Nat
    BY <1>1, <1>3
  <2>3. p.zone \in Zones
    <3>1. p # Outside /\ p # OnStrip
      BY <1>2, <2>2 DEF Outside, OnStrip
    <3>2. QED
      BY <3>1 DEF Points
  <2>4. RowHit(p) # NoRow => /\ error = "none" /\ toggle = "none"
                             /\ RowHit(p) = DrawnRowAt(p)
    BY DEF RowHit
  <2>5. QED
    BY <1>1, <1>2, <1>3, <2>1, <2>2, <2>3, <2>4
<1>4. CASE ~ (p.slot \in 0 .. page - 1 /\ view.top + p.slot < Len(Shown))
  BY <1>1, <1>2, <1>4 DEF DrawnRowAt, RowHit
<1>5. QED
  BY <1>3, <1>4

\* The selected clip is that of a row.
LEMMA SelectedIsThere ==
    ASSUME RowsInv, WindowTyped
    PROVE  /\ SelectedClip \in Nat
           /\ SelectedClip # 0 =>
                /\ view.sel + 1 \in DOMAIN Shown
                /\ Shown[view.sel + 1].id = SelectedClip
                /\ \E i \in DOMAIN rows : rows[i].id = SelectedClip
<1>1. view.sel \in Nat
  BY DEF WindowTyped, Views
<1>2. ShownIsRight
  BY RowsAreShown
<1>3. CASE view.sel < Len(Shown)
  <2>1. view.sel + 1 \in DOMAIN Shown
    BY <1>1, <1>2, <1>3 DEF ShownIsRight
  <2>2. SelectedClip = Shown[view.sel + 1].id
    BY <1>3 DEF SelectedClip
  <2>3. Shown[view.sel + 1] \in Clip
    BY <1>2, <2>1 DEF ShownIsRight
  <2>4. \E i \in DOMAIN rows : Shown[view.sel + 1] = rows[i]
    BY <1>2, <2>1 DEF ShownIsRight
  <2>5. QED
    BY <2>1, <2>2, <2>3, <2>4, ClipTyped
<1>4. CASE ~ (view.sel < Len(Shown))
  BY <1>4 DEF SelectedClip
<1>5. QED
  BY <1>3, <1>4

-----------------------------------------------------------------------------
(* How a step changes the database, the rows and the bound.                 *)

PinnedAs(hit, pin) == (store \ hit) \cup {[d EXCEPT !.pinned = pin] : d \in hit}

StoreMoves ==
    \/ store' \in SUBSET store
    \/ \E hit \in SUBSET store, pin \in BOOLEAN : store' = PinnedAs(hit, pin)
    \/ Copied

RowsMove ==
    \/ rows' = rows
    \/ rows' = <<>>
    \/ rows' = ListForDisplay(store')
    \/ \E row \in DOMAIN rows, pin \in BOOLEAN :
          rows' = [rows EXCEPT ![row].pinned = pin]

DataMoves == (turns' = turns \/ Turn) /\ StoreMoves /\ RowsMove

LEMMA DataStays == turns' = turns /\ store' = store /\ rows' = rows => DataMoves
BY DEF DataMoves, StoreMoves, RowsMove

LEMMA ReadMoves ==
    ASSUME NEW has, NEW fine, Read(has, fine)
    PROVE  (turns' = turns \/ Turn) /\ RowsMove
BY DEF Read, ReadWell, ReadBadly, Fault, RowsMove

LEMMA ReopeningMoves ==
    ASSUME NEW fine, ReopenAndRefresh(fine)
    PROVE  (turns' = turns \/ Turn) /\ RowsMove
<1>1. CASE Read(TRUE, fine)
  BY <1>1, ReadMoves
<1>2. CASE Fault /\ rows' = rows
  BY <1>2 DEF Fault, RowsMove
<1>3. QED
  BY <1>1, <1>2 DEF ReopenAndRefresh

LEMMA PinMoves ==
    ASSUME NEW row \in DOMAIN rows, NEW pin \in BOOLEAN, NEW follow,
           TogglePin(row, pin, follow)
    PROVE  DataMoves
<1> DEFINE hit == ById(rows[row].id)
<1>1. hit \in SUBSET store
  BY DEF ById
<1>2. CASE store' = store /\ Read(reader, "none")
  BY <1>2, ReadMoves DEF DataMoves, StoreMoves
<1>3. CASE store' = store /\ rows' = rows /\ turns' = turns
  BY <1>3, DataStays
<1>4. CASE store' = store /\ rows' = rows /\ Fault
  BY <1>4 DEF DataMoves, StoreMoves, RowsMove, Fault
<1>5. CASE /\ store' = (store \ hit) \cup {[d EXCEPT !.pinned = pin] : d \in hit}
           /\ rows' = [rows EXCEPT ![row].pinned = pin] /\ turns' = turns
  <2>1. store' = PinnedAs(hit, pin)
    BY <1>5 DEF PinnedAs
  <2> HIDE DEF hit
  <2>2. StoreMoves
    BY <1>1, <2>1 DEF StoreMoves
  <2>3. RowsMove
    BY <1>5 DEF RowsMove
  <2>4. QED
    BY <1>5, <2>2, <2>3 DEF DataMoves
<1>6. QED
  BY <1>2, <1>3, <1>4, <1>5 DEF TogglePin

LEMMA DeletionMoves ==
    ASSUME NEW row, DeleteOne(row)
    PROVE  DataMoves
<1>1. store' \in SUBSET store
  BY DEF DeleteOne
<1>2. CASE Read(reader, "none")
  BY <1>1, <1>2, ReadMoves DEF DataMoves, StoreMoves
<1>3. CASE Fault /\ (ReadWell(reader, "none") \/ ReadBadly)
  BY <1>1, <1>3 DEF DataMoves, StoreMoves, RowsMove, Fault, ReadWell, ReadBadly
<1>4. QED
  BY <1>2, <1>3 DEF DeleteOne

LEMMA PastingMoves ==
    ASSUME NEW id, Confirm(id)
    PROVE  turns' = turns \/ Turn
BY DEF Confirm, Fault

LEMMA EveryStepMovesData ==
    ASSUME RowsInv, SwitchTyped, WindowTyped, MouseTyped, ClickTyped, MenuInv, Next
    PROVE  DataMoves
<1>1. CASE Copied
  BY <1>1 DEF Copied, Background, list, DataMoves, StoreMoves, RowsMove
<1>2. CASE WorkerSwitches
  BY <1>2 DEF WorkerSwitches, Background, list, Fault, DataMoves, StoreMoves, RowsMove
<1>3. CASE \E c \in store : Purged(c)
  BY <1>3 DEF Purged, Background, list, DataMoves, StoreMoves, RowsMove
<1>4. CASE \E t \in {"", "typed"} : TypeText(t)
  BY <1>4, DataStays DEF TypeText, Unmoved, data, list, counters
<1>5. CASE PressEsc
  BY <1>5, DataStays DEF PressEsc, data, list, counters
<1>6. CASE PressTab
  BY <1>6, DataStays DEF PressTab, Unmoved, data, list, counters
<1>7. CASE PressEnter
  <2>1. store' = store /\ rows' = rows /\ (turns' = turns \/ Turn)
    BY <1>7, PastingMoves DEF PressEnter, data, list
  <2>2. QED
    BY <2>1 DEF DataMoves, StoreMoves, RowsMove
<1>8. CASE PressCtrlP
  <2> DEFINE row == CHOOSE i \in DOMAIN rows : rows[i].id = SelectedClip
  <2>1. \E i \in DOMAIN rows : rows[i].id = SelectedClip
    BY <1>8, SelectedIsThere DEF PressCtrlP
  <2>2. row \in DOMAIN rows
    BY <2>1
  <2>3. TogglePin(row, ~rows[row].pinned, SelectedClip)
    BY <1>8 DEF PressCtrlP
  <2> HIDE DEF row
  <2>4. (~rows[row].pinned) \in BOOLEAN
    OBVIOUS
  <2>5. QED
    BY <2>2, <2>3, <2>4, PinMoves
<1>9. CASE \E forward \in BOOLEAN : PressArrow(forward)
  BY <1>9, DataStays DEF PressArrow, Unmoved, data, list, counters
<1>10. CASE \E key \in NavKeys : Navigate(key)
  BY <1>10, DataStays DEF Navigate, Unmoved, data, list, counters
<1>11. CASE \E p \in Points : MouseMoves(p)
  BY <1>11, DataStays DEF MouseMoves, data, list, counters
<1>12. CASE \E lines \in {WheelLines, -WheelLines} : Wheel(lines)
  BY <1>12, DataStays DEF Wheel, Unmoved, data, list, counters
<1>13. CASE MouseHovers
  BY <1>13, DataStays DEF MouseHovers, data, list, counters
<1>14. CASE MouseLeaves
  BY <1>14, DataStays DEF MouseLeaves, data, list, counters
<1>15. CASE Click
  <2> DEFINE pos == RowHit(mouse)
  <2>1. CASE pos # NoRow /\ DeleteOne(RowAt(pos))
    BY <2>1, DeletionMoves
  <2>2. CASE pos # NoRow /\ PinIcon(RowAt(pos))
    <3>1. pos \in Nat /\ pos < Len(Shown)
      BY <2>2, DrawnIsThere DEF MouseTyped
    <3> HIDE DEF pos
    <3>2. RowAt(pos) \in DOMAIN rows
      BY <3>1, RowIsThere
    <3>3. (~rows[RowAt(pos)].pinned) \in BOOLEAN
      OBVIOUS
    <3>4. QED
      BY <2>2, <3>2, <3>3, PinMoves DEF PinIcon
  <2>3. CASE turns' = turns /\ store' = store /\ rows' = rows
    BY <2>3, DataStays
  <2>4. QED
    BY <1>15, <2>1, <2>2, <2>3 DEF Click
<1>16. CASE ClickBanner
  BY <1>16, DataStays DEF ClickBanner, data, list, counters
<1>17. CASE DoubleClick
  <2> DEFINE pos == RowHit(mouse)
             row == RowAt(IF pos = NoRow THEN DrawnRowAt(mouse) ELSE pos)
             id == rows[row].id
  <2>1. CASE pos # NoRow /\ DeleteOne(row)
    BY <2>1, DeletionMoves
  <2>2. CASE pos # NoRow /\ PinIcon(row)
    <3>1. pos \in Nat /\ pos < Len(Shown)
      BY <2>2, DrawnIsThere DEF MouseTyped
    <3>2. row = RowAt(pos)
      BY <2>2
    <3> HIDE DEF pos, row
    <3>3. row \in DOMAIN rows
      BY <3>1, <3>2, RowIsThere
    <3>4. (~rows[row].pinned) \in BOOLEAN
      OBVIOUS
    <3>5. QED
      BY <2>2, <3>3, <3>4, PinMoves DEF PinIcon
  <2>3. CASE store' = store /\ rows' = rows /\ (turns' = turns \/ Turn)
    BY <2>3 DEF DataMoves, StoreMoves, RowsMove
  <2>4. Confirm(id) => turns' = turns \/ Turn
    BY PastingMoves
  <2>5. QED
    BY <1>17, <2>1, <2>2, <2>3, <2>4 DEF DoubleClick
<1>18. CASE RightClick
  BY <1>18, DataStays DEF RightClick, data, list, counters
<1>19. CASE MenuChosen
  <2>1. dialog = "menu"
    BY <1>19 DEF MenuChosen
  <2>2. CASE menu.row # 0 /\ TogglePin(menu.row, menu.pin, rows[menu.row].id)
    <3>1. menu.row \in DOMAIN rows /\ menu.pin \in BOOLEAN
      BY <2>1, <2>2 DEF MenuInv, ClickTyped
    <3>2. QED
      BY <2>2, <3>1, PinMoves
  <2>3. CASE DeleteOne(menu.row)
    BY <2>3, DeletionMoves
  <2>4. CASE store' = store /\ rows' = rows /\ (turns' = turns \/ Turn)
    BY <2>4 DEF DataMoves, StoreMoves, RowsMove
  <2>5. QED
    BY <1>19, <2>2, <2>3, <2>4 DEF MenuChosen, Fault
<1>20. CASE DialogClosed
  BY <1>20, DataStays DEF DialogClosed, data, list, counters
<1>21. CASE \E b \in BOOLEAN : DeleteAllAnswered(b)
  <2>1. PICK b \in BOOLEAN : DeleteAllAnswered(b)
    BY <1>21
  <2>2. store' \in SUBSET store
    BY <2>1 DEF DeleteAllAnswered
  <2>3. (turns' = turns \/ Turn) /\ RowsMove
    <3>1. CASE Read(reader, "none")
      BY <3>1, ReadMoves
    <3>2. CASE Fault /\ rows' = rows
      BY <3>2 DEF Fault, RowsMove
    <3>3. QED
      BY <2>1, <3>1, <3>2 DEF DeleteAllAnswered
  <2>4. QED
    BY <2>2, <2>3 DEF DataMoves, StoreMoves
<1>22. CASE \E b \in BOOLEAN : RecreateAnswered(b)
  <2>1. PICK b \in BOOLEAN : RecreateAnswered(b)
    BY <1>22
  <2>2. store' \in SUBSET store
    BY <2>1 DEF RecreateAnswered
  <2>3. (turns' = turns \/ Turn) /\ RowsMove
    <3>1. CASE ReopenAndRefresh("none")
      BY <3>1, ReopeningMoves
    <3>2. CASE turns' = turns /\ rows' = rows
      BY <3>2 DEF RowsMove
    <3>3. QED
      BY <2>1, <3>1, <3>2 DEF RecreateAnswered, list
  <2>4. QED
    BY <2>2, <2>3 DEF DataMoves, StoreMoves
<1>23. CASE LosesForeground
  BY <1>23, DataStays DEF LosesForeground, data, list, counters
<1>24. CASE HotkeyPressed
  <2>1. store' \in SUBSET store
    BY <1>24 DEF HotkeyPressed, data
  <2>2. CASE Read(reader, "none")
    BY <2>1, <2>2, ReadMoves DEF DataMoves, StoreMoves
  <2>3. CASE rows' = rows /\ turns' = turns
    BY <2>1, <2>3 DEF DataMoves, StoreMoves, RowsMove
  <2>4. QED
    BY <1>24, <2>2, <2>3 DEF HotkeyPressed, OpenWindow, list
<1>25. CASE ReloadAppearance
  BY <1>25, DataStays DEF ReloadAppearance, data, list, counters
<1>26. CASE Paint
  BY <1>26, DataStays DEF Paint, data, list, counters
<1>27. CASE StartSwitch
  BY <1>27 DEF StartSwitch, DataMoves, StoreMoves, RowsMove
<1>28. CASE SwitchDone
  <2>1. store' \in SUBSET store
    BY <1>28 DEF SwitchDone
  <2>2. (turns' = turns \/ Turn) /\ RowsMove
    BY <1>28, ReopeningMoves DEF SwitchDone
  <2>3. QED
    BY <2>1, <2>2 DEF DataMoves, StoreMoves
<1>29. QED
  BY <1>1, <1>2, <1>3, <1>4, <1>5, <1>6, <1>7, <1>8, <1>9, <1>10, <1>11,
     <1>12, <1>13, <1>14, <1>15, <1>16, <1>17, <1>18, <1>19, <1>20, <1>21,
     <1>22, <1>23, <1>24, <1>25, <1>26, <1>27, <1>28 DEF Next, Others,
     Keyboard, Mouse, Dialogs, Window

Same(c, d) == c.id = d.id /\ c.type = d.type /\ c.matches = d.matches

LEMMA NewestTyped == ASSUME turns \in Nat PROVE NewestId \in Nat
<1>1. Cardinality(FirstClips) \in Nat
  BY ViewAssumption, FS_CardinalityType
<1>2. QED
  BY <1>1 DEF NewestId

\* A pin changes neither the identifier of a clip nor what its row shows.
LEMMA PinnedClip ==
    ASSUME NEW d \in Clip, NEW pin \in BOOLEAN
    PROVE  [d EXCEPT !.pinned = pin] \in Clip /\ Same([d EXCEPT !.pinned = pin], d)
BY DEF Clip, Same

LEMMA TouchedClip ==
    ASSUME NEW d \in Clip, NEW now \in Nat
    PROVE  [d EXCEPT !.last = now] \in Clip /\ Same([d EXCEPT !.last = now], d)
BY DEF Clip, Same

LEMMA NewClip ==
    ASSUME NEW d \in Clip, NEW now \in Nat \ {0}
    PROVE  LET e == [d EXCEPT !.id = now, !.pinned = FALSE]
           IN  e \in Clip /\ e.id = now
BY DEF Clip

LEMMA FirstAreClips ==
    /\ FirstClips \in SUBSET Clip /\ IsFiniteSet(FirstClips)
    /\ MaxTurns \in Nat /\ MaxSwitches \in Nat
BY ViewAssumption

\* Every step keeps the identifiers unique, and whatever is in the database
\* afterwards was there, or has a new identifier.
LEMMA StoreStep ==
    ASSUME StoreInv, DataMoves
    PROVE  /\ StoreInv'
           /\ NewestId \in Nat /\ NewestId' \in Nat /\ NewestId <= NewestId'
           /\ \A d \in store' : d.id > NewestId \/ \E c \in store : Same(c, d)
<1>1. turns \in Nat /\ turns' \in 0 .. MaxTurns /\ turns <= turns'
  BY FirstAreClips DEF StoreInv, DataMoves, Turn
<1>2. NewestId \in Nat /\ NewestId' \in Nat /\ NewestId <= NewestId'
  <2>1. Cardinality(FirstClips) \in Nat
    BY FirstAreClips, FS_CardinalityType
  <2>2. QED
    BY <1>1, <2>1, FirstAreClips DEF NewestId
<1>3. /\ store \in SUBSET Clip /\ IsFiniteSet(store) /\ OneRowEach(store)
      /\ \A c \in store : c.id \in Nat /\ c.id <= NewestId
  BY ClipTyped DEF StoreInv
<1>4. \A c \in store : Same(c, c)
  BY DEF Same
<1>5. CASE store' \in SUBSET store
  <2>1. IsFiniteSet(store')
    BY <1>3, <1>5, FS_Subset
  <2>2. OneRowEach(store)'
    BY <1>3, <1>5 DEF OneRowEach
  <2>3. \A c \in store' : c.id <= NewestId'
    BY <1>2, <1>3, <1>5
  <2>4. StoreInv'
    BY <1>1, <1>3, <1>5, <2>1, <2>2, <2>3 DEF StoreInv
  <2>5. QED
    BY <1>2, <1>4, <1>5, <2>4
<1>6. CASE \E hit \in SUBSET store, pin \in BOOLEAN : store' = PinnedAs(hit, pin)
  <2>1. PICK hit \in SUBSET store, pin \in BOOLEAN : store' = PinnedAs(hit, pin)
    BY <1>6
  <2> DEFINE as(d) == [d EXCEPT !.pinned = pin]
             repinned == {as(d) : d \in hit}
  <2>2. \A d \in hit : as(d) \in Clip /\ Same(as(d), d)
    BY <1>3, PinnedClip
  <2>3. IsFiniteSet(hit) /\ IsFiniteSet(store \ hit)
    BY <1>3, FS_Subset
  <2>4. IsFiniteSet(repinned)
    <3> DEFINE f == [d \in hit |-> as(d)]
    <3> HIDE DEF as
    <3>1. f \in Surjection(hit, repinned)
      <4>1. f \in [hit -> repinned] /\ \A e \in repinned : \E d \in hit : f[d] = e
        OBVIOUS
      <4> HIDE DEF f, repinned
      <4>2. QED
        BY <4>1 DEF Surjection
    <3>2. QED
      BY <2>3, <3>1, FS_Surjection
  <2>5. store' = (store \ hit) \cup repinned
    BY <2>1 DEF PinnedAs
  <2> HIDE DEF as
  <2>6. IsFiniteSet(store')
    BY <2>3, <2>4, <2>5, FS_Union
  <2>7. \A d \in store' : d \in Clip /\ \E c \in store : Same(c, d)
                           /\ (c \in hit => d = as(c)) /\ (c \notin hit => d = c)
    BY <1>3, <1>4, <2>2, <2>5 DEF Same
  <2>8. OneRowEach(store)'
    <3> SUFFICES ASSUME NEW d \in store', NEW e \in store', d.id = e.id
                 PROVE  d = e
      BY DEF OneRowEach
    <3>1. PICK c \in store : Same(c, d) /\ (c \in hit => d = as(c))
                             /\ (c \notin hit => d = c)
      BY <2>7
    <3>2. PICK b \in store : Same(b, e) /\ (b \in hit => e = as(b))
                             /\ (b \notin hit => e = b)
      BY <2>7
    <3>3. c = b
      BY <1>3, <3>1, <3>2 DEF Same, OneRowEach
    <3>4. QED
      BY <3>1, <3>2, <3>3
  <2>9. \A d \in store' : d.id <= NewestId'
    <3> SUFFICES ASSUME NEW d \in store' PROVE d.id <= NewestId'
      OBVIOUS
    <3>1. PICK c \in store : Same(c, d)
      BY <2>7
    <3>2. QED
      BY <1>2, <1>3, <3>1 DEF Same
  <2>10. StoreInv'
    BY <1>1, <2>6, <2>7, <2>8, <2>9 DEF StoreInv
  <2>11. QED
    BY <1>2, <2>7, <2>10
<1>7. CASE Copied
  <2> DEFINE now == NewestId + 1
             new == {[c EXCEPT !.id = now, !.pinned = FALSE] : c \in FirstClips}
  <2>1. turns' = turns + 1 /\ now \in Nat \ {0} /\ NewestId' = now
    <3>1. Cardinality(FirstClips) \in Nat
      BY FirstAreClips, FS_CardinalityType
    <3>2. turns' = turns + 1
      BY <1>7 DEF Copied, Turn
    <3>3. NewestId' = Cardinality(FirstClips) + turns'
      BY DEF NewestId
    <3>4. QED
      BY <1>1, <3>1, <3>2, <3>3 DEF NewestId
  <2>2. \E c \in store \cup new : store' = (store \ {c}) \cup {[c EXCEPT !.last = now]}
    BY <1>7 DEF Copied, NewestId
  <2>3. PICK c \in store \cup new : store' = (store \ {c}) \cup {[c EXCEPT !.last = now]}
    BY <2>2
  <2>4. \A d \in new : d \in Clip /\ d.id = now
    <3> SUFFICES ASSUME NEW d \in new PROVE d \in Clip /\ d.id = now
      OBVIOUS
    <3>1. PICK b \in FirstClips : d = [b EXCEPT !.id = now, !.pinned = FALSE]
      OBVIOUS
    <3>2. QED
      BY <2>1, <3>1, FirstAreClips, NewClip
  <2> HIDE DEF new, now
  <2> DEFINE e == [c EXCEPT !.last = now]
  <2>5. c \in Clip /\ e \in Clip /\ Same(e, c)
    BY <1>3, <2>1, <2>3, <2>4, TouchedClip
  <2>6. store' = (store \ {c}) \cup {e}
    BY <2>3
  <2> HIDE DEF e
  <2>7. IsFiniteSet(store')
    <3>1. IsFiniteSet(store \ {c}) /\ IsFiniteSet({e})
      BY <1>3, FS_Subset, FS_Singleton
    <3>2. QED
      BY <2>6, <3>1, FS_Union
  <2>8. c.id = now \/ c \in store
    BY <2>3, <2>4
  <2>9. \A d \in store \ {c} : d.id # e.id
    BY <1>2, <1>3, <2>1, <2>5, <2>8 DEF Same, OneRowEach, now
  <2>10. OneRowEach(store)'
    BY <1>3, <2>6, <2>9 DEF OneRowEach
  <2>11. \A d \in store' : d.id <= NewestId'
    BY <1>2, <1>3, <2>1, <2>5, <2>6, <2>8 DEF Same, now
  <2>12. StoreInv'
    BY <1>1, <1>3, <2>5, <2>6, <2>7, <2>10, <2>11 DEF StoreInv
  <2>13. e.id > NewestId \/ \E d \in store : Same(d, e)
    BY <1>2, <2>1, <2>5, <2>8 DEF Same, now
  <2>14. QED
    BY <1>2, <1>4, <2>6, <2>12, <2>13
<1>8. QED
  BY <1>5, <1>6, <1>7 DEF DataMoves, StoreMoves

\* Every step keeps the rows apart and true to their clips.
LEMMA RowsStep ==
    ASSUME StoreInv, RowsInv, DataMoves
    PROVE  RowsInv'
<1>1. /\ StoreInv'
      /\ NewestId \in Nat /\ NewestId' \in Nat /\ NewestId <= NewestId'
      /\ \A d \in store' : d.id > NewestId \/ \E c \in store : Same(c, d)
  BY StoreStep
<1>2. /\ rows \in Seq(Clip) /\ Distinct(rows)
      /\ \A i \in DOMAIN rows : rows[i] \in Clip /\ rows[i].id <= NewestId
      /\ \A i \in DOMAIN rows : \A c \in store : Agree(rows[i], c)
  BY DEF RowsInv
<1>3. \A i \in DOMAIN rows : \A d \in store' : Agree(rows[i], d)
  <2> SUFFICES ASSUME NEW i \in DOMAIN rows, NEW d \in store', rows[i].id = d.id
               PROVE  rows[i].type = d.type /\ rows[i].matches = d.matches
    BY DEF Agree
  <2>1. ~ (d.id > NewestId)
    BY <1>1, <1>2, ClipTyped
  <2>2. PICK c \in store : Same(c, d)
    BY <1>1, <2>1
  <2>3. QED
    BY <1>2, <2>2 DEF Same, Agree
<1>4. CASE rows' = rows
  <2>1. \A i \in DOMAIN rows : rows[i].id <= NewestId'
    BY <1>1, <1>2, ClipTyped
  <2>2. QED
    BY <1>2, <1>3, <1>4, <2>1 DEF RowsInv, Distinct
<1>5. CASE rows' = <<>>
  BY <1>5 DEF RowsInv, Distinct
<1>6. CASE rows' = ListForDisplay(store')
  <2>1. /\ store' \in SUBSET Clip /\ IsFiniteSet(store') /\ OneRowEach(store')
        /\ \A c \in store' : c.id <= NewestId'
    BY <1>1 DEF StoreInv
  <2>2. /\ rows' \in Seq(store')
        /\ \A j, k \in DOMAIN rows' : rows'[j] = rows'[k] => j = k
    BY <1>6, <2>1, ListIsComplete
  <2>3. rows' \in Seq(Clip) /\ \A i \in DOMAIN rows' : rows'[i] \in store'
    BY <2>1, <2>2
  <2>4. Distinct(rows)'
    BY <2>1, <2>2, <2>3 DEF Distinct, OneRowEach
  <2>5. \A i \in DOMAIN rows' : \A c \in store' : Agree(rows'[i], c)
    BY <2>1, <2>3 DEF Agree, OneRowEach
  <2>6. QED
    BY <2>1, <2>3, <2>4, <2>5 DEF RowsInv
<1>7. CASE \E row \in DOMAIN rows, pin \in BOOLEAN :
              rows' = [rows EXCEPT ![row].pinned = pin]
  <2>1. PICK row \in DOMAIN rows, pin \in BOOLEAN :
           rows' = [rows EXCEPT ![row].pinned = pin]
    BY <1>7
  <2>2. DOMAIN rows' = DOMAIN rows
    BY <2>1
  <2>3. \A i \in DOMAIN rows : rows'[i] \in Clip /\ Same(rows'[i], rows[i])
    <3> SUFFICES ASSUME NEW i \in DOMAIN rows
                 PROVE  rows'[i] \in Clip /\ Same(rows'[i], rows[i])
      OBVIOUS
    <3>1. CASE i = row
      <4>1. rows'[i] = [rows[i] EXCEPT !.pinned = pin]
        BY <2>1, <3>1
      <4>2. QED
        BY <1>2, <4>1, PinnedClip
    <3>2. CASE i # row
      <4>1. rows'[i] = rows[i]
        BY <2>1, <3>2
      <4>2. QED
        BY <1>2, <4>1 DEF Same
    <3>3. QED
      BY <3>1, <3>2
  <2>4. rows' \in Seq(Clip)
    <3>1. Len(rows) \in Nat /\ DOMAIN rows = 1 .. Len(rows)
      BY <1>2
    <3>2. rows' \in [1 .. Len(rows) -> Clip]
      <4>1. rows' = [i \in 1 .. Len(rows) |-> rows'[i]]
        BY <2>1, <3>1
      <4>2. QED
        BY <2>3, <3>1, <4>1
    <3>3. QED
      BY <3>1, <3>2
  <2>5. Distinct(rows)'
    BY <1>2, <2>2, <2>3 DEF Distinct, Same
  <2>6. \A i \in DOMAIN rows' : rows'[i].id <= NewestId'
    BY <1>1, <1>2, <2>2, <2>3, ClipTyped DEF Same
  <2>7. \A i \in DOMAIN rows' : \A c \in store' : Agree(rows'[i], c)
    BY <1>3, <2>2, <2>3 DEF Same, Agree
  <2>8. QED
    BY <2>4, <2>5, <2>6, <2>7 DEF RowsInv
<1>8. QED
  BY <1>4, <1>5, <1>6, <1>7 DEF DataMoves, RowsMove

-----------------------------------------------------------------------------
(* The switch of the protection.                                            *)

Errors == {"none", "io", "corrupted"}

LEMMA ReadError ==
    ASSUME NEW has, NEW fine \in Errors, Read(has, fine)
    PROVE  error' \in Errors
BY DEF Read, ReadWell, ReadBadly, Errors

LEMMA ReopeningError ==
    ASSUME NEW fine \in Errors, ReopenAndRefresh(fine)
    PROVE  error' \in Errors /\ reader' \in BOOLEAN
<1>1. CASE reader' = TRUE /\ Read(TRUE, fine)
  BY <1>1, ReadError
<1>2. CASE reader' = FALSE /\ error' \in {"io", "corrupted"}
  BY <1>2 DEF Errors
<1>3. QED
  BY <1>1, <1>2 DEF ReopenAndRefresh

SwitchStays ==
    /\ UNCHANGED <<protected, switch, reader, toggle, switches, wiped>>
    /\ error' \in Errors

LEMMA SwitchKept ==
    ASSUME SwitchTyped, SwitchInv, SwitchStays
    PROVE  SwitchTyped' /\ SwitchInv'
BY DEF SwitchTyped, SwitchInv, SwitchStays, Errors

LEMMA PinError ==
    ASSUME SwitchTyped, NEW row, NEW pin, NEW follow, TogglePin(row, pin, follow)
    PROVE  error' \in Errors
<1>1. error \in Errors /\ "none" \in Errors
  BY DEF SwitchTyped, Errors
<1>2. CASE Read(reader, "none")
  BY <1>1, <1>2, ReadError
<1>3. CASE error' = error
  BY <1>1, <1>3
<1>4. QED
  BY <1>2, <1>3 DEF TogglePin

LEMMA DeletionError ==
    ASSUME NEW row, DeleteOne(row)
    PROVE  error' \in Errors
<1>1. CASE Read(reader, "none")
  BY <1>1, ReadError DEF Errors
<1>2. CASE ReadWell(reader, "none") \/ ReadBadly
  BY <1>2 DEF ReadWell, ReadBadly, Errors
<1>3. QED
  BY <1>1, <1>2 DEF DeleteOne

LEMMA SwitchStep ==
    ASSUME SwitchTyped, SwitchInv, Next
    PROVE  SwitchTyped' /\ SwitchInv'
<1> error \in Errors /\ "none" \in Errors /\ "io" \in Errors
  BY DEF SwitchTyped, Errors
<1>1. CASE Copied
  BY <1>1, SwitchKept DEF Copied, Background, list, SwitchStays
<1>2. CASE WorkerSwitches
  <2>1. protected' \in BOOLEAN
    <3>1. (toggle = "on") \in BOOLEAN /\ protected \in BOOLEAN
      BY Zenon DEF SwitchTyped
    <3>2. protected' = (toggle = "on") \/ protected' = protected
      BY <1>2, Zenon DEF WorkerSwitches
    <3>3. QED
      BY <3>1, <3>2
  <2>2. /\ switch = "queued" /\ switch' \in {"ended", "failed"}
        /\ UNCHANGED <<reader, error, toggle, switches, wiped>>
    BY <1>2 DEF WorkerSwitches, Background, list
  <2>3. QED
    BY <2>1, <2>2 DEF SwitchTyped, SwitchInv
<1>3. CASE \E c \in store : Purged(c)
  BY <1>3, SwitchKept DEF Purged, Background, list, SwitchStays
<1>4. CASE \E t \in {"", "typed"} : TypeText(t)
  BY <1>4, SwitchKept DEF TypeText, Unmoved, data, list, counters, SwitchStays
<1>5. CASE PressEsc
  BY <1>5, SwitchKept DEF PressEsc, data, list, counters, SwitchStays
<1>6. CASE PressTab
  BY <1>6, SwitchKept DEF PressTab, Unmoved, data, list, counters, SwitchStays
<1>7. CASE PressEnter
  BY <1>7, SwitchKept DEF PressEnter, data, list, counters, SwitchStays
<1>8. CASE PressCtrlP
  BY <1>8, PinError, SwitchKept DEF PressCtrlP, SwitchStays
<1>9. CASE \E forward \in BOOLEAN : PressArrow(forward)
  BY <1>9, SwitchKept DEF PressArrow, Unmoved, data, list, counters, SwitchStays
<1>10. CASE \E key \in NavKeys : Navigate(key)
  BY <1>10, SwitchKept DEF Navigate, Unmoved, data, list, counters, SwitchStays
<1>11. CASE \E p \in Points : MouseMoves(p)
  BY <1>11, SwitchKept DEF MouseMoves, data, list, counters, SwitchStays
<1>12. CASE \E lines \in {WheelLines, -WheelLines} : Wheel(lines)
  BY <1>12, SwitchKept DEF Wheel, Unmoved, data, list, counters, SwitchStays
<1>13. CASE MouseHovers
  BY <1>13, SwitchKept DEF MouseHovers, data, list, counters, SwitchStays
<1>14. CASE MouseLeaves
  BY <1>14, SwitchKept DEF MouseLeaves, data, list, counters, SwitchStays
<1>15. CASE Click
  <2>1. error' \in Errors
    BY <1>15, PinError, DeletionError DEF Click, PinIcon
  <2>2. QED
    BY <1>15, <2>1, SwitchKept DEF Click, SwitchStays
<1>16. CASE ClickBanner
  BY <1>16, SwitchKept DEF ClickBanner, data, list, counters, SwitchStays
<1>17. CASE DoubleClick
  <2>1. error' \in Errors
    BY <1>17, PinError, DeletionError DEF DoubleClick, PinIcon
  <2>2. QED
    BY <1>17, <2>1, SwitchKept DEF DoubleClick, SwitchStays
<1>18. CASE RightClick
  BY <1>18, SwitchKept DEF RightClick, data, list, counters, SwitchStays
<1>19. CASE MenuChosen
  <2>1. error' \in Errors
    BY <1>19, PinError, DeletionError DEF MenuChosen
  <2>2. QED
    BY <1>19, <2>1, SwitchKept DEF MenuChosen, SwitchStays
<1>20. CASE DialogClosed
  BY <1>20, SwitchKept DEF DialogClosed, data, list, counters, SwitchStays
<1>21. CASE \E b \in BOOLEAN : DeleteAllAnswered(b)
  <2>1. PICK b \in BOOLEAN : DeleteAllAnswered(b)
    BY <1>21
  <2>2. error' \in Errors
    BY <2>1, ReadError DEF DeleteAllAnswered
  <2>3. QED
    BY <2>1, <2>2, SwitchKept DEF DeleteAllAnswered, SwitchStays
<1>22. CASE \E b \in BOOLEAN : RecreateAnswered(b)
  <2>1. PICK b \in BOOLEAN : RecreateAnswered(b)
    BY <1>22
  <2>2. error' \in Errors /\ reader' \in BOOLEAN
    <3>1. CASE ReopenAndRefresh("none")
      BY <3>1, ReopeningError
    <3>2. CASE error' = error /\ reader' = reader
      BY <3>2 DEF SwitchTyped
    <3>3. CASE reader' = FALSE /\ error' \in {"io", "corrupted"}
      BY <3>3 DEF Errors
    <3>4. QED
      BY <2>1, <3>1, <3>2, <3>3 DEF RecreateAnswered, list
  <2>3. wiped' \in BOOLEAN
    <3>1. (wiped \/ protected) \in BOOLEAN /\ wiped \in BOOLEAN
      BY Zenon DEF SwitchTyped
    <3>2. wiped' = wiped \/ wiped' = (wiped \/ protected)
      BY <2>1, Zenon DEF RecreateAnswered
    <3>3. QED
      BY <3>1, <3>2
  <2>4. UNCHANGED <<protected, switch, toggle, switches>>
    BY <2>1 DEF RecreateAnswered
  <2>5. QED
    BY <2>2, <2>3, <2>4 DEF SwitchTyped, SwitchInv, Errors
<1>23. CASE LosesForeground
  BY <1>23, SwitchKept DEF LosesForeground, data, list, counters, SwitchStays
<1>24. CASE HotkeyPressed
  <2>1. error' \in Errors
    BY <1>24, ReadError DEF HotkeyPressed, OpenWindow, list
  <2>2. reader' = reader
    BY <1>24 DEF HotkeyPressed, list
  <2>3. QED
    BY <1>24, <2>1, <2>2, SwitchKept DEF HotkeyPressed, data, SwitchStays
<1>25. CASE ReloadAppearance
  BY <1>25, SwitchKept DEF ReloadAppearance, data, list, counters, SwitchStays
<1>26. CASE Paint
  BY <1>26, SwitchKept DEF Paint, data, list, counters, SwitchStays
<1>27. CASE StartSwitch
  <2>1. switches' \in 0 .. MaxSwitches
    BY <1>27, FirstAreClips DEF StartSwitch, SwitchTyped
  <2>2. QED
    BY <1>27, <2>1 DEF StartSwitch, SwitchTyped, SwitchInv
<1>28. CASE SwitchDone
  <2>1. ReopenAndRefresh(IF switch = "failed" THEN "io" ELSE "none")
    BY <1>28 DEF SwitchDone
  <2>2. error' \in Errors /\ reader' \in BOOLEAN
    BY <2>1, ReopeningError
  <2>3. QED
    BY <1>28, <2>2 DEF SwitchDone, SwitchTyped, SwitchInv, Errors
<1>29. QED
  BY <1>1, <1>2, <1>3, <1>4, <1>5, <1>6, <1>7, <1>8, <1>9, <1>10, <1>11,
     <1>12, <1>13, <1>14, <1>15, <1>16, <1>17, <1>18, <1>19, <1>20, <1>21,
     <1>22, <1>23, <1>24, <1>25, <1>26, <1>27, <1>28 DEF Next, Others,
     Keyboard, Mouse, Dialogs, Window

-----------------------------------------------------------------------------
(* The window, its filters and its view.                                    *)

Filters == {Segments[i] : i \in DOMAIN Segments}

Questions == {"delete_all", "delete_some", "recreate"}

Loops == {"none", "menu", "message"} \cup Questions

LEMMA AllIsAFilter ==
    /\ "all" \in Filters
    /\ \A i \in DOMAIN Segments : Segments[i] \in Filters
    /\ \A pg \in Pages : pg \in Nat \ {0}
<1>1. 1 \in DOMAIN Segments
  BY ViewAssumption
<1>2. QED
  BY <1>1, ViewAssumption DEF Filters

LEMMA WindowParts ==
    WindowTyped <=>
        /\ open \in BOOLEAN /\ strip \in BOOLEAN
        /\ page \in Pages /\ text \in {"", "typed"} /\ type \in Filters
        /\ view \in Views /\ dialog \in Loops
BY DEF WindowTyped, Filters, Loops, Questions

\* A window whose rows have been filtered again.
LEMMA FilteredView ==
    ASSUME NEW rs \in Seq(Clip), Distinct(rs), NEW tx, NEW ty, NEW pg \in Pages
    PROVE  DefaultView(VisibleRows(rs, tx, ty), pg) \in Views
BY VisibleRowsPass, DefaultIsAView, AllIsAFilter

LEMMA HiddenWindow ==
    ASSUME WindowTyped, HideWindow, page' = page, view' = view
    PROVE  WindowTyped'
BY AllIsAFilter DEF HideWindow, WindowTyped, Filters

LEMMA PinnedView ==
    ASSUME WindowTyped, RowsInv', NEW row, NEW pin, NEW follow,
           TogglePin(row, pin, follow)
    PROVE  view' \in Views /\ dialog' \in {"none", "message"}
<1>1. dialog' \in {"none", "message"}
  BY DEF TogglePin
<1>2. view \in Views /\ view.top \in Nat /\ page \in Nat
  BY AllIsAFilter DEF WindowTyped, Views
<1>3. CASE view' = view
  BY <1>1, <1>2, <1>3
<1>4. CASE view' = Top
  BY <1>1, <1>4 DEF Top, Views
<1> DEFINE vis == VisibleRows(rows', text, type)
           to == IF PositionOf(follow, vis) = NoRow THEN 0 ELSE PositionOf(follow, vis)
<1>5. CASE view' = [sel |-> to, top |-> ScrollTo(to, view.top, page)]
  <2>1. vis \in Seq(Clip)
    <3>1. rows' \in Seq(Clip)
      BY DEF RowsInv
    <3>2. QED
      BY <3>1, VisibleRowsPass
  <2> HIDE DEF vis
  <2>2. to \in Nat
    BY <2>1, PositionIsThere DEF NoRow
  <2> HIDE DEF to
  <2>3. ScrollTo(to, view.top, page) \in Nat
    BY <1>2, <2>2, ScrollIsNatural
  <2>4. QED
    BY <1>1, <1>5, <2>2, <2>3 DEF Views
<1>6. QED
  BY <1>3, <1>4, <1>5 DEF TogglePin

LEMMA DeletionView ==
    ASSUME WindowTyped, RowsInv', NEW row, DeleteOne(row)
    PROVE  view' \in Views /\ dialog' \in {"none", "message"}
<1> DEFINE vis == VisibleRows(rows', text, type)
<1>1. dialog' \in {"none", "message"} /\ view' = ViewAfterDelete(SelectedClip, view, vis, page)
  BY DEF DeleteOne
<1>2. view \in Views /\ page \in Nat
  BY AllIsAFilter DEF WindowTyped
<1>3. vis \in Seq(Clip)
  <2>1. rows' \in Seq(Clip)
    BY DEF RowsInv
  <2>2. QED
    BY <2>1, VisibleRowsPass
<1> HIDE DEF vis
<1>4. QED
  BY <1>1, <1>2, <1>3, DeletionLeavesAView

LEMMA PastedWindow ==
    ASSUME WindowTyped, NEW id, Confirm(id), page' = page, view' = view
    PROVE  WindowTyped'
<1>1. CASE HideWindow
  BY <1>1, HiddenWindow
<1>2. CASE UNCHANGED <<open, filters, modal>>
  BY <1>2 DEF filters, modal, WindowTyped
<1>3. QED
  BY <1>1, <1>2 DEF Confirm

\* Only the view and the dialog have changed.
LEMMA MovedWindow ==
    ASSUME WindowTyped, UNCHANGED <<open, page, filters>>,
           view' \in Views, dialog' \in Loops
    PROVE  WindowTyped'
BY DEF filters, WindowTyped, Loops, Questions

LEMMA SegmentIsThere ==
    ASSUME type \in Filters, NEW forward \in BOOLEAN
    PROVE  AdjacentSegment(forward) \in Filters
<1> DEFINE i == CHOOSE i \in DOMAIN Segments : Segments[i] = type
<1>1. \E j \in DOMAIN Segments : Segments[j] = type
  BY DEF Filters
<1>2. i \in DOMAIN Segments
  BY <1>1
<1>3. DOMAIN Segments = 1 .. Len(Segments) /\ Len(Segments) \in Nat
  BY ViewAssumption
<1> HIDE DEF i
<1>4. Least(i + 1, Len(Segments)) \in DOMAIN Segments /\ Most(i - 1, 1) \in DOMAIN Segments
  BY <1>2, <1>3 DEF Least, Most
<1>5. AdjacentSegment(forward) = Segments[IF forward THEN Least(i + 1, Len(Segments))
                                          ELSE Most(i - 1, 1)]
  BY DEF AdjacentSegment, i
<1>6. QED
  BY <1>4, <1>5, AllIsAFilter

LEMMA WindowStep ==
    ASSUME RowsInv, RowsInv', WindowTyped, MouseTyped, ClickTyped, Next
    PROVE  WindowTyped'
<1>a. /\ open \in BOOLEAN /\ strip \in BOOLEAN
      /\ page \in Pages /\ text \in {"", "typed"} /\ type \in Filters
      /\ view \in Views /\ dialog \in Loops
  BY WindowParts
<1>b. page \in Nat \ {0} /\ view.top \in Nat /\ view.sel \in Nat
  BY <1>a, AllIsAFilter DEF Views
<1>c. Shown \in Seq(Clip) /\ Len(Shown) \in Nat
  BY RowsAreShown DEF ShownIsRight
<1>d. rows \in Seq(Clip) /\ Distinct(rows) /\ rows' \in Seq(Clip) /\ Distinct(rows')
  BY DEF RowsInv, Distinct
<1>e. "none" \in Loops /\ "menu" \in Loops /\ "message" \in Loops
      /\ "delete_all" \in Loops /\ "delete_some" \in Loops /\ "recreate" \in Loops
  BY DEF Loops, Questions
<1>1. CASE Copied
  BY <1>1 DEF Copied, Background, WindowTyped, filters, modal
<1>2. CASE WorkerSwitches
  BY <1>2 DEF WorkerSwitches, Background, WindowTyped, filters, modal
<1>3. CASE \E c \in store : Purged(c)
  BY <1>3 DEF Purged, Background, WindowTyped, filters, modal
<1>4. CASE \E t \in {"", "typed"} : TypeText(t)
  <2>1. view' \in Views
    BY <1>4, <1>a, <1>d, FilteredView DEF TypeText, Refilter, Unmoved
  <2>2. QED
    BY <1>4, <2>1 DEF TypeText, Unmoved, WindowTyped, modal
<1>5. CASE PressEsc
  BY <1>5, HiddenWindow DEF PressEsc
<1>6. CASE PressTab
  <2>1. strip' \in BOOLEAN
    <3>1. (~strip) \in BOOLEAN
      OBVIOUS
    <3>2. strip' = (~strip)
      BY <1>6, Zenon DEF PressTab
    <3>3. QED
      BY <3>1, <3>2
  <2>2. UNCHANGED <<open, page, text, type, view, dialog>>
    BY <1>6 DEF PressTab, Unmoved, modal
  <2>3. QED
    BY <2>1, <2>2 DEF WindowTyped
<1>7. CASE PressEnter
  BY <1>7, PastedWindow DEF PressEnter
<1>8. CASE PressCtrlP
  <2>1. view' \in Views /\ dialog' \in {"none", "message"}
    BY <1>8, PinnedView DEF PressCtrlP
  <2>2. QED
    BY <1>8, <1>e, <2>1, MovedWindow DEF PressCtrlP
<1>9. CASE \E forward \in BOOLEAN : PressArrow(forward)
  <2>1. PICK forward \in BOOLEAN : PressArrow(forward)
    BY <1>9
  <2>2. UNCHANGED <<open, page, text, strip, dialog>>
    BY <2>1 DEF PressArrow, Unmoved, modal
  <2>3. CASE UNCHANGED <<type, view>>
    BY <2>2, <2>3 DEF WindowTyped
  <2>4. CASE type' = AdjacentSegment(forward) /\ Refilter
    <3>1. type' \in Filters
      BY <1>a, <2>4, SegmentIsThere
    <3>2. view' \in Views
      BY <1>a, <1>d, <2>4, FilteredView DEF Refilter
    <3>3. QED
      BY <2>2, <3>1, <3>2 DEF WindowTyped, Filters
  <2>5. QED
    BY <2>1, <2>3, <2>4 DEF PressArrow
<1>10. CASE \E key \in NavKeys : Navigate(key)
  <2>1. PICK key \in NavKeys : Navigate(key)
    BY <1>10
  <2> DEFINE to == NextSelection(key, Len(Shown))
  <2>2. to \in Nat
    BY <1>b, <1>c DEF NextSelection, NavKeys, Least, Most
  <2>3. view' = [sel |-> to, top |-> ScrollTo(to, view.top, page)]
    BY <2>1 DEF Navigate
  <2> HIDE DEF to
  <2>4. view' \in Views
    BY <1>b, <2>2, <2>3, ScrollIsNatural DEF Views
  <2>5. QED
    BY <1>a, <2>1, <2>4, MovedWindow DEF Navigate, Unmoved, modal
<1>11. CASE \E p \in Points : MouseMoves(p)
  BY <1>11 DEF MouseMoves, WindowTyped, filters, modal
<1>12. CASE \E lines \in {WheelLines, -WheelLines} : Wheel(lines)
  <2>1. PICK lines \in {WheelLines, -WheelLines} : Wheel(lines)
    BY <1>12
  <2> DEFINE top == Least(Most(view.top + lines, 0), Most(Len(Shown) - page, 0))
  <2>2. lines \in Int
    BY ViewAssumption
  <2>3. top \in Nat
    BY <1>b, <1>c, <2>2 DEF Least, Most
  <2>4. view' = view \/ view' = [view EXCEPT !.top = top]
    BY <2>1 DEF Wheel
  <2> HIDE DEF top
  <2>5. view' \in Views
    BY <1>a, <2>3, <2>4 DEF Views
  <2>6. QED
    BY <1>a, <2>1, <2>5, MovedWindow DEF Wheel, Unmoved, modal
<1>13. CASE MouseHovers
  BY <1>13 DEF MouseHovers, WindowTyped, filters, modal
<1>14. CASE MouseLeaves
  BY <1>14 DEF MouseLeaves, WindowTyped, filters, modal
<1>15. CASE Click
  <2>1. UNCHANGED <<open, page>>
    BY <1>15 DEF Click
  <2>2. CASE UNCHANGED filters /\ \E row : DeleteOne(row) \/ PinIcon(row)
    <3>1. view' \in Views /\ dialog' \in {"none", "message"}
      BY <2>2, PinnedView, DeletionView DEF PinIcon
    <3>2. QED
      BY <1>e, <2>1, <2>2, <3>1, MovedWindow
  <2>3. CASE /\ UNCHANGED <<text, type, dialog>>
             /\ IF DrawnRowAt(mouse) # NoRow
                THEN SelectRow(DrawnRowAt(mouse)) /\ strip' = FALSE
                ELSE UNCHANGED <<view, strip, picture>>
    <3>1. CASE DrawnRowAt(mouse) # NoRow
      <4>1. DrawnRowAt(mouse) \in Nat
        BY <3>1, DrawnIsThere DEF MouseTyped
      <4>2. view' = [view EXCEPT !.sel = DrawnRowAt(mouse)] /\ strip' = FALSE
        BY <2>3, <3>1 DEF SelectRow
      <4>3. view' \in Views
        BY <1>a, <4>1, <4>2 DEF Views
      <4>4. QED
        BY <2>1, <2>3, <4>2, <4>3 DEF WindowTyped
    <3>2. CASE DrawnRowAt(mouse) = NoRow
      BY <2>1, <2>3, <3>2 DEF WindowTyped
    <3>3. QED
      BY <3>1, <3>2
  <2>4. CASE /\ strip' = TRUE /\ UNCHANGED <<text, dialog, rows>>
             /\ \E i \in DOMAIN Segments : type' = Segments[i]
             /\ IF type' # type THEN Refilter ELSE Invalidate /\ UNCHANGED view
    <3>1. type' \in Filters
      BY <2>4, AllIsAFilter
    <3>2. view' \in Views
      <4>1. CASE Refilter
        BY <1>a, <1>d, <4>1, FilteredView DEF Refilter
      <4>2. QED
        BY <1>a, <2>4, <4>1
    <3>3. QED
      BY <2>1, <2>4, <3>1, <3>2 DEF WindowTyped, Filters
  <2>5. QED
    BY <1>15, <2>2, <2>3, <2>4 DEF Click
<1>16. CASE ClickBanner
  BY <1>16, <1>a, <1>e, MovedWindow DEF ClickBanner
<1>17. CASE DoubleClick
  <2>1. page' = page
    BY <1>17 DEF DoubleClick
  <2>2. CASE UNCHANGED <<open, filters, view, modal>>
    BY <2>1, <2>2 DEF WindowTyped, filters, modal
  <2>3. CASE UNCHANGED <<open, filters>> /\ \E row : DeleteOne(row) \/ PinIcon(row)
    <3>1. view' \in Views /\ dialog' \in {"none", "message"}
      BY <2>3, PinnedView, DeletionView DEF PinIcon
    <3>2. QED
      BY <1>e, <2>1, <2>3, <3>1, MovedWindow
  <2>4. CASE view' = view /\ \E id : Confirm(id)
    BY <2>1, <2>4, PastedWindow
  <2>5. QED
    BY <1>17, <2>2, <2>3, <2>4 DEF DoubleClick
<1>18. CASE RightClick
  <2>1. UNCHANGED <<open, page, filters>> /\ dialog' = "menu"
    BY <1>18 DEF RightClick
  <2>2. view' \in Views
    <3>1. CASE DrawnRowAt(mouse) = NoRow
      BY <1>18, <1>a, <3>1 DEF RightClick
    <3>2. CASE DrawnRowAt(mouse) # NoRow
      <4>1. DrawnRowAt(mouse) \in Nat
        BY <3>2, DrawnIsThere DEF MouseTyped
      <4>2. view' = [view EXCEPT !.sel = DrawnRowAt(mouse)]
        BY <1>18, <3>2 DEF RightClick, SelectRow
      <4>3. QED
        BY <1>a, <4>1, <4>2 DEF Views
    <3>3. QED
      BY <3>1, <3>2
  <2>3. QED
    BY <1>e, <2>1, <2>2, MovedWindow
<1>19. CASE MenuChosen
  <2>1. UNCHANGED <<open, page, filters>>
    BY <1>19 DEF MenuChosen
  <2>2. CASE DeleteOne(menu.row) \/ TogglePin(menu.row, menu.pin, rows[menu.row].id)
    <3>1. view' \in Views /\ dialog' \in {"none", "message"}
      BY <2>2, PinnedView, DeletionView
    <3>2. QED
      BY <1>e, <2>1, <3>1, MovedWindow
  <2>3. CASE view' = view /\ dialog' \in {"none", "delete_all", "delete_some"}
    BY <1>a, <1>e, <2>1, <2>3, MovedWindow
  <2>4. QED
    BY <1>19, <2>2, <2>3 DEF MenuChosen
<1>20. CASE DialogClosed
  BY <1>20, <1>a, <1>e, MovedWindow DEF DialogClosed
<1>21. CASE \E b \in BOOLEAN : DeleteAllAnswered(b)
  <2>1. view' \in Views /\ dialog' \in Loops
    BY <1>21, <1>a, <1>e, TopIsAView DEF DeleteAllAnswered
  <2>2. QED
    BY <1>21, <2>1, MovedWindow DEF DeleteAllAnswered
<1>22. CASE \E b \in BOOLEAN : RecreateAnswered(b)
  <2>1. UNCHANGED <<open, page, filters>> /\ dialog' = "none"
    BY <1>22 DEF RecreateAnswered
  <2>2. view' = view \/ view' = Top
    BY <1>22 DEF RecreateAnswered, ReopenAndRefresh
  <2>3. view' \in Views
    BY <1>a, <2>2, TopIsAView
  <2>4. QED
    BY <1>e, <2>1, <2>3, MovedWindow
<1>23. CASE LosesForeground
  BY <1>23, HiddenWindow DEF LosesForeground
<1>24. CASE HotkeyPressed
  <2>1. CASE HideWindow /\ UNCHANGED <<page, view>>
    BY <2>1, HiddenWindow
  <2>2. CASE OpenWindow /\ UNCHANGED <<filters, modal>>
    <3>1. page' \in Pages /\ open' = TRUE
      BY <2>2 DEF OpenWindow
    <3>2. view' \in Views
      BY <1>d, <2>2, <3>1, FilteredView DEF OpenWindow
    <3>3. QED
      BY <2>2, <3>1, <3>2 DEF WindowTyped, filters, modal
  <2>3. QED
    BY <1>24, <2>1, <2>2 DEF HotkeyPressed
<1>25. CASE ReloadAppearance
  BY <1>25 DEF ReloadAppearance, WindowTyped, filters, modal
<1>26. CASE Paint
  BY <1>26 DEF Paint, WindowTyped, filters, modal
<1>27. CASE StartSwitch
  BY <1>27 DEF StartSwitch, WindowTyped, filters, modal
<1>28. CASE SwitchDone
  <2>1. UNCHANGED <<open, page, filters, dialog>>
    BY <1>28 DEF SwitchDone, modal
  <2>2. view' = view \/ view' = Top
    BY <1>28 DEF SwitchDone, ReopenAndRefresh
  <2>3. view' \in Views
    BY <1>a, <2>2, TopIsAView
  <2>4. QED
    BY <1>a, <2>1, <2>3, MovedWindow
<1>29. QED
  BY <1>1, <1>2, <1>3, <1>4, <1>5, <1>6, <1>7, <1>8, <1>9, <1>10, <1>11,
     <1>12, <1>13, <1>14, <1>15, <1>16, <1>17, <1>18, <1>19, <1>20, <1>21,
     <1>22, <1>23, <1>24, <1>25, <1>26, <1>27, <1>28 DEF Next, Others,
     Keyboard, Mouse, Dialogs, Window

-----------------------------------------------------------------------------
(* The mouse and the preview.                                               *)

Hovers == [row : Nat \cup {NoRow}, armed : BOOLEAN, fired : BOOLEAN, shown : BOOLEAN]

LEMMA NoHoverTyped == NoHover \in Hovers
BY DEF NoHover, Hovers

LEMMA MouseParts ==
    MouseTyped <=>
        /\ mouse \in Points \cup {Outside} /\ tracking \in BOOLEAN
        /\ hover \in Hovers /\ popup \in Nat
BY DEF MouseTyped, Hovers

\* The preview has been put away, or nothing has happened to it.
LEMMA MouseKept ==
    ASSUME MouseTyped, UNCHANGED pointer, DismissHover \/ UNCHANGED preview
    PROVE  MouseTyped'
BY NoHoverTyped DEF MouseTyped, Hovers, pointer, preview, DismissHover

LEMMA MouseHidden ==
    ASSUME HideWindow
    PROVE  MouseTyped'
BY NoHoverTyped DEF HideWindow, MouseTyped, Hovers, DismissHover

LEMMA HoverRowTyped ==
    ASSUME RowsInv, WindowTyped, NEW p \in Points \cup {Outside}
    PROVE  /\ HoverRow(p) \in Nat \cup {NoRow}
           /\ HoverRow(p) # NoRow =>
                 /\ HoverRow(p) = DrawnRowAt(p) /\ HoverRow(p) \in Nat
                 /\ HoverRow(p) < Len(Shown)
                 /\ HoverRow(p) >= view.top /\ HoverRow(p) <= view.top + page - 1
                 /\ error = "none" /\ toggle = "none"
<1>1. CASE HoverRow(p) = NoRow
  BY <1>1
<1>2. CASE HoverRow(p) # NoRow
  <2>1. HoverRow(p) = RowHit(p) /\ RowHit(p) # NoRow
    BY <1>2 DEF HoverRow
  <2>2. /\ RowHit(p) = DrawnRowAt(p) /\ error = "none" /\ toggle = "none"
        /\ DrawnRowAt(p) = view.top + p.slot /\ DrawnRowAt(p) \in Nat
        /\ DrawnRowAt(p) < Len(Shown) /\ p.slot \in Nat /\ p.slot < page
        /\ page \in Nat /\ view.top \in Nat
    BY <2>1, DrawnIsThere
  <2>3. QED
    BY <2>1, <2>2
<1>3. QED
  BY <1>1, <1>2

\* The tracker after a move to a row.
Tracked(row, arm) ==
    LET was == IF row = hover.row THEN hover ELSE [NoHover EXCEPT !.row = row]
    IN  [was EXCEPT !.armed = @ \/ arm]

LEMMA TrackedTyped ==
    ASSUME hover \in Hovers, NEW row \in Nat \cup {NoRow}, NEW arm \in BOOLEAN
    PROVE  /\ Tracked(row, arm) \in Hovers
           /\ Tracked(row, arm).row = row
           /\ row = hover.row => Tracked(row, arm).shown = hover.shown
<1> DEFINE was == IF row = hover.row THEN hover ELSE [NoHover EXCEPT !.row = row]
<1>1. was \in Hovers /\ was.row = row /\ (row = hover.row => was = hover)
  BY DEF Hovers, NoHover
<1>2. Tracked(row, arm) = [was EXCEPT !.armed = was.armed \/ arm]
  BY DEF Tracked
<1> HIDE DEF was
<1>3. (was.armed \/ arm) \in BOOLEAN
  OBVIOUS
<1>4. PICK b \in BOOLEAN : b = (was.armed \/ arm)
  BY <1>3
<1>5. Tracked(row, arm) = [was EXCEPT !.armed = b]
  BY <1>2, <1>4
<1>6. QED
  BY <1>1, <1>5 DEF Hovers

\* The tracker after a report.
Reported(fires, cut) ==
    [hover EXCEPT !.armed = FALSE, !.fired = @ \/ fires, !.shown = @ \/ (fires /\ cut)]

LEMMA ReportedTyped ==
    ASSUME hover \in Hovers, NEW fires, NEW cut
    PROVE  /\ Reported(fires, cut) \in Hovers
           /\ Reported(fires, cut).row = hover.row
           /\ hover.shown => Reported(fires, cut).shown
           /\ fires /\ cut => Reported(fires, cut).shown
           /\ hover = NoHover /\ ~fires => Reported(fires, cut) = NoHover
<1>1. PICK a \in BOOLEAN : a = FALSE
  OBVIOUS
<1>2. (hover.fired \/ fires) \in BOOLEAN /\ (hover.shown \/ (fires /\ cut)) \in BOOLEAN
  OBVIOUS
<1>3. PICK b \in BOOLEAN : b = (hover.fired \/ fires)
  BY <1>2
<1>4. PICK c \in BOOLEAN : c = (hover.shown \/ (fires /\ cut))
  BY <1>2
<1>5. Reported(fires, cut) = [hover EXCEPT !.armed = a, !.fired = b, !.shown = c]
  BY <1>1, <1>3, <1>4 DEF Reported
<1> DEFINE r == Reported(fires, cut)
<1>6. /\ r \in Hovers /\ r.row = hover.row /\ r.armed = a /\ r.fired = b /\ r.shown = c
  BY <1>5 DEF Hovers
<1> HIDE DEF r
<1>7. (hover.shown => r.shown) /\ (fires /\ cut => r.shown)
  BY <1>4, <1>6, Zenon
<1>8. hover = NoHover /\ ~fires => r = NoHover
  <2> SUFFICES ASSUME hover = NoHover, ~fires PROVE r = NoHover
    OBVIOUS
  <2>1. a = FALSE /\ b = FALSE /\ c = FALSE /\ hover.row = NoRow
    BY <1>1, <1>3, <1>4 DEF NoHover
  <2>2. r.row = NoRow /\ r.armed = FALSE /\ r.fired = FALSE /\ r.shown = FALSE
    BY <1>6, <2>1
  <2>3. QED
    BY <1>6, <2>2 DEF NoHover, Hovers
<1>9. QED
  BY <1>6, <1>7, <1>8 DEF r

LEMMA MouseStep ==
    ASSUME RowsInv, WindowTyped, MouseTyped, ClickTyped, Next
    PROVE  MouseTyped'
<1>a. /\ mouse \in Points \cup {Outside} /\ tracking \in BOOLEAN
      /\ hover \in Hovers /\ popup \in Nat
  BY MouseParts
<1>1. CASE Copied
  BY <1>1, MouseKept DEF Copied, Background
<1>2. CASE WorkerSwitches
  BY <1>2, MouseKept DEF WorkerSwitches, Background
<1>3. CASE \E c \in store : Purged(c)
  BY <1>3, MouseKept DEF Purged, Background
<1>4. CASE \E t \in {"", "typed"} : TypeText(t)
  BY <1>4, MouseKept DEF TypeText, Unmoved
<1>5. CASE PressEsc
  BY <1>5, MouseHidden DEF PressEsc
<1>6. CASE PressTab
  BY <1>6, MouseKept DEF PressTab, Unmoved
<1>7. CASE PressEnter
  <2>1. CASE HideWindow
    BY <2>1, MouseHidden
  <2>2. CASE UNCHANGED pointer
    BY <1>7, <2>2, MouseKept DEF PressEnter
  <2>3. QED
    BY <1>7, <2>1, <2>2 DEF PressEnter, Confirm
<1>8. CASE PressCtrlP
  BY <1>8, MouseKept DEF PressCtrlP
<1>9. CASE \E forward \in BOOLEAN : PressArrow(forward)
  BY <1>9, MouseKept DEF PressArrow, Unmoved
<1>10. CASE \E key \in NavKeys : Navigate(key)
  BY <1>10, MouseKept DEF Navigate, Unmoved
<1>11. CASE \E p \in Points : MouseMoves(p)
  <2>1. PICK p \in Points : MouseMoves(p)
    BY <1>11
  <2> DEFINE row == HoverRow(p)
             was == IF row = hover.row THEN hover ELSE [NoHover EXCEPT !.row = row]
             arm == row # NoRow /\ ~was.armed /\ ~was.fired
  <2>2. arm \in BOOLEAN /\ (tracking \/ arm) \in BOOLEAN
    OBVIOUS
  <2>3. row \in Nat \cup {NoRow}
    BY HoverRowTyped
  <2>4. hover' = Tracked(row, arm)
    BY <2>1 DEF MouseMoves, Tracked
  <2>5. tracking' = (tracking \/ arm)
    BY <2>1, Zenon DEF MouseMoves
  <2>6. popup' = popup \/ popup' = 0
    BY <2>1 DEF MouseMoves
  <2>7. mouse' = p
    BY <2>1 DEF MouseMoves
  <2> HIDE DEF row, arm
  <2>8. hover' \in Hovers
    BY <1>a, <2>2, <2>3, <2>4, TrackedTyped
  <2>9. tracking' \in BOOLEAN
    BY <2>2, <2>5
  <2>10. QED
    BY <1>a, <2>6, <2>7, <2>8, <2>9 DEF MouseTyped, Hovers
<1>12. CASE \E lines \in {WheelLines, -WheelLines} : Wheel(lines)
  BY <1>12, MouseKept DEF Wheel, Unmoved
<1>13. CASE MouseHovers
  <2> DEFINE row == HoverRow(mouse)
             fires == ~hover.shown /\ row # NoRow /\ row = hover.row
             clip == Shown[row + 1]
  <2>1. hover' = Reported(fires, clip.cut)
    BY <1>13 DEF MouseHovers, Reported
  <2>2. popup' = (IF fires /\ clip.cut THEN clip.id ELSE popup)
    BY <1>13 DEF MouseHovers
  <2>3. mouse' = mouse /\ tracking' = FALSE
    BY <1>13 DEF MouseHovers
  <2>4. fires => clip.id \in Nat
    <3> SUFFICES ASSUME row # NoRow PROVE clip.id \in Nat
      OBVIOUS
    <3>1. row \in Nat /\ row < Len(Shown)
      BY <1>a, HoverRowTyped
    <3> HIDE DEF row
    <3>2. clip \in Clip
      BY <3>1, RowIsThere
    <3>3. QED
      BY <3>2, ClipTyped
  <2> HIDE DEF clip, fires
  <2>5. hover' \in Hovers
    BY <1>a, <2>1, ReportedTyped
  <2>6. popup' \in Nat
    BY <1>a, <2>2, <2>4
  <2>7. QED
    BY <1>a, <2>3, <2>5, <2>6 DEF MouseTyped, Hovers
<1>14. CASE MouseLeaves
  BY <1>14, NoHoverTyped DEF MouseLeaves, DismissHover, MouseTyped, Hovers
<1>15. CASE Click
  BY <1>15, MouseKept DEF Click
<1>16. CASE ClickBanner
  BY <1>16, MouseKept DEF ClickBanner
<1>17. CASE DoubleClick
  <2>1. CASE HideWindow
    BY <2>1, MouseHidden
  <2>2. CASE UNCHANGED pointer /\ (DismissHover \/ UNCHANGED preview)
    BY <2>2, MouseKept
  <2>3. CASE (\E id : Confirm(id)) /\ (open' => UNCHANGED preview)
    <3>1. PICK id : Confirm(id)
      BY <2>3
    <3>2. CASE UNCHANGED <<open, pointer>>
      <4>1. open
        BY <1>17 DEF DoubleClick
      <4>2. QED
        BY <2>2, <2>3, <3>2, <4>1
    <3>3. QED
      BY <2>1, <3>1, <3>2 DEF Confirm
  <2>4. \A row : PreviewAfterPin(row) => DismissHover \/ UNCHANGED preview
    BY DEF PreviewAfterPin
  <2>5. QED
    BY <1>17, <2>2, <2>3, <2>4 DEF DoubleClick
<1>18. CASE RightClick
  BY <1>18, MouseKept DEF RightClick
<1>19. CASE MenuChosen
  <2>1. \A row : PreviewAfterPin(row) => DismissHover \/ UNCHANGED preview
    BY DEF PreviewAfterPin
  <2>2. QED
    BY <1>19, <2>1, MouseKept DEF MenuChosen
<1>20. CASE DialogClosed
  BY <1>20, MouseKept DEF DialogClosed
<1>21. CASE \E b \in BOOLEAN : DeleteAllAnswered(b)
  BY <1>21, MouseKept DEF DeleteAllAnswered
<1>22. CASE \E b \in BOOLEAN : RecreateAnswered(b)
  BY <1>22, MouseKept DEF RecreateAnswered, ReopenAndRefresh
<1>23. CASE LosesForeground
  BY <1>23, MouseHidden DEF LosesForeground
<1>24. CASE HotkeyPressed
  <2>1. CASE HideWindow
    BY <2>1, MouseHidden
  <2>2. CASE OpenWindow /\ UNCHANGED pointer
    BY <2>2, MouseKept DEF OpenWindow
  <2>3. QED
    BY <1>24, <2>1, <2>2 DEF HotkeyPressed
<1>25. CASE ReloadAppearance
  BY <1>25, MouseKept DEF ReloadAppearance
<1>26. CASE Paint
  BY <1>26, MouseKept DEF Paint
<1>27. CASE StartSwitch
  BY <1>27, MouseKept DEF StartSwitch
<1>28. CASE SwitchDone
  BY <1>28, MouseKept DEF SwitchDone, ReopenAndRefresh
<1>29. QED
  BY <1>1, <1>2, <1>3, <1>4, <1>5, <1>6, <1>7, <1>8, <1>9, <1>10, <1>11,
     <1>12, <1>13, <1>14, <1>15, <1>16, <1>17, <1>18, <1>19, <1>20, <1>21,
     <1>22, <1>23, <1>24, <1>25, <1>26, <1>27, <1>28 DEF Next, Others,
     Keyboard, Mouse, Dialogs, Window

-----------------------------------------------------------------------------
(* The screen.                                                              *)

Screens == [shows : {"nothing", "switching", "recreate", "error", "list"},
            page : Seq(Clip), sel : Nat, hot : Hits]

LEMMA BlankTyped ==
    /\ Blank \in Screens /\ NoHit \in Hits
    /\ \A s \in {"switching", "recreate", "error"} : [Blank EXCEPT !.shows = s] \in Screens
<1>1. NoHit \in Hits /\ 0 \in Nat /\ <<>> \in Seq(Clip)
  BY DEF Hits
<1>2. Blank \in Screens
  BY <1>1 DEF Blank, Screens
<1>3. \A s \in {"switching", "recreate", "error"} : [Blank EXCEPT !.shows = s] \in Screens
  BY <1>2 DEF Screens
<1>4. QED
  BY <1>1, <1>2, <1>3

\* The list is on the screen, and no banner.
ListShown == toggle = "none" /\ error = "none"

PageShown == SubSeq(Shown, view.top + 1, Least(view.top + page, Len(Shown)))

LEMMA PictureParts ==
    /\ ListShown =>
          Picture = [shows |-> "list", page |-> PageShown, sel |-> SelectedClip,
                     hot |-> HotTarget(mouse)]
    /\ ~ListShown =>
          \E s \in {"switching", "recreate", "error"} :
             Picture = [Blank EXCEPT !.shows = s]
BY DEF Picture, ListShown, PageShown

\* The page on the screen is that part of the list.
LEMMA PageIsThere ==
    ASSUME RowsInv, WindowTyped
    PROVE  /\ PageShown \in Seq(Clip)
           /\ \A k \in DOMAIN PageShown :
                 /\ k \in Nat \ {0} /\ view.top + k \in DOMAIN Shown
                 /\ PageShown[k] = Shown[view.top + k]
           /\ \A k \in 1 .. page : view.top + k <= Len(Shown) => k \in DOMAIN PageShown
<1>1. view.top \in Nat /\ page \in Nat
  BY AllIsAFilter DEF WindowTyped, Views
<1>2. /\ Shown \in Seq(Clip) /\ Len(Shown) \in Nat /\ DOMAIN Shown = 1 .. Len(Shown)
  BY RowsAreShown DEF ShownIsRight
<1> DEFINE m == view.top + 1
           n == Least(view.top + page, Len(Shown))
<1>3. m \in Int /\ n \in Int /\ n <= Len(Shown) /\ n <= view.top + page
      /\ (n = view.top + page \/ n = Len(Shown)) /\ m >= 1
  BY <1>1, <1>2 DEF Least
<1>4. PageShown = SubSeq(Shown, m, n)
  BY DEF PageShown
<1>5. m - 1 = view.top
  BY <1>1
<1> HIDE DEF m, n
<1>6. \A i \in m .. n : i \in DOMAIN Shown /\ Shown[i] \in Clip
  <2>1. \A i \in DOMAIN Shown : Shown[i] \in Clip
    BY <1>2
  <2>2. \A i \in m .. n : i \in 1 .. Len(Shown)
    <3> SUFFICES ASSUME NEW i \in m .. n PROVE i \in 1 .. Len(Shown)
      OBVIOUS
    <3>1. i \in Int /\ m <= i /\ i <= n
      BY <1>3
    <3>2. i >= 1
      BY <1>3, <3>1
    <3>3. i <= Len(Shown)
      <4>1. Len(Shown) \in Int
        BY <1>2
      <4>2. n \in Int /\ n <= Len(Shown)
        BY <1>3
      <4>3. QED
        BY <3>1, <4>1, <4>2
    <3>4. QED
      BY <1>2, <3>1, <3>2, <3>3
  <2>3. QED
    BY <1>2, <2>1, <2>2
<1>7. /\ PageShown \in Seq(Clip)
      /\ Len(PageShown) = IF m <= n THEN n - m + 1 ELSE 0
      /\ \A i \in 1 .. n - m + 1 : PageShown[i] = Shown[m + i - 1]
  BY <1>3, <1>4, <1>6, SubSeqProperties
<1>8. DOMAIN PageShown = 1 .. Len(PageShown) /\ DOMAIN PageShown = 1 .. n - m + 1
  BY <1>3, <1>7
<1>9. ASSUME NEW k \in DOMAIN PageShown
      PROVE  /\ k \in Nat \ {0} /\ view.top + k \in DOMAIN Shown
             /\ PageShown[k] = Shown[view.top + k]
  <2>1. k \in 1 .. n - m + 1
    BY <1>8
  <2>2. m + k - 1 = view.top + k /\ m + k - 1 \in m .. n
    BY <1>1, <1>3, <1>5, <2>1
  <2>3. QED
    BY <1>6, <1>7, <2>1, <2>2
<1>10. ASSUME NEW k \in 1 .. page, view.top + k <= Len(Shown)
       PROVE  k \in DOMAIN PageShown
  <2>1. k \in Nat /\ k >= 1 /\ view.top + k <= n
    <3>1. k \in Nat /\ k >= 1 /\ k <= page
      BY <1>1
    <3>2. view.top + k <= view.top + page
      BY <1>1, <3>1
    <3>3. view.top + k <= Len(Shown)
      BY <1>10
    <3>4. n = view.top + page \/ n = Len(Shown)
      BY <1>3
    <3>5. QED
      BY <3>1, <3>2, <3>3, <3>4
  <2>2. k <= n - m + 1
    BY <1>1, <1>3, <1>5, <2>1
  <2>3. k \in 1 .. n - m + 1
    BY <1>3, <2>1, <2>2
  <2>4. QED
    BY <1>8, <2>3
<1>11. QED
  BY <1>7, <1>9, <1>10

LEMMA TargetTyped ==
    ASSUME RowsInv, WindowTyped, NEW p \in Points \cup {Outside}
    PROVE  /\ HotTarget(p) \in Hits
           /\ HotTarget(Outside) = NoHit
<1>1. HotTarget(p) \in Hits
  <2>1. CASE RowHit(p) = NoRow
    BY <2>1, BlankTyped DEF HotTarget
  <2>2. CASE RowHit(p) # NoRow
    <3>1. RowHit(p) \in Nat /\ p.zone \in Zones
      BY <2>2, DrawnIsThere
    <3>2. HotTarget(p) = [pos |-> RowHit(p), zone |-> p.zone]
      BY <2>2 DEF HotTarget
    <3>3. QED
      BY <3>1, <3>2 DEF Hits
  <2>3. QED
    BY <2>1, <2>2
<1>2. HotTarget(Outside) = NoHit
  <2>1. Outside \in Points \cup {Outside} /\ Outside.zone \notin Zones
    BY DEF Outside, Zones
  <2>2. DrawnRowAt(Outside) = NoRow
    BY <2>1, DrawnIsThere
  <2>3. QED
    BY <2>2 DEF HotTarget, RowHit
<1>3. QED
  BY <1>1, <1>2

LEMMA PictureTyped ==
    ASSUME RowsInv, WindowTyped, MouseTyped
    PROVE  Picture \in Screens
<1>1. CASE ListShown
  <2>1. PageShown \in Seq(Clip) /\ SelectedClip \in Nat /\ HotTarget(mouse) \in Hits
    BY PageIsThere, SelectedIsThere, TargetTyped DEF MouseTyped
  <2>2. QED
    BY <1>1, <2>1, PictureParts DEF Screens
<1>2. CASE ~ListShown
  BY <1>2, PictureParts, BlankTyped
<1>3. QED
  BY <1>1, <1>2

\* What the user sees at a point of a true screen is the clip of that row.
LEMMA SeenIsShown ==
    ASSUME RowsInv, WindowTyped, NEW p \in Points \cup {Outside}, screen = Picture,
           SeenAt(p) # 0
    PROVE  /\ ListShown /\ p.slot \in Nat
           /\ view.top + p.slot < Len(Shown)
           /\ Shown[view.top + p.slot + 1].id = SeenAt(p)
<1>1. p.slot + 1 \in DOMAIN screen.page /\ SeenAt(p) = screen.page[p.slot + 1].id
  BY DEF SeenAt
<1>2. ListShown
  <2>1. ~ListShown => screen.page = <<>>
    BY PictureParts DEF Blank
  <2>2. QED
    BY <1>1, <2>1
<1>3. screen.page = PageShown
  BY <1>2, PictureParts
<1>4. p.slot \in Int
  <2>1. CASE p \in [slot : Slots, zone : Zones]
    <3>1. p.slot \in Slots
      BY <2>1
    <3>2. Slots \subseteq Int
      BY AllIsAFilter DEF Slots
    <3>3. QED
      BY <3>1, <3>2
  <2>2. CASE p = OnStrip \/ p = Outside
    <3>1. p.slot = NoRow
      BY <2>2 DEF OnStrip, Outside
    <3>2. QED
      BY <3>1 DEF NoRow
  <2>3. QED
    BY <2>1, <2>2 DEF Points
<1> DEFINE k == p.slot + 1
<1>5. /\ k \in Nat \ {0} /\ view.top + k \in DOMAIN Shown
      /\ PageShown[k] = Shown[view.top + k]
  BY <1>1, <1>3, PageIsThere
<1>6. view.top \in Nat /\ Len(Shown) \in Nat /\ DOMAIN Shown = 1 .. Len(Shown)
  BY RowsAreShown DEF WindowTyped, Views, ShownIsRight
<1>7. p.slot \in Nat /\ view.top + k = view.top + p.slot + 1 /\ view.top + p.slot < Len(Shown)
  BY <1>4, <1>5, <1>6
<1>8. QED
  BY <1>1, <1>2, <1>3, <1>5, <1>7

LEMMA SelectedIsSeen ==
    ASSUME screen = Picture, screen.sel # 0
    PROVE  screen.sel = SelectedClip
BY PictureParts DEF Blank

SceneStays == UNCHANGED <<toggle, error, protected, rows, text, type, view, page>>

\* The picture depends on the mouse by the target alone.
LEMMA PictureStays ==
    ASSUME SceneStays
    PROVE  /\ mouse' = mouse => Picture' = Picture
           /\ \A p : HotTarget(p)' = HotTarget(p)
           /\ HotTarget(mouse') = HotTarget(mouse) => Picture' = Picture
<1>1. \A p : HotTarget(p)' = HotTarget(p)
  BY DEF SceneStays, HotTarget, RowHit, DrawnRowAt, Shown
<1>2. HotTarget(mouse)' = HotTarget(mouse')
  BY DEF SceneStays, HotTarget, RowHit, DrawnRowAt, Shown
<1>3. SelectedClip' = SelectedClip
  BY DEF SceneStays, SelectedClip, Shown
<1>4. HotTarget(mouse') = HotTarget(mouse) => Picture' = Picture
  BY <1>2, <1>3 DEF SceneStays, Picture, Shown
<1>5. QED
  BY <1>1, <1>4

ScreenMoves ==
    \/ HideWindow
    \/ Invalidate /\ open' = open
    \/ SceneStays /\ UNCHANGED <<mouse, open, picture>>

LEMMA ScreenMoved ==
    ASSUME WindowTyped, ScreenTyped, ScreenIsTrue, ScreenMoves
    PROVE  ScreenTyped' /\ ScreenIsTrue'
<1>1. CASE HideWindow
  <2>1. screen' = Blank /\ dirty' = FALSE /\ open' = FALSE
    BY <1>1 DEF HideWindow
  <2>2. QED
    BY <2>1, BlankTyped DEF ScreenTyped, ScreenIsTrue, Screens
<1>2. CASE Invalidate /\ open' = open
  <2>1. open \in BOOLEAN
    BY DEF WindowTyped
  <2>2. dirty' = open /\ screen' = Blank /\ open' = open
    BY <1>2, Zenon DEF Invalidate
  <2>3. QED
    BY <2>1, <2>2, BlankTyped DEF ScreenTyped, ScreenIsTrue, Screens
<1>3. CASE SceneStays /\ UNCHANGED <<mouse, open, picture>>
  <2>1. Picture' = Picture
    BY <1>3, PictureStays
  <2>2. UNCHANGED <<open, screen, dirty>>
    BY <1>3 DEF picture
  <2>3. ScreenTyped'
    BY <2>2 DEF ScreenTyped
  <2>4. ScreenIsTrue'
    BY <2>1, <2>2 DEF ScreenIsTrue
  <2>5. QED
    BY <2>3, <2>4
<1>4. QED
  BY <1>1, <1>2, <1>3 DEF ScreenMoves

LEMMA PinOnScreen ==
    ASSUME NEW row, NEW pin, NEW follow, TogglePin(row, pin, follow),
           UNCHANGED <<toggle, protected, filters, page, mouse, open>>
    PROVE  ScreenMoves
BY DEF TogglePin, ScreenMoves, SceneStays, filters

LEMMA DeletionOnScreen ==
    ASSUME NEW row, DeleteOne(row), open' = open
    PROVE  ScreenMoves
BY DEF DeleteOne, ScreenMoves

LEMMA PasteOnScreen ==
    ASSUME NEW id, Confirm(id),
           UNCHANGED <<toggle, protected, rows, error, view, page>>
    PROVE  ScreenMoves
BY DEF Confirm, ScreenMoves, SceneStays, pointer, filters

LEMMA ScreenStep ==
    ASSUME RowsInv, SwitchInv, WindowTyped, MouseTyped, ScreenTyped, ScreenIsTrue, Next
    PROVE  ScreenTyped' /\ ScreenIsTrue'
<1>1. CASE Copied
  BY <1>1, ScreenMoved DEF Copied, Background, ScreenMoves, SceneStays, list, filters, pointer, picture
<1>2. CASE WorkerSwitches
  <2>1. toggle # "none" /\ toggle' = toggle
    BY <1>2 DEF WorkerSwitches, Background, SwitchInv
  <2>2. Picture' = Picture
    BY <2>1 DEF Picture
  <2>3. UNCHANGED <<open, screen, dirty>>
    BY <1>2 DEF WorkerSwitches, Background, picture
  <2>4. QED
    BY <2>2, <2>3 DEF ScreenTyped, ScreenIsTrue
<1>3. CASE \E c \in store : Purged(c)
  BY <1>3, ScreenMoved DEF Purged, Background, ScreenMoves, SceneStays, list, filters, pointer, picture
<1>4. CASE \E t \in {"", "typed"} : TypeText(t)
  BY <1>4, ScreenMoved DEF TypeText, Refilter, Unmoved, data, ScreenMoves, SceneStays, list, filters, pointer, picture
<1>5. CASE PressEsc
  BY <1>5, ScreenMoved DEF PressEsc, data, ScreenMoves, SceneStays, list, filters, pointer, picture
<1>6. CASE PressTab
  BY <1>6, ScreenMoved DEF PressTab, Refilter, Unmoved, data, ScreenMoves, SceneStays, list, filters, pointer, picture
<1>7. CASE PressEnter
  BY <1>7, PasteOnScreen, ScreenMoved DEF PressEnter, data, list
<1>8. CASE PressCtrlP
  BY <1>8, PinOnScreen, ScreenMoved DEF PressCtrlP, pointer
<1>9. CASE \E forward \in BOOLEAN : PressArrow(forward)
  BY <1>9, ScreenMoved DEF PressArrow, Refilter, Unmoved, data, ScreenMoves, SceneStays, list, filters, pointer, picture
<1>10. CASE \E key \in NavKeys : Navigate(key)
  BY <1>10, ScreenMoved DEF Navigate, Refilter, Unmoved, data, ScreenMoves, SceneStays, list, filters, pointer, picture
<1>11. CASE \E p \in Points : MouseMoves(p)
  <2>1. PICK p \in Points : MouseMoves(p)
    BY <1>11
  <2>2. SceneStays /\ open' = open /\ mouse' = p /\ screen = Picture
    BY <2>1 DEF MouseMoves, SceneStays, data, list, filters, Input, ScreenIsTrue
  <2>3. CASE Invalidate
    BY <2>2, <2>3, ScreenMoved DEF ScreenMoves
  <2>4. CASE HotTarget(p) = screen.hot /\ UNCHANGED picture
    <3>1. UNCHANGED <<open, screen, dirty>>
      BY <2>2, <2>4 DEF picture
    <3>2. Picture' = Picture
      <4>1. CASE ListShown
        <5>1. screen.hot = HotTarget(mouse)
          BY <2>2, <4>1, PictureParts
        <5>2. QED
          BY <2>2, <2>4, <5>1, PictureStays
      <4>2. CASE ~ListShown
        <5>1. ~ListShown'
          BY <2>2, <4>2 DEF SceneStays, ListShown
        <5>2. QED
          BY <2>2, <4>2, <5>1 DEF SceneStays, ListShown, Picture
      <4>3. QED
        BY <4>1, <4>2
    <3>3. QED
      BY <3>1, <3>2 DEF ScreenTyped, ScreenIsTrue
  <2>5. QED
    BY <2>1, <2>3, <2>4 DEF MouseMoves
<1>12. CASE \E lines \in {WheelLines, -WheelLines} : Wheel(lines)
  BY <1>12, ScreenMoved DEF Wheel, Refilter, Unmoved, data, ScreenMoves, SceneStays, list, filters, pointer, picture
<1>13. CASE MouseHovers
  BY <1>13, ScreenMoved DEF MouseHovers, data, ScreenMoves, SceneStays, list, filters, pointer, picture
<1>14. CASE MouseLeaves
  <2>1. SceneStays /\ open' = open /\ mouse' = Outside
    BY <1>14 DEF MouseLeaves, SceneStays, data, list, filters
  <2>2. CASE Invalidate
    BY <2>1, <2>2, ScreenMoved DEF ScreenMoves
  <2>3. CASE screen.hot = NoHit /\ UNCHANGED picture
    <3>1. UNCHANGED <<open, screen, dirty>>
      BY <2>1, <2>3 DEF picture
    <3>2. ASSUME open, ~dirty PROVE Picture' = Picture
      <4>1. screen = Picture
        BY <3>2 DEF ScreenIsTrue
      <4>2. CASE ListShown
        <5>1. HotTarget(mouse) = NoHit
          BY <2>3, <4>1, <4>2, PictureParts
        <5>2. HotTarget(mouse') = NoHit
          BY <2>1, TargetTyped DEF MouseTyped
        <5>3. QED
          BY <2>1, <5>1, <5>2, PictureStays
      <4>3. CASE ~ListShown
        BY <2>1, <4>3 DEF SceneStays, ListShown, Picture
      <4>4. QED
        BY <4>2, <4>3
    <3>3. ScreenTyped'
      BY <3>1 DEF ScreenTyped
    <3>4. ScreenIsTrue'
      BY <3>1, <3>2 DEF ScreenIsTrue
    <3>5. QED
      BY <3>3, <3>4
  <2>4. QED
    BY <1>14, <2>2, <2>3 DEF MouseLeaves
<1>15. CASE Click
  <2>1. UNCHANGED <<toggle, protected, open, page, mouse>>
    BY <1>15 DEF Click, pointer
  <2>2. CASE UNCHANGED filters /\ \E row : DeleteOne(row) \/ PinIcon(row)
    BY <2>1, <2>2, PinOnScreen, DeletionOnScreen, ScreenMoved DEF PinIcon
  <2>3. CASE Invalidate
    BY <2>1, <2>3, ScreenMoved DEF ScreenMoves
  <2>4. CASE UNCHANGED <<rows, error, text, type, view, picture>>
    BY <2>1, <2>4, ScreenMoved DEF ScreenMoves, SceneStays
  <2>5. QED
    BY <1>15, <2>2, <2>3, <2>4 DEF Click, SelectRow, Refilter
<1>16. CASE ClickBanner
  BY <1>16, ScreenMoved DEF ClickBanner, data, ScreenMoves, SceneStays, list, filters, pointer, picture
<1>17. CASE DoubleClick
  <2>1. UNCHANGED <<toggle, protected, page>>
    BY <1>17 DEF DoubleClick
  <2>2. CASE UNCHANGED <<rows, error, open, filters, view, pointer, picture>>
    BY <2>1, <2>2, ScreenMoved DEF ScreenMoves, SceneStays, filters, pointer
  <2>3. CASE /\ UNCHANGED <<open, filters, pointer>>
             /\ \E row : DeleteOne(row) \/ PinIcon(row)
    BY <2>1, <2>3, PinOnScreen, DeletionOnScreen, ScreenMoved DEF PinIcon, pointer
  <2>4. CASE UNCHANGED <<rows, error, view>> /\ \E id : Confirm(id)
    BY <2>1, <2>4, PasteOnScreen, ScreenMoved
  <2>5. QED
    BY <1>17, <2>2, <2>3, <2>4 DEF DoubleClick
<1>18. CASE RightClick
  BY <1>18, ScreenMoved DEF RightClick, SelectRow, data, ScreenMoves, SceneStays, list, filters, pointer, picture
<1>19. CASE MenuChosen
  <2>1. UNCHANGED <<toggle, protected, open, page, filters, mouse>>
    BY <1>19 DEF MenuChosen, pointer
  <2>2. CASE DeleteOne(menu.row) \/ TogglePin(menu.row, menu.pin, rows[menu.row].id)
    BY <2>1, <2>2, PinOnScreen, DeletionOnScreen, ScreenMoved
  <2>3. CASE UNCHANGED <<rows, error, view, picture>>
    BY <2>1, <2>3, ScreenMoved DEF ScreenMoves, SceneStays, filters
  <2>4. QED
    BY <1>19, <2>2, <2>3 DEF MenuChosen
<1>20. CASE DialogClosed
  BY <1>20, ScreenMoved DEF DialogClosed, data, ScreenMoves, SceneStays, list, filters, pointer, picture
<1>21. CASE \E b \in BOOLEAN : DeleteAllAnswered(b)
  BY <1>21, ScreenMoved DEF DeleteAllAnswered, ScreenMoves, SceneStays, list, filters, pointer, picture
<1>22. CASE \E b \in BOOLEAN : RecreateAnswered(b)
  BY <1>22, ScreenMoved DEF RecreateAnswered, ScreenMoves, SceneStays, list, filters, pointer, picture
<1>23. CASE LosesForeground
  BY <1>23, ScreenMoved DEF LosesForeground, data, ScreenMoves, SceneStays, list, filters, pointer, picture
<1>24. CASE HotkeyPressed
  <2>1. CASE HideWindow
    BY <2>1, ScreenMoved DEF ScreenMoves
  <2>2. CASE OpenWindow
    <3>1. dirty' = TRUE /\ screen' = screen
      BY <2>2, Zenon DEF OpenWindow
    <3>2. QED
      BY <3>1 DEF ScreenTyped, ScreenIsTrue
  <2>3. QED
    BY <1>24, <2>1, <2>2 DEF HotkeyPressed
<1>25. CASE ReloadAppearance
  BY <1>25, ScreenMoved DEF ReloadAppearance, data, ScreenMoves, SceneStays, list, filters, pointer, picture
<1>26. CASE Paint
  <2>1. screen' = Picture /\ SceneStays /\ UNCHANGED <<open, mouse>>
    BY <1>26 DEF Paint, SceneStays, data, list, filters, pointer
  <2>2. dirty' = FALSE
    BY <1>26, Zenon DEF Paint
  <2>3. Picture' = Picture
    BY <2>1, PictureStays
  <2>4. Picture \in Screens
    BY PictureTyped
  <2>5. QED
    BY <2>1, <2>2, <2>3, <2>4 DEF ScreenTyped, ScreenIsTrue, Screens
<1>27. CASE StartSwitch
  <2>1. UNCHANGED <<open, screen, dirty>> /\ ~open
    BY <1>27 DEF StartSwitch, picture
  <2>2. QED
    BY <2>1 DEF ScreenTyped, ScreenIsTrue
<1>28. CASE SwitchDone
  BY <1>28, ScreenMoved DEF SwitchDone, ScreenMoves
<1>29. QED
  BY <1>1, <1>2, <1>3, <1>4, <1>5, <1>6, <1>7, <1>8, <1>9, <1>10, <1>11,
     <1>12, <1>13, <1>14, <1>15, <1>16, <1>17, <1>18, <1>19, <1>20, <1>21,
     <1>22, <1>23, <1>24, <1>25, <1>26, <1>27, <1>28 DEF Next, Others,
     Keyboard, Mouse, Dialogs, Window

-----------------------------------------------------------------------------
(* A dialog and a click put the preview away.                               *)

LEMMA QuietDismissed == DismissHover => QuietInv'
BY DEF DismissHover, QuietInv

LEMMA QuietStill ==
    ASSUME hover = NoHover, popup = 0, DismissHover \/ UNCHANGED preview
    PROVE  QuietInv'
BY DEF DismissHover, preview, QuietInv

LEMMA QuietKept ==
    ASSUME QuietInv, DismissHover \/ UNCHANGED preview,
           dialog' # "none" => dialog # "none",
           clicked' = clicked \/ clicked' = NoClick
    PROVE  QuietInv'
BY DEF DismissHover, preview, QuietInv, NoClick

LEMMA QuietStep ==
    ASSUME RowsInv, WindowTyped, MouseTyped, QuietInv, Next
    PROVE  QuietInv'
<1>a. hover \in Hovers
  BY MouseParts
<1>1. CASE Copied
  BY <1>1, QuietKept DEF Copied, Background, modal
<1>2. CASE WorkerSwitches
  BY <1>2, QuietKept DEF WorkerSwitches, Background, modal
<1>3. CASE \E c \in store : Purged(c)
  BY <1>3, QuietKept DEF Purged, Background, modal
<1>4. CASE \E t \in {"", "typed"} : TypeText(t)
  BY <1>4, QuietDismissed DEF TypeText
<1>5. CASE PressEsc
  BY <1>5, QuietDismissed DEF PressEsc, HideWindow
<1>6. CASE PressTab
  BY <1>6, QuietDismissed DEF PressTab
<1>7. CASE PressEnter
  BY <1>7, QuietDismissed DEF PressEnter
<1>8. CASE PressCtrlP
  BY <1>8, QuietDismissed DEF PressCtrlP
<1>9. CASE \E forward \in BOOLEAN : PressArrow(forward)
  BY <1>9, QuietDismissed DEF PressArrow
<1>10. CASE \E key \in NavKeys : Navigate(key)
  BY <1>10, QuietDismissed DEF Navigate
<1>11. CASE \E p \in Points : MouseMoves(p)
  <2>1. dialog' = "none" /\ clicked' = NoClick
    BY <1>11 DEF MouseMoves, Input, Forget, modal
  <2>2. QED
    BY <2>1 DEF QuietInv, NoClick
<1>12. CASE \E lines \in {WheelLines, -WheelLines} : Wheel(lines)
  BY <1>12, QuietDismissed DEF Wheel
<1>13. CASE MouseHovers
  <2> DEFINE row == HoverRow(mouse)
             fires == ~hover.shown /\ row # NoRow /\ row = hover.row
             clip == Shown[row + 1]
  <2>1. hover' = Reported(fires, clip.cut)
    BY <1>13 DEF MouseHovers, Reported
  <2>2. popup' = (IF fires /\ clip.cut THEN clip.id ELSE popup)
    BY <1>13 DEF MouseHovers
  <2>3. UNCHANGED <<dialog, clicked>>
    BY <1>13 DEF MouseHovers, modal
  <2>4. hover = NoHover => ~fires
    BY DEF NoHover
  <2> HIDE DEF fires, clip
  <2>5. hover = NoHover => hover' = NoHover /\ popup' = popup
    BY <1>a, <2>1, <2>2, <2>4, ReportedTyped
  <2>6. QED
    BY <2>3, <2>5 DEF QuietInv
<1>14. CASE MouseLeaves
  BY <1>14, QuietDismissed DEF MouseLeaves
<1>15. CASE Click
  BY <1>15, QuietDismissed DEF Click
<1>16. CASE ClickBanner
  BY <1>16, QuietDismissed DEF ClickBanner
<1>17. CASE DoubleClick
  <2>1. hover = NoHover /\ popup = 0 /\ open
    BY <1>17 DEF DoubleClick, QuietInv
  <2>2. \A row : PreviewAfterPin(row) => DismissHover \/ UNCHANGED preview
    BY DEF PreviewAfterPin
  <2>3. \A id : Confirm(id) => DismissHover \/ open' = open
    BY DEF Confirm, HideWindow
  <2>4. DismissHover \/ UNCHANGED preview
    BY <1>17, <2>1, <2>2, <2>3 DEF DoubleClick
  <2>5. QED
    BY <2>1, <2>4, QuietStill
<1>18. CASE RightClick
  BY <1>18, QuietDismissed DEF RightClick
<1>19. CASE MenuChosen
  <2>1. hover = NoHover /\ popup = 0
    BY <1>19 DEF MenuChosen, QuietInv
  <2>2. \A row : PreviewAfterPin(row) => DismissHover \/ UNCHANGED preview
    BY DEF PreviewAfterPin
  <2>3. QED
    BY <1>19, <2>1, <2>2, QuietStill DEF MenuChosen
<1>20. CASE DialogClosed
  BY <1>20, QuietKept DEF DialogClosed, modal
<1>21. CASE \E b \in BOOLEAN : DeleteAllAnswered(b)
  <2>1. hover = NoHover /\ popup = 0
    BY <1>21 DEF DeleteAllAnswered, QuietInv
  <2>2. QED
    BY <1>21, <2>1, QuietStill DEF DeleteAllAnswered
<1>22. CASE \E b \in BOOLEAN : RecreateAnswered(b)
  BY <1>22, QuietKept DEF RecreateAnswered, ReopenAndRefresh
<1>23. CASE LosesForeground
  BY <1>23, QuietDismissed DEF LosesForeground, HideWindow
<1>24. CASE HotkeyPressed
  BY <1>24, QuietDismissed DEF HotkeyPressed, HideWindow, OpenWindow
<1>25. CASE ReloadAppearance
  BY <1>25, QuietDismissed DEF ReloadAppearance
<1>26. CASE Paint
  BY <1>26, QuietKept DEF Paint, modal
<1>27. CASE StartSwitch
  BY <1>27, QuietKept DEF StartSwitch, modal
<1>28. CASE SwitchDone
  BY <1>28, QuietKept DEF SwitchDone, ReopenAndRefresh, modal
<1>29. QED
  BY <1>1, <1>2, <1>3, <1>4, <1>5, <1>6, <1>7, <1>8, <1>9, <1>10, <1>11,
     <1>12, <1>13, <1>14, <1>15, <1>16, <1>17, <1>18, <1>19, <1>20, <1>21,
     <1>22, <1>23, <1>24, <1>25, <1>26, <1>27, <1>28 DEF Next, Others,
     Keyboard, Mouse, Dialogs, Window

-----------------------------------------------------------------------------
(* The preview is that of its row.                                          *)

LEMMA PreviewGone ==
    ASSUME DismissHover \/ (popup = 0 /\ UNCHANGED preview)
    PROVE  PreviewIsHonest'
BY DEF DismissHover, preview, PreviewIsHonest

LEMMA PreviewKept ==
    ASSUME PreviewIsHonest,
           UNCHANGED <<preview, open, toggle, error, rows, text, type, view, page>>
    PROVE  PreviewIsHonest'
BY DEF preview, PreviewIsHonest, Shown

LEMMA PreviewStep ==
    ASSUME RowsInv, SwitchInv, WindowTyped, MouseTyped, QuietInv, PreviewIsHonest, Next
    PROVE  PreviewIsHonest'
<1>a. hover \in Hovers
  BY MouseParts
<1>1. CASE Copied
  BY <1>1, PreviewKept DEF Copied, Background, list, filters
<1>2. CASE WorkerSwitches
  BY <1>2, PreviewKept DEF WorkerSwitches, Background, list, filters
<1>3. CASE \E c \in store : Purged(c)
  BY <1>3, PreviewKept DEF Purged, Background, list, filters
<1>4. CASE \E t \in {"", "typed"} : TypeText(t)
  BY <1>4, PreviewGone DEF TypeText
<1>5. CASE PressEsc
  BY <1>5, PreviewGone DEF PressEsc, HideWindow
<1>6. CASE PressTab
  BY <1>6, PreviewGone DEF PressTab
<1>7. CASE PressEnter
  BY <1>7, PreviewGone DEF PressEnter
<1>8. CASE PressCtrlP
  BY <1>8, PreviewGone DEF PressCtrlP
<1>9. CASE \E forward \in BOOLEAN : PressArrow(forward)
  BY <1>9, PreviewGone DEF PressArrow
<1>10. CASE \E key \in NavKeys : Navigate(key)
  BY <1>10, PreviewGone DEF Navigate
<1>11. CASE \E p \in Points : MouseMoves(p)
  <2>1. PICK p \in Points : MouseMoves(p)
    BY <1>11
  <2> DEFINE row == HoverRow(p)
             was == IF row = hover.row THEN hover ELSE [NoHover EXCEPT !.row = row]
             arm == row # NoRow /\ ~was.armed /\ ~was.fired
  <2>2. arm \in BOOLEAN
    OBVIOUS
  <2>3. row \in Nat \cup {NoRow}
    BY HoverRowTyped
  <2>4. hover' = Tracked(row, arm)
    BY <2>1 DEF MouseMoves, Tracked
  <2>5. popup' = IF row = hover.row THEN popup ELSE 0
    BY <2>1 DEF MouseMoves
  <2>6. UNCHANGED <<open, toggle, error, rows, text, type, view, page>>
    BY <2>1 DEF MouseMoves, list, filters
  <2> HIDE DEF row, arm
  <2>7. hover'.row = row /\ (row = hover.row => hover'.shown = hover.shown)
    BY <1>a, <2>2, <2>3, <2>4, TrackedTyped
  <2>8. CASE row = hover.row
    BY <2>5, <2>6, <2>7, <2>8 DEF PreviewIsHonest, Shown
  <2>9. CASE row # hover.row
    BY <2>5, <2>9 DEF PreviewIsHonest
  <2>10. QED
    BY <2>8, <2>9
<1>12. CASE \E lines \in {WheelLines, -WheelLines} : Wheel(lines)
  BY <1>12, PreviewGone DEF Wheel
<1>13. CASE MouseHovers
  <2> DEFINE row == HoverRow(mouse)
             fires == ~hover.shown /\ row # NoRow /\ row = hover.row
             clip == Shown[row + 1]
  <2>1. hover' = Reported(fires, clip.cut)
    BY <1>13 DEF MouseHovers, Reported
  <2>2. popup' = (IF fires /\ clip.cut THEN clip.id ELSE popup)
    BY <1>13 DEF MouseHovers
  <2>3. UNCHANGED <<open, toggle, error, rows, text, type, view, page>> /\ open
    BY <1>13 DEF MouseHovers, list, filters
  <2>4. Shown' = Shown
    BY <2>3 DEF Shown
  <2>5. /\ hover'.row = hover.row /\ (hover.shown => hover'.shown)
        /\ fires /\ clip.cut => hover'.shown
    <3> HIDE DEF fires, clip
    <3>1. QED
      BY <1>a, <2>1, ReportedTyped
  <2>6. CASE fires /\ clip.cut
    <3>1. popup' = Shown[row + 1].id /\ row # NoRow /\ hover'.shown /\ hover'.row = row
      BY <2>2, <2>5, <2>6
    <3>2. /\ error = "none" /\ toggle = "none" /\ row < Len(Shown)
          /\ row \in Nat /\ row >= view.top /\ row <= view.top + page - 1
      BY <3>1, HoverRowTyped DEF MouseTyped
    <3>3. row \in view.top .. view.top + page - 1
      <4>1. view.top \in Nat /\ page \in Nat
        BY AllIsAFilter DEF WindowTyped, Views
      <4> HIDE DEF row
      <4>2. QED
        BY <3>2, <4>1
    <3> HIDE DEF row
    <3>4. QED
      BY <2>3, <2>4, <3>1, <3>2, <3>3 DEF PreviewIsHonest
  <2>7. CASE ~ (fires /\ clip.cut)
    <3>1. popup' = popup
      BY <2>2, <2>7
    <3>2. hover'.row = hover.row /\ (hover.shown => hover'.shown)
      BY <2>5
    <3>3. QED
      BY <2>3, <2>4, <3>1, <3>2 DEF PreviewIsHonest
  <2>8. QED
    BY <2>6, <2>7
<1>14. CASE MouseLeaves
  BY <1>14, PreviewGone DEF MouseLeaves
<1>15. CASE Click
  BY <1>15, PreviewGone DEF Click
<1>16. CASE ClickBanner
  BY <1>16, PreviewGone DEF ClickBanner
<1>17. CASE DoubleClick
  <2>1. popup = 0 /\ open
    BY <1>17 DEF DoubleClick, QuietInv
  <2>2. \A row : PreviewAfterPin(row) => DismissHover \/ UNCHANGED preview
    BY DEF PreviewAfterPin
  <2>3. \A id : Confirm(id) => DismissHover \/ open' = open
    BY DEF Confirm, HideWindow
  <2>4. DismissHover \/ UNCHANGED preview
    BY <1>17, <2>1, <2>2, <2>3 DEF DoubleClick
  <2>5. QED
    BY <2>1, <2>4, PreviewGone
<1>18. CASE RightClick
  BY <1>18, PreviewGone DEF RightClick
<1>19. CASE MenuChosen
  <2>1. popup = 0
    BY <1>19 DEF MenuChosen, QuietInv
  <2>2. \A row : PreviewAfterPin(row) => DismissHover \/ UNCHANGED preview
    BY DEF PreviewAfterPin
  <2>3. QED
    BY <1>19, <2>1, <2>2, PreviewGone DEF MenuChosen
<1>20. CASE DialogClosed
  BY <1>20, PreviewKept DEF DialogClosed, list, filters
<1>21. CASE \E b \in BOOLEAN : DeleteAllAnswered(b)
  <2>1. popup = 0
    BY <1>21 DEF DeleteAllAnswered, QuietInv
  <2>2. QED
    BY <1>21, <2>1, PreviewGone DEF DeleteAllAnswered
<1>22. CASE \E b \in BOOLEAN : RecreateAnswered(b)
  <2>1. popup = 0
    BY <1>22 DEF RecreateAnswered, QuietInv
  <2>2. QED
    BY <1>22, <2>1, PreviewGone DEF RecreateAnswered, ReopenAndRefresh
<1>23. CASE LosesForeground
  BY <1>23, PreviewGone DEF LosesForeground, HideWindow
<1>24. CASE HotkeyPressed
  BY <1>24, PreviewGone DEF HotkeyPressed, HideWindow, OpenWindow
<1>25. CASE ReloadAppearance
  BY <1>25, PreviewGone DEF ReloadAppearance
<1>26. CASE Paint
  BY <1>26, PreviewKept DEF Paint, list, filters
<1>27. CASE StartSwitch
  BY <1>27, PreviewGone DEF StartSwitch, PreviewIsHonest
<1>28. CASE SwitchDone
  <2>1. popup = 0
    BY <1>28 DEF SwitchDone, SwitchInv, PreviewIsHonest
  <2>2. QED
    BY <1>28, <2>1, PreviewGone DEF SwitchDone, ReopenAndRefresh
<1>29. QED
  BY <1>1, <1>2, <1>3, <1>4, <1>5, <1>6, <1>7, <1>8, <1>9, <1>10, <1>11,
     <1>12, <1>13, <1>14, <1>15, <1>16, <1>17, <1>18, <1>19, <1>20, <1>21,
     <1>22, <1>23, <1>24, <1>25, <1>26, <1>27, <1>28 DEF Next, Others,
     Keyboard, Mouse, Dialogs, Window

-----------------------------------------------------------------------------
(* The click that may become double, and the menu.                          *)

Clicks == [at : Points \cup {Outside}, aim : Nat]

Menus == [row : Nat, pin : BOOLEAN, aim : Nat]

GestureTyped == guard \in BOOLEAN /\ clicked \in Clicks /\ menu \in Menus

GestureInv == GestureTyped /\ ClickInv /\ MenuInv

LEMMA NothingTyped == NoClick \in Clicks /\ NoMenu \in Menus /\ NoClick.aim = 0
BY DEF NoClick, NoMenu, Clicks, Menus

LEMMA SeenTyped ==
    ASSUME ScreenTyped, NEW p
    PROVE  SeenAt(p) \in Nat
<1>1. CASE p.slot + 1 \in DOMAIN screen.page
  <2>1. screen.page[p.slot + 1] \in Clip
    BY <1>1 DEF ScreenTyped
  <2>2. QED
    BY <1>1, <2>1, ClipTyped DEF SeenAt
<1>2. CASE p.slot + 1 \notin DOMAIN screen.page
  BY <1>2 DEF SeenAt
<1>3. QED
  BY <1>1, <1>2

\* Nothing the invariant speaks of has changed.
LEMMA GestureKept ==
    ASSUME GestureInv, UNCHANGED <<clicked, guard, menu, dialog, open>>,
           UNCHANGED <<toggle, error, rows, text, type, view>>
    PROVE  GestureInv'
BY DEF GestureInv, GestureTyped, ClickInv, MenuInv, Shown

\* No click is remembered and no menu is open.
LEMMA GestureForgotten ==
    ASSUME GestureInv, clicked' = NoClick, guard' \in BOOLEAN, menu' \in {menu, NoMenu},
           dialog' # "menu"
    PROVE  GestureInv'
BY NothingTyped DEF GestureInv, GestureTyped, ClickInv, MenuInv

LEMMA GestureHidden ==
    ASSUME GestureInv, HideWindow, guard' = guard
    PROVE  GestureInv'
<1>1. guard \in BOOLEAN /\ dialog' # "menu"
  BY DEF GestureInv, GestureTyped, HideWindow
<1>2. QED
  BY <1>1, GestureForgotten DEF HideWindow, Forget

LEMMA GuardTyped == \A zone : GuardAfterDown(zone) \in BOOLEAN
<1> SUFFICES ASSUME NEW zone PROVE GuardAfterDown(zone) \in BOOLEAN
  OBVIOUS
<1>1. (zone # "body") \in BOOLEAN
  OBVIOUS
<1>2. QED
  BY <1>1 DEF GuardAfterDown

LEMMA GestureStep ==
    ASSUME RowsInv, RowsInv', SwitchInv, WindowTyped, MouseTyped, ScreenTyped,
           ScreenIsTrue, GestureInv, Next
    PROVE  GestureInv'
<1>a. guard \in BOOLEAN /\ clicked \in Clicks /\ menu \in Menus
  BY DEF GestureInv, GestureTyped
<1>b. mouse \in Points \cup {Outside}
  BY DEF MouseTyped
<1>c. ~open => clicked = NoClick /\ dialog # "menu"
  BY DEF GestureInv, ClickInv
<1>d. dialog \in {"menu", "delete_all", "delete_some", "recreate"} => clicked = NoClick
  BY DEF GestureInv, ClickInv
<1>1. CASE Copied
  BY <1>1, GestureKept DEF Copied, Background, list, filters, modal
<1>2. CASE WorkerSwitches
  BY <1>2, GestureKept DEF WorkerSwitches, Background, list, filters, modal
<1>3. CASE \E c \in store : Purged(c)
  BY <1>3, GestureKept DEF Purged, Background, list, filters, modal
<1>4. CASE \E t \in {"", "typed"} : TypeText(t)
  BY <1>4, <1>a, GestureForgotten DEF TypeText, Unmoved, Input, Forget, modal
<1>5. CASE PressEsc
  BY <1>5, GestureHidden DEF PressEsc
<1>6. CASE PressTab
  BY <1>6, <1>a, GestureForgotten DEF PressTab, Unmoved, Input, Forget, modal
<1>7. CASE PressEnter
  <2>1. CASE HideWindow
    BY <1>7, <2>1, GestureHidden DEF PressEnter
  <2>2. CASE UNCHANGED modal
    BY <1>7, <1>a, <2>2, GestureForgotten DEF PressEnter, Input, Forget, modal
  <2>3. QED
    BY <1>7, <2>1, <2>2 DEF PressEnter, Confirm
<1>8. CASE PressCtrlP
  BY <1>8, <1>a, GestureForgotten DEF PressCtrlP, TogglePin, Input, Forget
<1>9. CASE \E forward \in BOOLEAN : PressArrow(forward)
  BY <1>9, <1>a, GestureForgotten DEF PressArrow, Unmoved, Input, Forget, modal
<1>10. CASE \E key \in NavKeys : Navigate(key)
  BY <1>10, <1>a, GestureForgotten DEF Navigate, Unmoved, Input, Forget, modal
<1>11. CASE \E p \in Points : MouseMoves(p)
  BY <1>11, <1>a, GestureForgotten DEF MouseMoves, Input, Forget, modal
<1>12. CASE \E lines \in {WheelLines, -WheelLines} : Wheel(lines)
  BY <1>12, <1>a, GestureForgotten DEF Wheel, Unmoved, Input, Forget, modal
<1>13. CASE MouseHovers
  BY <1>13, GestureKept DEF MouseHovers, list, filters, modal
<1>14. CASE MouseLeaves
  BY <1>14, GestureKept DEF MouseLeaves, list, filters, modal
<1>15. CASE Click
  <2> DEFINE pos == RowHit(mouse)
             zone == IF pos = NoRow THEN "body" ELSE mouse.zone
  <2>1. /\ open /\ dialog = "none" /\ ~dirty /\ error = "none"
        /\ clicked' = [at |-> mouse, aim |-> SeenAt(mouse)]
        /\ UNCHANGED <<open, toggle, menu>>
    BY <1>15 DEF Click, Input
  <2>2. guard' = GuardAfterDown(zone)
    BY <1>15, Zenon DEF Click
  <2>3. dialog' \in {"none", "message"}
    BY <1>15, <2>1 DEF Click, DeleteOne, PinIcon, TogglePin
  <2>4. clicked' \in Clicks /\ clicked'.at = mouse /\ clicked'.aim = SeenAt(mouse)
    BY <1>b, <2>1, SeenTyped DEF Clicks
  <2>5. screen = Picture
    BY <2>1 DEF ScreenIsTrue
  <2>6. ASSUME SeenAt(mouse) # 0
        PROVE  /\ toggle = "none" /\ mouse.slot \in Nat
               /\ view.top + mouse.slot < Len(Shown)
               /\ Shown[view.top + mouse.slot + 1].id = SeenAt(mouse)
    BY <1>b, <2>5, <2>6, SeenIsShown DEF ListShown
  <2>7. ASSUME SeenAt(mouse) # 0, ~guard'
        PROVE  /\ error' = "none" /\ view'.top = view.top /\ Shown' = Shown
    <3>1. mouse # OnStrip
      BY <2>6, <2>7 DEF OnStrip, NoRow
    <3>2. zone = "body"
      BY <2>2, <2>7, Zenon DEF GuardAfterDown
    <3>3. UNCHANGED <<rows, error, text, type>>
      BY <1>15, <3>1, <3>2 DEF Click
    <3>4. view' = view \/ view' = [view EXCEPT !.sel = DrawnRowAt(mouse)]
      BY <1>15, <3>1, <3>2 DEF Click, SelectRow
    <3>5. view \in Views
      BY DEF WindowTyped
    <3>6. QED
      BY <2>1, <3>3, <3>4, <3>5 DEF Views, Shown
  <2>8. ClickInv'
    BY <2>1, <2>3, <2>4, <2>6, <2>7 DEF ClickInv
  <2>9. MenuInv'
    BY <2>3 DEF MenuInv
  <2>10. guard' \in BOOLEAN
    BY <2>2, GuardTyped
  <2>11. QED
    BY <1>a, <2>1, <2>4, <2>8, <2>9, <2>10 DEF GestureInv, GestureTyped
<1>16. CASE ClickBanner
  <2>1. /\ open /\ dialog = "none" /\ ~dirty /\ error # "none"
        /\ UNCHANGED <<open, guard, menu>>
    BY <1>16 DEF ClickBanner, Input
  <2>2. CASE Forget /\ dialog' = "recreate"
    BY <1>a, <2>1, <2>2, GestureForgotten DEF Forget
  <2>3. CASE clicked' = [at |-> mouse, aim |-> SeenAt(mouse)] /\ UNCHANGED dialog
    <3>1. screen = Picture
      BY <2>1 DEF ScreenIsTrue
    <3>2. SeenAt(mouse) = 0
      BY <1>b, <2>1, <3>1, SeenIsShown DEF ListShown
    <3>3. clicked' \in Clicks /\ clicked'.aim = 0
      BY <1>b, <2>3, <3>2 DEF Clicks
    <3>4. ClickInv' /\ MenuInv'
      BY <2>1, <2>3, <3>3 DEF ClickInv, MenuInv
    <3>5. QED
      BY <1>a, <2>1, <3>3, <3>4 DEF GestureInv, GestureTyped
  <2>4. QED
    BY <1>16, <2>2, <2>3 DEF ClickBanner
<1>17. CASE DoubleClick
  <2>1. guard' \in BOOLEAN /\ dialog = "none"
    BY <1>17 DEF DoubleClick
  <2>2. CASE HideWindow
    BY <2>1, <2>2, GestureForgotten DEF HideWindow, Forget
  <2>3. CASE Forget /\ dialog' # "menu" /\ menu' = menu
    BY <2>1, <2>3, GestureForgotten DEF Forget
  <2>4. \A row : DeleteOne(row) \/ PinIcon(row) => dialog' # "menu"
    BY DEF DeleteOne, PinIcon, TogglePin
  <2>5. \A id : Confirm(id) => HideWindow \/ UNCHANGED modal
    BY DEF Confirm
  <2>6. QED
    BY <1>17, <2>1, <2>2, <2>3, <2>4, <2>5 DEF DoubleClick, modal
<1>18. CASE RightClick
  <2> DEFINE pos == DrawnRowAt(mouse)
  <2>1. /\ clicked' = NoClick /\ guard' = guard /\ open /\ open' = open
        /\ ~dirty /\ toggle = "none" /\ toggle' = toggle /\ rows' = rows
    BY <1>18 DEF RightClick, Input, Forget, list
  <2>2. ClickInv'
    BY <2>1, NothingTyped DEF ClickInv
  <2>3. CASE pos = NoRow
    <3>1. menu' = NoMenu
      BY <1>18, <2>3 DEF RightClick
    <3>2. MenuInv'
      BY <2>1, <3>1 DEF MenuInv, NoMenu
    <3>3. QED
      BY <1>a, <2>1, <2>2, <3>1, <3>2, NothingTyped DEF GestureInv, GestureTyped
  <2>4. CASE pos # NoRow
    <3>1. menu' = [row |-> RowAt(pos), pin |-> ~rows[RowAt(pos)].pinned, aim |-> SeenAt(mouse)]
      BY <1>18, <2>4 DEF RightClick
    <3>2. /\ pos = view.top + mouse.slot /\ pos \in Nat /\ pos < Len(Shown)
      BY <1>b, <2>4, DrawnIsThere
    <3> HIDE DEF pos
    <3>3. RowAt(pos) \in DOMAIN rows /\ rows[RowAt(pos)].id = Shown[pos + 1].id
      BY <3>2, RowIsThere
    <3>4. SeenAt(mouse) # 0 => Shown[pos + 1].id = SeenAt(mouse)
      <4>1. screen = Picture
        BY <2>1 DEF ScreenIsTrue
      <4>2. QED
        BY <1>b, <3>2, <4>1, SeenIsShown
    <3>5. menu' \in Menus /\ menu'.row = RowAt(pos) /\ menu'.aim = SeenAt(mouse)
      <4>1. RowAt(pos) \in Nat
        <5>1. DOMAIN rows \subseteq Nat
          BY DEF RowsInv
        <5>2. QED
          BY <3>3, <5>1
      <4>2. SeenAt(mouse) \in Nat
        BY SeenTyped
      <4>3. (~rows[RowAt(pos)].pinned) \in BOOLEAN
        OBVIOUS
      <4>4. PICK b \in BOOLEAN : b = (~rows[RowAt(pos)].pinned)
        BY <4>3
      <4>5. menu' = [row |-> RowAt(pos), pin |-> b, aim |-> SeenAt(mouse)]
        BY <3>1, <4>4
      <4>6. QED
        BY <4>1, <4>2, <4>5 DEF Menus
    <3>6. MenuInv'
      BY <2>1, <3>3, <3>4, <3>5 DEF MenuInv
    <3>7. QED
      BY <1>a, <2>1, <2>2, <3>5, <3>6, NothingTyped DEF GestureInv, GestureTyped
  <2>5. QED
    BY <2>3, <2>4
<1>19. CASE MenuChosen
  <2>1. dialog = "menu" /\ UNCHANGED <<clicked, guard>> /\ menu' = NoMenu
    BY <1>19 DEF MenuChosen
  <2>2. dialog' # "menu"
    BY <1>19 DEF MenuChosen, TogglePin, DeleteOne
  <2>3. QED
    BY <1>a, <1>d, <2>1, <2>2, GestureForgotten
<1>20. CASE DialogClosed
  <2>1. dialog' = "none"
    BY <1>20 DEF DialogClosed
  <2>2. UNCHANGED <<clicked, guard, menu, open, toggle, error, rows, text, type, view>>
    BY <1>20 DEF DialogClosed, list, filters
  <2>3. QED
    BY <2>1, <2>2 DEF GestureInv, GestureTyped, ClickInv, MenuInv, Shown
<1>21. CASE \E b \in BOOLEAN : DeleteAllAnswered(b)
  <2>1. PICK b \in BOOLEAN : DeleteAllAnswered(b)
    BY <1>21
  <2>2. dialog \in {"delete_all", "delete_some"} /\ dialog' \in {"none", "message"}
        /\ UNCHANGED <<clicked, guard, menu>>
    BY <2>1 DEF DeleteAllAnswered
  <2>3. QED
    BY <1>a, <1>d, <2>2, GestureForgotten
<1>22. CASE \E b \in BOOLEAN : RecreateAnswered(b)
  BY <1>22, <1>a, <1>d, GestureForgotten DEF RecreateAnswered
<1>23. CASE LosesForeground
  BY <1>23, GestureHidden DEF LosesForeground
<1>24. CASE HotkeyPressed
  <2>1. CASE HideWindow
    BY <1>24, <2>1, GestureHidden DEF HotkeyPressed
  <2>2. CASE ~open /\ UNCHANGED <<modal, clicked>>
    BY <1>24, <1>a, <1>c, <2>2, GestureForgotten DEF HotkeyPressed, modal
  <2>3. QED
    BY <1>24, <2>1, <2>2 DEF HotkeyPressed
<1>25. CASE ReloadAppearance
  BY <1>25, GestureKept DEF ReloadAppearance, list, filters, modal
<1>26. CASE Paint
  BY <1>26, GestureKept DEF Paint, list, filters, modal
<1>27. CASE StartSwitch
  BY <1>27, <1>a, <1>c, GestureForgotten DEF StartSwitch, modal
<1>28. CASE SwitchDone
  <2>1. toggle # "none" /\ UNCHANGED <<clicked, guard, menu, dialog, open>>
    BY <1>28 DEF SwitchDone, SwitchInv, modal
  <2>2. clicked.aim = 0 /\ dialog # "menu"
    BY <2>1 DEF GestureInv, ClickInv, MenuInv
  <2>3. QED
    BY <2>1, <2>2 DEF GestureInv, GestureTyped, ClickInv, MenuInv
<1>29. QED
  BY <1>1, <1>2, <1>3, <1>4, <1>5, <1>6, <1>7, <1>8, <1>9, <1>10, <1>11,
     <1>12, <1>13, <1>14, <1>15, <1>16, <1>17, <1>18, <1>19, <1>20, <1>21,
     <1>22, <1>23, <1>24, <1>25, <1>26, <1>27, <1>28 DEF Next, Others,
     Keyboard, Mouse, Dialogs, Window

-----------------------------------------------------------------------------
(* What is changed or pasted is what the user has pointed at.               *)

Acts == [on : Nat, aim : Nat]

ActedRight == acted \in Acts /\ ActsOnTheChosen

LEMMA IdleIsRight == Idle => ActedRight'
BY DEF Idle, NoAct, Acts, ActedRight, ActsOnTheChosen

\* An act on a clip the user was shown, or where nothing was painted.
LEMMA ActIsRight ==
    ASSUME NEW on \in Nat, NEW aim \in Nat, aim # 0 => on = aim,
           acted' = [on |-> on, aim |-> aim] \/ acted' = NoAct
    PROVE  ActedRight'
BY DEF NoAct, Acts, ActedRight, ActsOnTheChosen

LEMMA ActStep ==
    ASSUME RowsInv, WindowTyped, MouseTyped, ScreenTyped, ScreenIsTrue, GestureInv, Next
    PROVE  ActedRight'
<1>a. mouse \in Points \cup {Outside}
  BY DEF MouseTyped
<1>b. clicked \in Clicks /\ menu \in Menus /\ screen.sel \in Nat
  BY DEF GestureInv, GestureTyped, ScreenTyped
<1>c. \A i \in DOMAIN rows : rows[i].id \in Nat
  BY ClipTyped DEF RowsInv
<1>d. SelectedClip \in Nat
  BY SelectedIsThere
<1>e. Input => screen = Picture
  BY DEF Input, ScreenIsTrue
<1>f. ASSUME NEW pos, pos = DrawnRowAt(mouse), pos # NoRow
      PROVE  /\ rows[RowAt(pos)].id \in Nat
             /\ rows[RowAt(pos)].id = Shown[view.top + mouse.slot + 1].id
  <2>1. pos = view.top + mouse.slot /\ pos \in Nat /\ pos < Len(Shown)
    BY <1>a, <1>f, DrawnIsThere
  <2>2. RowAt(pos) \in DOMAIN rows /\ rows[RowAt(pos)].id = Shown[pos + 1].id
    BY <2>1, RowIsThere
  <2>3. QED
    BY <1>c, <2>1, <2>2
<1>1. CASE Copied
  BY <1>1, IdleIsRight DEF Copied
<1>2. CASE WorkerSwitches
  BY <1>2, IdleIsRight DEF WorkerSwitches
<1>3. CASE \E c \in store : Purged(c)
  BY <1>3, IdleIsRight DEF Purged
<1>4. CASE \E t \in {"", "typed"} : TypeText(t)
  BY <1>4, IdleIsRight DEF TypeText
<1>5. CASE PressEsc
  BY <1>5, IdleIsRight DEF PressEsc
<1>6. CASE PressTab
  BY <1>6, IdleIsRight DEF PressTab
<1>7. CASE PressEnter
  <2>1. acted' = [on |-> SelectedClip, aim |-> screen.sel] \/ acted' = NoAct
    BY <1>7 DEF PressEnter
  <2>2. screen.sel # 0 => SelectedClip = screen.sel
    BY <1>7, <1>e, SelectedIsSeen DEF PressEnter
  <2>3. QED
    BY <1>b, <1>d, <2>1, <2>2, ActIsRight
<1>8. CASE PressCtrlP
  <2>1. acted' = [on |-> SelectedClip, aim |-> screen.sel] \/ acted' = NoAct
    BY <1>8 DEF PressCtrlP
  <2>2. screen.sel # 0 => SelectedClip = screen.sel
    BY <1>8, <1>e, SelectedIsSeen DEF PressCtrlP
  <2>3. QED
    BY <1>b, <1>d, <2>1, <2>2, ActIsRight
<1>9. CASE \E forward \in BOOLEAN : PressArrow(forward)
  BY <1>9, IdleIsRight DEF PressArrow
<1>10. CASE \E key \in NavKeys : Navigate(key)
  BY <1>10, IdleIsRight DEF Navigate
<1>11. CASE \E p \in Points : MouseMoves(p)
  BY <1>11, IdleIsRight DEF MouseMoves
<1>12. CASE \E lines \in {WheelLines, -WheelLines} : Wheel(lines)
  BY <1>12, IdleIsRight DEF Wheel
<1>13. CASE MouseHovers
  BY <1>13, IdleIsRight DEF MouseHovers
<1>14. CASE MouseLeaves
  BY <1>14, IdleIsRight DEF MouseLeaves
<1>15. CASE Click
  <2> DEFINE pos == RowHit(mouse)
  <2>1. CASE Idle
    BY <2>1, IdleIsRight
  <2>2. CASE pos # NoRow /\ Act(RowAt(pos))
    <3>1. pos = DrawnRowAt(mouse)
      BY <1>a, <2>2, DrawnIsThere
    <3>2. /\ rows[RowAt(pos)].id \in Nat
          /\ rows[RowAt(pos)].id = Shown[view.top + mouse.slot + 1].id
      BY <1>f, <2>2, <3>1
    <3>3. SeenAt(mouse) \in Nat
      BY SeenTyped
    <3>4. SeenAt(mouse) # 0 => Shown[view.top + mouse.slot + 1].id = SeenAt(mouse)
      BY <1>15, <1>a, <1>e, SeenIsShown DEF Click
    <3>5. \/ acted' = [on |-> rows[RowAt(pos)].id, aim |-> SeenAt(mouse)]
          \/ acted' = NoAct
      BY <2>2 DEF Act
    <3> HIDE DEF pos
    <3>6. QED
      BY <3>2, <3>3, <3>4, <3>5, ActIsRight
  <2>3. QED
    BY <1>15, <2>1, <2>2 DEF Click
<1>16. CASE ClickBanner
  BY <1>16, IdleIsRight DEF ClickBanner
<1>17. CASE DoubleClick
  <2> DEFINE pos == RowHit(mouse)
             row == RowAt(IF pos = NoRow THEN DrawnRowAt(mouse) ELSE pos)
             id == rows[row].id
  <2>1. CASE Idle
    BY <2>1, IdleIsRight
  <2>2. CASE /\ ~guard /\ DrawnRowAt(mouse) # NoRow
             /\ acted' = [on |-> id, aim |-> clicked.aim] \/ acted' = NoAct
    <3>1. row = RowAt(DrawnRowAt(mouse))
      BY <1>a, DrawnIsThere
    <3>2. id \in Nat /\ id = Shown[view.top + mouse.slot + 1].id
      BY <1>f, <2>2, <3>1
    <3>3. clicked.aim \in Nat
      BY <1>b DEF Clicks
    <3>4. clicked.aim # 0 => Shown[view.top + mouse.slot + 1].id = clicked.aim
      BY <1>17, <2>2 DEF DoubleClick, GestureInv, ClickInv
    <3> HIDE DEF id
    <3>5. QED
      BY <2>2, <3>2, <3>3, <3>4, ActIsRight
  <2>3. pos # NoRow => DrawnRowAt(mouse) # NoRow
    BY <1>a, DrawnIsThere
  <2>4. QED
    BY <1>17, <2>1, <2>2, <2>3 DEF DoubleClick
<1>18. CASE RightClick
  BY <1>18, IdleIsRight DEF RightClick
<1>19. CASE MenuChosen
  <2>1. CASE Idle
    BY <2>1, IdleIsRight
  <2>2. CASE menu.row # 0 /\ MenuActs
    <3>1. dialog = "menu"
      BY <1>19 DEF MenuChosen
    <3>2. menu.row \in DOMAIN rows /\ (menu.aim # 0 => rows[menu.row].id = menu.aim)
      BY <2>2, <3>1 DEF GestureInv, MenuInv
    <3>3. menu.aim \in Nat
      BY <1>b DEF Menus
    <3>4. acted' = [on |-> rows[menu.row].id, aim |-> menu.aim] \/ acted' = NoAct
      BY <2>2 DEF MenuActs
    <3>5. QED
      BY <1>c, <3>2, <3>3, <3>4, ActIsRight
  <2>3. QED
    BY <1>19, <2>1, <2>2 DEF MenuChosen
<1>20. CASE DialogClosed
  BY <1>20, IdleIsRight DEF DialogClosed
<1>21. CASE \E b \in BOOLEAN : DeleteAllAnswered(b)
  BY <1>21, IdleIsRight DEF DeleteAllAnswered
<1>22. CASE \E b \in BOOLEAN : RecreateAnswered(b)
  BY <1>22, IdleIsRight DEF RecreateAnswered
<1>23. CASE LosesForeground
  BY <1>23, IdleIsRight DEF LosesForeground
<1>24. CASE HotkeyPressed
  BY <1>24, IdleIsRight DEF HotkeyPressed
<1>25. CASE ReloadAppearance
  BY <1>25, IdleIsRight DEF ReloadAppearance
<1>26. CASE Paint
  BY <1>26, IdleIsRight DEF Paint
<1>27. CASE StartSwitch
  BY <1>27, IdleIsRight DEF StartSwitch
<1>28. CASE SwitchDone
  BY <1>28, IdleIsRight DEF SwitchDone
<1>29. QED
  BY <1>1, <1>2, <1>3, <1>4, <1>5, <1>6, <1>7, <1>8, <1>9, <1>10, <1>11,
     <1>12, <1>13, <1>14, <1>15, <1>16, <1>17, <1>18, <1>19, <1>20, <1>21,
     <1>22, <1>23, <1>24, <1>25, <1>26, <1>27, <1>28 DEF Next, Others,
     Keyboard, Mouse, Dialogs, Window

-----------------------------------------------------------------------------
(* The selection stays with its clip.                                       *)

\* A clip that is still in the list is still visible: neither a pin nor a
\* deletion changes what the filters look at.
LEMMA StillVisible ==
    ASSUME StoreInv, RowsInv, WindowTyped, StoreInv', RowsInv', DataMoves,
           UNCHANGED filters, SelectedClip # 0,
           NEW i \in DOMAIN rows', rows'[i].id = SelectedClip,
           rows' = ListForDisplay(store') \/
              \E row \in DOMAIN rows, pin \in BOOLEAN :
                 rows' = [rows EXCEPT ![row].pinned = pin]
    PROVE  \E k \in DOMAIN Shown' : Shown'[k].id = SelectedClip
<1> DEFINE sel == Shown[view.sel + 1]
<1>1. view.sel + 1 \in DOMAIN Shown /\ sel.id = SelectedClip
  BY SelectedIsThere
<1>2. rows \in Seq(Clip) /\ Distinct(rows) /\ rows' \in Seq(Clip)
  BY DEF RowsInv
<1>3. PICK j \in DOMAIN rows : sel = rows[j] /\ Passes(rows[j], text, type)
  BY <1>1, <1>2, VisibleRowsPass DEF Shown
<1>4. Passes(rows'[i], text, type)
  <2>1. rows'[i].type = rows[j].type /\ rows'[i].matches = rows[j].matches
    <3>1. CASE rows' = ListForDisplay(store')
      <4>1. /\ store' \in SUBSET Clip /\ IsFiniteSet(store') /\ OneRowEach(store')
        BY DEF StoreInv
      <4>2. rows' \in Seq(store')
        BY <3>1, <4>1, ListIsComplete
      <4>3. rows'[i] \in store'
        BY <4>2
      <4>4. \/ rows'[i].id > NewestId
            \/ \E c \in store : Same(c, rows'[i])
        BY <4>3, StoreStep
      <4>5. rows[j].id <= NewestId /\ rows[j].id \in Nat /\ NewestId \in Nat
        BY <1>2, ClipTyped, StoreStep DEF RowsInv
      <4>6. PICK c \in store : Same(c, rows'[i])
        BY <1>1, <1>3, <4>4, <4>5
      <4>7. Agree(rows[j], c)
        BY DEF RowsInv
      <4>8. QED
        BY <1>1, <1>3, <4>6, <4>7 DEF Agree, Same
    <3>2. CASE \E row \in DOMAIN rows, pin \in BOOLEAN :
                  rows' = [rows EXCEPT ![row].pinned = pin]
      <4>1. PICK row \in DOMAIN rows, pin \in BOOLEAN :
               rows' = [rows EXCEPT ![row].pinned = pin]
        BY <3>2
      <4>2. i \in DOMAIN rows
        BY <4>1
      <4>3. rows[i] \in Clip
        BY <1>2, <4>2
      <4>4. Same(rows'[i], rows[i])
        <5>1. CASE i = row
          <6>1. rows'[i] = [rows[i] EXCEPT !.pinned = pin]
            BY <4>1, <4>2, <5>1
          <6>2. QED
            BY <4>3, <6>1, PinnedClip
        <5>2. CASE i # row
          <6>1. rows'[i] = rows[i]
            BY <4>1, <4>2, <5>2
          <6>2. QED
            BY <6>1 DEF Same
        <5>3. QED
          BY <5>1, <5>2
      <4>5. i = j
        BY <1>1, <1>2, <1>3, <4>2, <4>4 DEF Same, Distinct
      <4>6. QED
        BY <4>4, <4>5 DEF Same
    <3>3. QED
      BY <3>1, <3>2
  <2>2. QED
    BY <1>3, <2>1 DEF Passes, PassesType
<1>5. Shown' = VisibleRows(rows', text, type)
  BY DEF Shown, filters
<1>6. QED
  BY <1>2, <1>4, <1>5, VisibleRowsPass

LEMMA PositionKeepsSelection ==
    ASSUME RowsInv', NEW pos \in Nat, pos < Len(Shown'),
           NEW id, Shown'[pos + 1].id = id, view'.sel = pos
    PROVE  SelectedClip' = id
BY DEF SelectedClip

LEMMA SelectionStep ==
    ASSUME StoreInv, RowsInv, WindowTyped, MouseTyped, StoreInv', RowsInv',
           WindowTyped', DataMoves, Click, acted'.on # 0
    PROVE  \/ \A i \in DOMAIN rows' : rows'[i].id # SelectedClip
           \/ SelectedClip' = SelectedClip
<1> SUFFICES ASSUME NEW i \in DOMAIN rows', rows'[i].id = SelectedClip
             PROVE  SelectedClip' = SelectedClip
  OBVIOUS
<1> DEFINE pos == RowHit(mouse)
           row == RowAt(pos)
           vis == VisibleRows(rows', text, type)
           at == PositionOf(SelectedClip, vis)
<1>1. SelectedClip # 0
  <2>1. rows'[i] \in Clip
    BY DEF RowsInv
  <2>2. QED
    BY <2>1, ClipTyped
<1>2. /\ pos # NoRow /\ UNCHANGED filters /\ page' = page /\ store' # store
      /\ DeleteOne(row) \/ PinIcon(row)
  <2>1. ~Idle
    BY DEF Idle, NoAct
  <2>2. /\ pos # NoRow /\ UNCHANGED filters /\ page' = page /\ Act(row)
        /\ DeleteOne(row) \/ PinIcon(row)
    BY <2>1 DEF Click
  <2>3. store' # store
    BY <2>2 DEF Act, NoAct
  <2>4. QED
    BY <2>2, <2>3
<1>3. row \in DOMAIN rows
  <2>1. pos \in Nat /\ pos < Len(Shown)
    BY <1>2, DrawnIsThere DEF MouseTyped
  <2>2. QED
    BY <2>1, RowIsThere
<1>5. Shown' = vis /\ vis \in Seq(Clip) /\ Len(vis) \in Nat
  <2>1. Shown' = vis
    BY <1>2 DEF Shown, filters
  <2>2. rows' \in Seq(Clip)
    BY DEF RowsInv
  <2>3. vis \in Seq(Clip)
    BY <2>2, VisibleRowsPass
  <2>4. QED
    BY <2>1, <2>3
<1>6. /\ at \in Nat \cup {NoRow}
      /\ at # NoRow => at < Len(vis) /\ vis[at + 1].id = SelectedClip
      /\ at = NoRow => \A k \in DOMAIN vis : vis[k].id # SelectedClip
  BY <1>5, PositionIsThere
<1>7. view.sel \in Nat /\ view.top \in Nat /\ page \in Nat
  BY AllIsAFilter DEF WindowTyped, Views
<1>8. rows' # <<>>
  OBVIOUS
<1>9. ASSUME rows' = ListForDisplay(store') \/
             \E r \in DOMAIN rows, pin \in BOOLEAN :
                rows' = [rows EXCEPT ![r].pinned = pin]
      PROVE  at \in Nat /\ at < Len(vis) /\ vis[at + 1].id = SelectedClip
  <2>1. \E k \in DOMAIN vis : vis[k].id = SelectedClip
    BY <1>1, <1>2, <1>5, <1>9, StillVisible
  <2> HIDE DEF at
  <2>2. QED
    BY <1>6, <2>1
<1>10. CASE DeleteOne(row)
  <2>1. rows' = ListForDisplay(store')
    BY <1>8, <1>10 DEF DeleteOne, Read, ReadWell, ReadBadly
  <2>2. at \in Nat /\ at < Len(vis) /\ vis[at + 1].id = SelectedClip
    BY <1>9, <2>1
  <2>3. view' = ViewAfterRemoval(at, view.top, Len(vis), page)
    <3>1. view' = ViewAfterDelete(SelectedClip, view, vis, page)
      BY <1>10 DEF DeleteOne
    <3>2. at # NoRow
      BY <2>2 DEF NoRow
    <3>3. QED
      BY <3>1, <3>2 DEF ViewAfterDelete
  <2> HIDE DEF at, vis
  <2>4. view'.sel = at
    BY <1>5, <1>7, <2>2, <2>3 DEF ViewAfterRemoval, Least
  <2>5. QED
    BY <1>5, <2>2, <2>4, PositionKeepsSelection
<1>11. CASE PinIcon(row)
  <2> DEFINE hit == ById(rows[row].id)
  <2>1. /\ rows' = [rows EXCEPT ![row].pinned = ~rows[row].pinned]
        /\ view' = [sel |-> IF at = NoRow THEN 0 ELSE at,
                    top |-> ScrollTo(IF at = NoRow THEN 0 ELSE at, view.top, page)]
    BY <1>1, <1>2, <1>11 DEF PinIcon, TogglePin
  <2>2. (~rows[row].pinned) \in BOOLEAN
    OBVIOUS
  <2>3. at \in Nat /\ at < Len(vis) /\ vis[at + 1].id = SelectedClip
    BY <1>3, <1>9, <2>1, <2>2
  <2>4. at # NoRow
    BY <2>3 DEF NoRow
  <2> HIDE DEF at, vis
  <2>5. view'.sel = at
    BY <2>1, <2>4
  <2>6. QED
    BY <1>5, <2>3, <2>5, PositionKeepsSelection
<1>12. QED
  BY <1>2, <1>10, <1>11

-----------------------------------------------------------------------------
(* The theorems.                                                            *)

IInv ==
    /\ StoreInv /\ RowsInv
    /\ SwitchTyped /\ SwitchInv /\ WindowTyped /\ MouseTyped
    /\ ScreenTyped /\ ScreenIsTrue
    /\ GestureInv /\ QuietInv /\ PreviewIsHonest /\ ActedRight

LEMMA InitIsRight == Init => IInv
<1> SUFFICES ASSUME Init PROVE IInv
  OBVIOUS
<1>1. StoreInv
  <2>1. turns = 0 /\ store = FirstClips
    BY DEF Init
  <2>2. OneRowEach(store)
    BY <2>1, ViewAssumption DEF OneRowEach
  <2>3. Cardinality(FirstClips) \in Nat
    BY FirstAreClips, FS_CardinalityType
  <2>4. \A c \in store : c.id <= NewestId
    BY <2>1, <2>3, ViewAssumption DEF NewestId
  <2>5. QED
    BY <2>1, <2>2, <2>4, FirstAreClips DEF StoreInv
<1>2. RowsInv
  <2>1. rows = <<>>
    BY DEF Init
  <2>2. QED
    BY <2>1 DEF RowsInv, Distinct
<1>3. SwitchTyped /\ SwitchInv
  <2>1. protected \in BOOLEAN /\ reader \in BOOLEAN /\ wiped \in BOOLEAN
    BY Zenon DEF Init
  <2>2. switch = "none" /\ error = "none" /\ toggle = "none" /\ switches = 0
    BY DEF Init
  <2>3. QED
    BY <2>1, <2>2, FirstAreClips DEF SwitchTyped, SwitchInv
<1>4. WindowTyped
  BY AllIsAFilter, TopIsAView DEF Init, WindowTyped, Filters
<1>5. MouseTyped
  BY NoHoverTyped DEF Init, MouseTyped, Hovers
<1>6. ScreenTyped /\ ScreenIsTrue
  BY BlankTyped DEF Init, ScreenTyped, ScreenIsTrue, Screens
<1>7. GestureInv
  BY NothingTyped DEF Init, GestureInv, GestureTyped, ClickInv, MenuInv
<1>8. QuietInv /\ PreviewIsHonest
  BY DEF Init, QuietInv, PreviewIsHonest
<1>9. ActedRight
  BY DEF Init, NoAct, Acts, ActedRight, ActsOnTheChosen
<1>10. QED
  BY <1>1, <1>2, <1>3, <1>4, <1>5, <1>6, <1>7, <1>8, <1>9 DEF IInv

LEMMA StepIsRight == IInv /\ [Next]_vars => IInv'
<1> SUFFICES ASSUME IInv, [Next]_vars PROVE IInv'
  OBVIOUS
<1> USE DEF IInv
<1>1. CASE Next
  <2>1. ClickTyped
    BY DEF GestureInv, GestureTyped, ActedRight, ClickTyped, Clicks, Menus, Acts
  <2>2. MenuInv
    BY DEF GestureInv
  <2>3. DataMoves
    BY <1>1, <2>1, <2>2, EveryStepMovesData
  <2>4. StoreInv' /\ RowsInv'
    BY <2>3, StoreStep, RowsStep
  <2>5. SwitchTyped' /\ SwitchInv'
    BY <1>1, SwitchStep
  <2>6. WindowTyped'
    BY <1>1, <2>1, <2>4, WindowStep
  <2>7. MouseTyped'
    BY <1>1, <2>1, MouseStep
  <2>8. ScreenTyped' /\ ScreenIsTrue'
    BY <1>1, ScreenStep
  <2>9. GestureInv'
    BY <1>1, <2>4, GestureStep
  <2>10. QuietInv'
    BY <1>1, QuietStep
  <2>11. PreviewIsHonest'
    BY <1>1, PreviewStep
  <2>12. ActedRight'
    BY <1>1, ActStep
  <2>13. QED
    BY <2>4, <2>5, <2>6, <2>7, <2>8, <2>9, <2>10, <2>11, <2>12
<1>2. CASE UNCHANGED vars
  <2> USE DEF vars, data, list, filters, pointer, preview, modal, picture, counters
  <2>1. StoreInv' /\ RowsInv'
    BY <1>2 DEF StoreInv, RowsInv, NewestId, OneRowEach, Distinct, Agree
  <2>2. SwitchTyped' /\ SwitchInv'
    BY <1>2 DEF SwitchTyped, SwitchInv
  <2>3. WindowTyped'
    BY <1>2 DEF WindowTyped
  <2>4. MouseTyped'
    BY <1>2 DEF MouseTyped
  <2>5. ScreenTyped' /\ ScreenIsTrue'
    BY <1>2, ScreenMoved DEF ScreenMoves, SceneStays
  <2>6. GestureInv'
    BY <1>2, GestureKept
  <2>7. QuietInv'
    BY <1>2 DEF QuietInv
  <2>8. PreviewIsHonest'
    BY <1>2, PreviewKept
  <2>9. ActedRight'
    BY <1>2 DEF ActedRight, ActsOnTheChosen
  <2>10. QED
    BY <2>1, <2>2, <2>3, <2>4, <2>5, <2>6, <2>7, <2>8, <2>9
<1>3. QED
  BY <1>1, <1>2

LEMMA AlwaysRight == Spec => []IInv
BY InitIsRight, StepIsRight, PTL DEF Spec

\* The selection and the scroll are never negative, the rows are clips, and
\* every other variable keeps its type.
THEOREM TypeCorrect == Spec => []TypeOK
<1>1. IInv => TypeOK
  BY TypesTogether DEF IInv, GestureInv, GestureTyped, ActedRight, ClickTyped,
     Clicks, Menus, Acts
<1>2. QED
  BY <1>1, AlwaysRight, PTL

\* No handler forgets to invalidate what it has changed.
THEOREM TheScreenIsTrue == Spec => []ScreenIsTrue
<1>1. IInv => ScreenIsTrue
  BY DEF IInv
<1>2. QED
  BY <1>1, AlwaysRight, PTL

\* No preview outlives its row.
THEOREM NoPreviewIsLeft == Spec => []PreviewIsHonest
<1>1. IInv => PreviewIsHonest
  BY DEF IInv
<1>2. QED
  BY <1>1, AlwaysRight, PTL

\* No key, click, double click or menu changes or pastes a clip other than the
\* one the user was shown.
THEOREM OnlyTheChosen == Spec => []ActsOnTheChosen
<1>1. IInv => ActsOnTheChosen
  BY DEF IInv, ActedRight
<1>2. QED
  BY <1>1, AlwaysRight, PTL

\* A row deleted or pinned by its button leaves the selection on its clip.
THEOREM TheSelectionStays == Spec => SelectionStays
<1>1. IInv /\ IInv' /\ [Next]_vars =>
        [acted'.on # 0 /\ Click =>
            \/ \A i \in DOMAIN rows' : rows'[i].id # SelectedClip
            \/ SelectedClip' = SelectedClip]_vars
  <2> SUFFICES ASSUME IInv, IInv', Next, Click, acted'.on # 0
               PROVE  \/ \A i \in DOMAIN rows' : rows'[i].id # SelectedClip
                      \/ SelectedClip' = SelectedClip
    OBVIOUS
  <2>1. ClickTyped /\ MenuInv
    BY DEF IInv, GestureInv, GestureTyped, ActedRight, ClickTyped, Clicks, Menus, Acts
  <2>2. DataMoves
    BY <2>1, EveryStepMovesData DEF IInv
  <2>3. QED
    BY <2>2, SelectionStep DEF IInv
<1>2. QED
  BY <1>1, AlwaysRight, PTL DEF Spec, SelectionStays
====
