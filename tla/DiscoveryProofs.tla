--------------------------- MODULE DiscoveryProofs ---------------------------
(***************************************************************************)
(* Proofs about discovery, for any source, any site and any date window:   *)
(* what one pass collects is what the channels offer, each URL once, and   *)
(* below the limit nothing is missing (Complete, at the end).              *)
(*                                                                         *)
(* The lists are built by recursive functions over positions.  A fact      *)
(* about every position is proved by Upward: the positions at which it     *)
(* holds are a set that contains 0 and with every position the next.       *)
(***************************************************************************)
EXTENDS Discovery, FiniteSetTheorems, FunctionTheorems, SequenceTheorems, WellFoundedInduction, TLAPS

-----------------------------------------------------------------------------
(* Positions and recursion.                                                *)

LEMMA LeastNatural ==
  ASSUME NEW T \in SUBSET Nat, T # {}
  PROVE  \E m \in T : \A k \in T : m <= k
  <1> DEFINE R == OpToRel(<, Nat)
  <1>1. IsWellFoundedOn(R, Nat)
    BY NatLessThanWellFounded
  <1>2. \A x, y \in Nat : x < y => <<x, y>> \in R
    BY DEF OpToRel
  <1> HIDE DEF R
  <1>3. PICK m \in T : \A k \in T : ~ (<<k, m>> \in R)
    BY <1>1, WFMin
  <1>4. \A k \in T : ~(k < m) /\ k \in Nat /\ m \in Nat
    BY <1>2, <1>3
  <1>5. \A k \in T : m <= k
    BY <1>4
  <1> QED BY <1>5

LEMMA Upward ==
  ASSUME NEW N \in Nat, NEW G, 0 \in G,
         \A n \in 1..N : n - 1 \in G => n \in G
  PROVE  \A n \in 0..N : n \in G
  <1> SUFFICES ASSUME NEW x \in 0..N, x \notin G PROVE FALSE
    OBVIOUS
  <1> DEFINE T == {n \in 0..N : n \notin G}
  <1>1. T \in SUBSET Nat /\ T # {}
    OBVIOUS
  <1> HIDE DEF T
  <1>2. PICK m \in T : \A k \in T : m <= k
    BY <1>1, LeastNatural
  <1>3. m \in 1..N /\ m - 1 \in 0..N /\ m - 1 \notin T
    BY <1>1, <1>2 DEF T
  <1> QED BY <1>2, <1>3 DEF T

(* A function over positions that is computed from its previous value exists. *)
LEMMA RecursionExists ==
  ASSUME NEW S, NEW base \in S, NEW N \in Nat, NEW step \in [1..N -> [S -> S]]
  PROVE  \E f : f = [n \in 0..N |-> IF n = 0 THEN base ELSE step[n][f[n - 1]]] /\ f \in [0..N -> S]
  <1> DEFINE Is(f, m) == /\ f \in [0..m -> S]
                         /\ f[0] = base
                         /\ \A n \in 1..m : f[n] = step[n][f[n - 1]]
             G == {m \in 0..N : \E f : Is(f, m)}
  <1>1. 0 \in G
    <2> DEFINE g == [n \in 0..0 |-> base]
    <2>1. g \in [0..0 -> S] /\ g[0] = base
      OBVIOUS
    <2> HIDE DEF g
    <2>2. Is(g, 0)
      BY <2>1
    <2> QED BY <2>2
  <1>2. ASSUME NEW m \in 1..N, m - 1 \in G PROVE m \in G
    <2>1. PICK f : Is(f, m - 1)
      BY <1>2
    <2> DEFINE g == [n \in 0..m |-> IF n = m THEN step[m][f[m - 1]] ELSE f[n]]
    <2>2. m - 1 \in 0..(m - 1) /\ f[m - 1] \in S
      BY <2>1
    <2>3. step[m][f[m - 1]] \in S
      BY <2>2
    <2>4. g \in [0..m -> S]
      BY <2>1, <2>3
    <2>5. g[0] = base
      BY <2>1
    <2>6. \A n \in 1..m : g[n] = step[n][g[n - 1]]
      BY <2>1
    <2> HIDE DEF g
    <2>7. Is(g, m)
      BY <2>4, <2>5, <2>6
    <2> QED BY <2>7
  <1> HIDE DEF G
  <1>3. N \in G
    <2>1. \A m \in 1..N : m - 1 \in G => m \in G
      BY <1>2
    <2>2. \A n \in 0..N : n \in G
      BY <1>1, <2>1, Upward
    <2> QED BY <2>2
  <1>4. PICK f : Is(f, N)
    BY <1>3 DEF G
  <1>5. f = [n \in 0..N |-> IF n = 0 THEN base ELSE step[n][f[n - 1]]]
    BY <1>4
  <1> QED BY <1>4, <1>5

-----------------------------------------------------------------------------
(* Sizes.                                                                  *)

LEMMA MaxOfTwo ==
  ASSUME NEW a \in Nat, NEW b \in Nat
  PROVE  Max({a, b}) = IF a >= b THEN a ELSE b
  BY DEF Max

LEMMA MinOfTwo ==
  ASSUME NEW a \in Nat, NEW b \in Nat
  PROVE  Min({a, b}) = IF a <= b THEN a ELSE b
  BY DEF Min

LEMMA PositionsAreFinite ==
  ASSUME NEW s, NEW T, s \in Seq(T), NEW P \in SUBSET DOMAIN s
  PROVE  IsFiniteSet(P) /\ Cardinality(P) \in Nat /\ Cardinality(P) <= Len(s)
  <1>1. DOMAIN s = 1..Len(s) /\ Len(s) \in Nat
    BY LenProperties
  <1>2. IsFiniteSet(1..Len(s)) /\ Cardinality(1..Len(s)) = Len(s)
    <2>1. IsFiniteSet(1..Len(s)) /\ Cardinality(1..Len(s)) = IF 1 > Len(s) THEN 0 ELSE Len(s) - 1 + 1
      BY <1>1, FS_Interval
    <2> QED BY <1>1, <2>1
  <1>3. IsFiniteSet(P) /\ Cardinality(P) <= Cardinality(1..Len(s))
    BY <1>1, <1>2, FS_Subset
  <1> QED BY <1>2, <1>3, FS_CardinalityType

-----------------------------------------------------------------------------
(* Filtering and sorting.                                                  *)

(* g takes the places 1..n to the positions P, each once.                  *)
Enumerates(g, n, P) ==
    /\ g \in [1..n -> P]
    /\ \A k, l \in 1..n : g[k] = g[l] => k = l
    /\ \A i \in P : \E k \in 1..n : g[k] = i

(* Arranged has the element of every position in P once: a position is     *)
(* found by how many come before it, and no two agree in that.             *)
LEMMA ArrangedFacts ==
  ASSUME NEW s, NEW P, IsFiniteSet(P), NEW R,
         \A i, j, k \in P : <<i, j>> \in R /\ <<j, k>> \in R => <<i, k>> \in R,
         \A i \in P : <<i, i>> \notin R,
         \A i, j \in P : i # j => <<i, j>> \in R \/ <<j, i>> \in R
  PROVE  \E g : /\ Enumerates(g, Cardinality(P), P)
                /\ Arranged(s, P, R) = [k \in 1..Cardinality(P) |-> s[g[k]]]
  <1> DEFINE n == Cardinality(P)
             Before(i) == {j \in P : <<j, i>> \in R}
             rank == [i \in P |-> Cardinality(Before(i)) + 1]
             g == [k \in 1..n |-> CHOOSE i \in P : Cardinality(Before(i)) = k - 1]
  <1>1. n \in Nat
    BY FS_CardinalityType
  <1>2. ASSUME NEW i \in P PROVE Cardinality(Before(i)) \in 0..(n - 1) /\ IsFiniteSet(Before(i))
    <2>1. IsFiniteSet(P \ {i}) /\ Cardinality(P \ {i}) = n - 1
      BY FS_RemoveElement
    <2>2. Before(i) \in SUBSET (P \ {i})
      OBVIOUS
    <2> HIDE DEF Before, n
    <2>3. IsFiniteSet(Before(i)) /\ Cardinality(Before(i)) <= n - 1
      BY <2>1, <2>2, FS_Subset
    <2>4. Cardinality(Before(i)) \in Nat
      BY <2>3, FS_CardinalityType
    <2> QED BY <1>1, <2>3, <2>4
  <1>3. ASSUME NEW i \in P, NEW j \in P, <<i, j>> \in R
        PROVE  Cardinality(Before(i)) # Cardinality(Before(j))
    <2>1. Before(i) \in SUBSET Before(j)
      BY <1>3
    <2>2. i \in Before(j) /\ i \notin Before(i)
      BY <1>3
    <2>3. IsFiniteSet(Before(j))
      BY <1>2
    <2> HIDE DEF Before
    <2> QED BY <2>1, <2>2, <2>3, FS_Subset
  <1>4. \A i, j \in P : Cardinality(Before(i)) = Cardinality(Before(j)) => i = j
    <2>1. \A i, j \in P : <<i, j>> \in R => Cardinality(Before(i)) # Cardinality(Before(j))
      BY <1>3
    <2> HIDE DEF Before
    <2> QED BY <2>1
  <1> HIDE DEF Before, n
  <1>5. rank \in [P -> 1..n]
    BY <1>1, <1>2
  <1>6. \A i, j \in P : rank[i] = rank[j] => i = j
    <2>1. \A i \in P : rank[i] = Cardinality(Before(i)) + 1 /\ Cardinality(Before(i)) \in Int
      BY <1>2
    <2> HIDE DEF rank
    <2> QED BY <1>4, <2>1
  <1>7. rank \in Injection(P, 1..n)
    <2> HIDE DEF rank
    <2> QED BY <1>5, <1>6, Fun_IsInj
  <1>8. IsFiniteSet(1..n) /\ Cardinality(1..n) = n
    <2>1. IsFiniteSet(1..n) /\ Cardinality(1..n) = IF 1 > n THEN 0 ELSE n - 1 + 1
      BY <1>1, FS_Interval
    <2> QED BY <1>1, <2>1
  <1>9. rank \in Surjection(P, 1..n)
    <2> HIDE DEF rank
    <2> QED BY <1>7, <1>8, FS_Injection DEF n
  <1>10. \A k \in 1..n : \E i \in P : rank[i] = k
    <2> HIDE DEF rank
    <2> QED BY <1>9, Fun_SurjectionProperties
  <1>11. ASSUME NEW k \in 1..n PROVE g[k] \in P /\ Cardinality(Before(g[k])) = k - 1
    <2>1. PICK i \in P : rank[i] = k
      BY <1>10
    <2>2. Cardinality(Before(i)) = k - 1
      BY <1>2, <2>1
    <2> QED BY <2>2
  <1>12. g \in [1..n -> P]
    BY <1>11
  <1>13. \A k, l \in 1..n : g[k] = g[l] => k = l
    <2> SUFFICES ASSUME NEW k \in 1..n, NEW l \in 1..n, g[k] = g[l] PROVE k = l
      OBVIOUS
    <2>1. k - 1 = l - 1
      BY <1>11
    <2> QED BY <2>1
  <1>14. ASSUME NEW i \in P PROVE \E k \in 1..n : g[k] = i
    <2>1. rank[i] \in 1..n /\ rank[i] - 1 = Cardinality(Before(i))
      BY <1>2, <1>5
    <2>2. Cardinality(Before(g[rank[i]])) = Cardinality(Before(i)) /\ g[rank[i]] \in P
      BY <1>11, <2>1
    <2>3. g[rank[i]] = i
      BY <1>4, <2>2
    <2> QED BY <2>1, <2>3
  <1>15. Arranged(s, P, R) = [k \in 1..n |-> s[g[k]]]
    BY DEF Arranged, n, Before
  <1> HIDE DEF g
  <1> QED BY <1>12, <1>13, <1>14, <1>15 DEF Enumerates, n

(* The positions of s whose element is in S.                               *)
Where(s, S) == {i \in DOMAIN s : s[i] \in S}

LEMMA SelectFacts ==
  ASSUME NEW T, NEW s \in Seq(T), NEW S
  PROVE  /\ Select(s, S) \in Seq(T)
         /\ Len(Select(s, S)) <= Len(s)
         /\ \E g : /\ Enumerates(g, Len(Select(s, S)), Where(s, S))
                   /\ \A k \in 1..Len(Select(s, S)) : Select(s, S)[k] = s[g[k]]
         /\ ToSet(Select(s, S)) = ToSet(s) \cap S
  <1> DEFINE P == {i \in DOMAIN s : s[i] \in S}
             R == {x \in P \X P : x[1] < x[2]}
             n == Cardinality(P)
             r == Select(s, S)
  <1>1. IsFiniteSet(P) /\ n \in Nat /\ n <= Len(s)
    BY PositionsAreFinite
  <1>2. \A i \in P : i \in Int
    BY LenProperties
  <1>3. \A i, j \in P : <<i, j>> \in R <=> i < j
    OBVIOUS
  <1>4. r = Arranged(s, P, R)
    BY DEF Select
  <1> HIDE DEF R, P, n
  <1>5. PICK g : Enumerates(g, n, P) /\ Arranged(s, P, R) = [k \in 1..n |-> s[g[k]]]
    <2>1. \A i, j, k \in P : <<i, j>> \in R /\ <<j, k>> \in R => <<i, k>> \in R
      BY <1>2, <1>3
    <2>2. \A i \in P : <<i, i>> \notin R
      BY <1>2, <1>3
    <2>3. \A i, j \in P : i # j => <<i, j>> \in R \/ <<j, i>> \in R
      BY <1>2, <1>3
    <2>4. \E g : /\ Enumerates(g, Cardinality(P), P)
                 /\ Arranged(s, P, R) = [k \in 1..Cardinality(P) |-> s[g[k]]]
      BY ONLY <1>1, <2>1, <2>2, <2>3, ArrangedFacts
    <2> QED BY <2>4 DEF n
  <1>6. r = [k \in 1..n |-> s[g[k]]]
    BY <1>4, <1>5
  <1>7. \A k \in 1..n : g[k] \in P /\ s[g[k]] \in T
    BY <1>5, ElementOfSeq, LenProperties DEF Enumerates, P
  <1> HIDE DEF r
  <1>8. r \in Seq(T) /\ Len(r) = n
    BY <1>1, <1>6, <1>7, IsASeq
  <1>9. ToSet(r) = ToSet(s) \cap S
    <2>1. ASSUME NEW k \in DOMAIN r PROVE r[k] \in ToSet(s) \cap S
      <3>1. k \in 1..n
        BY <1>6
      <3> QED BY <3>1, <1>6, <1>7 DEF ToSet, P
    <2>2. ASSUME NEW i \in DOMAIN s, s[i] \in S PROVE s[i] \in ToSet(r)
      <3>1. PICK k \in 1..n : g[k] = i
        BY <1>5, <2>2 DEF Enumerates, P
      <3> QED BY <3>1, <1>6 DEF ToSet
    <2> QED BY <2>1, <2>2 DEF ToSet
  <1>10. \A k \in 1..Len(r) : r[k] = s[g[k]]
    BY <1>6, <1>8
  <1> QED BY <1>1, <1>5, <1>8, <1>9, <1>10 DEF r, P, Where

-----------------------------------------------------------------------------
(* Concatenating.                                                          *)

LEMMA ConcatFacts ==
  ASSUME NEW T, NEW a \in Seq(T), NEW b \in Seq(T)
  PROVE  a \o b \in Seq(T) /\ ToSet(a \o b) = ToSet(a) \cup ToSet(b)
  <1>1. /\ a \o b \in Seq(T)
        /\ Len(a \o b) = Len(a) + Len(b)
        /\ \A i \in 1..(Len(a) + Len(b)) : (a \o b)[i] = IF i <= Len(a) THEN a[i] ELSE b[i - Len(a)]
    BY ConcatProperties
  <1>2. DOMAIN a = 1..Len(a) /\ DOMAIN b = 1..Len(b) /\ DOMAIN (a \o b) = 1..Len(a \o b)
        /\ Len(a) \in Nat /\ Len(b) \in Nat
    BY <1>1, LenProperties
  <1> DEFINE c == a \o b
  <1> HIDE DEF c
  <1>3. ASSUME NEW i \in DOMAIN c PROVE c[i] \in ToSet(a) \cup ToSet(b)
    <2>1. CASE i <= Len(a)
      BY <1>1, <1>2, <2>1 DEF c, ToSet
    <2>2. CASE i > Len(a)
      <3>1. i - Len(a) \in DOMAIN b /\ c[i] = b[i - Len(a)]
        BY <1>1, <1>2, <2>2 DEF c
      <3> QED BY <3>1 DEF ToSet
    <2> QED BY <1>2, <2>1, <2>2 DEF c
  <1>4. ASSUME NEW i \in DOMAIN a PROVE a[i] \in ToSet(c)
    <2>1. i \in DOMAIN c /\ c[i] = a[i]
      BY <1>1, <1>2 DEF c
    <2> QED BY <2>1 DEF ToSet
  <1>5. ASSUME NEW i \in DOMAIN b PROVE b[i] \in ToSet(c)
    <2>1. Len(a) + i \in DOMAIN c /\ c[Len(a) + i] = b[i]
      BY <1>1, <1>2 DEF c
    <2> QED BY <2>1 DEF ToSet
  <1>6. ToSet(c) = ToSet(a) \cup ToSet(b)
    BY <1>3, <1>4, <1>5 DEF ToSet
  <1> QED BY <1>1, <1>6 DEF c

LEMMA FlattenFacts ==
  ASSUME NEW T, NEW ss \in Seq(Seq(T))
  PROVE  /\ FlattenSeq(ss) \in Seq(T)
         /\ \A x : x \in ToSet(FlattenSeq(ss)) <=> \E i \in DOMAIN ss : x \in ToSet(ss[i])
  <1> DEFINE N == Len(ss)
             step == [n \in 1..N |-> [x \in Seq(T) |-> x \o ss[n]]]
             Is(f) == f = [i \in 1..N |-> IF i = 1 THEN ss[i] ELSE f[i - 1] \o ss[i]]
  <1>1. N \in Nat /\ DOMAIN ss = 1..N /\ \A i \in 1..N : ss[i] \in Seq(T)
    BY LenProperties, ElementOfSeq
  <1>2. CASE N = 0
    <2>1. ss = <<>> /\ FlattenSeq(ss) = <<>>
      BY <1>2, EmptySeq DEF FlattenSeq
    <2>2. <<>> \in Seq(T) /\ DOMAIN <<>> = {}
      OBVIOUS
    <2> QED BY <2>1, <2>2 DEF ToSet
  <1> HIDE DEF N
  <1>3. CASE N # 0
    <2>1. <<>> \in Seq(T) /\ step \in [1..N -> [Seq(T) -> Seq(T)]]
      <3>1. \A n \in 1..N : \A x \in Seq(T) : x \o ss[n] \in Seq(T)
        BY <1>1, ConcatFacts
      <3> QED BY <3>1
    <2> HIDE DEF step
    <2>2. PICK h : /\ h = [n \in 0..N |-> IF n = 0 THEN <<>> ELSE step[n][h[n - 1]]]
                   /\ h \in [0..N -> Seq(T)]
      BY <1>1, <2>1, RecursionExists
    <2>3. \A n \in 1..N : h[n] = h[n - 1] \o ss[n]
      <3> SUFFICES ASSUME NEW n \in 1..N PROVE h[n] = h[n - 1] \o ss[n]
        OBVIOUS
      <3>1. n \in 0..N /\ n - 1 \in 0..N /\ n # 0
        BY <1>1
      <3> USE <2>2
      <3>3. h[n - 1] \in Seq(T)
        BY <3>1
      <3>2. h[n] = step[n][h[n - 1]]
        BY <3>1
      <3> QED BY <3>1, <3>2, <3>3 DEF step
    <2>4. h[1] = ss[1]
      <3>1. h[0] = <<>> /\ h[1] = h[0] \o ss[1] /\ ss[1] \in Seq(T)
        <4>1. 0 \in 0..N /\ 1 \in 1..N /\ 1 - 1 = 0
          BY <1>1, <1>3
        <4> QED BY <1>1, <2>2, <2>3, <4>1
      <3> QED BY <3>1, ConcatEmptySeq
    <2> DEFINE e == [i \in 1..N |-> h[i]]
    <2>5. Is(e)
      <3>1. ASSUME NEW i \in 1..N PROVE e[i] = IF i = 1 THEN ss[i] ELSE e[i - 1] \o ss[i]
        <4>1. CASE i = 1
          BY <2>4, <4>1
        <4>2. CASE i # 1
          <5>1. i - 1 \in 1..N /\ e[i] = h[i] /\ e[i - 1] = h[i - 1]
            BY <1>1, <4>2
          <5> QED BY <2>3, <4>2, <5>1
        <4> QED BY <4>1, <4>2
      <3> HIDE DEF e
      <3>2. e = [i \in 1..N |-> e[i]]
        BY DEF e
      <3> QED BY <3>1, <3>2
    <2> DEFINE f == CHOOSE f : Is(f)
    <2> HIDE DEF e
    <2>6. Is(f)
      BY <2>5
    <2>7. FlattenSeq(ss) = f[N]
      BY <1>3 DEF FlattenSeq, N
    <2> HIDE DEF f
    <2>8. \A i \in 1..N : f[i] = IF i = 1 THEN ss[i] ELSE f[i - 1] \o ss[i]
      BY <2>6
    <2> DEFINE G == {n \in 0..N : n # 0 => /\ f[n] \in Seq(T)
                                           /\ ToSet(f[n]) = {x \in T : \E j \in 1..n : x \in ToSet(ss[j])}}
    <2>9. \A i \in 1..N : ToSet(ss[i]) \subseteq T
      BY <1>1, ElementOfSeq, LenProperties DEF ToSet
    <2>10. ASSUME NEW n \in 1..N, n - 1 \in G PROVE n \in G
      <3>1. CASE n = 1
        <4>1. f[n] = ss[1] /\ ss[1] \in Seq(T)
          BY <1>1, <2>8, <3>1
        <4>2. ToSet(ss[1]) = {x \in T : \E j \in 1..1 : x \in ToSet(ss[j])}
          BY <2>9, <3>1
        <4> QED BY <3>1, <4>1, <4>2
      <3>2. CASE n # 1
        <4>0. n - 1 \in 1..N /\ n - 1 # 0
          BY <1>1, <3>2
        <4>1. f[n] = f[n - 1] \o ss[n] /\ f[n - 1] \in Seq(T) /\ ss[n] \in Seq(T)
          BY <1>1, <2>8, <2>10, <3>2, <4>0
        <4>2. f[n] \in Seq(T) /\ ToSet(f[n]) = ToSet(f[n - 1]) \cup ToSet(ss[n])
          BY <4>1, ConcatFacts
        <4>3. ToSet(f[n - 1]) = {x \in T : \E j \in 1..(n - 1) : x \in ToSet(ss[j])}
          BY <2>10, <3>2
        <4>4. ToSet(f[n]) = {x \in T : \E j \in 1..n : x \in ToSet(ss[j])}
          BY <2>9, <4>2, <4>3
        <4> QED BY <4>2, <4>4
      <3> QED BY <3>1, <3>2
    <2>11. N \in G
      <3>1. 0 \in G
        BY <1>1
      <3>3. \A n \in 1..N : n - 1 \in G => n \in G
        BY <2>10
      <3> HIDE DEF G
      <3>2. \A n \in 0..N : n \in G
        BY <1>1, <3>1, <3>3, Upward
      <3> QED BY <1>1, <3>2
    <2> QED BY <1>1, <1>3, <2>7, <2>9, <2>11
  <1> QED BY <1>2, <1>3

-----------------------------------------------------------------------------
(* Lists without repetition.                                               *)

Distinct(s) == \A i, j \in DOMAIN s : s[i] = s[j] => i = j

LEMMA SizeOfList ==
  ASSUME NEW T, NEW s \in Seq(T)
  PROVE  /\ IsFiniteSet(ToSet(s))
         /\ Cardinality(ToSet(s)) \in Nat
         /\ Cardinality(ToSet(s)) <= Len(s)
         /\ Cardinality(ToSet(s)) = Len(s) <=> Distinct(s)
  <1> DEFINE D == 1..Len(s)
  <1>1. Len(s) \in Nat /\ DOMAIN s = D /\ s \in [D -> ToSet(s)]
    BY LenProperties DEF ToSet
  <1>2. IsFiniteSet(D) /\ Cardinality(D) = Len(s)
    <2>1. IsFiniteSet(1..Len(s)) /\ Cardinality(1..Len(s)) = IF 1 > Len(s) THEN 0 ELSE Len(s) - 1 + 1
      BY <1>1, FS_Interval
    <2> QED BY <1>1, <2>1
  <1> HIDE DEF D
  <1>3. s \in Surjection(D, ToSet(s))
    <2>1. \A t \in ToSet(s) : \E i \in D : s[i] = t
      BY <1>1 DEF ToSet
    <2> QED BY <1>1, <2>1, Fun_IsSurj
  <1>4. /\ IsFiniteSet(ToSet(s))
        /\ Cardinality(ToSet(s)) <= Len(s)
        /\ Cardinality(ToSet(s)) = Len(s) <=> s \in Injection(D, ToSet(s))
    BY <1>2, <1>3, FS_Surjection
  <1>5. s \in Injection(D, ToSet(s)) <=> Distinct(s)
    <2>1. ASSUME Distinct(s) PROVE s \in Injection(D, ToSet(s))
      BY <1>1, <2>1, Fun_IsInj DEF Distinct
    <2>2. ASSUME s \in Injection(D, ToSet(s)) PROVE Distinct(s)
      BY <1>1, <2>2, Fun_InjectionProperties DEF Distinct
    <2> QED BY <2>1, <2>2
  <1> QED BY <1>4, <1>5, FS_CardinalityType

(* r extends a, which repeats nothing, by elements of S, up to the limit.  *)
Extends(r, a, S, limit, T) ==
    /\ r \in Seq(T)
    /\ Distinct(r)
    /\ Len(r) <= limit
    /\ ToSet(a) \subseteq ToSet(r)
    /\ ToSet(r) \subseteq ToSet(a) \cup S
    /\ Len(r) = limit \/ S \subseteq ToSet(r)

LEMMA AddedFacts ==
  ASSUME NEW T, NEW x \in Seq(T), NEW u \in T, NEW limit \in Nat, Distinct(x), Len(x) <= limit
  PROVE  /\ Extends(Added(x, u, limit), x, {u}, limit, T)
         /\ Len(x) = limit => Added(x, u, limit) = x
  <1>0. Len(x) \in Nat
    BY LenProperties
  <1>1. Len(x) \in Nat /\ DOMAIN x = 1..Len(x)
    BY LenProperties
  <1>2. CASE Len(x) >= limit
    <2>1. Added(x, u, limit) = x /\ Len(x) = limit
      BY <1>0, <1>2 DEF Added
    <2> QED BY <2>1 DEF Extends
  <1>3. CASE Len(x) < limit /\ u \in ToSet(x)
    <2>1. Added(x, u, limit) = x
      BY <1>3 DEF Added
    <2> QED BY <1>3, <2>1 DEF Extends
  <1>4. CASE Len(x) < limit /\ u \notin ToSet(x)
    <2> DEFINE y == Append(x, u)
    <2>1. Added(x, u, limit) = y
      BY <1>0, <1>4 DEF Added
    <2>2. /\ y \in Seq(T) /\ Len(y) = Len(x) + 1 /\ DOMAIN y = 1..(Len(x) + 1)
          /\ \A i \in 1..Len(x) : y[i] = x[i]
          /\ y[Len(x) + 1] = u
      BY <1>1, AppendProperties, LenProperties
    <2> HIDE DEF y
    <2>3. \A i \in 1..Len(x) : x[i] # u
      BY <1>1, <1>4 DEF ToSet
    <2>4. Distinct(y)
      <3> SUFFICES ASSUME NEW i \in 1..(Len(x) + 1), NEW j \in 1..(Len(x) + 1), y[i] = y[j]
                   PROVE  i = j
        BY <2>2 DEF Distinct
      <3>1. CASE i \in 1..Len(x) /\ j \in 1..Len(x)
        BY <1>1, <2>2, <3>1 DEF Distinct
      <3>2. CASE i \notin 1..Len(x) \/ j \notin 1..Len(x)
        <4>1. i = Len(x) + 1 \/ j = Len(x) + 1
          BY <1>1, <3>2
        <4> QED BY <1>1, <2>2, <2>3, <4>1
      <3> QED BY <3>1, <3>2
    <2>5. ToSet(y) = ToSet(x) \cup {u}
      <3>1. ASSUME NEW i \in DOMAIN y PROVE y[i] \in ToSet(x) \cup {u}
        <4>1. CASE i \in 1..Len(x)
          BY <1>1, <2>2, <4>1 DEF ToSet
        <4>2. CASE i \notin 1..Len(x)
          <5>1. i = Len(x) + 1
            BY <1>1, <2>2, <4>2
          <5> QED BY <2>2, <5>1
        <4> QED BY <4>1, <4>2
      <3>2. ASSUME NEW i \in DOMAIN x PROVE x[i] \in ToSet(y)
        <4>1. i \in DOMAIN y /\ y[i] = x[i]
          BY <1>1, <2>2
        <4> QED BY <4>1 DEF ToSet
      <3>3. u \in ToSet(y)
        <4>1. Len(x) + 1 \in DOMAIN y
          BY <1>1, <2>2
        <4> QED BY <2>2, <4>1 DEF ToSet
      <3> QED BY <3>1, <3>2, <3>3 DEF ToSet
    <2>6. Len(x) # limit /\ Len(y) <= limit
      BY <1>0, <1>4, <2>2
    <2>7. Extends(y, x, {u}, limit, T)
      BY <2>2, <2>4, <2>5, <2>6 DEF Extends
    <2> QED BY <2>1, <2>6, <2>7
  <1>5. Len(x) >= limit \/ Len(x) < limit
    BY <1>0
  <1> QED BY <1>2, <1>3, <1>4, <1>5

(* _append_unique adds what is new, once, until the limit is reached.      *)
LEMMA AppendUniqueFacts ==
  ASSUME NEW T, NEW a \in Seq(T), NEW c \in Seq(T), NEW limit \in Nat, Distinct(a), Len(a) <= limit
  PROVE  Extends(AppendUnique(a, c, limit), a, ToSet(c), limit, T)
  <1> DEFINE N == Len(c)
             step == [n \in 1..N |-> [x \in Seq(T) |-> IF Distinct(x) /\ Len(x) <= limit
                                                       THEN Added(x, c[n], limit) ELSE a]]
             Is(f) == f = [n \in 0..N |-> IF n = 0 THEN a ELSE Added(f[n - 1], c[n], limit)]
             Upto(n) == {c[k] : k \in 1..n}
  <1>1. N \in Nat /\ DOMAIN c = 1..N /\ \A n \in 1..N : c[n] \in T
    BY LenProperties, ElementOfSeq
  <1> HIDE DEF N
  <1>2. step \in [1..N -> [Seq(T) -> Seq(T)]]
    <2>1. ASSUME NEW n \in 1..N, NEW x \in Seq(T), Distinct(x), Len(x) <= limit
          PROVE  Added(x, c[n], limit) \in Seq(T)
      BY <1>1, <2>1, AddedFacts DEF Extends
    <2> QED BY <2>1
  <1> HIDE DEF step
  <1>3. PICK h : /\ h = [n \in 0..N |-> IF n = 0 THEN a ELSE step[n][h[n - 1]]]
                 /\ h \in [0..N -> Seq(T)]
    BY <1>1, <1>2, RecursionExists
  <1>4. h[0] = a /\ \A n \in 1..N : h[n] = step[n][h[n - 1]]
    <2>1. 0 \in 0..N /\ \A n \in 1..N : n \in 0..N /\ n # 0
      BY <1>1
    <2> QED BY <1>3, <2>1
  <1>5. \A n \in 1..N : n - 1 \in 0..N /\ h[n - 1] \in Seq(T)
    <2>1. \A n \in 1..N : n - 1 \in 0..N
      BY <1>1
    <2>2. h \in [0..N -> Seq(T)]
      BY <1>3
    <2> QED BY <2>1, <2>2
  <1> DEFINE G == {n \in 0..N : /\ Extends(h[n], a, Upto(n), limit, T)
                                /\ n # 0 => h[n] = Added(h[n - 1], c[n], limit)}
  <1>6. 0 \in G
    <2>1. Upto(0) = {} /\ 0 \in 0..N
      BY <1>1
    <2> HIDE DEF Upto
    <2>2. Extends(a, a, Upto(0), limit, T)
      BY <2>1 DEF Extends
    <2> QED BY <1>4, <2>1, <2>2
  <1>7. ASSUME NEW n \in 1..N, n - 1 \in G PROVE n \in G
    <2> DEFINE x == h[n - 1]
               y == Added(x, c[n], limit)
    <2>1. x \in Seq(T) /\ Extends(x, a, Upto(n - 1), limit, T)
      BY <1>5, <1>7
    <2>2. h[n] = y
      BY <1>4, <2>1 DEF step, Extends
    <2> HIDE DEF Upto, x
    <2>3. Extends(y, x, {c[n]}, limit, T) /\ (Len(x) = limit => y = x)
      <3>1. Distinct(x) /\ Len(x) <= limit /\ c[n] \in T
        BY <1>1, <2>1 DEF Extends
      <3> QED BY <2>1, <3>1, AddedFacts
    <2>4. Upto(n) = Upto(n - 1) \cup {c[n]}
      BY <1>1 DEF Upto
    <2>5. n \in 0..N
      BY <1>1
    <2> HIDE DEF y
    <2>6. Extends(y, a, Upto(n), limit, T)
      BY <2>1, <2>3, <2>4 DEF Extends
    <2> QED BY <2>2, <2>5, <2>6 DEF x, y
  <1> HIDE DEF G
  <1>8. \A n \in 0..N : n \in G
    <2>1. \A n \in 1..N : n - 1 \in G => n \in G
      BY <1>7
    <2> QED BY <1>1, <1>6, <2>1, Upward
  <1>9. Is(h)
    <2>1. \A n \in 0..N : h[n] = IF n = 0 THEN a ELSE Added(h[n - 1], c[n], limit)
      BY <1>4, <1>8 DEF G
    <2>2. h = [n \in 0..N |-> h[n]]
      BY <1>3
    <2> QED BY <2>1, <2>2
  <1> DEFINE f == CHOOSE f : Is(f)
  <1>10. Is(f)
    BY <1>9
  <1>11. AppendUnique(a, c, limit) = f[N]
    BY DEF AppendUnique, N
  <1> HIDE DEF f
  <1>12. f[0] = a /\ \A n \in 1..N : f[n] = Added(f[n - 1], c[n], limit)
    <2>1. 0 \in 0..N /\ \A n \in 1..N : n \in 0..N /\ n # 0
      BY <1>1
    <2> QED BY <1>10, <2>1
  <1>13. f[N] = h[N]
    <2> DEFINE H == {n \in 0..N : f[n] = h[n]}
    <2>1. 0 \in H
      BY <1>1, <1>4, <1>12
    <2>2. ASSUME NEW n \in 1..N, n - 1 \in H PROVE n \in H
      <3>1. n \in 0..N /\ n # 0 /\ f[n - 1] = h[n - 1]
        BY <1>1, <2>2
      <3> QED BY <1>8, <1>12, <3>1 DEF G
    <2> HIDE DEF H
    <2>3. \A n \in 0..N : n \in H
      <3>1. \A n \in 1..N : n - 1 \in H => n \in H
        BY <2>2
      <3> QED BY <1>1, <2>1, <3>1, Upward
    <2> QED BY <1>1, <2>3 DEF H
  <1>14. Upto(N) = ToSet(c)
    BY <1>1 DEF ToSet
  <1> HIDE DEF Upto
  <1>15. N \in 0..N
    BY <1>1
  <1>16. Extends(h[N], a, Upto(N), limit, T)
    BY <1>8, <1>15 DEF G
  <1> QED BY <1>11, <1>13, <1>14, <1>16
-----------------------------------------------------------------------------
(* Entries and documents.                                                  *)

LEMMA LinkedFacts ==
  ASSUME NEW es \in Seq(Link)
  PROVE  /\ Linked(es) \in Seq(Link)
         /\ ToSet(Linked(es)) = {e \in ToSet(es) : e.url # NoUrl}
  BY SelectFacts DEF Linked

LEMMA KeptFacts ==
  ASSUME NEW es \in Seq(Link), NEW source, NEW w
  PROVE  /\ Kept(es, source, w) \in Seq(Link)
         /\ ToSet(Kept(es, source, w)) = {e \in ToSet(es) : InWindow(e.at, w) /\ Allowed(e.url, source)}
  BY SelectFacts DEF Kept

LEMMA UrlsFacts ==
  ASSUME NEW es \in Seq(Link)
  PROVE  /\ Urls(es) \in Seq(Address)
         /\ Len(Urls(es)) = Len(es)
         /\ ToSet(Urls(es)) = {e.url : e \in ToSet(es)}
  <1>1. Len(es) \in Nat /\ DOMAIN es = 1..Len(es) /\ \A i \in 1..Len(es) : es[i] \in Link
    BY LenProperties, ElementOfSeq
  <1>2. \A i \in 1..Len(es) : es[i].url \in Address
    BY <1>1 DEF Link
  <1>3. Urls(es) = [i \in 1..Len(es) |-> es[i].url]
    BY <1>1 DEF Urls
  <1>4. Urls(es) \in Seq(Address) /\ Len(Urls(es)) = Len(es)
    BY <1>1, <1>2, <1>3, IsASeq
  <1>5. ToSet(Urls(es)) = {e.url : e \in ToSet(es)}
    BY <1>1, <1>3 DEF ToSet
  <1> QED BY <1>4, <1>5

LEMMA FetchedFacts ==
  ASSUME NEW site, IsSite(site), NEW name
  PROVE  /\ Fetched(site, name) \in Document
         /\ Fetched(site, name).ok => name \in DOMAIN site /\ Fetched(site, name) = site[name]
  <1>1. CASE name \in DOMAIN site
    BY <1>1 DEF IsSite, Fetched
  <1>2. CASE name \notin DOMAIN site
    <2>0. <<>> \in Seq(STRING) /\ <<>> \in Seq(Link)
      BY EmptySeq
    <2>1. NoDocument \in Document
      BY <2>0 DEF NoDocument, Document, Root
    <2> QED BY <1>2, <2>1 DEF Fetched, NoDocument
  <1> QED BY <1>1, <1>2

LEMMA FeedFacts ==
  ASSUME NEW source, IsSource(source), NEW site, IsSite(site), NEW w
  PROVE  /\ FeedUrls(source, site, w) \in Seq(Address)
         /\ ToSet(FeedUrls(source, site, w)) = FeedOffers(source, site, w)
  <1> DEFINE names == source.feeds
             doc(i) == Fetched(site, names[i])
             part(i) == IF doc(i).ok THEN Urls(Kept(ParseFeed(doc(i)), source, w)) ELSE <<>>
             parts == [i \in DOMAIN names |-> part(i)]
             of(d) == {e.url : e \in {x \in ToSet(d.entries) : Qualifies(x, source, w)}}
  <1>1. Len(names) \in Nat /\ DOMAIN names = 1..Len(names)
    BY LenProperties DEF IsSource
  <1>2. ASSUME NEW d \in Document
        PROVE  /\ Urls(Kept(ParseFeed(d), source, w)) \in Seq(Address)
               /\ ToSet(Urls(Kept(ParseFeed(d), source, w)))
                    = IF d.root \in {"rss", "feed"} THEN of(d) ELSE {}
    <2> DEFINE p == ParseFeed(d)
    <2>1. CASE d.root \in {"rss", "feed"}
      <3>1. p = Linked(d.entries) /\ d.entries \in Seq(Link)
        BY <2>1 DEF ParseFeed, Document
      <3>2. p \in Seq(Link) /\ ToSet(p) = {e \in ToSet(d.entries) : e.url # NoUrl}
        BY <3>1, LinkedFacts
      <3> HIDE DEF p
      <3>3. /\ Kept(p, source, w) \in Seq(Link)
            /\ ToSet(Kept(p, source, w)) = {e \in ToSet(p) : InWindow(e.at, w) /\ Allowed(e.url, source)}
        BY <3>2, KeptFacts
      <3>4. ToSet(Kept(p, source, w)) = {x \in ToSet(d.entries) : Qualifies(x, source, w)}
        BY <3>2, <3>3 DEF Qualifies
      <3>5. /\ Urls(Kept(p, source, w)) \in Seq(Address)
            /\ ToSet(Urls(Kept(p, source, w))) = {e.url : e \in ToSet(Kept(p, source, w))}
        BY <3>3, UrlsFacts
      <3> QED BY <2>1, <3>4, <3>5 DEF p
    <2>2. CASE d.root \notin {"rss", "feed"}
      <3>1. p = <<>> /\ p \in Seq(Link) /\ ToSet(p) = {}
        BY <2>2, EmptySeq DEF ParseFeed, ToSet
      <3> HIDE DEF p
      <3>2. Kept(p, source, w) \in Seq(Link) /\ ToSet(Kept(p, source, w)) = {}
        BY <3>1, KeptFacts
      <3>3. Urls(Kept(p, source, w)) \in Seq(Address) /\ ToSet(Urls(Kept(p, source, w))) = {}
        BY <3>2, UrlsFacts
      <3> QED BY <2>2, <3>3 DEF p
    <2> QED BY <2>1, <2>2
  <1>3. ASSUME NEW i \in 1..Len(names)
        PROVE  /\ doc(i) \in Document
               /\ parts[i] \in Seq(Address)
               /\ \A x : x \in ToSet(parts[i])
                           <=> doc(i).ok /\ doc(i).root \in {"rss", "feed"} /\ x \in of(doc(i))
    <2>1. doc(i) \in Document
      BY FetchedFacts
    <2>2. parts[i] = part(i)
      BY <1>1
    <2> HIDE DEF doc, of
    <2>3. CASE doc(i).ok
      BY <1>2, <2>1, <2>2, <2>3
    <2>4. CASE ~ doc(i).ok
      <3>1. part(i) = <<>> /\ part(i) \in Seq(Address) /\ ToSet(part(i)) = {}
        BY <2>4, EmptySeq DEF ToSet
      <3> QED BY <2>1, <2>2, <2>4, <3>1
    <2> QED BY <2>1, <2>3, <2>4
  <1>4. FeedUrls(source, site, w) = FlattenSeq(parts)
    BY DEF FeedUrls
  <1> HIDE DEF doc, of, parts
  <1>5. parts \in Seq(Seq(Address)) /\ DOMAIN parts = 1..Len(names)
    <2>1. parts = [i \in 1..Len(names) |-> parts[i]]
      BY <1>1 DEF parts
    <2>2. \A i \in 1..Len(names) : parts[i] \in Seq(Address)
      BY <1>3
    <2> QED BY <1>1, <2>1, <2>2, IsASeq
  <1>6. /\ FlattenSeq(parts) \in Seq(Address)
        /\ \A x : x \in ToSet(FlattenSeq(parts)) <=> \E i \in DOMAIN parts : x \in ToSet(parts[i])
    BY <1>5, FlattenFacts
  <1>7. ASSUME NEW x, x \in ToSet(FlattenSeq(parts)) PROVE x \in FeedOffers(source, site, w)
    <2>1. PICK i \in 1..Len(names) : x \in ToSet(parts[i])
      BY <1>5, <1>6, <1>7
    <2>2. doc(i).ok /\ doc(i).root \in {"rss", "feed"} /\ x \in of(doc(i))
      BY <1>3, <2>1
    <2>3. names[i] \in DOMAIN site /\ doc(i) = site[names[i]] /\ names[i] \in ToSet(names)
      BY <1>1, <2>2, FetchedFacts DEF doc, ToSet
    <2>4. doc(i) \in Came(site, names)
      BY <2>2, <2>3 DEF Came
    <2> QED BY <2>2, <2>4 DEF FeedOffers, of
  <1>8. ASSUME NEW x, x \in FeedOffers(source, site, w) PROVE x \in ToSet(FlattenSeq(parts))
    <2>1. PICK d \in Came(site, names) : d.root \in {"rss", "feed"} /\ x \in of(d)
      BY <1>8 DEF FeedOffers, of
    <2>2. PICK name \in ToSet(names) \cap DOMAIN site : site[name].ok /\ d = site[name]
      BY <2>1 DEF Came
    <2>3. PICK i \in 1..Len(names) : names[i] = name
      BY <1>1, <2>2 DEF ToSet
    <2>4. doc(i) = d
      BY <2>2, <2>3 DEF doc, Fetched
    <2>5. x \in ToSet(parts[i])
      BY <1>3, <2>1, <2>2, <2>4
    <2> QED BY <1>5, <1>6, <2>5
  <1> QED BY <1>4, <1>6, <1>7, <1>8

(* A section's links are collected once each, but none is lost by that.    *)
LEMMA ParseSectionFacts ==
  ASSUME NEW d \in Document, NEW host
  PROVE  /\ ParseSection(d, host) \in Seq(Address)
         /\ ToSet(ParseSection(d, host))
              = {Bare(e.url) : e \in {x \in ToSet(d.entries) : x.url # NoUrl /\ x.url.host = host}}
  <1> DEFINE links == Urls(Linked(d.entries))
             own == Select(links, {u \in ToSet(links) : u.host = host})
             bare == [i \in DOMAIN own |-> Bare(own[i])]
             r == ParseSection(d, host)
  <1>1. d.entries \in Seq(Link)
    BY DEF Document
  <1>2. links \in Seq(Address) /\ ToSet(links) = {e.url : e \in {x \in ToSet(d.entries) : x.url # NoUrl}}
    <2>1. /\ Linked(d.entries) \in Seq(Link)
          /\ ToSet(Linked(d.entries)) = {e \in ToSet(d.entries) : e.url # NoUrl}
      BY <1>1, LinkedFacts
    <2> QED BY <2>1, UrlsFacts
  <1> HIDE DEF links
  <1>3. own \in Seq(Address) /\ ToSet(own) = {u \in ToSet(links) : u.host = host}
    BY <1>2, SelectFacts
  <1>4. r = AppendUnique(<<>>, bare, Len(own))
    BY DEF ParseSection, links
  <1> HIDE DEF own
  <1>5. Len(own) \in Nat /\ DOMAIN own = 1..Len(own) /\ \A i \in 1..Len(own) : own[i] \in Address
    BY <1>3, LenProperties, ElementOfSeq
  <1>6. \A u \in Address : Bare(u) \in Address
    BY DEF Bare, Normalize, Address, Spelling
  <1>7. bare \in Seq(Address) /\ Len(bare) = Len(own)
    <2>1. \A i \in 1..Len(own) : Bare(own[i]) \in Address
      BY <1>5, <1>6
    <2>2. bare = [i \in 1..Len(own) |-> Bare(own[i])]
      BY <1>5
    <2> QED BY <1>5, <2>1, <2>2, IsASeq
  <1>8. ToSet(bare) = {Bare(u) : u \in ToSet(own)}
    BY <1>5 DEF ToSet
  <1> HIDE DEF bare, r
  <1>9. Extends(r, <<>>, ToSet(bare), Len(own), Address)
    <2>1. <<>> \in Seq(Address) /\ Len(<<>>) = 0 /\ Distinct(<<>>)
      BY EmptySeq DEF Distinct
    <2>2. Len(<<>>) <= Len(own)
      BY <1>5, <2>1
    <2> QED BY <1>4, <1>5, <1>7, <2>1, <2>2, AppendUniqueFacts
  <1>10. ToSet(<<>>) = {}
    BY DEF ToSet
  <1>11. ToSet(r) = ToSet(bare)
    <2>1. r \in Seq(Address) /\ Distinct(r) /\ ToSet(r) \subseteq ToSet(bare)
      BY <1>9, <1>10 DEF Extends
    <2>2. CASE ToSet(bare) \subseteq ToSet(r)
      BY <2>1, <2>2
    <2>3. CASE Len(r) = Len(own)
      <3>1. Cardinality(ToSet(r)) = Len(own)
        BY <2>1, <2>3, SizeOfList
      <3>2. IsFiniteSet(ToSet(bare)) /\ Cardinality(ToSet(bare)) \in Nat /\ Cardinality(ToSet(bare)) <= Len(own)
        BY <1>7, SizeOfList
      <3>3. Cardinality(ToSet(r)) <= Cardinality(ToSet(bare))
        BY <2>1, <3>2, FS_Subset
      <3>4. Cardinality(ToSet(bare)) = Cardinality(ToSet(r))
        BY <1>5, <3>1, <3>2, <3>3
      <3> QED BY <2>1, <3>2, <3>4, FS_Subset
    <2> QED BY <1>9, <2>2, <2>3 DEF Extends
  <1> QED BY <1>2, <1>3, <1>8, <1>9, <1>11 DEF Extends, r

LEMMA SectionFacts ==
  ASSUME NEW source, IsSource(source), NEW site, IsSite(site)
  PROVE  /\ SectionUrls(source, site) \in Seq(Address)
         /\ ToSet(SectionUrls(source, site)) = SectionOffers(source, site)
  <1> DEFINE names == source.sections
             doc(i) == Fetched(site, names[i])
             links(i) == ParseSection(doc(i), source.host)
             part(i) == IF doc(i).ok THEN Select(links(i), {u \in ToSet(links(i)) : Allowed(u, source)}) ELSE <<>>
             parts == [i \in DOMAIN names |-> part(i)]
             of(d) == {Bare(e.url) : e \in {x \in ToSet(d.entries) : /\ x.url # NoUrl
                                                                    /\ x.url.host = source.host
                                                                    /\ Allowed(Bare(x.url), source)}}
  <1>1. Len(names) \in Nat /\ DOMAIN names = 1..Len(names)
    BY LenProperties DEF IsSource
  <1>2. ASSUME NEW i \in 1..Len(names)
        PROVE  /\ parts[i] \in Seq(Address)
               /\ \A x : x \in ToSet(parts[i]) <=> doc(i).ok /\ x \in of(doc(i))
    <2>1. doc(i) \in Document
      BY FetchedFacts
    <2>2. parts[i] = part(i)
      BY <1>1
    <2> HIDE DEF doc
    <2>3. /\ links(i) \in Seq(Address)
          /\ ToSet(links(i)) = {Bare(e.url) : e \in {x \in ToSet(doc(i).entries) : x.url # NoUrl /\ x.url.host = source.host}}
      BY <2>1, ParseSectionFacts
    <2> HIDE DEF links
    <2>4. CASE doc(i).ok
      <3>1. part(i) = Select(links(i), {u \in ToSet(links(i)) : Allowed(u, source)})
        BY <2>4
      <3>2. part(i) \in Seq(Address) /\ ToSet(part(i)) = {u \in ToSet(links(i)) : Allowed(u, source)}
        BY <2>3, <3>1, SelectFacts
      <3>3. {u \in ToSet(links(i)) : Allowed(u, source)} = of(doc(i))
        BY <2>3
      <3> QED BY <2>2, <2>4, <3>2, <3>3
    <2>5. CASE ~ doc(i).ok
      <3>1. part(i) = <<>> /\ part(i) \in Seq(Address) /\ ToSet(part(i)) = {}
        BY <2>5, EmptySeq DEF ToSet
      <3> QED BY <2>2, <2>5, <3>1
    <2> QED BY <2>4, <2>5
  <1>3. SectionUrls(source, site) = FlattenSeq(parts)
    BY DEF SectionUrls
  <1> HIDE DEF doc, of, parts
  <1>4. parts \in Seq(Seq(Address)) /\ DOMAIN parts = 1..Len(names)
    <2>1. parts = [i \in 1..Len(names) |-> parts[i]]
      BY <1>1 DEF parts
    <2>2. \A i \in 1..Len(names) : parts[i] \in Seq(Address)
      BY <1>2
    <2> QED BY <1>1, <2>1, <2>2, IsASeq
  <1>5. /\ FlattenSeq(parts) \in Seq(Address)
        /\ \A x : x \in ToSet(FlattenSeq(parts)) <=> \E i \in DOMAIN parts : x \in ToSet(parts[i])
    BY <1>4, FlattenFacts
  <1>6. ASSUME NEW x, x \in ToSet(FlattenSeq(parts)) PROVE x \in SectionOffers(source, site)
    <2>1. PICK i \in 1..Len(names) : x \in ToSet(parts[i])
      BY <1>4, <1>5, <1>6
    <2>2. doc(i).ok /\ x \in of(doc(i))
      BY <1>2, <2>1
    <2>3. names[i] \in DOMAIN site /\ doc(i) = site[names[i]] /\ names[i] \in ToSet(names)
      BY <1>1, <2>2, FetchedFacts DEF doc, ToSet
    <2>4. doc(i) \in Came(site, names)
      BY <2>2, <2>3 DEF Came
    <2> QED BY <2>2, <2>4 DEF SectionOffers, of
  <1>7. ASSUME NEW x, x \in SectionOffers(source, site) PROVE x \in ToSet(FlattenSeq(parts))
    <2>1. PICK d \in Came(site, names) : x \in of(d)
      BY <1>7 DEF SectionOffers, of
    <2>2. PICK name \in ToSet(names) \cap DOMAIN site : site[name].ok /\ d = site[name]
      BY <2>1 DEF Came
    <2>3. PICK i \in 1..Len(names) : names[i] = name
      BY <1>1, <2>2 DEF ToSet
    <2>4. doc(i) = d
      BY <2>2, <2>3 DEF doc, Fetched
    <2>5. x \in ToSet(parts[i])
      BY <1>2, <2>1, <2>2, <2>4
    <2> QED BY <1>4, <1>5, <2>5
  <1> QED BY <1>3, <1>5, <1>6, <1>7

-----------------------------------------------------------------------------
(* One sitemap document.                                                   *)

(* The positions at which document d lists an article of the pass.         *)
ListedIn(d, source, w) == {i \in DOMAIN d.entries : d.root = "urlset" /\ Qualifies(d.entries[i], source, w)}

(* Lists has one place for each of them.                                   *)
LEMMA ListsFacts ==
  ASSUME NEW d \in Document, NEW source, NEW w
  PROVE  /\ Lists(d, source, w) \in Seq(Address)
         /\ \E h : /\ Enumerates(h, Len(Lists(d, source, w)), ListedIn(d, source, w))
                   /\ \A k \in 1..Len(Lists(d, source, w)) : Lists(d, source, w)[k] = d.entries[h[k]].url
  <1> DEFINE p == ParseSitemap(d).urls
             r == Lists(d, source, w)
  <1>1. d.entries \in Seq(Link)
    BY DEF Document
  <1>2. r = Urls(Kept(p, source, w))
    BY DEF Lists
  <1> HIDE DEF r
  <1>3. CASE d.root # "urlset"
    <2>1. p = <<>> /\ p \in Seq(Link) /\ ToSet(p) = {}
      BY <1>3, EmptySeq DEF ParseSitemap, ToSet
    <2> HIDE DEF p
    <2>2. Kept(p, source, w) \in Seq(Link) /\ ToSet(Kept(p, source, w)) = {}
      BY <2>1, KeptFacts
    <2>3. r \in Seq(Address) /\ ToSet(r) = {}
      BY <1>2, <2>2, UrlsFacts
    <2>4. 1..Len(r) = {}
      BY <2>3, LenProperties DEF ToSet
    <2>5. ListedIn(d, source, w) = {}
      BY <1>3 DEF ListedIn
    <2>6. Enumerates([k \in 1..Len(r) |-> 0], Len(r), ListedIn(d, source, w))
      BY <2>4, <2>5 DEF Enumerates
    <2> QED BY <2>3, <2>4, <2>6 DEF r
  <1>4. CASE d.root = "urlset"
    <2> DEFINE e == d.entries
               l == Linked(e)
               S1 == {x \in ToSet(e) : x.url # NoUrl}
               S2 == {x \in ToSet(l) : InWindow(x.at, w) /\ Allowed(x.url, source)}
               v == Kept(l, source, w)
               P1 == Where(e, S1)
               P2 == Where(l, S2)
    <2>1. p = l
      BY <1>4 DEF ParseSitemap
    <2>2. /\ l \in Seq(Link)
          /\ \E g : Enumerates(g, Len(l), P1) /\ \A k \in 1..Len(l) : l[k] = e[g[k]]
      <3>1. l = Select(e, S1)
        BY DEF Linked
      <3> HIDE DEF l, S1
      <3>2. /\ Select(e, S1) \in Seq(Link)
            /\ \E g : /\ Enumerates(g, Len(Select(e, S1)), P1)
                      /\ \A k \in 1..Len(Select(e, S1)) : Select(e, S1)[k] = e[g[k]]
        BY <1>1, SelectFacts
      <3> QED BY <3>1, <3>2
    <2> HIDE DEF l
    <2>3. /\ v \in Seq(Link)
          /\ \E g : Enumerates(g, Len(v), P2) /\ \A k \in 1..Len(v) : v[k] = l[g[k]]
      <3>1. v = Select(l, S2)
        BY DEF Kept
      <3> HIDE DEF v, S2
      <3>2. /\ Select(l, S2) \in Seq(Link)
            /\ \E g : /\ Enumerates(g, Len(Select(l, S2)), P2)
                      /\ \A k \in 1..Len(Select(l, S2)) : Select(l, S2)[k] = l[g[k]]
        BY <2>2, SelectFacts
      <3> QED BY <3>1, <3>2
    <2> HIDE DEF v
    <2>4. PICK g1 : Enumerates(g1, Len(l), P1) /\ \A k \in 1..Len(l) : l[k] = e[g1[k]]
      BY <2>2
    <2>5. PICK g2 : Enumerates(g2, Len(v), P2) /\ \A k \in 1..Len(v) : v[k] = l[g2[k]]
      BY <2>3
    <2>6. DOMAIN l = 1..Len(l) /\ DOMAIN v = 1..Len(v) /\ Len(v) \in Nat
      BY <2>2, <2>3, LenProperties
    <2>7. r \in Seq(Address) /\ Len(r) = Len(v) /\ \A k \in 1..Len(v) : r[k] = v[k].url
      <3>1. r = Urls(v)
        BY <1>2, <2>1 DEF v
      <3>2. Urls(v) \in Seq(Address) /\ Len(Urls(v)) = Len(v)
        BY <2>3, UrlsFacts
      <3> QED BY <2>6, <3>1, <3>2 DEF Urls
    <2> DEFINE h == [k \in 1..Len(v) |-> g1[g2[k]]]
    <2>8. \A k \in 1..Len(v) : /\ g2[k] \in 1..Len(l) /\ l[g2[k]] \in S2
                               /\ h[k] \in P1 /\ l[g2[k]] = e[h[k]]
      BY <2>4, <2>5, <2>6 DEF Enumerates, Where
    <2>9. \A i \in DOMAIN e : i \in P1 <=> e[i].url # NoUrl
      BY DEF ToSet, Where
    <2>10. \A k \in 1..Len(l) : k \in P2 <=> InWindow(l[k].at, w) /\ Allowed(l[k].url, source)
      BY <2>6 DEF ToSet, Where
    <2>11. ASSUME NEW k \in 1..Len(v) PROVE h[k] \in ListedIn(d, source, w)
      <3>1. h[k] \in DOMAIN e /\ e[h[k]].url # NoUrl
        BY <2>8, <2>9 DEF Where
      <3>2. InWindow(e[h[k]].at, w) /\ Allowed(e[h[k]].url, source)
        BY <2>8
      <3> HIDE DEF h
      <3> QED BY <1>4, <3>1, <3>2 DEF ListedIn, Qualifies
    <2>12. \A k, m \in 1..Len(v) : h[k] = h[m] => k = m
      BY <2>4, <2>5, <2>8 DEF Enumerates
    <2>13. ASSUME NEW i \in ListedIn(d, source, w) PROVE \E k \in 1..Len(v) : h[k] = i
      <3>1. i \in DOMAIN e /\ e[i].url # NoUrl /\ InWindow(e[i].at, w) /\ Allowed(e[i].url, source)
        BY DEF ListedIn, Qualifies
      <3>2. i \in P1
        BY <2>9, <3>1
      <3>3. PICK k1 \in 1..Len(l) : g1[k1] = i
        BY <2>4, <3>2 DEF Enumerates
      <3>4. l[k1] = e[i]
        BY <2>4, <3>3
      <3>5. k1 \in P2
        BY <2>10, <3>1, <3>4
      <3>6. PICK k \in 1..Len(v) : g2[k] = k1
        BY <2>5, <3>5 DEF Enumerates
      <3> QED BY <3>3, <3>6
    <2>15. h \in [1..Len(v) -> ListedIn(d, source, w)]
      BY <2>11
    <2> HIDE DEF h, e
    <2>14. ASSUME NEW k \in 1..Len(v) PROVE r[k] = e[h[k]].url
      <3>1. v[k] = e[h[k]]
        BY <2>5, <2>8
      <3> QED BY <2>7, <3>1
    <2>16. Enumerates(h, Len(r), ListedIn(d, source, w))
      BY <2>7, <2>12, <2>13, <2>15 DEF Enumerates
    <2> QED BY <2>7, <2>14, <2>16 DEF r, e
  <1> QED BY <1>3, <1>4

(* A document leads the traversal to the nested sitemaps it should.        *)
LEMMA NestsFacts ==
  ASSUME NEW d \in Document, NEW source, IsSource(source), NEW w
  PROVE  /\ Nests(d, source, w) \in Seq(STRING)
         /\ Len(Nests(d, source, w)) <= Len(d.locs)
         /\ ToSet(Nests(d, source, w)) =
              {t \in ToSet(d.locs) : /\ d.root = "sitemapindex"
                                     /\ t \in source.nested
                                     /\ MayOverlap(source.month[t], w)}
  <1> DEFINE l == ParseSitemap(d).nested
             P == {i \in DOMAIN l : l[i] \in source.nested /\ MayOverlap(source.month[l[i]], w)}
             R == {x \in P \X P : ComesFirst(l, source, x[1], x[2])}
             n == Cardinality(P)
             r == Nests(d, source, w)
  <1>1. d.locs \in Seq(STRING) /\ Len(d.locs) \in Nat
    BY LenProperties DEF Document
  <1>2. /\ l \in Seq(STRING)
        /\ Len(l) <= Len(d.locs)
        /\ ToSet(l) = IF d.root = "sitemapindex" THEN ToSet(d.locs) ELSE {}
    <2>1. CASE d.root = "sitemapindex"
      BY <1>1, <2>1 DEF ParseSitemap
    <2>2. CASE d.root # "sitemapindex"
      <3>1. l = <<>>
        BY <2>2 DEF ParseSitemap
      <3>2. <<>> \in Seq(STRING) /\ Len(<<>>) = 0 /\ ToSet(<<>>) = {}
        BY EmptySeq DEF ToSet
      <3> QED BY <1>1, <2>2, <3>1, <3>2
    <2> QED BY <2>1, <2>2
  <1> HIDE DEF l
  <1>3. /\ DOMAIN l = 1..Len(l) /\ Len(l) \in Nat
        /\ \A i \in DOMAIN l : l[i] \in STRING
    BY <1>2, LenProperties, ElementOfSeq
  <1>4. IsFiniteSet(P) /\ n \in Nat /\ n <= Len(l)
    BY <1>2, PositionsAreFinite
  <1>5. r = Arranged(l, P, R)
    BY DEF Nests, Nested, l
  <1>6. \A i \in P : i \in Int /\ source.month[l[i]] \in Int /\ source.place[l[i]] \in Int
    BY <1>3 DEF IsSource
  <1>7. \A i, j \in P : <<i, j>> \in R <=> ComesFirst(l, source, i, j)
    BY <1>3
  <1>8. P \subseteq DOMAIN l
    OBVIOUS
  <1> HIDE DEF P, R, n, r
  <1>9. PICK g : Enumerates(g, n, P) /\ Arranged(l, P, R) = [k \in 1..n |-> l[g[k]]]
    <2>1. \A i, j, k \in P : <<i, j>> \in R /\ <<j, k>> \in R => <<i, k>> \in R
      BY <1>6, <1>7 DEF ComesFirst
    <2>2. \A i \in P : <<i, i>> \notin R
      BY <1>6, <1>7 DEF ComesFirst
    <2>3. \A i, j \in P : i # j => <<i, j>> \in R \/ <<j, i>> \in R
      BY <1>6, <1>7 DEF ComesFirst
    <2>4. \E g : /\ Enumerates(g, Cardinality(P), P)
                 /\ Arranged(l, P, R) = [k \in 1..Cardinality(P) |-> l[g[k]]]
      BY ONLY <1>4, <2>1, <2>2, <2>3, ArrangedFacts
    <2> QED BY <2>4 DEF n
  <1>10. r = [k \in 1..n |-> l[g[k]]]
    BY <1>5, <1>9
  <1>11. \A k \in 1..n : g[k] \in P /\ l[g[k]] \in STRING
    BY <1>3, <1>8, <1>9 DEF Enumerates
  <1>12. r \in Seq(STRING) /\ Len(r) = n
    BY <1>4, <1>10, <1>11, IsASeq
  <1>13. ToSet(r) = {t \in ToSet(l) : t \in source.nested /\ MayOverlap(source.month[t], w)}
    <2>1. ASSUME NEW k \in DOMAIN r
          PROVE  r[k] \in {t \in ToSet(l) : t \in source.nested /\ MayOverlap(source.month[t], w)}
      <3>1. k \in 1..n
        BY <1>10
      <3> QED BY <3>1, <1>10, <1>11 DEF ToSet, P
    <2>2. ASSUME NEW i \in DOMAIN l, l[i] \in source.nested, MayOverlap(source.month[l[i]], w)
          PROVE  l[i] \in ToSet(r)
      <3>1. PICK k \in 1..n : g[k] = i
        BY <1>9, <2>2 DEF Enumerates, P
      <3> QED BY <3>1, <1>10 DEF ToSet
    <2> QED BY <2>1, <2>2 DEF ToSet
  <1>14. Len(r) <= Len(d.locs)
    BY <1>1, <1>2, <1>3, <1>4, <1>12
  <1> QED BY <1>2, <1>12, <1>13, <1>14 DEF r

-----------------------------------------------------------------------------
(* The traversal of the sitemaps.                                          *)

LEMMA MaxOfNaturals ==
  ASSUME NEW S \in SUBSET Nat, S # {}, IsFiniteSet(S)
  PROVE  Max(S) \in S /\ \A x \in S : x <= Max(S)
  <1>1. PICK n \in Nat : ExistsSurjection(1..n, S)
    BY FS_NatSurjection
  <1>2. PICK f : f \in Surjection(1..n, S)
    BY <1>1, Fun_ExistsSurj
  <1>3. f \in [1..n -> S] /\ \A x \in S : \E i \in 1..n : f[i] = x
    BY <1>2, Fun_SurjectionProperties
  <1> DEFINE G == {m \in 0..n : \E b \in S : \A i \in 1..m : f[i] <= b}
  <1>4. 0 \in G
    <2>1. PICK b \in S : TRUE
      OBVIOUS
    <2>2. \A i \in 1..0 : f[i] <= b
      OBVIOUS
    <2> QED BY <2>2
  <1>5. ASSUME NEW m \in 1..n, m - 1 \in G PROVE m \in G
    <2>1. PICK b \in S : \A i \in 1..(m - 1) : f[i] <= b
      BY <1>5
    <2>2. f[m] \in S /\ m \in 0..n /\ \A i \in 1..m : f[i] \in Nat /\ (i \in 1..(m - 1) \/ i = m)
      <3>1. \A i \in 1..m : i \in 1..n /\ (i \in 1..(m - 1) \/ i = m)
        OBVIOUS
      <3>2. \A i \in 1..n : f[i] \in S /\ f[i] \in Nat
        BY <1>3
      <3> QED BY <3>1, <3>2
    <2>3. CASE f[m] <= b
      <3>1. \A i \in 1..m : f[i] <= b
        BY <2>1, <2>2, <2>3
      <3> QED BY <2>2, <3>1
    <2>4. CASE f[m] > b
      <3>1. \A i \in 1..m : f[i] <= f[m]
        BY <2>1, <2>2, <2>4
      <3> QED BY <2>2, <3>1
    <2> QED BY <2>2, <2>3, <2>4
  <1> HIDE DEF G
  <1>6. n \in G
    <2>1. \A m \in 1..n : m - 1 \in G => m \in G
      BY <1>5
    <2>2. \A m \in 0..n : m \in G
      BY <1>4, <2>1, Upward
    <2> QED BY <2>2
  <1>7. PICK b \in S : \A i \in 1..n : f[i] <= b
    BY <1>6 DEF G
  <1>8. \A x \in S : b >= x
    BY <1>3, <1>7
  <1>9. Max(S) \in S /\ \A x \in S : Max(S) >= x
    BY <1>8 DEF Max
  <1> QED BY <1>9

Longest(site) == Max({0} \cup {Len(site[name].locs) : name \in DOMAIN site})

LEMMA LongestFacts ==
  ASSUME NEW site, IsSite(site)
  PROVE  Longest(site) \in Nat /\ \A name \in DOMAIN site : Len(site[name].locs) <= Longest(site)
  <1> DEFINE f == [name \in DOMAIN site |-> Len(site[name].locs)]
             L == {Len(site[name].locs) : name \in DOMAIN site}
  <1>1. L \subseteq Nat
    BY LenProperties DEF IsSite, Document
  <1>2. f \in Surjection(DOMAIN site, L)
    <2>1. f \in [DOMAIN site -> L] /\ \A x \in L : \E name \in DOMAIN site : f[name] = x
      OBVIOUS
    <2> HIDE DEF f, L
    <2> QED BY <2>1, Fun_IsSurj
  <1> HIDE DEF f
  <1>3. IsFiniteSet(L)
    BY <1>2, FS_Surjection DEF IsSite
  <1>4. IsFiniteSet(L \cup {0})
    BY <1>3, FS_AddElement
  <1>5. {0} \cup L = L \cup {0}
    OBVIOUS
  <1> DEFINE S == {0} \cup L
  <1>6. S \in SUBSET Nat /\ S # {} /\ IsFiniteSet(S) /\ L \subseteq S
    BY <1>1, <1>4, <1>5
  <1>7. Longest(site) = Max(S)
    BY DEF Longest
  <1> HIDE DEF S
  <1>8. Longest(site) \in S /\ \A x \in S : x <= Longest(site)
    BY <1>6, <1>7, MaxOfNaturals
  <1> QED BY <1>6, <1>8

TraversalState == [queue : Seq(STRING), seen : SUBSET STRING, out : Seq(Address)]

(* The first limit elements.                                               *)
Cut(found, limit) == SubSeq(found, 1, Min({limit, Len(found)}))

LEMMA CutFacts ==
  ASSUME NEW T, NEW found \in Seq(T), NEW limit \in Nat
  PROVE  /\ Cut(found, limit) \in Seq(T)
         /\ Len(Cut(found, limit)) = IF limit <= Len(found) THEN limit ELSE Len(found)
         /\ \A i \in 1..Len(Cut(found, limit)) : Cut(found, limit)[i] = found[i]
  <1> DEFINE n == IF limit <= Len(found) THEN limit ELSE Len(found)
  <1>1. Len(found) \in Nat
    BY LenProperties
  <1>2. n \in Nat /\ n <= Len(found)
    BY <1>1
  <1>3. Cut(found, limit) = SubSeq(found, 1, n)
    BY <1>1, MinOfTwo DEF Cut
  <1> HIDE DEF n
  <1>4. \A i \in 1..n : found[i] \in T
    BY <1>1, <1>2, ElementOfSeq
  <1>5. /\ SubSeq(found, 1, n) \in Seq(T)
        /\ Len(SubSeq(found, 1, n)) = IF 1 <= n THEN n - 1 + 1 ELSE 0
        /\ \A i \in 1..(n - 1 + 1) : SubSeq(found, 1, n)[i] = found[1 + i - 1]
    BY <1>2, <1>4, SubSeqProperties
  <1>6. Len(SubSeq(found, 1, n)) = n
    BY <1>2, <1>5
  <1>7. \A i \in 1..n : SubSeq(found, 1, n)[i] = found[i]
    BY <1>2, <1>5
  <1> QED BY <1>3, <1>5, <1>6, <1>7 DEF n

(* What taking the first sitemap of the queue does.                        *)
Visited(next, st, name, source, site, w, limit) ==
    /\ next \in TraversalState
    /\ name \in STRING
    /\ next.seen = st.seen \cup {name}
    /\ ToSet(st.queue) = {name} \cup ToSet(Tail(st.queue))
    /\ Len(st.queue) \in Nat \ {0}
    /\ \/ /\ name \in st.seen \/ name \notin DOMAIN site \/ ~ site[name].ok
          /\ ToSet(next.queue) = ToSet(Tail(st.queue))
          /\ Len(next.queue) = Len(st.queue) - 1
          /\ next.out = st.out
       \/ /\ name \notin st.seen /\ name \in DOMAIN site /\ site[name].ok
          /\ ToSet(next.queue) = ToSet(Tail(st.queue)) \cup ToSet(Nests(site[name], source, w))
          /\ Len(next.queue) = Len(st.queue) - 1 + Len(Nests(site[name], source, w))
          /\ next.out = Cut(st.out \o Lists(site[name], source, w), limit)

LEMMA VisitFacts ==
  ASSUME NEW st \in TraversalState, st.queue # <<>>,
         NEW source, IsSource(source), NEW site, IsSite(site), NEW w, NEW limit \in Nat
  PROVE  Visited(Visit(st, source, site, w, limit), st, Head(st.queue), source, site, w, limit)
  <1> SUFFICES ASSUME NEW name, name = Head(st.queue), NEW next, next = Visit(st, source, site, w, limit)
               PROVE  Visited(next, st, name, source, site, w, limit)
    OBVIOUS
  <1> DEFINE q == st.queue
             d == Fetched(site, name)
             found == st.out \o Lists(d, source, w)
             left == [st EXCEPT !.queue = Tail(@), !.seen = @ \cup {name}]
  <1>1. q \in Seq(STRING) /\ st.out \in Seq(Address) /\ st.seen \in SUBSET STRING
    BY DEF TraversalState
  <1>2. /\ name \in STRING
        /\ Tail(q) \in Seq(STRING)
        /\ Len(Tail(q)) = Len(q) - 1
        /\ \A i \in 1..Len(Tail(q)) : Tail(q)[i] = q[i + 1]
    BY <1>1, HeadTailProperties
  <1>3. Len(q) \in Nat \ {0} /\ DOMAIN q = 1..Len(q) /\ q[1] = name
    BY <1>1, EmptySeq, LenProperties
  <1>4. ToSet(q) = {name} \cup ToSet(Tail(q))
    <2> DEFINE t == Tail(q)
    <2>1. DOMAIN t = 1..Len(t) /\ Len(t) = Len(q) - 1
      BY <1>2, LenProperties
    <2> HIDE DEF t
    <2>2. \A i \in 1..Len(t) : t[i] = q[i + 1]
      BY <1>2 DEF t
    <2>3. ASSUME NEW i \in 1..Len(q) PROVE q[i] \in {name} \cup ToSet(t)
      <3>1. CASE i = 1
        BY <1>3, <3>1
      <3>2. CASE i # 1
        <4>1. i - 1 \in 1..Len(t) /\ t[i - 1] = q[i]
          BY <1>3, <2>1, <2>2, <3>2
        <4> QED BY <2>1, <4>1 DEF ToSet
      <3> QED BY <3>1, <3>2
    <2>4. ASSUME NEW i \in 1..Len(t) PROVE t[i] \in ToSet(q)
      <3>1. i + 1 \in 1..Len(q) /\ q[i + 1] = t[i]
        BY <1>3, <2>1, <2>2
      <3> QED BY <1>3, <3>1 DEF ToSet
    <2>5. name \in ToSet(q)
      BY <1>3 DEF ToSet
    <2>6. ToSet(q) = {q[i] : i \in 1..Len(q)} /\ ToSet(t) = {t[i] : i \in 1..Len(t)}
      BY <1>3, <2>1 DEF ToSet
    <2>7. ToSet(q) = {name} \cup ToSet(t)
      BY <2>3, <2>4, <2>5, <2>6
    <2> QED BY <2>7 DEF t
  <1>5. d \in Document /\ (d.ok => name \in DOMAIN site /\ d = site[name])
    BY FetchedFacts
  <1>6. name \in DOMAIN site => d = site[name]
    BY DEF Fetched
  <1> HIDE DEF q, d
  <1>7. CASE name \in st.seen \/ ~ d.ok
    <2>1. next = left
      BY <1>7 DEF Visit, d, q
    <2>2. next = [queue |-> Tail(q), seen |-> st.seen \cup {name}, out |-> st.out]
      BY <2>1 DEF TraversalState, q
    <2>3. next \in TraversalState
      BY <1>1, <1>2, <2>2 DEF TraversalState
    <2>4. next.queue = Tail(q) /\ next.seen = st.seen \cup {name} /\ next.out = st.out
      BY <2>2
    <2>5. name \in st.seen \/ name \notin DOMAIN site \/ ~ site[name].ok
      BY <1>6, <1>7
    <2> QED BY <1>2, <1>3, <1>4, <2>3, <2>4, <2>5 DEF q, Visited
  <1>8. CASE name \notin st.seen /\ d.ok
    <2> DEFINE t == Tail(q)
               nests == Nests(d, source, w)
    <2>1. next = [left EXCEPT !.queue = @ \o nests, !.out = Cut(found, limit)]
      BY <1>8 DEF Visit, d, q, Cut
    <2> HIDE DEF nests
    <2>2. next = [queue |-> t \o nests, seen |-> st.seen \cup {name}, out |-> Cut(found, limit)]
      BY <2>1 DEF TraversalState, q
    <2>3. nests \in Seq(STRING)
      BY <1>5, NestsFacts DEF nests
    <2>4. t \o nests \in Seq(STRING) /\ ToSet(t \o nests) = ToSet(t) \cup ToSet(nests)
      BY <1>2, <2>3, ConcatFacts
    <2>5. Len(t \o nests) = Len(q) - 1 + Len(nests)
      BY <1>2, <2>3, ConcatProperties
    <2>6. Cut(found, limit) \in Seq(Address)
      <3>1. Lists(d, source, w) \in Seq(Address)
        BY <1>5, ListsFacts
      <3>2. found \in Seq(Address)
        BY <1>1, <3>1, ConcatFacts
      <3> QED BY <3>2, CutFacts
    <2> HIDE DEF t, found
    <2>7. next \in TraversalState
      BY <1>1, <1>2, <2>2, <2>4, <2>6 DEF TraversalState
    <2>8. next.queue = t \o nests /\ next.seen = st.seen \cup {name} /\ next.out = Cut(found, limit)
      BY <2>2
    <2>9. /\ name \notin st.seen /\ name \in DOMAIN site /\ site[name].ok
          /\ nests = Nests(site[name], source, w)
          /\ found = st.out \o Lists(site[name], source, w)
      BY <1>5, <1>8 DEF nests, found
    <2> QED BY <1>2, <1>3, <1>4, <2>4, <2>5, <2>7, <2>8, <2>9 DEF q, t, Visited
  <1> QED BY <1>7, <1>8

LEMMA TurnType ==
  ASSUME NEW st \in TraversalState,
         NEW source, IsSource(source), NEW site, IsSite(site), NEW w, NEW limit \in Nat
  PROVE  Turn(st, source, site, w, limit) \in TraversalState
  <1>1. CASE Finished(st, limit)
    BY <1>1 DEF Turn
  <1>2. CASE ~ Finished(st, limit)
    <2>1. st.queue # <<>>
      BY <1>2 DEF Finished
    <2>2. Visit(st, source, site, w, limit) \in TraversalState
      BY <2>1, VisitFacts DEF Visited
    <2> QED BY <1>2, <2>2 DEF Turn
  <1> QED BY <1>1, <1>2

Start(source) == [queue |-> source.sitemaps, seen |-> {}, out |-> <<>>]

(* The traversal takes its turns one after the other.                      *)
LEMMA TraversalFacts ==
  ASSUME NEW source, IsSource(source), NEW site, IsSite(site), NEW w, NEW limit \in Nat
  PROVE  /\ MaxVisits(source, site) \in Nat
         /\ Start(source) \in TraversalState
         /\ Traversal(source, site, w, limit)[0] = Start(source)
         /\ \A n \in 0..MaxVisits(source, site) : Traversal(source, site, w, limit)[n] \in TraversalState
         /\ \A n \in 1..MaxVisits(source, site) :
              Traversal(source, site, w, limit)[n] = Turn(Traversal(source, site, w, limit)[n - 1], source, site, w, limit)
  <1> DEFINE N == MaxVisits(source, site)
             S == TraversalState
             start == Start(source)
             turn == [x \in S |-> Turn(x, source, site, w, limit)]
             step == [n \in 1..N |-> turn]
             Is(f) == f = [n \in 0..N |-> IF n = 0 THEN start ELSE Turn(f[n - 1], source, site, w, limit)]
  <1>1. N \in Nat
    <2> DEFINE a == Len(source.sitemaps)
               c == Cardinality(DOMAIN site)
               k == Longest(site)
    <2>1. a \in Nat
      BY LenProperties DEF IsSource
    <2>2. c \in Nat
      BY FS_CardinalityType DEF IsSite
    <2>3. k \in Nat
      BY LongestFacts
    <2>4. N = a + c * k
      BY DEF MaxVisits, Longest
    <2> HIDE DEF N, a, c, k
    <2> QED BY <2>1, <2>2, <2>3, <2>4
  <1> HIDE DEF N
  <1>2. start \in S
    <2>1. source.sitemaps \in Seq(STRING) /\ <<>> \in Seq(Address)
      BY EmptySeq DEF IsSource
    <2> QED BY <2>1 DEF TraversalState, Start
  <1>3. \A x \in S : Turn(x, source, site, w, limit) \in S
    BY TurnType
  <1> HIDE DEF S, start
  <1>4. step \in [1..N -> [S -> S]]
    BY <1>3
  <1> HIDE DEF step
  <1>5. PICK h : /\ h = [n \in 0..N |-> IF n = 0 THEN start ELSE step[n][h[n - 1]]]
                 /\ h \in [0..N -> S]
    BY <1>1, <1>2, <1>4, RecursionExists
  <1>6. h[0] = start /\ \A n \in 1..N : h[n] = step[n][h[n - 1]] /\ h[n - 1] \in S
    <2>1. 0 \in 0..N /\ \A n \in 1..N : n \in 0..N /\ n - 1 \in 0..N /\ n # 0
      BY <1>1
    <2> QED BY <1>5, <2>1
  <1>7. \A n \in 1..N : h[n] = Turn(h[n - 1], source, site, w, limit)
    BY <1>6 DEF step
  <1>8. Is(h)
    <2>1. \A n \in 0..N : h[n] = IF n = 0 THEN start ELSE Turn(h[n - 1], source, site, w, limit)
      BY <1>1, <1>6, <1>7
    <2>2. h = [n \in 0..N |-> h[n]]
      BY <1>5
    <2> QED BY <2>1, <2>2
  <1> DEFINE f == CHOOSE f : Is(f)
  <1>9. Is(f)
    BY <1>8
  <1>10. Traversal(source, site, w, limit) = f
    BY DEF Traversal, N, start, Start
  <1> HIDE DEF f
  <1>11. f[0] = start /\ \A n \in 1..N : f[n] = Turn(f[n - 1], source, site, w, limit)
    <2>1. 0 \in 0..N /\ \A n \in 1..N : n \in 0..N /\ n # 0
      BY <1>1
    <2> QED BY <1>9, <2>1
  <1>12. \A n \in 0..N : f[n] \in S
    <2> DEFINE G == {n \in 0..N : f[n] \in S}
    <2>1. 0 \in G
      BY <1>1, <1>2, <1>11
    <2>2. ASSUME NEW n \in 1..N, n - 1 \in G PROVE n \in G
      <3>1. n \in 0..N /\ f[n - 1] \in S
        BY <1>1, <2>2
      <3> QED BY <1>3, <1>11, <3>1
    <2> HIDE DEF G
    <2>3. \A n \in 0..N : n \in G
      <3>1. \A n \in 1..N : n - 1 \in G => n \in G
        BY <2>2
      <3> QED BY <1>1, <2>1, <3>1, Upward
    <2> QED BY <2>3 DEF G
  <1> QED BY <1>1, <1>2, <1>10, <1>11, <1>12 DEF S, N, start

(* Where the traversal has been or will go, the sitemaps lead.             *)
CameThere(st, source, site, w) == (ToSet(st.queue) \cup st.seen) \cap DOMAIN site \subseteq Reachable(source, site, w)

LEMMA CameThereTurn ==
  ASSUME NEW st \in TraversalState,
         NEW source, IsSource(source), NEW site, IsSite(site), NEW w, NEW limit \in Nat,
         CameThere(st, source, site, w)
  PROVE  CameThere(Turn(st, source, site, w, limit), source, site, w)
  <1>1. CASE Finished(st, limit)
    BY <1>1 DEF Turn
  <1>2. CASE ~ Finished(st, limit)
    <2> DEFINE next == Visit(st, source, site, w, limit)
               name == Head(st.queue)
               tail == Tail(st.queue)
               nests == Nests(site[name], source, w)
    <2>1. st.queue # <<>> /\ Turn(st, source, site, w, limit) = next
      BY <1>2 DEF Finished, Turn
    <2>2. /\ next.seen = st.seen \cup {name}
          /\ ToSet(st.queue) = {name} \cup ToSet(tail)
          /\ \/ ToSet(next.queue) = ToSet(tail)
             \/ /\ name \in DOMAIN site /\ site[name].ok
                /\ ToSet(next.queue) = ToSet(tail) \cup ToSet(nests)
      <3>1. Visited(next, st, name, source, site, w, limit)
        BY <2>1, VisitFacts
      <3> QED BY <3>1 DEF Visited
    <2> HIDE DEF next, name, tail
    <2>3. ASSUME name \in DOMAIN site, site[name].ok, NEW t \in ToSet(nests) \cap DOMAIN site
          PROVE  t \in Reachable(source, site, w)
      <3>1. site[name] \in Document
        BY <2>3 DEF IsSite
      <3>2. LeadsTo(source, site, w, name, t)
        BY <2>3, <3>1, NestsFacts DEF LeadsTo
      <3>3. name \in Reachable(source, site, w)
        BY <2>2, <2>3 DEF CameThere
      <3>4. \A S \in Closed(source, site, w) : name \in S /\ t \in S
        BY <2>3, <3>2, <3>3 DEF Reachable, Closed
      <3> QED BY <3>4 DEF Reachable
    <2> HIDE DEF nests
    <2> QED BY <2>1, <2>2, <2>3 DEF CameThere
  <1> QED BY <1>1, <1>2

(* Where the sitemaps lead from where it has been, it has been or will go. *)
Expanded(st, source, site, w) ==
    /\ ToSet(source.sitemaps) \subseteq ToSet(st.queue) \cup st.seen
    /\ \A s \in st.seen \cap DOMAIN site, t \in DOMAIN site :
          LeadsTo(source, site, w, s, t) => t \in ToSet(st.queue) \cup st.seen

LEMMA ExpandedTurn ==
  ASSUME NEW st \in TraversalState,
         NEW source, IsSource(source), NEW site, IsSite(site), NEW w, NEW limit \in Nat,
         Expanded(st, source, site, w)
  PROVE  Expanded(Turn(st, source, site, w, limit), source, site, w)
  <1>1. CASE Finished(st, limit)
    BY <1>1 DEF Turn
  <1>2. CASE ~ Finished(st, limit)
    <2> DEFINE next == Visit(st, source, site, w, limit)
               name == Head(st.queue)
               tail == Tail(st.queue)
               nests == Nests(site[name], source, w)
    <2>1. st.queue # <<>> /\ Turn(st, source, site, w, limit) = next
      BY <1>2 DEF Finished, Turn
    <2>2. /\ next.seen = st.seen \cup {name}
          /\ ToSet(st.queue) = {name} \cup ToSet(tail)
          /\ \/ /\ name \in st.seen \/ name \notin DOMAIN site \/ ~ site[name].ok
                /\ ToSet(next.queue) = ToSet(tail)
             \/ /\ name \in DOMAIN site /\ site[name].ok
                /\ ToSet(next.queue) = ToSet(tail) \cup ToSet(nests)
      <3>1. Visited(next, st, name, source, site, w, limit)
        BY <2>1, VisitFacts
      <3> QED BY <3>1 DEF Visited
    <2> HIDE DEF next, name, tail
    <2>3. ToSet(st.queue) \cup st.seen \subseteq ToSet(next.queue) \cup next.seen
      BY <2>2
    <2>4. ASSUME NEW s \in next.seen \cap DOMAIN site, NEW t \in DOMAIN site, LeadsTo(source, site, w, s, t)
          PROVE  t \in ToSet(next.queue) \cup next.seen
      <3>1. CASE s \in st.seen
        BY <2>3, <2>4, <3>1 DEF Expanded
      <3>2. CASE s \notin st.seen
        <4>1. s = name /\ name \notin st.seen /\ name \in DOMAIN site /\ site[name].ok
          BY <2>2, <2>4, <3>2 DEF LeadsTo
        <4>2. ToSet(next.queue) = ToSet(tail) \cup ToSet(nests)
          BY <2>2, <4>1
        <4>3. site[name] \in Document
          BY <4>1 DEF IsSite
        <4>4. t \in ToSet(nests)
          BY <2>4, <4>1, <4>3, NestsFacts DEF LeadsTo
        <4> HIDE DEF nests
        <4> QED BY <4>2, <4>4
      <3> QED BY <3>1, <3>2
    <2>5. ToSet(source.sitemaps) \subseteq ToSet(next.queue) \cup next.seen
      BY <2>3 DEF Expanded
    <2> QED BY <2>1, <2>4, <2>5 DEF Expanded
  <1> QED BY <1>1, <1>2

(* Every turn brings the end nearer.                                       *)
Remaining(st, site) == Len(st.queue) + Cardinality(DOMAIN site \ st.seen) * Longest(site)

LEMMA RemainingTurn ==
  ASSUME NEW st \in TraversalState,
         NEW source, IsSource(source), NEW site, IsSite(site), NEW w, NEW limit \in Nat,
         ~ Finished(st, limit)
  PROVE  /\ Remaining(st, site) \in Nat
         /\ Remaining(Turn(st, source, site, w, limit), site) \in Nat
         /\ Remaining(Turn(st, source, site, w, limit), site) < Remaining(st, site)
  <1> DEFINE next == Visit(st, source, site, w, limit)
             name == Head(st.queue)
             nests == Nests(site[name], source, w)
             K == Longest(site)
             A == DOMAIN site \ st.seen
             B == DOMAIN site \ next.seen
             a == Cardinality(A)
             b == Cardinality(B)
             l == Len(st.queue)
             m == Len(next.queue)
  <1>1. st.queue # <<>> /\ Turn(st, source, site, w, limit) = next
    BY DEF Finished, Turn
  <1>2. /\ next.seen = st.seen \cup {name}
        /\ next \in TraversalState
        /\ l \in Nat
        /\ \/ m = l - 1
           \/ /\ name \notin st.seen /\ name \in DOMAIN site
              /\ m = l - 1 + Len(nests)
    <2>1. Visited(next, st, name, source, site, w, limit)
      BY <1>1, VisitFacts
    <2> QED BY <2>1 DEF Visited
  <1> HIDE DEF next, name
  <1>3. m \in Nat
    BY <1>2, LenProperties DEF TraversalState
  <1>4. K \in Nat
    BY LongestFacts
  <1>5. name \in DOMAIN site => Len(nests) \in Nat /\ Len(nests) <= K
    <2> SUFFICES ASSUME name \in DOMAIN site PROVE Len(nests) \in Nat /\ Len(nests) <= K
      OBVIOUS
    <2>1. site[name] \in Document
      BY DEF IsSite
    <2>2. nests \in Seq(STRING) /\ Len(nests) <= Len(site[name].locs) /\ site[name].locs \in Seq(STRING)
      BY <2>1, NestsFacts DEF Document
    <2>3. Len(site[name].locs) <= K
      BY LongestFacts
    <2> HIDE DEF nests, K
    <2>4. Len(nests) \in Nat /\ Len(site[name].locs) \in Nat
      BY <2>2, LenProperties
    <2> QED BY <1>4, <2>2, <2>3, <2>4 DEF K
  <1>6. B = A \ {name} /\ IsFiniteSet(A)
    BY <1>2, FS_Difference DEF IsSite
  <1>7. a \in Nat /\ b \in Nat /\ b = IF name \in A THEN a - 1 ELSE a
    <2> HIDE DEF A, B
    <2>1. IsFiniteSet(A \ {name}) /\ Cardinality(A \ {name}) = IF name \in A THEN a - 1 ELSE a
      BY <1>6, FS_RemoveElement
    <2> QED BY <1>6, <2>1, FS_CardinalityType
  <1>8. Remaining(st, site) = l + a * K /\ Remaining(next, site) = m + b * K
    BY DEF Remaining
  <1>9. name \in A <=> name \notin st.seen /\ name \in DOMAIN site
    OBVIOUS
  <1> HIDE DEF A, B, K, nests, a, b, l, m
  <1>10. a * K \in Nat /\ b * K \in Nat
    BY <1>4, <1>7
  <1>11. CASE name \in A
    <2>1. b = a - 1
      BY <1>7, <1>11
    <2>2. b * K = a * K - K
      BY <1>4, <1>7, <2>1
    <2>3. Len(nests) \in Nat /\ Len(nests) <= K /\ (m = l - 1 \/ m = l - 1 + Len(nests))
      BY <1>2, <1>5, <1>9, <1>11
    <2> QED BY <1>1, <1>2, <1>3, <1>4, <1>8, <1>10, <2>2, <2>3
  <1>12. CASE name \notin A
    <2>1. b = a /\ m = l - 1
      BY <1>2, <1>7, <1>9, <1>12
    <2> QED BY <1>1, <1>2, <1>3, <1>8, <1>10, <2>1
  <1> QED BY <1>11, <1>12

-----------------------------------------------------------------------------
(* Where the articles of the traversal were listed.                        *)

UrlAt(site, o) == site[o[1]].entries[o[2]].url

LEMMA OffersFacts ==
  ASSUME NEW source, NEW site, NEW w
  PROVE  /\ \A s, k : <<s, k>> \in Offers(source, site, w)
                        <=> /\ s \in Reachable(source, site, w) /\ site[s].ok
                            /\ k \in ListedIn(site[s], source, w)
         /\ \A o \in Offers(source, site, w) : o = <<o[1], o[2]>>
  <1>1. \A o : o \in Offers(source, site, w)
                 <=> \E s \in Reachable(source, site, w) :
                       /\ site[s].ok
                       /\ \E k \in ListedIn(site[s], source, w) : o = <<s, k>>
    BY DEF Offers, ListedIn
  <1> QED BY <1>1

(* g tells where each article was listed: not two at one place, and, as    *)
(* long as there is room, one for every place in the documents seen.       *)
Traces(g, st, source, site, w, limit) ==
    /\ Len(st.out) <= limit
    /\ g \in [1..Len(st.out) -> Offers(source, site, w)]
    /\ \A i, j \in 1..Len(st.out) : g[i] = g[j] => i = j
    /\ \A i \in 1..Len(st.out) : g[i][1] \in st.seen /\ st.out[i] = UrlAt(site, g[i])
    /\ \/ Len(st.out) = limit
       \/ \A o \in Offers(source, site, w) : o[1] \in st.seen => \E i \in 1..Len(st.out) : g[i] = o

LEMMA TracesTurn ==
  ASSUME NEW st \in TraversalState,
         NEW source, IsSource(source), NEW site, IsSite(site), NEW w, NEW limit \in Nat,
         CameThere(st, source, site, w), \E g : Traces(g, st, source, site, w, limit)
  PROVE  \E g : Traces(g, Turn(st, source, site, w, limit), source, site, w, limit)
  <1>1. CASE Finished(st, limit)
    BY <1>1 DEF Turn
  <1>2. CASE ~ Finished(st, limit)
    <2> DEFINE next == Visit(st, source, site, w, limit)
               name == Head(st.queue)
               d == site[name]
               more == Lists(d, source, w)
               O == Offers(source, site, w)
               a == st.out
               b == next.out
    <2>1. st.queue # <<>> /\ Turn(st, source, site, w, limit) = next /\ ~(Len(a) >= limit)
      BY <1>2 DEF Finished, Turn
    <2>2. /\ next.seen = st.seen \cup {name}
          /\ name \in ToSet(st.queue)
          /\ \/ /\ name \in st.seen \/ name \notin DOMAIN site \/ ~ d.ok
                /\ b = a
             \/ /\ name \notin st.seen /\ name \in DOMAIN site /\ d.ok
                /\ b = Cut(a \o more, limit)
      <3>1. Visited(next, st, name, source, site, w, limit)
        BY <2>1, VisitFacts
      <3> QED BY <3>1 DEF Visited
    <2>3. PICK g : Traces(g, st, source, site, w, limit)
      OBVIOUS
    <2>4. a \in Seq(Address) /\ Len(a) \in Nat
      BY LenProperties DEF TraversalState
    <2> HIDE DEF next, name
    <2>5. CASE /\ name \in st.seen \/ name \notin DOMAIN site \/ ~ d.ok
               /\ b = a
      <3>1. \A o \in O : o[1] \in next.seen => o[1] \in st.seen
        <4> SUFFICES ASSUME NEW o \in O, o[1] \in next.seen, o[1] \notin st.seen PROVE FALSE
          OBVIOUS
        <4>1. o[1] = name
          BY <2>2
        <4>2. o = <<o[1], o[2]>>
          BY OffersFacts
        <4>3. name \in DOMAIN site /\ d.ok
          BY <4>1, <4>2, OffersFacts DEF Reachable
        <4> QED BY <2>5, <4>1, <4>3
      <3> HIDE DEF O
      <3>2. Traces(g, next, source, site, w, limit)
        BY <2>2, <2>3, <2>5, <3>1 DEF Traces, O
      <3> QED BY <2>1, <3>2
    <2>6. CASE /\ name \notin st.seen /\ name \in DOMAIN site /\ d.ok
               /\ b = Cut(a \o more, limit)
      <3>1. d \in Document
        BY <2>6 DEF IsSite
      <3>2. /\ more \in Seq(Address)
            /\ \E h : /\ Enumerates(h, Len(more), ListedIn(d, source, w))
                      /\ \A k \in 1..Len(more) : more[k] = d.entries[h[k]].url
        BY <3>1, ListsFacts
      <3> HIDE DEF more
      <3>3. PICK h : /\ Enumerates(h, Len(more), ListedIn(d, source, w))
                     /\ \A k \in 1..Len(more) : more[k] = d.entries[h[k]].url
        BY <3>2
      <3>4. /\ Len(more) \in Nat
            /\ a \o more \in Seq(Address)
            /\ Len(a \o more) = Len(a) + Len(more)
            /\ \A i \in 1..(Len(a) + Len(more)) : (a \o more)[i] = IF i <= Len(a) THEN a[i] ELSE more[i - Len(a)]
        BY <2>4, <3>2, ConcatProperties, LenProperties
      <3> DEFINE n == Len(b)
      <3>5. /\ b \in Seq(Address)
            /\ n = IF limit <= Len(a) + Len(more) THEN limit ELSE Len(a) + Len(more)
            /\ \A i \in 1..n : b[i] = (a \o more)[i]
        <4> DEFINE c == a \o more
        <4>1. c \in Seq(Address) /\ Len(c) = Len(a) + Len(more) /\ b = Cut(c, limit)
          BY <2>6, <3>4
        <4> HIDE DEF c, b
        <4>2. /\ Cut(c, limit) \in Seq(Address)
              /\ Len(Cut(c, limit)) = IF limit <= Len(c) THEN limit ELSE Len(c)
              /\ \A i \in 1..Len(Cut(c, limit)) : Cut(c, limit)[i] = c[i]
          BY <4>1, CutFacts
        <4> QED BY <4>1, <4>2 DEF c
      <3> HIDE DEF n, a, b
      <3>6. n \in Nat /\ Len(a) <= n /\ n <= limit /\ n <= Len(a) + Len(more) /\ Len(a) < limit
        BY <2>1, <2>4, <3>4, <3>5
      <3>7. \A i \in 1..n : /\ i <= Len(a) => i \in 1..Len(a)
                            /\ ~(i <= Len(a)) => i - Len(a) \in 1..Len(more)
        BY <2>4, <3>4, <3>6
      <3>8. \A i \in 1..n : b[i] = IF i <= Len(a) THEN a[i] ELSE more[i - Len(a)]
        BY <2>4, <3>4, <3>5, <3>6
      <3>9. /\ g \in [1..Len(a) -> O]
            /\ \A i, j \in 1..Len(a) : g[i] = g[j] => i = j
            /\ \A i \in 1..Len(a) : g[i][1] \in st.seen /\ a[i] = UrlAt(site, g[i])
            /\ \A o \in O : o[1] \in st.seen => \E i \in 1..Len(a) : g[i] = o
        <4>1. Traces(g, st, source, site, w, limit) /\ Len(a) # limit
          BY <2>3, <2>4, <3>6
        <4> QED BY <4>1 DEF Traces, a
      <3>10. \A k \in 1..Len(more) : h[k] \in ListedIn(d, source, w) /\ <<name, h[k]>> \in O
        <4>1. \A k \in 1..Len(more) : h[k] \in ListedIn(d, source, w)
          BY <3>3 DEF Enumerates
        <4>2. name \in Reachable(source, site, w)
          BY <2>2, <2>6 DEF CameThere
        <4> QED BY <2>6, <4>1, <4>2, OffersFacts
      <3> DEFINE e == [i \in 1..n |-> IF i <= Len(a) THEN g[i] ELSE <<name, h[i - Len(a)]>>]
      <3>11. e \in [1..n -> O]
        BY <3>7, <3>9, <3>10
      <3>12. \A i \in 1..n : /\ i <= Len(a) => e[i] = g[i]
                             /\ ~(i <= Len(a)) => e[i] = <<name, h[i - Len(a)]>>
        OBVIOUS
      <3> HIDE DEF e, O
      <3>13. \A i \in 1..n : e[i][1] \in next.seen /\ b[i] = UrlAt(site, e[i])
        <4> SUFFICES ASSUME NEW i \in 1..n PROVE e[i][1] \in next.seen /\ b[i] = UrlAt(site, e[i])
          OBVIOUS
        <4>1. CASE i <= Len(a)
          BY <2>2, <3>7, <3>8, <3>9, <3>12, <4>1
        <4>2. CASE ~(i <= Len(a))
          <5>1. b[i] = more[i - Len(a)] /\ i - Len(a) \in 1..Len(more)
            BY <3>7, <3>8, <4>2
          <5>2. b[i] = d.entries[h[i - Len(a)]].url
            BY <3>3, <5>1
          <5>3. e[i][1] = name /\ e[i][2] = h[i - Len(a)]
            BY <3>12, <4>2
          <5> QED BY <2>2, <5>2, <5>3 DEF UrlAt
        <4> QED BY <4>1, <4>2
      <3>14. \A i, j \in 1..n : e[i] = e[j] => i = j
        <4> SUFFICES ASSUME NEW i \in 1..n, NEW j \in 1..n, e[i] = e[j] PROVE i = j
          OBVIOUS
        <4>1. CASE i <= Len(a) /\ j <= Len(a)
          BY <3>7, <3>9, <3>12, <4>1
        <4>2. CASE i <= Len(a) /\ ~(j <= Len(a))
          <5>1. e[i][1] \in st.seen /\ e[j][1] = name
            BY <3>7, <3>9, <3>12, <4>2
          <5> QED BY <2>6, <5>1
        <4>3. CASE ~(i <= Len(a)) /\ j <= Len(a)
          <5>1. e[j][1] \in st.seen /\ e[i][1] = name
            BY <3>7, <3>9, <3>12, <4>3
          <5> QED BY <2>6, <5>1
        <4>4. CASE ~(i <= Len(a)) /\ ~(j <= Len(a))
          <5>1. h[i - Len(a)] = h[j - Len(a)]
            BY <3>12, <4>4
          <5>2. i - Len(a) \in 1..Len(more) /\ j - Len(a) \in 1..Len(more)
            BY <3>7, <4>4
          <5>3. i - Len(a) = j - Len(a)
            BY <3>3, <5>1, <5>2 DEF Enumerates
          <5> QED BY <2>4, <5>3
        <4> QED BY <4>1, <4>2, <4>3, <4>4
      <3>15. n = limit \/ \A o \in O : o[1] \in next.seen => \E i \in 1..n : e[i] = o
        <4> SUFFICES ASSUME n # limit, NEW o \in O, o[1] \in next.seen PROVE \E i \in 1..n : e[i] = o
          OBVIOUS
        <4>1. n = Len(a) + Len(more)
          BY <2>4, <3>4, <3>5
        <4>2. CASE o[1] \in st.seen
          <5>1. PICK i \in 1..Len(a) : g[i] = o
            BY <3>9, <4>2
          <5>2. i \in 1..n /\ i <= Len(a)
            BY <2>4, <3>6
          <5> QED BY <3>12, <5>1, <5>2
        <4>3. CASE o[1] \notin st.seen
          <5>1. o[1] = name /\ o = <<o[1], o[2]>>
            BY <2>2, <4>3, OffersFacts DEF O
          <5>2. o[2] \in ListedIn(d, source, w)
            BY <5>1, OffersFacts DEF O
          <5>3. PICK k \in 1..Len(more) : h[k] = o[2]
            BY <3>3, <5>2 DEF Enumerates
          <5>4. Len(a) + k \in 1..n /\ ~(Len(a) + k <= Len(a)) /\ Len(a) + k - Len(a) = k
            BY <2>4, <3>4, <4>1
          <5>5. e[Len(a) + k] = <<name, h[k]>>
            BY <3>12, <5>4
          <5> QED BY <5>1, <5>3, <5>4, <5>5
        <4> QED BY <4>2, <4>3
      <3>16. Traces(e, next, source, site, w, limit)
        BY <3>6, <3>11, <3>13, <3>14, <3>15 DEF Traces, n, b, O
      <3> QED BY <2>1, <3>16
    <2> QED BY <2>2, <2>5, <2>6
  <1> QED BY <1>1, <1>2

LEMMA OffersAreFinite ==
  ASSUME NEW source, NEW site, IsSite(site), NEW w
  PROVE  IsFiniteSet(Offers(source, site, w))
  <1> DEFINE of(s) == {<<s, k>> : k \in DOMAIN site[s].entries}
             f == [s \in DOMAIN site |-> of(s)]
             B == {of(s) : s \in DOMAIN site}
  <1>1. ASSUME NEW s \in DOMAIN site PROVE IsFiniteSet(of(s))
    <2> DEFINE D == DOMAIN site[s].entries
               pair == [k \in D |-> <<s, k>>]
    <2>1. IsFiniteSet(D)
      BY PositionsAreFinite DEF IsSite, Document
    <2>2. pair \in [D -> of(s)] /\ \A x \in of(s) : \E k \in D : pair[k] = x
      OBVIOUS
    <2> HIDE DEF pair, D, of
    <2>3. pair \in Surjection(D, of(s))
      BY <2>2, Fun_IsSurj
    <2> QED BY <2>1, <2>3, FS_Surjection
  <1> HIDE DEF of
  <1>2. f \in [DOMAIN site -> B] /\ \A x \in B : \E s \in DOMAIN site : f[s] = x
    OBVIOUS
  <1> HIDE DEF f
  <1>3. f \in Surjection(DOMAIN site, B)
    <2> HIDE DEF B
    <2> QED BY <1>2, Fun_IsSurj
  <1>4. IsFiniteSet(B)
    <2> HIDE DEF B
    <2> QED BY <1>3, FS_Surjection DEF IsSite
  <1>5. \A T \in B : IsFiniteSet(T)
    BY <1>1
  <1>6. IsFiniteSet(UNION B)
    <2> HIDE DEF B
    <2> QED BY <1>4, <1>5, FS_UNION
  <1>7. Offers(source, site, w) \in SUBSET UNION B
    <2> SUFFICES ASSUME NEW o \in Offers(source, site, w) PROVE o \in UNION B
      OBVIOUS
    <2>1. PICK s \in DOMAIN site : \E k \in DOMAIN site[s].entries : o = <<s, k>>
      BY DEF Offers, Reachable
    <2> QED BY <2>1 DEF of
  <1> QED BY <1>6, <1>7, FS_Subset

Mapped(source, site, w) == {UrlAt(site, o) : o \in Offers(source, site, w)}

(* The traversal ends: the turns are as many as it can need.               *)
LEMMA TraversalEnds ==
  ASSUME NEW source, IsSource(source), NEW site, IsSite(site), NEW w, NEW limit \in Nat
  PROVE  \E st \in TraversalState :
           /\ SitemapUrls(source, site, w, limit) = st.out
           /\ Finished(st, limit)
           /\ CameThere(st, source, site, w)
           /\ Expanded(st, source, site, w)
           /\ \E g : Traces(g, st, source, site, w, limit)
  <1> DEFINE N == MaxVisits(source, site)
             f == Traversal(source, site, w, limit)
             start == Start(source)
             Holds(st) == /\ CameThere(st, source, site, w)
                          /\ Expanded(st, source, site, w)
                          /\ \E g : Traces(g, st, source, site, w, limit)
             Ends(st, n) == Finished(st, limit) \/ Remaining(st, site) + n <= N
             G == {n \in 0..N : Holds(f[n]) /\ Ends(f[n], n)}
  <1>1. /\ N \in Nat
        /\ start \in TraversalState
        /\ f[0] = start
        /\ \A n \in 0..N : f[n] \in TraversalState
        /\ \A n \in 1..N : f[n] = Turn(f[n - 1], source, site, w, limit)
    BY TraversalFacts
  <1>2. SitemapUrls(source, site, w, limit) = f[N].out
    BY DEF SitemapUrls
  <1> HIDE DEF f
  <1>3. start.queue = source.sitemaps /\ start.seen = {} /\ start.out = <<>>
    BY DEF Start
  <1>4. Ends(start, 0)
    <2> DEFINE a == Len(source.sitemaps)
               c == Cardinality(DOMAIN site)
               k == Longest(site)
    <2>1. a \in Nat
      BY LenProperties DEF IsSource
    <2>2. c \in Nat /\ k \in Nat
      BY FS_CardinalityType, LongestFacts DEF IsSite
    <2>3. N = a + c * k
      BY DEF MaxVisits, Longest
    <2>4. DOMAIN site \ {} = DOMAIN site
      OBVIOUS
    <2>5. Remaining(start, site) = a + c * k
      BY <1>3, <2>4 DEF Remaining
    <2> HIDE DEF N, a, c, k, start
    <2>6. c * k \in Nat
      BY <2>2
    <2> QED BY <2>1, <2>3, <2>5, <2>6
  <1> HIDE DEF N
  <1>5. Holds(start)
    <2>1. CameThere(start, source, site, w)
      <3> SUFFICES ASSUME NEW s \in ToSet(source.sitemaps) \cap DOMAIN site PROVE s \in Reachable(source, site, w)
        BY <1>3 DEF CameThere
      <3>1. \A S \in Closed(source, site, w) : s \in S
        BY DEF Closed
      <3> QED BY <3>1 DEF Reachable
    <2>2. Expanded(start, source, site, w)
      BY <1>3 DEF Expanded
    <2>3. \E g : Traces(g, start, source, site, w, limit)
      <3> DEFINE g == [i \in 1..0 |-> <<>>]
      <3>1. Len(start.out) = 0
        BY <1>3, EmptySeq
      <3>2. g \in [1..0 -> Offers(source, site, w)]
        OBVIOUS
      <3> HIDE DEF g, start
      <3>3. Traces(g, start, source, site, w, limit)
        BY <1>3, <3>1, <3>2 DEF Traces
      <3> QED BY <3>3
    <2> QED BY <2>1, <2>2, <2>3
  <1> HIDE DEF start
  <1>6. 0 \in G
    BY <1>1, <1>4, <1>5
  <1>7. ASSUME NEW n \in 1..N, n - 1 \in G PROVE n \in G
    <2> DEFINE x == f[n - 1]
    <2>1. /\ x \in TraversalState
          /\ f[n] = Turn(x, source, site, w, limit)
          /\ Holds(x)
          /\ Ends(x, n - 1)
          /\ n \in 0..N
      BY <1>1, <1>7
    <2> HIDE DEF x
    <2>2. Holds(f[n])
      <3>1. CameThere(f[n], source, site, w)
        BY <2>1, CameThereTurn
      <3>2. Expanded(f[n], source, site, w)
        BY <2>1, ExpandedTurn
      <3>3. \E g : Traces(g, f[n], source, site, w, limit)
        BY <2>1, TracesTurn
      <3> QED BY <3>1, <3>2, <3>3
    <2>3. Ends(f[n], n)
      <3>1. CASE Finished(x, limit)
        BY <2>1, <3>1 DEF Turn
      <3>2. CASE ~ Finished(x, limit)
        <4>1. /\ Remaining(x, site) \in Nat
              /\ Remaining(f[n], site) \in Nat
              /\ Remaining(f[n], site) < Remaining(x, site)
          BY <2>1, <3>2, RemainingTurn
        <4>2. Remaining(x, site) + (n - 1) <= N
          BY <2>1, <3>2
        <4>3. Remaining(f[n], site) + n <= N
          BY <1>1, <4>1, <4>2
        <4> QED BY <4>3
      <3> QED BY <3>1, <3>2
    <2> QED BY <2>1, <2>2, <2>3
  <1> HIDE DEF G
  <1>8. N \in G /\ N \in 0..N
    <2>1. \A n \in 1..N : n - 1 \in G => n \in G
      BY <1>7
    <2>2. \A n \in 0..N : n \in G
      BY <1>1, <1>6, <2>1, Upward
    <2> QED BY <1>1, <2>2
  <1> DEFINE st == f[N]
  <1>9. st \in TraversalState /\ Holds(st) /\ Ends(st, N)
    BY <1>1, <1>8 DEF G
  <1> HIDE DEF st
  <1>10. Finished(st, limit)
    <2> SUFFICES ASSUME Remaining(st, site) + N <= N PROVE Finished(st, limit)
      BY <1>9
    <2>1. st.queue \in Seq(STRING) /\ Len(st.queue) \in Nat
      BY <1>9, LenProperties DEF TraversalState
    <2>2. IsFiniteSet(DOMAIN site \ st.seen)
      BY FS_Difference DEF IsSite
    <2>3. Cardinality(DOMAIN site \ st.seen) \in Nat /\ Longest(site) \in Nat
      BY <2>2, FS_CardinalityType, LongestFacts
    <2> DEFINE c == Cardinality(DOMAIN site \ st.seen)
               k == Longest(site)
    <2>4. Remaining(st, site) = Len(st.queue) + c * k
      BY DEF Remaining
    <2> HIDE DEF c, k
    <2>5. c * k \in Nat
      BY <2>3 DEF c, k
    <2>6. Len(st.queue) = 0
      BY <1>1, <2>1, <2>4, <2>5
    <2>7. st.queue = <<>>
      BY <2>1, <2>6, EmptySeq
    <2> QED BY <2>7 DEF Finished
  <1> QED BY <1>2, <1>9, <1>10 DEF st

(* What the sitemaps give: only what they offer; all of it, if the limit   *)
(* is not reached; and nothing twice, if they offer nothing twice.         *)
LEMMA SitemapFacts ==
  ASSUME NEW source, IsSource(source), NEW site, IsSite(site), NEW w, NEW limit \in Nat,
         NEW out, out = SitemapUrls(source, site, w, limit)
  PROVE  /\ out \in Seq(Address)
         /\ Len(out) <= limit
         /\ ToSet(out) \subseteq Mapped(source, site, w)
         /\ Len(out) = limit \/ Mapped(source, site, w) \subseteq ToSet(out)
         /\ Cardinality(Offers(source, site, w)) = Cardinality(Mapped(source, site, w)) => Distinct(out)
  <1> DEFINE O == Offers(source, site, w)
             M == Mapped(source, site, w)
  <1>1. PICK st \in TraversalState : /\ out = st.out
                                     /\ Finished(st, limit)
                                     /\ CameThere(st, source, site, w)
                                     /\ Expanded(st, source, site, w)
                                     /\ \E g : Traces(g, st, source, site, w, limit)
    BY TraversalEnds
  <1>2. PICK g : Traces(g, st, source, site, w, limit)
    BY <1>1
  <1>3. out \in Seq(Address) /\ Len(out) \in Nat /\ DOMAIN out = 1..Len(out)
    BY <1>1, LenProperties DEF TraversalState
  <1>4. /\ Len(out) <= limit
        /\ g \in [1..Len(out) -> O]
        /\ \A i, j \in 1..Len(out) : g[i] = g[j] => i = j
        /\ \A i \in 1..Len(out) : g[i][1] \in st.seen /\ out[i] = UrlAt(site, g[i])
        /\ \/ Len(out) = limit
           \/ \A o \in O : o[1] \in st.seen => \E i \in 1..Len(out) : g[i] = o
    BY <1>1, <1>2 DEF Traces
  <1>5. ToSet(out) \subseteq M
    <2>1. \A i \in 1..Len(out) : g[i] \in O /\ out[i] = UrlAt(site, g[i])
      BY <1>4
    <2>2. \A o \in O : UrlAt(site, o) \in M
      BY DEF Mapped
    <2> HIDE DEF O, M
    <2>3. \A i \in 1..Len(out) : out[i] \in M
      BY <2>1, <2>2
    <2> QED BY <1>3, <2>3 DEF ToSet
  <1>6. ASSUME Len(out) # limit PROVE M \subseteq ToSet(out)
    <2>1. st.queue = <<>>
      BY <1>1, <1>3, <1>4, <1>6 DEF Finished
    <2>2. ToSet(st.queue) = {}
      BY <2>1 DEF ToSet
    <2> DEFINE S == st.seen \cap DOMAIN site
    <2>3. S \in Closed(source, site, w)
      BY <1>1, <2>2 DEF Expanded, Closed
    <2> HIDE DEF S
    <2>4. Reachable(source, site, w) \subseteq S
      BY <2>3 DEF Reachable
    <2> SUFFICES ASSUME NEW o \in O PROVE UrlAt(site, o) \in ToSet(out)
      BY DEF Mapped
    <2>5. o = <<o[1], o[2]>>
      BY OffersFacts
    <2>6. o[1] \in Reachable(source, site, w)
      BY <2>5, OffersFacts
    <2>7. o[1] \in st.seen
      BY <2>4, <2>6 DEF S
    <2> HIDE DEF O
    <2>8. PICK i \in 1..Len(out) : g[i] = o
      BY <1>4, <1>6, <2>7
    <2> QED BY <1>3, <1>4, <2>8 DEF ToSet
  <1>7. ASSUME Cardinality(O) = Cardinality(M) PROVE Distinct(out)
    <2> DEFINE url == [o \in O |-> UrlAt(site, o)]
    <2>1. url \in [O -> M] /\ \A x \in M : \E o \in O : url[o] = x
      BY DEF Mapped
    <2>2. IsFiniteSet(O)
      BY OffersAreFinite
    <2>3. \A o \in O : url[o] = UrlAt(site, o)
      OBVIOUS
    <2> HIDE DEF url, O, M
    <2>4. url \in Surjection(O, M)
      BY <2>1, Fun_IsSurj
    <2>5. url \in Injection(O, M)
      BY <1>7, <2>2, <2>4, FS_SurjSameCardinalityImpliesInj
    <2>6. \A o, p \in O : url[o] = url[p] => o = p
      BY <2>5, Fun_InjectionProperties
    <2>7. \A i \in 1..Len(out) : g[i] \in O /\ out[i] = url[g[i]]
      BY <1>4, <2>3 DEF O
    <2> SUFFICES ASSUME NEW i \in 1..Len(out), NEW j \in 1..Len(out), out[i] = out[j] PROVE i = j
      BY <1>3 DEF Distinct
    <2>8. g[i] = g[j]
      BY <2>6, <2>7
    <2> QED BY <1>4, <2>8
  <1> QED BY <1>3, <1>4, <1>5, <1>6, <1>7

-----------------------------------------------------------------------------
(* Discovery is complete: whatever the source is configured to, whatever   *)
(* its site answers and whatever window is asked for, a pass collects only *)
(* URLs that some channel offers, no URL twice and no more than the limit; *)
(* and if it stays below the limit it misses nothing that was offered,     *)
(* unless the sitemaps list some URL at two places.                        *)
THEOREM Complete ==
  ASSUME NEW source, IsSource(source), NEW site, IsSite(site), NEW w
  PROVE  /\ Discover(source, site, w) \in Seq(Address)
         /\ IsComplete(Discover(source, site, w), source, site, w)
  <1> DEFINE limit == DiscoveryLimit(w)
             feeds == FeedUrls(source, site, w)
             out == SitemapUrls(source, site, w, limit)
             links == SectionUrls(source, site)
             fed == AppendUnique(<<>>, feeds, limit)
             all == IF Len(fed) < limit THEN AppendUnique(fed, out, limit) ELSE fed
             found == IF Len(all) < limit THEN AppendUnique(all, links, limit) ELSE all
             F == FeedOffers(source, site, w)
             M == Mapped(source, site, w)
             S == SectionOffers(source, site)
             O == Offers(source, site, w)
  <1>1. limit \in Nat
    BY LimitsAssumption, MaxOfTwo DEF DiscoveryLimit
  <1>2. Discover(source, site, w) = found
    BY DEF Discover
  <1> HIDE DEF limit
  <1>3. feeds \in Seq(Address) /\ ToSet(feeds) = F
    BY FeedFacts
  <1>4. links \in Seq(Address) /\ ToSet(links) = S
    BY SectionFacts
  <1>5. /\ out \in Seq(Address)
        /\ Len(out) <= limit
        /\ ToSet(out) \subseteq M
        /\ Len(out) = limit \/ M \subseteq ToSet(out)
        /\ Cardinality(O) = Cardinality(M) => Distinct(out)
    BY <1>1, SitemapFacts
  <1> HIDE DEF feeds, links, out, F, M, S, O
  <1>6. Extends(fed, <<>>, F, limit, Address)
    <2>1. <<>> \in Seq(Address) /\ Len(<<>>) = 0 /\ Distinct(<<>>)
      BY EmptySeq DEF Distinct
    <2>2. Len(<<>>) <= limit
      BY <1>1, <2>1
    <2> QED BY <1>1, <1>3, <2>1, <2>2, AppendUniqueFacts
  <1>7. ToSet(<<>>) = {}
    BY DEF ToSet
  <1>8. /\ fed \in Seq(Address) /\ Distinct(fed) /\ Len(fed) <= limit
        /\ ToSet(fed) \subseteq F
        /\ Len(fed) = limit \/ F \subseteq ToSet(fed)
    BY <1>6, <1>7 DEF Extends
  <1> HIDE DEF fed
  <1>9. Len(fed) \in Nat
    BY <1>8, LenProperties
  <1>10. /\ all \in Seq(Address) /\ Distinct(all) /\ Len(all) <= limit
         /\ ToSet(all) \subseteq F \cup M
         /\ \/ Len(all) = limit
            \/ F \cup ToSet(out) \subseteq ToSet(all)
    <2>1. CASE Len(fed) < limit
      <3> DEFINE r == AppendUnique(fed, out, limit)
      <3>1. Extends(r, fed, ToSet(out), limit, Address)
        BY <1>1, <1>5, <1>8, AppendUniqueFacts
      <3>2. all = r /\ F \subseteq ToSet(fed)
        BY <1>1, <1>8, <1>9, <2>1
      <3> HIDE DEF r, all
      <3> QED BY <1>5, <1>8, <3>1, <3>2 DEF Extends
    <2>2. CASE ~(Len(fed) < limit)
      <3>1. all = fed /\ Len(fed) = limit
        BY <1>1, <1>8, <1>9, <2>2
      <3> HIDE DEF all
      <3> QED BY <1>8, <3>1
    <2> QED BY <2>1, <2>2
  <1> HIDE DEF all
  <1>11. Len(all) \in Nat
    BY <1>10, LenProperties
  <1>12. /\ found \in Seq(Address) /\ Distinct(found) /\ Len(found) <= limit
         /\ ToSet(found) \subseteq F \cup M \cup S
         /\ \/ Len(found) = limit
            \/ F \cup ToSet(out) \cup S \subseteq ToSet(found)
    <2>1. CASE Len(all) < limit
      <3> DEFINE r == AppendUnique(all, links, limit)
      <3>1. Extends(r, all, S, limit, Address)
        BY <1>1, <1>4, <1>10, AppendUniqueFacts
      <3>2. found = r /\ F \cup ToSet(out) \subseteq ToSet(all)
        BY <1>1, <1>10, <1>11, <2>1
      <3> HIDE DEF r, found
      <3> QED BY <1>10, <3>1, <3>2 DEF Extends
    <2>2. CASE ~(Len(all) < limit)
      <3>1. found = all /\ Len(all) = limit
        BY <1>1, <1>10, <1>11, <2>2
      <3> HIDE DEF found
      <3> QED BY <1>10, <3>1
    <2> QED BY <2>1, <2>2
  <1> HIDE DEF found
  <1>13. /\ IsFiniteSet(ToSet(found)) /\ Len(found) \in Nat
         /\ Cardinality(ToSet(found)) = Len(found)
    BY <1>12, SizeOfList, LenProperties
  <1>14. ASSUME Len(found) # limit, Cardinality(O) = Cardinality(M)
         PROVE  M \subseteq ToSet(found)
    <2>1. ToSet(out) \subseteq ToSet(found)
      BY <1>12, <1>14
    <2>2. CASE M \subseteq ToSet(out)
      BY <2>1, <2>2
    <2>3. CASE Len(out) = limit
      <3>1. Distinct(out)
        BY <1>5, <1>14
      <3>2. Cardinality(ToSet(out)) = limit
        BY <1>5, <2>3, <3>1, SizeOfList
      <3>3. Cardinality(ToSet(out)) <= Cardinality(ToSet(found))
        BY <1>13, <2>1, FS_Subset
      <3>4. limit <= Len(found)
        BY <1>13, <3>2, <3>3
      <3> QED BY <1>1, <1>12, <1>13, <1>14, <3>4
    <2> QED BY <1>5, <2>2, <2>3
  <1>15. M \cup F \cup S \subseteq ToSet(found) \/ Len(found) = limit \/ Cardinality(O) # Cardinality(M)
    BY <1>12, <1>14
  <1>16. M = {site[o[1]].entries[o[2]].url : o \in O}
    BY DEF M, O, Mapped, UrlAt
  <1>17. /\ Cardinality(ToSet(found)) = Len(found)
         /\ ToSet(found) \subseteq M \cup F \cup S
         /\ Len(found) <= limit
    BY <1>12, <1>13
  <1>18. IsComplete(found, source, site, w)
    BY <1>15, <1>16, <1>17 DEF IsComplete, O, F, S, limit
  <1> QED BY <1>2, <1>12, <1>18
=============================================================================
