-------------------------- MODULE SearchResultsProofs --------------------------
(***************************************************************************)
(* Theorems about SearchResults, for any photos, faces, selfies, texts,    *)
(* scenes and thresholds.                                                  *)
(***************************************************************************)
EXTENDS SearchResults, FiniteSetTheorems, SequenceTheorems, WellFoundedInduction, TLAPS

-----------------------------------------------------------------------------
(* Numbers, and recursion over them.                                       *)

\* Among subsets of a finite set some contain no other.
LEMMA LeastSubset ==
  ASSUME NEW S, IsFiniteSet(S), NEW T, T \subseteq SUBSET S, T # {}
  PROVE  \E s \in T : \A t \in T : t \subseteq s => t = s
  <1>1. T \subseteq FiniteSubsetsOf(S)
    BY FS_Subset DEF FiniteSubsetsOf
  <1>2. PICK s \in T : \A t \in T : <<t, s>> \notin StrictSubsetOrdering(S)
    BY <1>1, FS_StrictSubsetOrderingWellFounded, WFMin
  <1>3. QED
    BY <1>2 DEF StrictSubsetOrdering

\* A set of numbers has a least one.
LEMMA LeastNumber ==
  ASSUME NEW T, T \subseteq Nat, T # {}
  PROVE  \E n \in T : \A m \in T : n <= m
  <1>1. PICK n \in T : TRUE
    OBVIOUS
  <1> DEFINE below == {m \in T : m <= n}
             prefixes == {u \in SUBSET (0..n) : \E m \in below : u = 0..m}
  <1>2. IsFiniteSet(0..n)
    BY FS_Interval
  <1>3. 0..n \in prefixes /\ prefixes \subseteq SUBSET (0..n)
    OBVIOUS
  <1>4. \E s \in prefixes : \A t \in prefixes : t \subseteq s => t = s
    <2> DEFINE whole == 0..n
    <2>1. IsFiniteSet(whole) /\ prefixes \subseteq SUBSET whole /\ prefixes # {}
      BY <1>2, <1>3
    <2> HIDE DEF whole, prefixes
    <2>2. QED
      BY <2>1, LeastSubset
  <1>5. PICK s \in prefixes : \A t \in prefixes : t \subseteq s => t = s
    BY <1>4
  <1>6. PICK l \in below : s = 0..l
    OBVIOUS
  <1>7. ASSUME NEW m \in T, m < l PROVE FALSE
    <2>1. 0..m \in prefixes /\ 0..m \subseteq s
      BY <1>6, <1>7
    <2>2. 0..m = 0..l
      BY <1>5, <1>6, <2>1
    <2>3. l \in 0..m
      BY <1>6, <2>2
    <2>4. QED
      BY <1>7, <2>3
  <1>8. QED
    BY <1>6, <1>7

\* Induction up to n: T holds the numbers for which a claim is true.
LEMMA UpTo ==
  ASSUME NEW n \in Nat, NEW T, 0 \in T, \A i \in 1..n : i - 1 \in T => i \in T
  PROVE  0..n \subseteq T
  <1> DEFINE bad == {i \in 0..n : i \notin T}
  <1>1. SUFFICES ASSUME bad # {} PROVE FALSE
    OBVIOUS
  <1>2. bad \subseteq Nat
    OBVIOUS
  <1>3. PICK i \in bad : \A k \in bad : i <= k
    <2> HIDE DEF bad
    <2>1. QED
      BY <1>1, <1>2, LeastNumber
  <1>4. i \in 1..n /\ i - 1 \in 0..n
    OBVIOUS
  <1>5. i - 1 \notin bad
    BY <1>3, <1>4
  <1>6. QED
    BY <1>4, <1>5

Solves(g, n, S, base, step) ==
  g \in [0..n -> S] /\ g[0] = base /\ \A i \in 1..n : g[i] = step[i][g[i - 1]]

\* A recursion over 1..n that stays in a set has a solution.
LEMMA Iterates ==
  ASSUME NEW n \in Nat, NEW S, NEW base \in S, NEW step \in [1..n -> [S -> S]]
  PROVE  \E g : Solves(g, n, S, base, step)
  <1> DEFINE solves(g, m) == /\ g \in [0..m -> S] /\ g[0] = base
                             /\ \A i \in 1..m : g[i] = step[i][g[i - 1]]
             T == {m \in 0..n : \E g : solves(g, m)}
  <1>1. 0 \in T
    <2> DEFINE g == [i \in 0..0 |-> base]
    <2>1. solves(g, 0) /\ 0 \in 0..n
      OBVIOUS
    <2> HIDE DEF g
    <2>2. QED
      BY <2>1
  <1>2. ASSUME NEW m \in 1..n, m - 1 \in T PROVE m \in T
    <2>1. PICK g : solves(g, m - 1)
      BY <1>2
    <2> DEFINE h == [i \in 0..m |-> IF i < m THEN g[i] ELSE step[m][g[m - 1]]]
    <2>2. g[m - 1] \in S
      BY <2>1
    <2>3. h \in [0..m -> S]
      BY <2>1, <2>2
    <2>4. h[0] = base
      BY <2>1
    <2>5. ASSUME NEW i \in 1..m PROVE h[i] = step[i][h[i - 1]]
      BY <2>1
    <2> HIDE DEF h
    <2>6. solves(h, m) /\ m \in 0..n
      BY <2>3, <2>4, <2>5
    <2>7. QED
      BY <2>6
  <1>3. n \in T
    <2> HIDE DEF T
    <2>1. 0..n \subseteq T
      BY <1>1, <1>2, UpTo
    <2>2. QED
      BY <2>1
  <1>4. QED
    BY <1>3 DEF Solves

\* MaxOf is the greatest number of a bounded set that is not empty.
LEMMA MaxOfBounded ==
  ASSUME NEW S, S \subseteq Nat, S # {}, NEW b \in Nat, \A k \in S : k <= b
  PROVE  MaxOf(S) \in S /\ \A k \in S : k <= MaxOf(S)
  <1> DEFINE above == {u \in Nat : \A k \in S : k <= u}
  <1>1. above \subseteq Nat /\ above # {}
    OBVIOUS
  <1>2. PICK u \in above : \A v \in above : u <= v
    <2> HIDE DEF above
    <2>1. QED
      BY <1>1, LeastNumber
  <1>3. u \in S
    <2>1. SUFFICES ASSUME u \notin S PROVE FALSE
      OBVIOUS
    <2>2. \A k \in S : k < u
      BY <2>1
    <2>3. PICK some \in S : some \in Nat
      OBVIOUS
    <2>4. u # 0
      BY <2>2, <2>3
    <2>5. u - 1 \in Nat /\ \A k \in S : k <= u - 1
      BY <2>2, <2>4
    <2>6. u - 1 \in above
      BY <2>5
    <2>7. QED
      BY <1>2, <2>6
  <1>4. QED
    BY <1>2, <1>3 DEF MaxOf

\* The values of a function on a finite set have a greatest one.
LEMMA GreatestValue ==
  ASSUME NEW S, IsFiniteSet(S), S # {}, NEW f \in [S -> Nat]
  PROVE  MaxOf({f[x] : x \in S}) \in Nat
  <1> DEFINE higher(x) == {y \in S : f[y] > f[x]}
             sets == {higher(x) : x \in S}
             values == {f[x] : x \in S}
  <1>1. sets \subseteq SUBSET S /\ sets # {}
    <2>1. \A x \in S : higher(x) \subseteq S /\ higher(x) \in sets
      OBVIOUS
    <2>2. \A t \in sets : t \subseteq S
      OBVIOUS
    <2> HIDE DEF sets
    <2>3. QED
      BY <2>1, <2>2
  <1>2. PICK s \in sets : \A t \in sets : t \subseteq s => t = s
    <2> HIDE DEF sets
    <2>1. QED
      BY <1>1, LeastSubset
  <1>3. PICK x \in S : s = higher(x)
    OBVIOUS
  <1>4. ASSUME NEW y \in S, f[y] > f[x] PROVE FALSE
    <2>1. \A z \in S : f[z] \in Nat
      OBVIOUS
    <2>2. higher(y) \in sets /\ higher(y) \subseteq s
      BY <1>3, <1>4, <2>1
    <2>3. y \in s /\ y \notin higher(y)
      BY <1>3, <1>4, <2>1
    <2>4. QED
      BY <1>2, <2>2, <2>3
  <1>5. values \subseteq Nat /\ values # {} /\ f[x] \in Nat /\ \A k \in values : k <= f[x]
    BY <1>4
  <1>6. QED
    <2> HIDE DEF values
    <2>1. MaxOf(values) \in values
      BY <1>5, MaxOfBounded
    <2>2. QED
      BY <1>5, <2>1 DEF values

\* The greater of two numbers.
LEMMA MaxOfTwo ==
  ASSUME NEW a \in Nat, NEW b \in Nat
  PROVE  MaxOf({a, b}) = IF a <= b THEN b ELSE a
  <1>1. PICK c \in Nat : \A k \in {a, b} : k <= c
    <2>1. CASE a <= b
      BY <2>1
    <2>2. CASE ~(a <= b)
      BY <2>2
    <2>3. QED
      BY <2>1, <2>2
  <1>2. MaxOf({a, b}) \in {a, b} /\ \A k \in {a, b} : k <= MaxOf({a, b})
    BY <1>1, MaxOfBounded
  <1>3. QED
    BY <1>2

-----------------------------------------------------------------------------
(* Orders.                                                                 *)

\* A strict total order of the elements of S.
Orders(order, S) ==
  /\ \A x \in S : <<x, x>> \notin order
  /\ \A x, y \in S : x # y => <<x, y>> \in order \/ <<y, x>> \in order
  /\ \A x, y, z \in S : <<x, y>> \in order /\ <<y, z>> \in order => <<x, z>> \in order

\* The list of a finite set in an order holds every element once, in order.
LEMMA SortedLists ==
  ASSUME NEW S, IsFiniteSet(S), NEW order, Orders(order, S)
  PROVE  LET list == Sorted(S, order)
         IN /\ list \in Seq(S) /\ Len(list) = Cardinality(S)
            /\ Range(list) = S /\ IsInjective(list)
            /\ \A i, k \in 1..Cardinality(S) : i < k => <<list[i], list[k]>> \in order
  <1> DEFINE n == Cardinality(S)
             rank == [x \in S |-> Cardinality(Ahead(x, S, order))]
             list == Sorted(S, order)
  <1>1. n \in Nat
    BY FS_CardinalityType
  <1>2. ASSUME NEW x \in S
        PROVE  /\ Ahead(x, S, order) \subseteq S /\ x \notin Ahead(x, S, order)
               /\ IsFiniteSet(Ahead(x, S, order)) /\ rank[x] \in 0..(n - 1)
    <2>1. Ahead(x, S, order) \subseteq S /\ x \notin Ahead(x, S, order)
      BY DEF Ahead, Orders
    <2>2. /\ IsFiniteSet(Ahead(x, S, order)) /\ Cardinality(Ahead(x, S, order)) <= n
          /\ Cardinality(Ahead(x, S, order)) = n => Ahead(x, S, order) = S
      BY <2>1, FS_Subset
    <2>3. Cardinality(Ahead(x, S, order)) \in Nat
      BY <2>2, FS_CardinalityType
    <2>4. QED
      BY <1>1, <2>1, <2>2, <2>3
  <1>3. ASSUME NEW x \in S, NEW y \in S, <<x, y>> \in order PROVE rank[x] < rank[y]
    <2>1. Ahead(x, S, order) \subseteq Ahead(y, S, order)
      BY <1>3 DEF Ahead, Orders
    <2>2. x \in Ahead(y, S, order) /\ x \notin Ahead(x, S, order)
      BY <1>2, <1>3 DEF Ahead
    <2>3. /\ Cardinality(Ahead(x, S, order)) <= Cardinality(Ahead(y, S, order))
          /\ Cardinality(Ahead(x, S, order)) # Cardinality(Ahead(y, S, order))
      <3>1. /\ Cardinality(Ahead(x, S, order)) <= Cardinality(Ahead(y, S, order))
            /\ Cardinality(Ahead(y, S, order)) = Cardinality(Ahead(x, S, order)) =>
                 Ahead(y, S, order) = Ahead(x, S, order)
        BY <1>2, <2>1, FS_Subset
      <3>2. QED
        BY <2>2, <3>1
    <2>4. rank[x] \in Nat /\ rank[y] \in Nat
      BY <1>2
    <2>5. QED
      BY <2>3, <2>4
  <1>4. \A x, y \in S : rank[x] = rank[y] => x = y
    <2>1. SUFFICES ASSUME NEW x \in S, NEW y \in S, rank[x] = rank[y], x # y PROVE FALSE
      OBVIOUS
    <2>2. rank[x] \in Int /\ rank[y] \in Int
      BY <1>2
    <2>3. <<x, y>> \in order \/ <<y, x>> \in order
      BY <2>1 DEF Orders
    <2>4. rank[x] < rank[y] \/ rank[y] < rank[x]
      BY <1>3, <2>3
    <2>5. QED
      BY <2>1, <2>2, <2>4
  <1>5. \A i \in 0..(n - 1) : \E x \in S : rank[x] = i
    <2> DEFINE places == 0..(n - 1)
    <2>1. IsFiniteSet(places) /\ Cardinality(places) = n
      BY <1>1, FS_Interval
    <2>2. rank \in [S -> places]
      BY <1>2
    <2>3. rank \in Injection(S, places)
      BY <1>4, <2>2 DEF Injection, IsInjective
    <2>4. rank \in Surjection(S, places)
      <3> HIDE DEF rank, places
      <3>1. QED
        BY <2>1, <2>3, FS_Injection
    <2>5. QED
      BY <2>4 DEF Surjection
  <1>6. ASSUME NEW i \in 1..n PROVE list[i] \in S /\ rank[list[i]] = i - 1
    <2>1. i - 1 \in 0..(n - 1)
      BY <1>1
    <2>2. PICK y \in S : rank[y] = i - 1
      BY <1>5, <2>1
    <2>3. list[i] = CHOOSE x \in S : Cardinality(Ahead(x, S, order)) = i - 1
      BY DEF Sorted
    <2>4. QED
      BY <2>2, <2>3
  <1>7. list \in [1..n -> S] /\ list \in Seq(S) /\ Len(list) = n
    <2>1. list \in [1..n -> S]
      BY <1>6 DEF Sorted
    <2>2. QED
      BY <1>1, <2>1
  <1>8. ASSUME NEW x \in S PROVE \E i \in 1..n : list[i] = x
    <2>1. rank[x] + 1 \in 1..n
      BY <1>1, <1>2
    <2>2. rank[list[rank[x] + 1]] = rank[x] /\ list[rank[x] + 1] \in S
      BY <1>2, <1>6, <2>1
    <2>3. QED
      BY <1>4, <2>1, <2>2
  <1>9. Range(list) = S
    BY <1>7, <1>8 DEF Range
  <1>10. IsInjective(list)
    <2>1. DOMAIN list = 1..n
      BY <1>7
    <2> HIDE DEF list, rank
    <2>2. \A i, k \in 1..n : list[i] = list[k] => i = k
      BY <1>1, <1>6
    <2>3. QED
      BY <2>1, <2>2 DEF IsInjective
  <1>11. ASSUME NEW i \in 1..n, NEW k \in 1..n, i < k PROVE <<list[i], list[k]>> \in order
    <2>1. list[i] \in S /\ list[k] \in S /\ rank[list[i]] < rank[list[k]]
      BY <1>1, <1>6, <1>11
    <2>2. list[i] # list[k] /\ ~(rank[list[k]] < rank[list[i]])
      BY <1>2, <2>1
    <2>3. QED
      BY <1>3, <2>1, <2>2 DEF Orders
  <1>12. QED
    BY <1>7, <1>9, <1>10, <1>11

\* The top of a set is part of it, and all of it when there is room.
LEMMA TopOf ==
  ASSUME NEW n \in Nat, NEW S, IsFiniteSet(S), NEW order
  PROVE  /\ Top(n, S, order) \subseteq S
         /\ Cardinality(S) <= n /\ (\A x \in S : <<x, x>> \notin order) =>
              Top(n, S, order) = S
  <1>1. Top(n, S, order) \subseteq S
    BY DEF Top
  <1>2. ASSUME Cardinality(S) <= n, \A x \in S : <<x, x>> \notin order, NEW x \in S
        PROVE  x \in Top(n, S, order)
    <2>1. Ahead(x, S, order) \subseteq S /\ x \notin Ahead(x, S, order)
      BY <1>2 DEF Ahead
    <2>2. /\ IsFiniteSet(Ahead(x, S, order))
          /\ Cardinality(Ahead(x, S, order)) <= Cardinality(S)
          /\ Cardinality(S) = Cardinality(Ahead(x, S, order)) => S = Ahead(x, S, order)
      BY <2>1, FS_Subset
    <2>3. Cardinality(Ahead(x, S, order)) \in Nat /\ Cardinality(S) \in Nat
      BY <2>2, FS_CardinalityType
    <2>4. Cardinality(Ahead(x, S, order)) < n
      BY <1>2, <2>1, <2>2, <2>3
    <2>5. QED
      BY <2>4 DEF Top
  <1>3. QED
    BY <1>1, <1>2

\* Descending keys order the elements that have different ones.
LEMMA DescendingOrders ==
  ASSUME NEW key, NEW S, S \subseteq DOMAIN key, \A x \in S : key[x] \in Int,
         \A x, y \in S : key[x] = key[y] => x = y
  PROVE  Orders(Descending(key), S)
  <1>1. \A x, y \in S : <<x, y>> \in Descending(key) <=> key[x] > key[y]
    BY DEF Descending
  <1>2. QED
    BY <1>1 DEF Orders

\* So do keys of several numbers, compared one after the other.
LEMMA RankingOrders ==
  ASSUME NEW key, NEW S, S \subseteq DOMAIN key, NEW n \in Nat,
         \A x \in S : key[x] \in [1..n -> Nat], \A x, y \in S : key[x] = key[y] => x = y
  PROVE  Orders(Ranking(key), S)
  <1>1. ASSUME NEW x \in S, NEW y \in S
        PROVE  <<x, y>> \in Ranking(key) <=>
                 \E i \in 1..n : key[x][i] > key[y][i] /\ \A k \in 1..(i - 1) : key[x][k] = key[y][k]
    <2>1. <<x, y>> \in Ranking(key) <=> Outranks(key[x], key[y])
      BY DEF Ranking
    <2>2. DOMAIN key[x] = 1..n
      OBVIOUS
    <2>3. QED
      BY <2>1, <2>2 DEF Outranks
  <1>2. \A x \in S : <<x, x>> \notin Ranking(key)
    BY <1>1
  <1>3. ASSUME NEW x \in S, NEW y \in S, x # y
        PROVE  <<x, y>> \in Ranking(key) \/ <<y, x>> \in Ranking(key)
    <2> DEFINE differ == {i \in 1..n : key[x][i] # key[y][i]}
    <2>1. differ # {} /\ differ \subseteq Nat
      <3>1. key[x] # key[y]
        BY <1>3
      <3>2. key[x] \in [1..n -> Nat] /\ key[y] \in [1..n -> Nat]
        OBVIOUS
      <3>3. QED
        BY <3>1, <3>2
    <2>2. PICK i \in differ : \A k \in differ : i <= k
      <3> HIDE DEF differ
      <3>1. QED
        BY <2>1, LeastNumber
    <2>3. \A k \in 1..(i - 1) : key[x][k] = key[y][k]
      BY <2>2
    <2>4. i \in 1..n /\ key[x][i] # key[y][i]
      OBVIOUS
    <2> HIDE DEF differ
    <2>5. key[x][i] \in Nat /\ key[y][i] \in Nat
      BY <2>4
    <2>6. CASE key[x][i] > key[y][i]
      BY <1>1, <2>3, <2>4, <2>6
    <2>7. CASE key[y][i] > key[x][i]
      <3>1. \A k \in 1..(i - 1) : key[y][k] = key[x][k]
        BY <2>3
      <3>2. QED
        BY <1>1, <2>4, <2>7, <3>1
    <2>8. QED
      BY <2>4, <2>5, <2>6, <2>7
  <1>4. ASSUME NEW x \in S, NEW y \in S, NEW z \in S,
               <<x, y>> \in Ranking(key), <<y, z>> \in Ranking(key)
        PROVE  <<x, z>> \in Ranking(key)
    <2>1. PICK i \in 1..n : key[x][i] > key[y][i] /\ \A k \in 1..(i - 1) : key[x][k] = key[y][k]
      BY <1>1, <1>4
    <2>2. PICK j \in 1..n : key[y][j] > key[z][j] /\ \A k \in 1..(j - 1) : key[y][k] = key[z][k]
      BY <1>1, <1>4
    <2>3. \A k \in 1..n : key[x][k] \in Nat /\ key[y][k] \in Nat /\ key[z][k] \in Nat
      OBVIOUS
    <2>4. PICK l \in 1..n : l = IF i <= j THEN i ELSE j
      OBVIOUS
    <2>5. \A k \in 1..(l - 1) : key[x][k] = key[z][k]
      BY <2>1, <2>2, <2>4
    <2>6. key[x][l] > key[z][l]
      <3>1. CASE i < j
        BY <2>1, <2>2, <2>3, <2>4, <3>1
      <3>2. CASE i = j
        BY <2>1, <2>2, <2>3, <2>4, <3>2
      <3>3. CASE i > j
        BY <2>1, <2>2, <2>3, <2>4, <3>3
      <3>4. QED
        BY <3>1, <3>2, <3>3
    <2>7. QED
      BY <1>1, <2>5, <2>6
  <1>5. QED
    BY <1>2, <1>3, <1>4 DEF Orders

-----------------------------------------------------------------------------
(* Scenes and scores.                                                      *)

\* What a scene consists of.
LEMMA SceneTypes ==
  ASSUME scene \in Scenes
  PROVE  /\ mode \in {"hybrid", "bib_only"}
         /\ position \in [Faces \union Selfies -> Nat]
         /\ text \in [Photos -> Texts]
  BY SearchAssumption DEF scene

\* A similarity is a score, and that of two different places is not full.
LEMMA SimilarityScores ==
  ASSUME NEW x \in Nat, NEW y \in Nat
  PROVE  Similarity(x, y) \in Scores /\ (Similarity(x, y) >= 100 => x = y)
  <1>1. Distance(x, y) \in Nat /\ (Distance(x, y) = 0 => x = y)
    BY DEF Distance
  <1>2. PICK d \in Nat : d = Distance(x, y)
    BY <1>1
  <1>3. Falloff \in Nat \ {0}
    BY SearchAssumption
  <1>4. Falloff * d \in Nat
    BY <1>3
  <1>5. d # 0 => Falloff * d # 0
    BY <1>3
  <1>6. PICK m \in Nat : m = Falloff * d /\ (d # 0 => m # 0)
    BY <1>4, <1>5
  <1>7. Similarity(x, y) = IF m >= 100 THEN 0 ELSE 100 - m
    BY <1>2, <1>6 DEF Similarity
  <1>8. QED
    BY <1>1, <1>2, <1>6, <1>7 DEF Scores

\* The faces of some photos are finitely many.
LEMMA FacesFinite ==
  ASSUME NEW photos
  PROVE  FacesOf(photos) \subseteq Faces /\ IsFiniteSet(FacesOf(photos))
  <1>1. FacesOf(photos) \subseteq Faces
    BY DEF FacesOf
  <1>2. QED
    BY <1>1, FS_Subset, SearchAssumption

-----------------------------------------------------------------------------
(* The bounded heap.                                                       *)

HeapsOver(h, embedding, order) ==
  h = [i \in 0..Len(order) |-> IF i = 0 THEN {} ELSE Offered(embedding, h[i - 1], order[i])]

\* There is a heap after every row.
LEMMA HeapExists ==
  ASSUME NEW embedding, NEW order, NEW n \in Nat, n = Len(order), order \in [1..n -> Faces]
  PROVE  \E h : HeapsOver(h, embedding, order)
  <1> DEFINE S == SUBSET Faces
             base == {}
             step == [i \in 1..n |-> [kept \in S |-> Offered(embedding, kept, order[i])]]
  <1>1. step \in [1..n -> [S -> S]] /\ base \in S
    <2>1. ASSUME NEW i \in 1..n, NEW kept \in S PROVE Offered(embedding, kept, order[i]) \in S
      BY DEF Offered
    <2>2. QED
      BY <2>1
  <1>2. \E g : Solves(g, n, S, base, step)
    <2> HIDE DEF S, base, step
    <2>1. QED
      BY <1>1, Iterates
  <1>3. PICK g \in [0..n -> S] : g[0] = base /\ \A i \in 1..n : g[i] = step[i][g[i - 1]]
    BY <1>2 DEF Solves
  <1>4. ASSUME NEW i \in 0..n, i # 0 PROVE g[i] = Offered(embedding, g[i - 1], order[i])
    <2>1. i \in 1..n /\ i - 1 \in 0..n
      BY <1>4
    <2>2. g[i - 1] \in S
      BY <2>1
    <2>3. QED
      BY <1>3, <2>1, <2>2
  <1>5. g = [i \in 0..n |-> IF i = 0 THEN {} ELSE Offered(embedding, g[i - 1], order[i])]
    BY <1>3, <1>4
  <1>6. QED
    BY <1>5 DEF HeapsOver

\* What the heap holds after i rows: the best of the similar faces among them,
\* or all of these while there is room.
Similar(score) == {f \in FacesOf(scanned) : score[f] >= CandidateScore}
HeapGood(i, kept, order, score) ==
  /\ kept \subseteq Similar(score) /\ kept \subseteq {order[k] : k \in 1..i}
  /\ IsFiniteSet(kept) /\ Cardinality(kept) <= MaxSearchResults
  /\ \A k \in 1..i : order[k] \in Similar(score) \ kept =>
       /\ Cardinality(kept) = MaxSearchResults
       /\ \A g \in kept : score[g] >= score[order[k]]

\* The next row keeps it so.
LEMMA OfferKeepsBest ==
  ASSUME NEW embedding, NEW n \in Nat, NEW order \in [1..n -> Faces], NEW i \in 1..n,
         \A k \in 1..n : order[k] = order[i] => k = i,
         NEW score \in [Faces -> Nat],
         \A g \in Faces : score[g] = Similarity(embedding, position[g]),
         NEW kept, HeapGood(i - 1, kept, order, score)
  PROVE  HeapGood(i, Offered(embedding, kept, order[i]), order, score)
  <1> DEFINE weakest == CHOOSE g \in kept : \A h \in kept :
               Similarity(embedding, position[g]) <= Similarity(embedding, position[h])
  <1>1. PICK f \in Faces : f = order[i]
    OBVIOUS
  <1>2. PICK next : next = Offered(embedding, kept, order[i])
    OBVIOUS
  <1>3. /\ kept \subseteq Similar(score) /\ kept \subseteq {order[k] : k \in 1..(i - 1)}
        /\ IsFiniteSet(kept) /\ Cardinality(kept) <= MaxSearchResults
        /\ \A k \in 1..(i - 1) : order[k] \in Similar(score) \ kept =>
             /\ Cardinality(kept) = MaxSearchResults
             /\ \A g \in kept : score[g] >= score[order[k]]
    BY DEF HeapGood
  <1>4. Similar(score) \subseteq Faces /\ Similar(score) \subseteq FacesOf(scanned)
    BY DEF Similar, FacesOf
  <1>5. MaxSearchResults \in Nat \ {0}
    BY SearchAssumption
  <1>6. Cardinality(kept) \in Nat
    BY <1>3, FS_CardinalityType
  <1>7. \A g \in Faces : score[g] \in Nat
    OBVIOUS
  <1>8. f \notin kept
    BY <1>1, <1>3
  <1>9. kept # {} => weakest \in kept /\ \A h \in kept : score[weakest] <= score[h]
    <2>1. SUFFICES ASSUME kept # {}
                   PROVE  weakest \in kept /\ \A h \in kept : score[weakest] <= score[h]
      OBVIOUS
    <2>2. PICK m \in {score[g] : g \in kept} : \A k \in {score[g] : g \in kept} : m <= k
      <3> DEFINE scores == {score[g] : g \in kept}
      <3>1. scores \subseteq Nat /\ scores # {}
        BY <1>3, <1>4, <1>7, <2>1
      <3> HIDE DEF scores
      <3>2. \E m \in scores : \A k \in scores : m <= k
        BY <3>1, LeastNumber
      <3>3. QED
        BY <3>2 DEF scores
    <2>3. \A g \in kept : score[g] = Similarity(embedding, position[g])
      BY <1>3, <1>4
    <2>4. \E g \in kept : \A h \in kept :
            Similarity(embedding, position[g]) <= Similarity(embedding, position[h])
      <3>1. PICK g \in kept : m = score[g]
        BY <2>2
      <3>2. \A h \in kept : score[g] <= score[h]
        BY <2>2, <3>1
      <3>3. QED
        BY <2>3, <3>2
    <2>5. /\ weakest \in kept
          /\ \A h \in kept : Similarity(embedding, position[weakest]) <= Similarity(embedding, position[h])
      BY <2>4
    <2> HIDE DEF weakest
    <2>6. QED
      BY <2>3, <2>5
  <1>10. next = IF f \notin FacesOf(scanned) \/ Similarity(embedding, position[f]) < CandidateScore THEN kept
                ELSE IF Cardinality(kept) < MaxSearchResults THEN kept \union {f}
                ELSE IF Similarity(embedding, position[f]) > Similarity(embedding, position[weakest])
                  THEN (kept \ {weakest}) \union {f}
                ELSE kept
    BY <1>1, <1>2 DEF Offered
  <1> HIDE DEF weakest
  <1>11. next = IF f \notin Similar(score) THEN kept
                ELSE IF Cardinality(kept) < MaxSearchResults THEN kept \union {f}
                ELSE IF score[f] > score[weakest] THEN (kept \ {weakest}) \union {f}
                ELSE kept
    <2>1. score[f] = Similarity(embedding, position[f]) /\ score[f] \in Nat /\ CandidateScore \in Nat
      <3>1. CandidateScore \in 1..100
        BY SearchAssumption
      <3>2. QED
        BY <3>1
    <2>2. f \notin Similar(score) <=>
            f \notin FacesOf(scanned) \/ Similarity(embedding, position[f]) < CandidateScore
      BY <2>1 DEF Similar
    <2>3. ~(Cardinality(kept) < MaxSearchResults) => weakest \in Faces
      BY <1>3, <1>4, <1>5, <1>9, FS_EmptySet
    <2>4. weakest \in Faces => score[weakest] = Similarity(embedding, position[weakest])
      OBVIOUS
    <2>5. QED
      BY <1>10, <2>1, <2>2, <2>3, <2>4
  <1>12. \A k \in 1..i : k = i \/ k \in 1..(i - 1)
    OBVIOUS
  <1>13. kept \union {f} \subseteq {order[k] : k \in 1..i}
    BY <1>1, <1>3
  <1>14. SUFFICES /\ next \subseteq Similar(score) /\ next \subseteq {order[k] : k \in 1..i}
                  /\ IsFiniteSet(next) /\ Cardinality(next) <= MaxSearchResults
                  /\ \A k \in 1..i : order[k] \in Similar(score) \ next =>
                       /\ Cardinality(next) = MaxSearchResults
                       /\ \A g \in next : score[g] >= score[order[k]]
    BY <1>2 DEF HeapGood
  <1>15. CASE f \notin Similar(score)
    <2>1. next = kept
      BY <1>11, <1>15
    <2>2. ASSUME NEW k \in 1..i, order[k] \in Similar(score) \ kept PROVE k \in 1..(i - 1)
      BY <1>1, <1>12, <1>15, <2>2
    <2>3. QED
      BY <1>3, <1>13, <2>1, <2>2
  <1>16. CASE f \in Similar(score) /\ Cardinality(kept) < MaxSearchResults
    <2>1. next = kept \union {f}
      BY <1>11, <1>16
    <2>2. IsFiniteSet(next) /\ Cardinality(next) = Cardinality(kept) + 1
      BY <1>3, <1>8, <2>1, FS_AddElement
    <2>3. ASSUME NEW k \in 1..i, order[k] \in Similar(score) \ next PROVE FALSE
      <3>1. k \in 1..(i - 1)
        BY <1>1, <1>12, <2>1, <2>3
      <3>2. Cardinality(kept) = MaxSearchResults
        BY <1>3, <2>1, <2>3, <3>1
      <3>3. QED
        BY <1>5, <1>16, <3>2
    <2>4. Cardinality(next) <= MaxSearchResults
      BY <1>5, <1>6, <1>16, <2>2
    <2>5. QED
      BY <1>3, <1>13, <1>16, <2>1, <2>2, <2>3, <2>4
  <1>17. CASE f \in Similar(score) /\ ~(Cardinality(kept) < MaxSearchResults)
    <2>1. Cardinality(kept) = MaxSearchResults
      BY <1>3, <1>5, <1>6, <1>17
    <2>2. weakest \in kept /\ \A h \in kept : score[weakest] <= score[h]
      <3>1. kept # {}
        BY <1>5, <2>1, FS_EmptySet
      <3>2. QED
        BY <1>9, <3>1
    <2>3. \A h \in kept \union {f} : score[h] \in Nat
      BY <1>3, <1>4, <1>7
    <2>4. CASE score[f] > score[weakest]
      <3>1. next = (kept \ {weakest}) \union {f}
        BY <1>11, <1>17, <2>4
      <3>2. IsFiniteSet(next) /\ Cardinality(next) = MaxSearchResults
        <4>1. IsFiniteSet(kept \ {weakest}) /\ Cardinality(kept \ {weakest}) = MaxSearchResults - 1
          BY <1>3, <2>1, <2>2, FS_RemoveElement
        <4>2. f \notin kept \ {weakest}
          BY <1>8
        <4>3. PICK rest : rest = kept \ {weakest}
          OBVIOUS
        <4>4. IsFiniteSet(rest \union {f}) /\ Cardinality(rest \union {f}) = Cardinality(rest) + 1
          BY <4>1, <4>2, <4>3, FS_AddElement
        <4>5. QED
          BY <1>5, <3>1, <4>1, <4>3, <4>4
      <3>3. ASSUME NEW k \in 1..i, order[k] \in Similar(score) \ next, NEW g \in next
            PROVE  score[g] >= score[order[k]]
        <4>1. k \in 1..(i - 1) /\ order[k] \in Faces
          BY <1>1, <1>12, <3>1, <3>3
        <4>2. score[order[k]] \in Nat
          BY <1>7, <4>1
        <4>3. \A h \in kept : score[h] >= score[order[k]]
          <5>1. CASE order[k] \in kept
            <6>1. order[k] = weakest
              BY <3>1, <3>3, <5>1
            <6>2. QED
              BY <2>2, <2>3, <6>1
          <5>2. CASE order[k] \notin kept
            BY <1>3, <3>3, <4>1, <5>2
          <5>3. QED
            BY <5>1, <5>2
        <4>4. score[f] >= score[order[k]]
          BY <2>2, <2>3, <2>4, <4>2, <4>3
        <4>5. QED
          BY <3>1, <4>3, <4>4
      <3>4. next \subseteq Similar(score) /\ next \subseteq {order[k] : k \in 1..i}
        BY <1>3, <1>13, <1>17, <3>1
      <3>5. QED
        BY <1>5, <3>2, <3>3, <3>4
    <2>5. CASE ~(score[f] > score[weakest])
      <3>1. next = kept
        BY <1>11, <1>17, <2>5
      <3>2. \A g \in kept : score[g] >= score[f]
        BY <2>2, <2>3, <2>5
      <3>3. ASSUME NEW k \in 1..i, order[k] \in Similar(score) \ kept, NEW g \in kept
            PROVE  score[g] >= score[order[k]]
        BY <1>1, <1>3, <1>12, <3>2, <3>3
      <3>4. next \subseteq Similar(score) /\ next \subseteq {order[k] : k \in 1..i}
        BY <1>3, <1>13, <3>1
      <3>5. QED
        BY <1>3, <2>1, <3>1, <3>3, <3>4
    <2>6. QED
      BY <2>4, <2>5
  <1>18. QED
    BY <1>15, <1>16, <1>17

\* The heap keeps similar faces of the scanned photos, and a face that it does
\* not keep is not similar, or the heap is full of faces as similar.
LEMMA StreamKeepsBest ==
  ASSUME scene \in Scenes, NEW embedding \in Nat, NEW order \in RowOrders
  PROVE  LET score(g) == Similarity(embedding, position[g])
             kept == Streamed(embedding, order)
         IN /\ kept \subseteq FacesOf(scanned)
            /\ \A f \in FacesOf(scanned) \ kept : score(f) >= CandidateScore =>
                 Cardinality(kept) = MaxSearchResults /\ \A g \in kept : score(g) >= score(f)
  <1> DEFINE heap == CHOOSE h : h = [i \in 0..Len(order) |->
                       IF i = 0 THEN {} ELSE Offered(embedding, h[i - 1], order[i])]
             score == [g \in Faces |-> Similarity(embedding, position[g])]
  <1>1. Streamed(embedding, order) = heap[Len(order)]
    BY DEF Streamed
  <1>2. /\ Len(order) \in Nat /\ order \in [1..Len(order) -> Faces] /\ Range(order) = Faces
        /\ \A i, k \in 1..Len(order) : order[i] = order[k] => i = k
    <2>1. order \in Seq(Faces) /\ Range(order) = Faces /\ IsInjective(order)
      BY SearchAssumption
    <2>2. /\ DOMAIN order = 1..Len(order) /\ Len(order) \in Nat
          /\ order \in [1..Len(order) -> Faces]
      BY <2>1
    <2>3. QED
      BY <2>1, <2>2 DEF IsInjective
  <1>3. heap = [i \in 0..Len(order) |-> IF i = 0 THEN {} ELSE Offered(embedding, heap[i - 1], order[i])]
    <2>1. \E h : HeapsOver(h, embedding, order)
      BY <1>2, HeapExists
    <2>2. QED
      BY <2>1 DEF HeapsOver
  <1>4. /\ score \in [Faces -> Nat]
        /\ \A g \in Faces : score[g] = Similarity(embedding, position[g])
    <2>1. ASSUME NEW g \in Faces PROVE Similarity(embedding, position[g]) \in Nat
      <3>1. position[g] \in Nat
        BY SceneTypes
      <3>2. Similarity(embedding, position[g]) \in 0..100
        BY <3>1, SimilarityScores DEF Scores
      <3>3. QED
        BY <3>2
    <2>2. QED
      BY <2>1
  <1> HIDE DEF heap, score
  <1>5. HeapGood(Len(order), heap[Len(order)], order, score)
    <2> DEFINE T == {i \in 0..Len(order) : HeapGood(i, heap[i], order, score)}
    <2>1. 0 \in T
      <3>1. heap[0] = {} /\ 0 \in 0..Len(order)
        BY <1>2, <1>3
      <3>2. MaxSearchResults \in Nat \ {0}
        BY SearchAssumption
      <3>3. HeapGood(0, {}, order, score)
        BY <3>2, FS_EmptySet DEF HeapGood
      <3>4. QED
        BY <3>1, <3>3
    <2>2. ASSUME NEW i \in 1..Len(order), i - 1 \in T PROVE i \in T
      <3>1. i \in 0..Len(order) /\ i # 0
        BY <1>2
      <3>2. heap[i] = Offered(embedding, heap[i - 1], order[i])
        BY <1>3, <3>1
      <3>3. HeapGood(i - 1, heap[i - 1], order, score)
        BY <2>2
      <3>4. HeapGood(i, Offered(embedding, heap[i - 1], order[i]), order, score)
        BY <1>2, <1>4, <3>3, OfferKeepsBest
      <3>5. QED
        BY <3>1, <3>2, <3>4
    <2> HIDE DEF T
    <2>3. 0..Len(order) \subseteq T
      BY <1>2, <2>1, <2>2, UpTo
    <2>4. Len(order) \in T
      BY <1>2, <2>3
    <2>5. QED
      BY <2>4 DEF T
  <1>6. PICK kept : kept = heap[Len(order)] /\ kept = Streamed(embedding, order)
    BY <1>1
  <1>7. kept \subseteq Similar(score) /\ Similar(score) \subseteq FacesOf(scanned)
    BY <1>5, <1>6 DEF HeapGood, Similar
  <1>8. FacesOf(scanned) \subseteq Faces
    BY DEF FacesOf
  <1>9. ASSUME NEW f \in FacesOf(scanned) \ kept, score[f] >= CandidateScore
        PROVE  Cardinality(kept) = MaxSearchResults /\ \A g \in kept : score[g] >= score[f]
    <2>1. PICK k \in 1..Len(order) : order[k] = f
      BY <1>2, <1>8 DEF Range
    <2>2. order[k] \in Similar(score) \ kept
      BY <1>9, <2>1 DEF Similar
    <2>3. QED
      BY <1>5, <1>6, <2>1, <2>2 DEF HeapGood
  <1>10. \A g \in FacesOf(scanned) : score[g] = Similarity(embedding, position[g])
    BY <1>4, <1>8
  <1>11. QED
    BY <1>6, <1>7, <1>9, <1>10

-----------------------------------------------------------------------------
(* Rows and what explains them.                                            *)

\* The better of two rows.
LEMMA BestRows ==
  ASSUME NEW rows \in [Faces -> Scores], NEW other \in [Faces -> Scores]
  PROVE  /\ Best(rows, other) \in [Faces -> Scores]
         /\ \A f \in Faces : Best(rows, other)[f] = IF rows[f] <= other[f] THEN other[f] ELSE rows[f]
  <1>1. ASSUME NEW f \in Faces
        PROVE  MaxOf({rows[f], other[f]}) = IF rows[f] <= other[f] THEN other[f] ELSE rows[f]
    <2>1. rows[f] \in Nat /\ other[f] \in Nat
      BY DEF Scores
    <2>2. QED
      BY <2>1, MaxOfTwo
  <1>2. QED
    BY <1>1 DEF Best

\* What a comparison upserts.
LEMMA UpsertedRows ==
  ASSUME scene \in Scenes, NEW rows \in [Faces -> Scores], NEW embedding \in Nat, NEW kept
  PROVE  Upserted(rows, embedding, kept) \in [Faces -> Scores]
  <1>1. ASSUME NEW f \in Faces PROVE Similarity(embedding, position[f]) \in Scores
    <2>1. position[f] \in Nat
      BY SceneTypes
    <2>2. QED
      BY <2>1, SimilarityScores
  <1>2. QED
    BY <1>1 DEF Upserted

\* More comparisons explain as much.
LEMMA ExplainedMore ==
  ASSUME NEW rows, NEW uses, NEW more, Explained(rows, uses), uses \subseteq more
  PROVE  Explained(rows, more)
  BY DEF Explained

\* The better of explained rows are explained.
LEMMA BestExplained ==
  ASSUME NEW rows \in [Faces -> Scores], NEW other \in [Faces -> Scores], NEW uses,
         Explained(rows, uses), Explained(other, uses)
  PROVE  Explained(Best(rows, other), uses)
  <1>1. \A f \in Faces : Best(rows, other)[f] \in {rows[f], other[f]}
    BY BestRows
  <1>2. QED
    BY <1>1 DEF Explained

\* Better rows leave out no more.
LEMMA BetterNoneBetter ==
  ASSUME scene \in Scenes, NEW rows \in [Faces -> Scores], NEW other \in [Faces -> Scores],
         \A f \in Faces : rows[f] <= other[f],
         NEW uses \in SUBSET Use, NoneBetter(rows, uses)
  PROVE  NoneBetter(other, uses)
  <1>1. ASSUME NEW u \in uses, NEW f \in FacesOf(u.photos)
        PROVE  Similarity(u.embedding, position[f]) > other[f] =>
                 Similarity(u.embedding, position[f]) > rows[f]
    <2>1. f \in Faces
      BY DEF FacesOf
    <2>2. position[f] \in Nat /\ u.embedding \in Nat
      BY <2>1, SceneTypes DEF Use
    <2>3. Similarity(u.embedding, position[f]) \in 0..100 /\ rows[f] \in 0..100 /\ other[f] \in 0..100
      BY <2>1, <2>2, SimilarityScores DEF Scores
    <2>4. rows[f] <= other[f]
      BY <2>1
    <2>5. QED
      BY <2>3, <2>4
  <1>2. QED
    BY <1>1 DEF NoneBetter

\* Two sets of comparisons, one after the other.
LEMMA BestNoneBetter ==
  ASSUME scene \in Scenes, NEW rows \in [Faces -> Scores], NEW other \in [Faces -> Scores],
         NEW uses \in SUBSET Use, NEW more \in SUBSET Use,
         NoneBetter(rows, uses), NoneBetter(other, more)
  PROVE  NoneBetter(Best(rows, other), uses \union more)
  <1>1. PICK best \in [Faces -> Scores] :
          best = Best(rows, other) /\ \A f \in Faces : rows[f] <= best[f] /\ other[f] <= best[f]
    <2>1. \A f \in Faces : rows[f] \in 0..100 /\ other[f] \in 0..100
      BY DEF Scores
    <2>2. QED
      BY <2>1, BestRows
  <1>2. NoneBetter(best, uses) /\ NoneBetter(best, more)
    BY <1>1, BetterNoneBetter
  <1>3. QED
    BY <1>1, <1>2 DEF NoneBetter

\* A comparison with the faces of the scanned photos explains what it upserts
\* and leaves nothing better.
LEMMA ComparisonFaithful ==
  ASSUME scene \in Scenes, NEW rows \in [Faces -> Scores], NEW uses \in SUBSET Use,
         Explained(rows, uses), NoneBetter(rows, uses), scanned \subseteq Photos,
         NEW embedding \in Nat, NEW order \in RowOrders, NEW kept,
         kept = Streamed(embedding, order)
  PROVE  LET after == Upserted(rows, embedding, kept)
             all == uses \union {[embedding |-> embedding, photos |-> scanned]}
         IN Explained(after, all) /\ NoneBetter(after, all)
  <1>1. PICK u \in Use : u = [embedding |-> embedding, photos |-> scanned]
    BY DEF Use
  <1>2. PICK after \in [Faces -> Scores] : after = Upserted(rows, embedding, kept)
    BY UpsertedRows
  <1>3. PICK score : /\ score = [g \in Faces |-> Similarity(embedding, position[g])]
                     /\ score \in [Faces -> Scores]
    <2>1. \A f \in Faces : position[f] \in Nat
      BY SceneTypes
    <2>2. \A f \in Faces : Similarity(embedding, position[f]) \in Scores
      BY <2>1, SimilarityScores
    <2> DEFINE function == [g \in Faces |-> Similarity(embedding, position[g])]
    <2>3. function \in [Faces -> Scores]
      BY <2>2
    <2> HIDE DEF function
    <2>4. PICK score : score = function
      OBVIOUS
    <2>5. QED
      BY <2>3, <2>4 DEF function
  <1>4. \A f \in Faces : score[f] = Similarity(embedding, position[f])
    BY <1>3
  <1>5. \A f \in Faces : score[f] \in 0..100 /\ rows[f] \in 0..100 /\ after[f] \in 0..100
    BY <1>2, <1>3 DEF Scores
  <1>6. \A f \in Faces : after[f] = IF f \in kept /\ score[f] > rows[f] THEN score[f] ELSE rows[f]
    BY <1>2, <1>4 DEF Upserted
  <1>7. FacesOf(scanned) \subseteq Faces
    BY DEF FacesOf
  <1>8. /\ kept \subseteq FacesOf(scanned)
        /\ \A f \in FacesOf(scanned) \ kept : score[f] >= CandidateScore =>
             Cardinality(kept) = MaxSearchResults /\ \A g \in kept : score[g] >= score[f]
    <2>1. /\ kept \subseteq FacesOf(scanned)
          /\ \A f \in FacesOf(scanned) \ kept : Similarity(embedding, position[f]) >= CandidateScore =>
               /\ Cardinality(kept) = MaxSearchResults
               /\ \A g \in kept : Similarity(embedding, position[g]) >= Similarity(embedding, position[f])
      BY StreamKeepsBest
    <2>2. QED
      BY <1>4, <1>7, <2>1
  <1>9. Explained(after, uses \union {u})
    <2>1. SUFFICES ASSUME NEW f \in Faces, after[f] # NoRow
                   PROVE  \E v \in uses \union {u} :
                            PhotoOf[f] \in v.photos /\ after[f] = Similarity(v.embedding, position[f])
      BY DEF Explained
    <2>2. CASE f \in kept /\ score[f] > rows[f]
      <3>1. PhotoOf[f] \in scanned /\ after[f] = Similarity(embedding, position[f])
        BY <1>4, <1>6, <1>8, <2>2 DEF FacesOf
      <3>2. QED
        BY <1>1, <3>1
    <2>3. CASE ~(f \in kept /\ score[f] > rows[f])
      <3>1. after[f] = rows[f]
        BY <1>6, <2>3
      <3>2. QED
        BY <2>1, <3>1 DEF Explained
    <2>4. QED
      BY <2>2, <2>3
  <1>10. NoneBetter(after, uses)
    <2>1. \A f \in Faces : rows[f] <= after[f]
      BY <1>5, <1>6
    <2>2. QED
      BY <2>1, BetterNoneBetter
  <1>11. ASSUME NEW f \in FacesOf(scanned), score[f] >= CandidateScore, score[f] > after[f]
         PROVE  Cardinality({g \in FacesOf(scanned) \ {f} : score[g] >= score[f]}) >= MaxSearchResults
    <2>1. f \notin kept
      BY <1>5, <1>6, <1>7, <1>11
    <2>2. Cardinality(kept) = MaxSearchResults /\ \A g \in kept : score[g] >= score[f]
      BY <1>8, <1>11, <2>1
    <2>3. PICK others : others = {g \in FacesOf(scanned) \ {f} : score[g] >= score[f]}
      OBVIOUS
    <2>4. kept \subseteq others /\ others \subseteq FacesOf(scanned)
      BY <1>8, <2>1, <2>2, <2>3
    <2>5. IsFiniteSet(others)
      BY <2>4, FacesFinite, FS_Subset
    <2>6. IsFiniteSet(kept) /\ Cardinality(kept) <= Cardinality(others)
      BY <2>4, <2>5, FS_Subset
    <2>7. Cardinality(kept) \in Nat /\ Cardinality(others) \in Nat
      BY <2>5, <2>6, FS_CardinalityType
    <2>8. Cardinality(others) >= MaxSearchResults
      BY <2>2, <2>6, <2>7
    <2>9. QED
      BY <2>3, <2>8
  <1>12. NoneBetter(after, {u})
    <2>1. SUFFICES ASSUME NEW f \in FacesOf(scanned),
                          Similarity(embedding, position[f]) >= CandidateScore,
                          Similarity(embedding, position[f]) > after[f]
                   PROVE  Cardinality({g \in FacesOf(scanned) \ {f} :
                            Similarity(embedding, position[g]) >= Similarity(embedding, position[f])})
                              >= MaxSearchResults
      <3>1. u.embedding = embedding /\ u.photos = scanned
        BY <1>1
      <3>2. QED
        BY <3>1 DEF NoneBetter
    <2>2. score[f] = Similarity(embedding, position[f])
      BY <1>4, <1>7
    <2>3. {g \in FacesOf(scanned) \ {f} :
             Similarity(embedding, position[g]) >= Similarity(embedding, position[f])} =
          {g \in FacesOf(scanned) \ {f} : score[g] >= score[f]}
      BY <1>4, <1>7, <2>2
    <2>4. QED
      BY <1>11, <2>1, <2>2, <2>3
  <1>13. NoneBetter(after, uses \union {u})
    BY <1>10, <1>12 DEF NoneBetter
  <1>14. QED
    BY <1>1, <1>2, <1>9, <1>13

-----------------------------------------------------------------------------
(* Seeds of a search by bib alone.                                         *)

\* Faces by quality.
LEMMA QualityLists ==
  ASSUME NEW S \in SUBSET Faces
  PROVE  /\ ByQuality(S) \in Seq(S) /\ Len(ByQuality(S)) = Cardinality(S)
         /\ Range(ByQuality(S)) = S /\ Cardinality(S) \in Nat /\ IsFiniteSet(S)
  <1>1. IsFiniteSet(S) /\ Cardinality(S) \in Nat
    BY SearchAssumption, FS_Subset, FS_CardinalityType
  <1>2. Orders(Descending(Quality), S)
    <2>1. Quality \in [Faces -> Nat \ {0}] /\ IsInjective(Quality)
      BY SearchAssumption
    <2>2. S \subseteq DOMAIN Quality /\ \A x \in S : Quality[x] \in Int
      BY <2>1
    <2>3. \A x, y \in S : Quality[x] = Quality[y] => x = y
      BY <2>1 DEF IsInjective
    <2>4. QED
      BY <2>2, <2>3, DescendingOrders
  <1>3. QED
    BY <1>1, <1>2, SortedLists DEF ByQuality

\* The beginning of a sequence.
LEMMA FirstOfSeq ==
  ASSUME NEW S, NEW seq \in Seq(S), NEW n \in Nat
  PROVE  /\ FirstOf(n, seq) \in Seq(S)
         /\ Len(FirstOf(n, seq)) = IF n < Len(seq) THEN n ELSE Len(seq)
         /\ \A i \in 1..Len(FirstOf(n, seq)) : FirstOf(n, seq)[i] = seq[i]
         /\ n >= Len(seq) => FirstOf(n, seq) = seq
  <1>1. PICK m \in Nat : m = IF n < Len(seq) THEN n ELSE Len(seq)
    OBVIOUS
  <1>2. FirstOf(n, seq) = SubSeq(seq, 1, m) /\ m <= Len(seq)
    BY <1>1 DEF FirstOf
  <1>3. \A i \in 1..m : seq[i] \in S
    BY <1>2
  <1>4. /\ SubSeq(seq, 1, m) \in Seq(S)
        /\ Len(SubSeq(seq, 1, m)) = IF 1 <= m THEN m - 1 + 1 ELSE 0
        /\ \A i \in 1..(m - 1 + 1) : SubSeq(seq, 1, m)[i] = seq[1 + i - 1]
    BY <1>3, SubSeqProperties
  <1>5. n >= Len(seq) => SubSeq(seq, 1, m) = seq
    BY <1>1, SubSeqFull
  <1>6. QED
    BY <1>1, <1>2, <1>4, <1>5

\* The faces a photo contributes are faces on it.
LEMMA SeedFacesOfPhoto ==
  ASSUME NEW p, NEW photos, p \in photos
  PROVE  SeedFacesOf(p) \in Seq(FacesOf(photos))
  <1>1. FacesOf({p}) \subseteq Faces /\ FacesOf({p}) \subseteq FacesOf(photos)
    BY DEF FacesOf
  <1>2. ByQuality(FacesOf({p})) \in Seq(FacesOf({p}))
    BY <1>1, QualityLists
  <1>3. ByQuality(FacesOf({p})) \in Seq(FacesOf(photos))
    BY <1>1, <1>2, SeqMonotonic
  <1>4. \A n \in Nat : FirstOf(n, ByQuality(FacesOf({p}))) \in Seq(FacesOf(photos))
    BY <1>3, FirstOfSeq
  <1>5. QED
    BY <1>4 DEF SeedFacesOf

\* The photos that show the bib, and those of them whose faces are stored.
LEMMA PhotoSets ==
  /\ ExactPhotos \subseteq Photos /\ UsablePhotos \subseteq ExactPhotos
  /\ IsFiniteSet(UsablePhotos)
  <1>1. {p \in Photos : ExactBib(p)} \subseteq Photos /\ IsFiniteSet(Photos)
    BY SearchAssumption
  <1>2. IsFiniteSet({p \in Photos : ExactBib(p)})
    BY <1>1, FS_Subset
  <1>3. SeedPhotoLimit \in Nat
    BY SearchAssumption
  <1>4. ExactPhotos \subseteq Photos
    BY <1>1, <1>2, <1>3, TopOf DEF ExactPhotos
  <1>5. UsablePhotos \subseteq ExactPhotos
    BY DEF UsablePhotos
  <1>6. QED
    BY <1>1, <1>4, <1>5, FS_Subset

\* The photos in the order in which they came, the last first.
LEMMA PhotoOrder ==
  ASSUME NEW S \in SUBSET Photos
  PROVE  Orders(Descending(CreatedAt), S)
  <1>1. CreatedAt \in [Photos -> Nat] /\ IsInjective(CreatedAt)
    BY SearchAssumption
  <1>2. S \subseteq DOMAIN CreatedAt /\ \A x \in S : CreatedAt[x] \in Int
    BY <1>1
  <1>3. \A x, y \in S : CreatedAt[x] = CreatedAt[y] => x = y
    BY <1>1 DEF IsInjective
  <1>4. QED
    BY <1>2, <1>3, DescendingOrders

CollectedOver(h, photos) ==
  h = [i \in 0..Len(photos) |-> IF i = 0 THEN <<>> ELSE h[i - 1] \o SeedFacesOf(photos[i])]

\* The faces of the usable photos, collected photo by photo.
LEMMA CollectedExist ==
  ASSUME NEW photos, NEW n \in Nat, n = Len(photos), NEW P, photos \in [1..n -> P]
  PROVE  \E h : CollectedOver(h, photos)
  <1> DEFINE S == Seq(FacesOf(P))
             base == <<>>
             step == [i \in 1..n |-> [faces \in S |-> faces \o SeedFacesOf(photos[i])]]
  <1>1. step \in [1..n -> [S -> S]] /\ base \in S
    <2>1. ASSUME NEW i \in 1..n, NEW faces \in S PROVE faces \o SeedFacesOf(photos[i]) \in S
      <3>1. SeedFacesOf(photos[i]) \in S
        BY SeedFacesOfPhoto
      <3>2. QED
        BY <3>1, ConcatProperties
    <2>2. QED
      BY <2>1
  <1>2. \E g : Solves(g, n, S, base, step)
    <2> HIDE DEF S, base, step
    <2>1. QED
      BY <1>1, Iterates
  <1>3. PICK g \in [0..n -> S] : g[0] = base /\ \A i \in 1..n : g[i] = step[i][g[i - 1]]
    BY <1>2 DEF Solves
  <1>4. ASSUME NEW i \in 0..n, i # 0 PROVE g[i] = g[i - 1] \o SeedFacesOf(photos[i])
    <2>1. i \in 1..n /\ i - 1 \in 0..n
      BY <1>4
    <2>2. g[i - 1] \in S
      BY <2>1
    <2> HIDE DEF S
    <2>3. QED
      BY <1>3, <2>1, <2>2
  <1>5. g = [i \in 0..n |-> IF i = 0 THEN <<>> ELSE g[i - 1] \o SeedFacesOf(photos[i])]
    <2> HIDE DEF S
    <2>1. QED
      BY <1>3, <1>4
  <1>6. QED
    BY <1>5 DEF CollectedOver

\* The seed faces are faces on the usable photos.
LEMMA SeedFacesUsable == SeedFaces \in Seq(FacesOf(UsablePhotos))
  <1>1. PICK photos : photos = Sorted(UsablePhotos, Descending(CreatedAt))
    OBVIOUS
  <1>2. PICK n \in Nat : n = Len(photos) /\ photos \in [1..n -> UsablePhotos]
    <2>1. photos \in Seq(UsablePhotos)
      BY <1>1, PhotoSets, PhotoOrder, SortedLists
    <2>2. QED
      BY <2>1
  <1> DEFINE faces == CHOOSE h : h = [i \in 0..Len(photos) |->
                        IF i = 0 THEN <<>> ELSE h[i - 1] \o SeedFacesOf(photos[i])]
             Q == Seq(FacesOf(UsablePhotos))
  <1>3. SeedFaces = faces[Len(photos)]
    BY <1>1 DEF SeedFaces
  <1>4. faces = [i \in 0..n |-> IF i = 0 THEN <<>> ELSE faces[i - 1] \o SeedFacesOf(photos[i])]
    <2>1. \E h : CollectedOver(h, photos)
      BY <1>2, CollectedExist
    <2>2. QED
      BY <1>2, <2>1 DEF CollectedOver
  <1> HIDE DEF faces
  <1>5. faces[n] \in Q
    <2> DEFINE T == {i \in 0..n : faces[i] \in Q}
    <2>1. 0 \in T
      BY <1>4
    <2>2. ASSUME NEW i \in 1..n, i - 1 \in T PROVE i \in T
      <3>1. i \in 0..n /\ i # 0
        OBVIOUS
      <3>2. faces[i] = faces[i - 1] \o SeedFacesOf(photos[i])
        BY <1>4, <3>1
      <3>3. SeedFacesOf(photos[i]) \in Q
        BY <1>2, SeedFacesOfPhoto
      <3>4. QED
        BY <2>2, <3>1, <3>2, <3>3, ConcatProperties
    <2> HIDE DEF T
    <2>3. 0..n \subseteq T
      BY <2>1, <2>2, UpTo
    <2>4. QED
      BY <2>3 DEF T
  <1>6. QED
    BY <1>2, <1>3, <1>5

-----------------------------------------------------------------------------
(* Clusters.                                                               *)

\* A cluster cannot be split into two groups without similar faces, the claim
\* of SeedsHaveMajority.
Connected(S) ==
  \A f \in S : \A T \in SUBSET S :
    f \in T /\ T # S => \E g \in T, h \in S \ T :
      Similarity(position[g], position[h]) >= ReinforcementScore
ClustersIn(usable) == {c \in SUBSET usable : c # {} /\ Connected(c)}

\* A face alone is a cluster.
LEMMA SingletonConnected ==
  ASSUME NEW f
  PROVE  Connected({f})
  <1>1. SUFFICES ASSUME NEW T \in SUBSET {f}, f \in T, T # {f} PROVE FALSE
    BY DEF Connected
  <1>2. QED
    BY <1>1

\* A cluster grows by a face that is similar to one of its own.
LEMMA GrownConnected ==
  ASSUME scene \in Scenes, NEW c \in SUBSET Faces, Connected(c), NEW f \in Faces, NEW near \in c,
         Similarity(position[f], position[near]) >= ReinforcementScore
  PROVE  Connected(c \union {f})
  <1>1. Similarity(position[near], position[f]) >= ReinforcementScore
    <2>1. position[f] \in Nat /\ position[near] \in Nat
      BY SceneTypes
    <2>2. Distance(position[f], position[near]) = Distance(position[near], position[f])
      BY <2>1 DEF Distance
    <2>3. QED
      BY <2>2 DEF Similarity
  <1>2. PICK grown : grown = c \union {f}
    OBVIOUS
  <1>3. ASSUME NEW a \in grown, NEW T \in SUBSET grown, a \in T, T # grown
        PROVE  \E g \in T, h \in grown \ T :
                 Similarity(position[g], position[h]) >= ReinforcementScore
    <2>1. CASE T \intersect c # {} /\ T \intersect c # c
      <3>1. PICK part : part = T \intersect c
        OBVIOUS
      <3>2. PICK b \in part : TRUE
        BY <2>1, <3>1
      <3>3. part \in SUBSET c /\ b \in c /\ part # c
        BY <2>1, <3>1, <3>2
      <3>4. PICK g \in part, h \in c \ part :
              Similarity(position[g], position[h]) >= ReinforcementScore
        BY <3>2, <3>3 DEF Connected
      <3>5. g \in T /\ h \in grown \ T
        BY <1>2, <3>1
      <3>6. QED
        BY <3>4, <3>5
    <2>2. CASE T \intersect c = {}
      <3>1. f \in T /\ near \in grown \ T
        BY <1>2, <1>3, <2>2
      <3>2. QED
        BY <3>1
    <2>3. CASE T \intersect c = c
      <3>1. near \in T /\ f \in grown \ T
        BY <1>2, <1>3, <2>3
      <3>2. QED
        BY <1>1, <3>1
    <2>4. QED
      BY <2>1, <2>2, <2>3
  <1>4. QED
    BY <1>2, <1>3 DEF Connected

\* The closeness to a cluster is that to one of its faces.
LEMMA ClosestFace ==
  ASSUME scene \in Scenes, NEW c \in SUBSET Faces, c # {}, NEW f \in Faces
  PROVE  \E g \in c : Closeness(f, c) = Similarity(position[f], position[g])
  <1> DEFINE scores == {Similarity(position[f], position[g]) : g \in c}
  <1>1. \A g \in c : Similarity(position[f], position[g]) \in 0..100
    <2>1. \A g \in Faces : position[g] \in Nat
      BY SceneTypes
    <2>2. QED
      BY <2>1, SimilarityScores DEF Scores
  <1>2. scores \subseteq Nat /\ scores # {} /\ \A k \in scores : k <= 100
    BY <1>1
  <1>3. MaxOf(scores) \in scores
    <2> HIDE DEF scores
    <2>1. QED
      BY <1>2, MaxOfBounded
  <1>4. QED
    BY <1>3 DEF Closeness

\* Joining keeps the clusters.
LEMMA JoinClusters ==
  ASSUME scene \in Scenes, NEW usable \in SUBSET Faces,
         NEW clusters \in Seq(ClustersIn(usable)), NEW f \in usable
  PROVE  Join(clusters, f) \in Seq(ClustersIn(usable))
  <1> DEFINE score == [i \in DOMAIN clusters |-> Closeness(f, clusters[i])]
             best == {i \in DOMAIN clusters :
                 /\ score[i] >= ReinforcementScore
                 /\ \A k \in DOMAIN clusters : score[k] < score[i] \/ (k >= i /\ score[k] = score[i])}
             joined == [i \in DOMAIN clusters |->
                          IF i \in best THEN clusters[i] \union {f} ELSE clusters[i]]
  <1>1. Join(clusters, f) = IF best = {} THEN Append(clusters, {f}) ELSE joined
    BY DEF Join
  <1>2. \A i \in best : i \in DOMAIN clusters /\ Closeness(f, clusters[i]) >= ReinforcementScore
    OBVIOUS
  <1> HIDE DEF best
  <1>3. {f} \in ClustersIn(usable)
    BY SingletonConnected DEF ClustersIn
  <1>4. Append(clusters, {f}) \in Seq(ClustersIn(usable))
    BY <1>3, AppendProperties
  <1>5. ASSUME NEW i \in DOMAIN clusters PROVE joined[i] \in ClustersIn(usable)
    <2>1. clusters[i] \in ClustersIn(usable)
      OBVIOUS
    <2>2. CASE i \in best
      <3>1. PICK c : c = clusters[i]
        OBVIOUS
      <3>2. c \in SUBSET Faces /\ c \subseteq usable /\ c # {} /\ Connected(c) /\ f \in Faces
        BY <2>1, <3>1 DEF ClustersIn
      <3>3. PICK g \in c : Closeness(f, c) = Similarity(position[f], position[g])
        BY <3>2, ClosestFace
      <3>4. Closeness(f, c) >= ReinforcementScore
        BY <1>2, <2>2, <3>1
      <3>5. Similarity(position[f], position[g]) >= ReinforcementScore
        BY <3>3, <3>4
      <3>6. Connected(c \union {f})
        BY <3>2, <3>5, GrownConnected
      <3>7. c \union {f} \in ClustersIn(usable)
        BY <3>2, <3>6 DEF ClustersIn
      <3>8. QED
        BY <2>2, <3>1, <3>7
    <2>3. CASE i \notin best
      BY <2>1, <2>3
    <2>4. QED
      BY <2>2, <2>3
  <1>6. joined \in Seq(ClustersIn(usable))
    <2>1. DOMAIN clusters = 1..Len(clusters) /\ Len(clusters) \in Nat
      OBVIOUS
    <2>2. PICK n \in Nat : n = Len(clusters)
      BY <2>1
    <2>3. joined \in [1..n -> ClustersIn(usable)]
      BY <1>5, <2>1, <2>2
    <2> HIDE DEF joined
    <2>4. QED
      BY <2>3, SeqDef
  <1>7. QED
    BY <1>1, <1>4, <1>6

JoinedOver(h, faces) ==
  h = [i \in 0..Len(faces) |-> IF i = 0 THEN <<>> ELSE Join(h[i - 1], faces[i])]

\* There are clusters after every face.
LEMMA JoinedExist ==
  ASSUME scene \in Scenes, NEW usable \in SUBSET Faces, NEW faces, NEW n \in Nat,
         n = Len(faces), faces \in [1..n -> usable]
  PROVE  \E h : JoinedOver(h, faces)
  <1> DEFINE S == Seq(ClustersIn(usable))
             base == <<>>
             step == [i \in 1..n |-> [clusters \in S |-> Join(clusters, faces[i])]]
  <1>1. step \in [1..n -> [S -> S]] /\ base \in S
    <2>1. ASSUME NEW i \in 1..n, NEW clusters \in S PROVE Join(clusters, faces[i]) \in S
      BY JoinClusters
    <2>2. QED
      BY <2>1
  <1>2. \E g : Solves(g, n, S, base, step)
    <2> HIDE DEF S, base, step
    <2>1. QED
      BY <1>1, Iterates
  <1>3. PICK g \in [0..n -> S] : g[0] = base /\ \A i \in 1..n : g[i] = step[i][g[i - 1]]
    BY <1>2 DEF Solves
  <1>4. ASSUME NEW i \in 0..n, i # 0 PROVE g[i] = Join(g[i - 1], faces[i])
    <2>1. i \in 1..n /\ i - 1 \in 0..n
      BY <1>4
    <2>2. g[i - 1] \in S
      BY <2>1
    <2> HIDE DEF S
    <2>3. QED
      BY <1>3, <2>1, <2>2
  <1>5. g = [i \in 0..n |-> IF i = 0 THEN <<>> ELSE Join(g[i - 1], faces[i])]
    <2> HIDE DEF S
    <2>1. QED
      BY <1>3, <1>4
  <1>6. QED
    BY <1>5 DEF JoinedOver

\* The clusters of a search are connected groups of usable faces.
LEMMA ClustersConnected ==
  ASSUME scene \in Scenes
  PROVE  Clusters \subseteq ClustersIn(FacesOf(UsablePhotos))
  <1>1. PICK usable \in SUBSET Faces : usable = FacesOf(UsablePhotos)
    BY DEF FacesOf
  <1>2. PICK seen : seen = SeedFaces
    OBVIOUS
  <1>3. PICK n \in Nat : n = Len(seen) /\ seen \in [1..n -> usable]
    <2>1. seen \in Seq(usable)
      BY <1>1, <1>2, SeedFacesUsable
    <2>2. QED
      BY <2>1
  <1> DEFINE after == CHOOSE h : h = [i \in 0..Len(seen) |->
                        IF i = 0 THEN <<>> ELSE Join(h[i - 1], seen[i])]
             Q == Seq(ClustersIn(usable))
  <1>4. Clusters = Range(after[Len(seen)])
    BY <1>2 DEF Clusters
  <1>5. after = [i \in 0..n |-> IF i = 0 THEN <<>> ELSE Join(after[i - 1], seen[i])]
    <2>1. \E h : JoinedOver(h, seen)
      BY <1>3, JoinedExist
    <2>2. QED
      BY <1>3, <2>1 DEF JoinedOver
  <1> HIDE DEF after
  <1>6. after[n] \in Q
    <2> DEFINE T == {i \in 0..n : after[i] \in Q}
    <2>1. 0 \in T
      BY <1>5
    <2>2. ASSUME NEW i \in 1..n, i - 1 \in T PROVE i \in T
      <3>1. i \in 0..n /\ i # 0
        OBVIOUS
      <3>2. after[i] = Join(after[i - 1], seen[i])
        BY <1>5, <3>1
      <3>3. after[i - 1] \in Q /\ seen[i] \in usable
        BY <1>3, <2>2
      <3>4. Join(after[i - 1], seen[i]) \in Q
        BY <3>3, JoinClusters
      <3>5. QED
        BY <3>1, <3>2, <3>4
    <2> HIDE DEF T
    <2>3. 0..n \subseteq T
      BY <2>1, <2>2, UpTo
    <2>4. QED
      BY <2>3 DEF T
  <1>7. Range(after[n]) \subseteq ClustersIn(usable)
    BY <1>6, RangeOfSeq
  <1>8. QED
    BY <1>1, <1>3, <1>4, <1>7

-----------------------------------------------------------------------------
(* The seeds of the clear cluster.                                         *)

SumsOver(h, values) ==
  h = [i \in 0..Len(values) |-> IF i = 0 THEN 0 ELSE h[i - 1] + values[i]]

\* A sum of numbers is a number.
LEMMA TotalNat ==
  ASSUME NEW values \in Seq(Nat)
  PROVE  Total(values) \in Nat
  <1>1. PICK n \in Nat : n = Len(values) /\ values \in [1..n -> Nat]
    OBVIOUS
  <1> DEFINE sums == CHOOSE h : h = [i \in 0..Len(values) |->
                       IF i = 0 THEN 0 ELSE h[i - 1] + values[i]]
  <1>2. Total(values) = sums[Len(values)]
    BY DEF Total
  <1>3. \E h : SumsOver(h, values)
    <2> DEFINE base == 0
               step == [i \in 1..n |-> [m \in Nat |-> m + values[i]]]
    <2>1. step \in [1..n -> [Nat -> Nat]] /\ base \in Nat
      BY <1>1
    <2>2. \E g : Solves(g, n, Nat, base, step)
      <3> HIDE DEF base, step
      <3>1. QED
        BY <2>1, Iterates
    <2>3. PICK g \in [0..n -> Nat] : g[0] = base /\ \A i \in 1..n : g[i] = step[i][g[i - 1]]
      BY <2>2 DEF Solves
    <2>4. ASSUME NEW i \in 0..n, i # 0 PROVE g[i] = g[i - 1] + values[i]
      <3>1. i \in 1..n /\ i - 1 \in 0..n
        BY <2>4
      <3>2. QED
        BY <2>3, <3>1
    <2>5. g = [i \in 0..n |-> IF i = 0 THEN 0 ELSE g[i - 1] + values[i]]
      BY <2>3, <2>4
    <2>6. QED
      BY <1>1, <2>5 DEF SumsOver
  <1>4. sums = [i \in 0..n |-> IF i = 0 THEN 0 ELSE sums[i - 1] + values[i]]
    BY <1>1, <1>3 DEF SumsOver
  <1> HIDE DEF sums
  <1>5. sums[n] \in Nat
    <2> DEFINE T == {i \in 0..n : sums[i] \in Nat}
    <2>1. 0 \in T
      BY <1>4
    <2>2. ASSUME NEW i \in 1..n, i - 1 \in T PROVE i \in T
      <3>1. i \in 0..n /\ i # 0
        OBVIOUS
      <3>2. sums[i] = sums[i - 1] + values[i]
        BY <1>4, <3>1
      <3>3. sums[i - 1] \in Nat /\ values[i] \in Nat
        BY <1>1, <2>2
      <3>4. QED
        BY <3>1, <3>2, <3>3
    <2> HIDE DEF T
    <2>3. 0..n \subseteq T
      BY <2>1, <2>2, UpTo
    <2>4. QED
      BY <2>3 DEF T
  <1>6. QED
    BY <1>1, <1>2, <1>5

\* The seeds of a cluster are places, the last of which is that of a face in it.
LEMMA SeedsOfCluster ==
  ASSUME scene \in Scenes, NEW cluster \in SUBSET Faces, cluster # {}
  PROVE  LET seeds == SeedsOf(cluster)
         IN /\ seeds \in Seq(Nat) /\ Len(seeds) >= 1
            /\ \E f \in cluster : seeds[Len(seeds)] = position[f]
  <1> DEFINE best == ByQuality(cluster)
             places == [i \in DOMAIN best |-> position[best[i]]]
             all == <<Total(places) \div Len(places)>> \o FirstOf(2, places)
             fresh == {i \in DOMAIN all : \A k \in 1..(i - 1) : Similarity(all[k], all[i]) < 100}
             pairs == {pair \in fresh \X fresh : pair[1] < pair[2]}
             kept == Sorted(fresh, pairs)
             seeds == [i \in DOMAIN kept |-> all[kept[i]]]
  <1>1. SeedsOf(cluster) = seeds
    BY DEF SeedsOf
  <1>2. PICK n \in Nat \ {0} : n = Len(best) /\ best \in [1..n -> cluster]
    <2>1. best \in Seq(cluster) /\ Len(best) = Cardinality(cluster) /\ IsFiniteSet(cluster)
      BY QualityLists
    <2>2. Cardinality(cluster) # 0
      BY <2>1, FS_EmptySet
    <2>3. QED
      BY <2>1, <2>2
  <1>3. /\ places \in Seq(Nat) /\ Len(places) = n
        /\ \A i \in 1..n : places[i] = position[best[i]]
    <2>1. \A f \in Faces : position[f] \in Nat
      BY SceneTypes
    <2>2. DOMAIN best = 1..n
      BY <1>2
    <2> HIDE DEF best
    <2>3. places \in [1..n -> Nat]
      BY <1>2, <2>1, <2>2
    <2>4. QED
      BY <2>2, <2>3
  <1> HIDE DEF best, places
  <1>4. Total(places) \div Len(places) \in Nat
    <2>1. PICK t \in Nat : t = Total(places)
      BY <1>3, TotalNat
    <2>2. t \div n \in Nat
      OBVIOUS
    <2>3. QED
      BY <1>3, <2>1, <2>2
  <1>5. PICK m \in 1..2 : /\ Len(FirstOf(2, places)) = m /\ m <= n /\ FirstOf(2, places) \in Seq(Nat)
                          /\ \A i \in 1..m : FirstOf(2, places)[i] = places[i]
    <2>1. PICK two : two = FirstOf(2, places)
      OBVIOUS
    <2>2. /\ two \in Seq(Nat) /\ Len(two) = IF 2 < Len(places) THEN 2 ELSE Len(places)
          /\ \A i \in 1..Len(two) : two[i] = places[i]
      <3>1. PICK values, numbers, k : values = places /\ numbers = Nat /\ k = 2
        OBVIOUS
      <3>2. values \in Seq(numbers) /\ k \in Nat
        BY <1>3, <3>1
      <3>3. /\ FirstOf(k, values) \in Seq(numbers)
            /\ Len(FirstOf(k, values)) = IF k < Len(values) THEN k ELSE Len(values)
            /\ \A i \in 1..Len(FirstOf(k, values)) : FirstOf(k, values)[i] = values[i]
        BY <3>2, FirstOfSeq
      <3>4. QED
        BY <2>1, <3>1, <3>3
    <2>3. Len(two) \in 1..2 /\ Len(two) <= n
      BY <1>2, <1>3, <2>2
    <2>4. PICK m \in 1..2 : m = Len(two)
      BY <2>3
    <2>5. QED
      BY <2>1, <2>2, <2>3, <2>4
  <1>6. /\ all \in Seq(Nat) /\ Len(all) = m + 1
        /\ \A i \in 1..m : all[i + 1] = places[i]
    <2>1. PICK mean \in Nat : mean = Total(places) \div Len(places)
      BY <1>4
    <2>2. PICK two \in Seq(Nat) : two = FirstOf(2, places)
      BY <1>5
    <2>3. /\ <<mean>> \in Seq(Nat) /\ Len(<<mean>>) = 1
      OBVIOUS
    <2>4. /\ <<mean>> \o two \in Seq(Nat) /\ Len(<<mean>> \o two) = 1 + Len(two)
          /\ \A i \in 1..(1 + Len(two)) : (<<mean>> \o two)[i] = IF i <= 1 THEN <<mean>>[i] ELSE two[i - 1]
      BY <2>3, ConcatProperties
    <2>5. all = <<mean>> \o two
      BY <2>1, <2>2
    <2> HIDE DEF all
    <2>6. QED
      BY <1>5, <2>2, <2>4, <2>5
  <1> HIDE DEF all
  <1>7. /\ fresh \subseteq 1..(m + 1) /\ 1 \in fresh
        /\ IsFiniteSet(fresh)
    <2>1. DOMAIN all = 1..(m + 1)
      BY <1>6
    <2>2. fresh \subseteq 1..(m + 1) /\ 1 \in fresh
      BY <2>1
    <2>3. IsFiniteSet(1..(m + 1))
      BY FS_Interval
    <2> HIDE DEF fresh
    <2>4. QED
      BY <2>2, <2>3, FS_Subset
  <1>8. Orders(pairs, fresh)
    <2>1. \A x, y \in fresh : <<x, y>> \in pairs <=> x < y
      OBVIOUS
    <2> HIDE DEF fresh, pairs
    <2>2. fresh \subseteq Nat
      BY <1>7
    <2>3. QED
      BY <2>1, <2>2 DEF Orders
  <1>9. fresh = {1} => all[2] = all[1]
    <2>1. 2 \in DOMAIN all /\ \A k \in 1..(2 - 1) : k = 1
      BY <1>6
    <2>2. 2 \notin fresh => ~(Similarity(all[1], all[2]) < 100)
      BY <2>1
    <2>3. all[1] \in Nat /\ all[2] \in Nat
      BY <1>6
    <2>4. Similarity(all[1], all[2]) \in 0..100 /\ (Similarity(all[1], all[2]) >= 100 => all[1] = all[2])
      BY <2>3, SimilarityScores DEF Scores
    <2> HIDE DEF fresh
    <2>5. QED
      BY <2>2, <2>4
  <1> HIDE DEF fresh
  <1>10. /\ kept \in Seq(fresh) /\ Len(kept) = Cardinality(fresh) /\ Range(kept) = fresh
         /\ \A i, k \in 1..Cardinality(fresh) : i < k => <<kept[i], kept[k]>> \in pairs
    <2> HIDE DEF pairs
    <2>1. QED
      BY <1>7, <1>8, SortedLists
  <1> HIDE DEF kept
  <1>11. PICK l \in Nat \ {0} : l = Len(kept) /\ kept \in [1..l -> fresh]
    <2>1. Cardinality(fresh) # 0
      BY <1>7, FS_EmptySet
    <2>2. QED
      BY <1>10, <2>1
  <1>12. /\ seeds \in [1..l -> Nat] /\ seeds \in Seq(Nat) /\ Len(seeds) = l
         /\ seeds[l] = all[kept[l]]
    <2>1. ASSUME NEW i \in 1..l PROVE all[kept[i]] \in Nat
      <3>1. kept[i] \in fresh
        BY <1>11
      <3>2. kept[i] \in 1..(m + 1)
        BY <1>7, <3>1
      <3>3. QED
        BY <1>6, <3>2
    <2>2. DOMAIN kept = 1..l
      BY <1>11
    <2>3. seeds \in [1..l -> Nat] /\ seeds[l] = all[kept[l]]
      BY <2>1, <2>2
    <2> HIDE DEF seeds
    <2>4. QED
      BY <2>3, SeqDef
  <1>13. \E i \in 1..m : all[kept[l]] = places[i]
    <2>1. l \in 1..l /\ kept[l] \in fresh
      BY <1>11
    <2>2. kept[l] \in 1..(m + 1)
      BY <1>7, <2>1
    <2>3. CASE kept[l] # 1
      <3>1. kept[l] - 1 \in 1..m /\ kept[l] = (kept[l] - 1) + 1
        BY <2>2, <2>3
      <3>2. all[kept[l]] = places[kept[l] - 1]
        BY <1>6, <3>1
      <3>3. QED
        BY <3>1, <3>2
    <2>4. CASE kept[l] = 1
      <3>1. l = 1
        <4>1. SUFFICES ASSUME l # 1 PROVE FALSE
          OBVIOUS
        <4>2. <<kept[1], kept[l]>> \in pairs /\ kept[1] \in fresh
          BY <1>10, <1>11, <4>1
        <4>3. kept[1] < kept[l]
          BY <4>2
        <4>4. kept[1] \in 1..(m + 1)
          BY <1>7, <4>2
        <4>5. QED
          BY <2>4, <4>3, <4>4
      <3>2. Range(kept) = {kept[1]}
        BY <1>11, <3>1 DEF Range
      <3>3. fresh = {1}
        BY <1>10, <2>4, <3>1, <3>2
      <3>4. all[1] = all[1 + 1]
        BY <1>9, <3>3
      <3>5. all[1] = places[1]
        BY <1>6, <3>4
      <3>6. QED
        BY <2>4, <3>5
    <2>5. QED
      BY <2>3, <2>4
  <1>14. PICK f \in cluster : all[kept[l]] = position[f]
    <2>1. PICK i \in 1..m : all[kept[l]] = places[i]
      BY <1>13
    <2>2. i \in 1..n
      BY <1>5
    <2>3. best[i] \in cluster /\ places[i] = position[best[i]]
      BY <1>2, <1>3, <2>2
    <2>4. QED
      BY <2>1, <2>3
  <1> HIDE DEF seeds
  <1>15. QED
    BY <1>1, <1>12, <1>14

\* The clear cluster is seen on the required share of the photos.
LEMMA ClearClusters ==
  ASSUME NEW c \in ConsensusClusters
  PROVE  /\ c \in Clusters /\ PhotoCount(c) >= SeedMinPhotos
         /\ PhotoCount(c) >= RequiredSupport(Cardinality(UsablePhotos))
  BY DEF ConsensusClusters

\* What is required is a majority.
LEMMA RequiredMajority ==
  ASSUME NEW support \in Nat, NEW count \in Nat, count >= RequiredSupport(support)
  PROVE  100 * count >= MajorityPercent * support
  <1>1. MajorityPercent \in Nat /\ SeedMinPhotos \in Nat
    BY SearchAssumption
  <1>2. PICK share \in Nat : share = support * MajorityPercent /\ share = MajorityPercent * support
    BY <1>1
  <1>3. PICK least \in Nat : least = CeilPercent(support, MajorityPercent) /\ 100 * least >= share
    <2>1. (share + 99) \div 100 \in Nat /\ 100 * ((share + 99) \div 100) >= share
      OBVIOUS
    <2>2. QED
      BY <1>2, <2>1 DEF CeilPercent
  <1>4. RequiredSupport(support) = IF SeedMinPhotos <= least THEN least ELSE SeedMinPhotos
    BY <1>1, <1>3, MaxOfTwo DEF RequiredSupport
  <1>5. count >= least
    BY <1>1, <1>4
  <1>6. QED
    BY <1>2, <1>3, <1>5

\* The seeds of a search by bib alone are places; if there are any, they come
\* from the clear cluster or from the only face.
LEMMA BibOnlySeedsFrom ==
  ASSUME scene \in Scenes
  PROVE  /\ BibOnlySeeds \in Seq(Nat)
         /\ BibOnlySeeds # <<>> =>
              \/ Cardinality(FacesOf(UsablePhotos)) = 1
              \/ \E c \in ConsensusClusters : \E f \in c :
                   BibOnlySeeds[Len(BibOnlySeeds)] = position[f]
  <1> DEFINE clear == ConsensusClusters
             usable == FacesOf(UsablePhotos)
             single == Cardinality(ExactPhotos) = 1 /\ Cardinality(usable) = 1
  <1>1. BibOnlySeeds = IF clear # {} THEN SeedsOf(CHOOSE c \in clear : TRUE)
                       ELSE IF single THEN <<position[CHOOSE f \in usable : TRUE]>> ELSE <<>>
    BY DEF BibOnlySeeds
  <1> HIDE DEF clear
  <1>2. CASE clear # {}
    <2>1. PICK c \in clear : BibOnlySeeds = SeedsOf(c)
      BY <1>1, <1>2
    <2>2. c \in Clusters
      BY ClearClusters DEF clear
    <2>3. c \in ClustersIn(usable)
      BY <2>2, ClustersConnected
    <2>4. c \in SUBSET Faces /\ c # {}
      BY <2>3 DEF ClustersIn, FacesOf
    <2>5. /\ SeedsOf(c) \in Seq(Nat)
          /\ \E f \in c : SeedsOf(c)[Len(SeedsOf(c))] = position[f]
      BY <2>4, SeedsOfCluster
    <2>6. QED
      BY <2>1, <2>5 DEF clear
  <1>3. CASE clear = {} /\ single
    <2>1. usable # {} /\ usable \subseteq Faces
      BY <1>3, FS_EmptySet DEF FacesOf
    <2>2. (CHOOSE f \in usable : TRUE) \in Faces
      BY <2>1
    <2>3. position[CHOOSE f \in usable : TRUE] \in Nat
      BY <2>2, SceneTypes
    <2>4. BibOnlySeeds = <<position[CHOOSE f \in usable : TRUE]>>
      BY <1>1, <1>3
    <2>5. QED
      BY <1>3, <2>3, <2>4
  <1>4. CASE clear = {} /\ ~single
    BY <1>1, <1>4
  <1>5. QED
    BY <1>2, <1>3, <1>4

\* The seeds of a search without selfies come from one person on the majority
\* of the photos (select_bib_only_seed_embeddings, cluster_seed_faces).
LEMMA SeedsMajority ==
  ASSUME scene \in Scenes
  PROVE  SeedsHaveMajority
  <1>1. PICK seeds : seeds = BibOnlySeeds
    OBVIOUS
  <1>2. SUFFICES ASSUME seeds # <<>>, Cardinality(FacesOf(UsablePhotos)) # 1
        PROVE  \E S \in SUBSET FacesOf(UsablePhotos) :
                 /\ 100 * PhotoCount(S) >= MajorityPercent * Cardinality(UsablePhotos)
                 /\ PhotoCount(S) >= SeedMinPhotos
                 /\ Connected(S)
                 /\ \E f \in S : seeds[Len(seeds)] = position[f]
    BY <1>1 DEF SeedsHaveMajority, Connected
  <1>3. PICK c \in ConsensusClusters : \E f \in c : seeds[Len(seeds)] = position[f]
    BY <1>1, <1>2, BibOnlySeedsFrom
  <1>4. /\ c \in Clusters /\ PhotoCount(c) >= SeedMinPhotos
        /\ PhotoCount(c) >= RequiredSupport(Cardinality(UsablePhotos))
    BY ClearClusters
  <1>5. c \in SUBSET FacesOf(UsablePhotos) /\ Connected(c)
    BY <1>4, ClustersConnected DEF ClustersIn
  <1>6. Cardinality(UsablePhotos) \in Nat
    BY PhotoSets, FS_CardinalityType
  <1>7. PhotoCount(c) \in Nat
    <2>1. PICK shown : shown = {PhotoOf[f] : f \in c}
      OBVIOUS
    <2>2. shown \subseteq UsablePhotos
      BY <1>5, <2>1 DEF FacesOf
    <2>3. IsFiniteSet(shown)
      BY <2>2, PhotoSets, FS_Subset
    <2>4. QED
      BY <2>1, <2>3, FS_CardinalityType DEF PhotoCount
  <1>8. 100 * PhotoCount(c) >= MajorityPercent * Cardinality(UsablePhotos)
    BY <1>4, <1>6, <1>7, RequiredMajority
  <1>9. QED
    BY <1>3, <1>4, <1>5, <1>8

-----------------------------------------------------------------------------
(* The texts of OCR.                                                       *)

NormalOver(h, t) ==
  h = [i \in 0..Len(t) |->
         IF i = 0 THEN <<>>
         ELSE IF t[i] \in Alphanumeric THEN Append(h[i - 1], t[i]) ELSE h[i - 1]]

\* Normalizing leaves a sequence of the same characters.
LEMMA NormalizedSeq ==
  ASSUME NEW S, NEW t \in Seq(S)
  PROVE  Normalized(t) \in Seq(S)
  <1>1. PICK n \in Nat : n = Len(t) /\ t \in [1..n -> S]
    OBVIOUS
  <1> DEFINE kept == CHOOSE h : h = [i \in 0..Len(t) |->
                       IF i = 0 THEN <<>>
                       ELSE IF t[i] \in Alphanumeric THEN Append(h[i - 1], t[i]) ELSE h[i - 1]]
  <1>2. Normalized(t) = kept[Len(t)]
    BY DEF Normalized
  <1>3. PICK Q : Q = Seq(S)
    OBVIOUS
  <1>4. ASSUME NEW i \in 1..n, NEW s \in Q
        PROVE  (IF t[i] \in Alphanumeric THEN Append(s, t[i]) ELSE s) \in Q
    BY <1>1, <1>3, AppendProperties
  <1>5. \E h : NormalOver(h, t)
    <2> DEFINE base == <<>>
               step == [i \in 1..n |-> [s \in Q |->
                          IF t[i] \in Alphanumeric THEN Append(s, t[i]) ELSE s]]
    <2>1. step \in [1..n -> [Q -> Q]] /\ base \in Q
      BY <1>3, <1>4
    <2>2. \E g : Solves(g, n, Q, base, step)
      <3> HIDE DEF base, step
      <3>1. QED
        BY <2>1, Iterates
    <2>3. PICK g \in [0..n -> Q] : g[0] = base /\ \A i \in 1..n : g[i] = step[i][g[i - 1]]
      BY <2>2 DEF Solves
    <2>4. ASSUME NEW i \in 0..n, i # 0
          PROVE  g[i] = IF t[i] \in Alphanumeric THEN Append(g[i - 1], t[i]) ELSE g[i - 1]
      <3>1. i \in 1..n /\ i - 1 \in 0..n
        BY <2>4
      <3>2. g[i - 1] \in Q
        BY <3>1
      <3>3. QED
        BY <2>3, <3>1, <3>2
    <2>5. g = [i \in 0..n |-> IF i = 0 THEN <<>>
                 ELSE IF t[i] \in Alphanumeric THEN Append(g[i - 1], t[i]) ELSE g[i - 1]]
      BY <2>3, <2>4
    <2>6. QED
      BY <1>1, <2>5 DEF NormalOver
  <1>6. kept = [i \in 0..n |-> IF i = 0 THEN <<>>
                  ELSE IF t[i] \in Alphanumeric THEN Append(kept[i - 1], t[i]) ELSE kept[i - 1]]
    BY <1>1, <1>5 DEF NormalOver
  <1> HIDE DEF kept
  <1>7. kept[n] \in Q
    <2> DEFINE T == {i \in 0..n : kept[i] \in Q}
    <2>1. 0 \in T
      BY <1>3, <1>6
    <2>2. ASSUME NEW i \in 1..n, i - 1 \in T PROVE i \in T
      <3>1. i \in 0..n /\ i # 0
        OBVIOUS
      <3>2. kept[i] = IF t[i] \in Alphanumeric THEN Append(kept[i - 1], t[i]) ELSE kept[i - 1]
        BY <1>6, <3>1
      <3>3. QED
        BY <1>4, <2>2, <3>1, <3>2
    <2> HIDE DEF T
    <2>3. 0..n \subseteq T
      BY <2>1, <2>2, UpTo
    <2>4. QED
      BY <2>3 DEF T
  <1>8. QED
    BY <1>1, <1>2, <1>3, <1>7

\* Candidates are never empty.
LEMMA CandidatesSeq ==
  ASSUME NEW S, NEW t \in Seq(S), NEW c \in Candidates(t)
  PROVE  c \in Seq(S) /\ c # <<>>
  <1>1. ASSUME NEW class, NEW r \in Runs(t, class)
        PROVE  r \in Seq(S) /\ r # <<>>
    <2>1. PICK i \in 1..Len(t), k \in 1..Len(t) : i <= k /\ r = SubSeq(t, i, k)
      BY DEF Runs
    <2>2. i \in Int /\ k \in Int /\ \A x \in i..k : t[x] \in S
      OBVIOUS
    <2>3. SubSeq(t, i, k) \in Seq(S) /\ Len(SubSeq(t, i, k)) = IF i <= k THEN k - i + 1 ELSE 0
      BY <2>2, SubSeqProperties
    <2>4. QED
      BY <2>1, <2>3
  <1>2. Normalized(t) \in Seq(S)
    BY NormalizedSeq
  <1>3. c \in Runs(t, Digits) \/ c \in Runs(t, Alphanumeric) \/ (c = Normalized(t) /\ c # <<>>)
    BY DEF Candidates, TokenCandidates
  <1>4. QED
    BY <1>1, <1>2, <1>3

RunsOver(h, left, right) ==
  h = [i \in 0..Len(left) |->
         [j \in 0..Len(right) |->
            IF i # 0 /\ j # 0 /\ left[i] = right[j] THEN h[i - 1][j - 1] + 1 ELSE 0]]

\* There are lengths of the common runs that end at every pair of places.
LEMMA RunsExist ==
  ASSUME NEW left, NEW right, NEW m \in Nat, NEW k \in Nat, m = Len(left), k = Len(right)
  PROVE  \E h : RunsOver(h, left, right)
  <1> DEFINE S == [0..k -> Nat]
             base == [j \in 0..k |-> 0]
             extended(i, row) ==
               [j \in 0..k |-> IF j # 0 /\ left[i] = right[j] THEN row[j - 1] + 1 ELSE 0]
             step == [i \in 1..m |-> [row \in S |-> extended(i, row)]]
  <1>1. step \in [1..m -> [S -> S]] /\ base \in S
    <2>1. ASSUME NEW i \in 1..m, NEW row \in S PROVE extended(i, row) \in S
      <3>1. ASSUME NEW j \in 0..k, j # 0 PROVE row[j - 1] + 1 \in Nat
        <4>1. j - 1 \in 0..k
          BY <3>1
        <4>2. QED
          BY <4>1
      <3>2. QED
        BY <3>1
    <2> HIDE DEF extended
    <2>2. step \in [1..m -> [S -> S]]
      BY <2>1
    <2>3. QED
      BY <2>2
  <1>2. \E g : Solves(g, m, S, base, step)
    <2> HIDE DEF S, base, step
    <2>1. QED
      BY <1>1, Iterates
  <1>3. PICK g \in [0..m -> S] : g[0] = base /\ \A i \in 1..m : g[i] = step[i][g[i - 1]]
    BY <1>2 DEF Solves
  <1>4. ASSUME NEW i \in 0..m
        PROVE  g[i] = [j \in 0..k |->
                         IF i # 0 /\ j # 0 /\ left[i] = right[j] THEN g[i - 1][j - 1] + 1 ELSE 0]
    <2>1. CASE i = 0
      BY <1>3, <2>1
    <2>2. CASE i # 0
      <3>1. i \in 1..m /\ i - 1 \in 0..m
        BY <2>2
      <3>2. g[i - 1] \in S
        BY <3>1
      <3>3. g[i] = extended(i, g[i - 1])
        <4> HIDE DEF extended, S
        <4>1. QED
          BY <1>3, <3>1, <3>2
      <3>4. QED
        BY <2>2, <3>3
    <2>3. QED
      BY <2>1, <2>2
  <1>5. g = [i \in 0..m |-> [j \in 0..k |->
               IF i # 0 /\ j # 0 /\ left[i] = right[j] THEN g[i - 1][j - 1] + 1 ELSE 0]]
    <2> HIDE DEF S
    <2>1. QED
      BY <1>4
  <1>6. QED
    BY <1>5 DEF RunsOver

CommonRun(left, right, i, j, n) ==
  /\ n \in Nat /\ n <= i /\ n <= j
  /\ \A d \in 0..(n - 1) : left[i - d] = right[j - d]

\* The length of a longest common run is that of one: it ends somewhere in
\* both sequences, and goes back that far.
LEMMA LongestRun ==
  ASSUME NEW left, NEW right, NEW m \in Nat, NEW k \in Nat, m = Len(left), k = Len(right)
  PROVE  \E i \in 0..m, j \in 0..k :
           CommonRun(left, right, i, j, LongestCommonSubstring(left, right))
  <1> DEFINE run == CHOOSE h : h = [i \in 0..Len(left) |-> [j \in 0..Len(right) |->
               IF i # 0 /\ j # 0 /\ left[i] = right[j] THEN h[i - 1][j - 1] + 1 ELSE 0]]
             lengths == {run[i][j] : i \in 0..m, j \in 0..k}
  <1>1. LongestCommonSubstring(left, right) = MaxOf(lengths)
    BY DEF LongestCommonSubstring
  <1>2. run = [i \in 0..m |-> [j \in 0..k |->
                 IF i # 0 /\ j # 0 /\ left[i] = right[j] THEN run[i - 1][j - 1] + 1 ELSE 0]]
    <2>1. \E h : RunsOver(h, left, right)
      BY RunsExist
    <2>2. QED
      BY <2>1 DEF RunsOver
  <1> HIDE DEF run
  <1>3. ASSUME NEW i \in 0..m, NEW j \in 0..k
        PROVE  run[i][j] = IF i # 0 /\ j # 0 /\ left[i] = right[j] THEN run[i - 1][j - 1] + 1 ELSE 0
    <2>1. PICK before : before = run[i - 1]
      OBVIOUS
    <2>2. run[i] = [l \in 0..k |->
                      IF i # 0 /\ l # 0 /\ left[i] = right[l] THEN run[i - 1][l - 1] + 1 ELSE 0]
      BY <1>2
    <2>3. run[i] = [l \in 0..k |->
                      IF i # 0 /\ l # 0 /\ left[i] = right[l] THEN before[l - 1] + 1 ELSE 0]
      BY <2>1, <2>2
    <2>4. QED
      BY <2>1, <2>3
  <1>4. \A i \in 0..m, j \in 0..k : CommonRun(left, right, i, j, run[i][j])
    <2> DEFINE T == {i \in 0..m : \A j \in 0..k : CommonRun(left, right, i, j, run[i][j])}
    <2>1. ASSUME NEW i \in 0..m, NEW j \in 0..k, ~(i # 0 /\ j # 0 /\ left[i] = right[j])
          PROVE  CommonRun(left, right, i, j, run[i][j])
      <3>1. run[i][j] = 0
        BY <1>3, <2>1
      <3>2. QED
        BY <3>1 DEF CommonRun
    <2>2. 0 \in T
      BY <2>1
    <2>3. ASSUME NEW i \in 1..m, i - 1 \in T PROVE i \in T
      <3>1. ASSUME NEW j \in 0..k, j # 0, left[i] = right[j]
            PROVE  CommonRun(left, right, i, j, run[i][j])
        <4>1. j - 1 \in 0..k /\ i \in 0..m /\ i # 0
          BY <3>1
        <4>2. run[i][j] = run[i - 1][j - 1] + 1
          BY <1>3, <3>1, <4>1
        <4>3. PICK n \in Nat : /\ n = run[i - 1][j - 1] /\ n <= i - 1 /\ n <= j - 1
                               /\ \A d \in 0..(n - 1) : left[i - 1 - d] = right[j - 1 - d]
          BY <2>3, <4>1 DEF CommonRun
        <4>4. ASSUME NEW d \in 0..n PROVE left[i - d] = right[j - d]
          <5>1. CASE d = 0
            BY <3>1, <5>1
          <5>2. CASE d # 0
            <6>1. d - 1 \in 0..(n - 1)
              BY <5>2
            <6>2. left[i - 1 - (d - 1)] = right[j - 1 - (d - 1)]
              BY <4>3, <6>1
            <6>3. i - 1 - (d - 1) = i - d /\ j - 1 - (d - 1) = j - d
              OBVIOUS
            <6>4. QED
              BY <6>2, <6>3
          <5>3. QED
            BY <5>1, <5>2
        <4>5. n + 1 - 1 = n
          OBVIOUS
        <4>6. QED
          BY <4>2, <4>3, <4>4, <4>5 DEF CommonRun
      <3>2. i \in 0..m
        OBVIOUS
      <3>3. QED
        BY <2>1, <3>1, <3>2
    <2> HIDE DEF T
    <2>4. 0..m \subseteq T
      BY <2>2, <2>3, UpTo
    <2>5. QED
      BY <2>4 DEF T
  <1>5. lengths \subseteq Nat /\ lengths # {} /\ \A l \in lengths : l <= m
    <2>1. \A i \in 0..m, j \in 0..k : run[i][j] \in Nat /\ run[i][j] <= m
      BY <1>4 DEF CommonRun
    <2>2. run[0][0] \in lengths
      OBVIOUS
    <2>3. ASSUME NEW l \in lengths PROVE l \in Nat /\ l <= m
      <3>1. PICK i \in 0..m, j \in 0..k : l = run[i][j]
        OBVIOUS
      <3>2. QED
        BY <2>1, <3>1
    <2> HIDE DEF lengths
    <2>4. QED
      BY <2>2, <2>3
  <1>6. PICK longest \in lengths : longest = MaxOf(lengths)
    <2> HIDE DEF lengths
    <2>1. QED
      BY <1>5, MaxOfBounded
  <1>7. PICK i \in 0..m, j \in 0..k : longest = run[i][j]
    OBVIOUS
  <1> HIDE DEF lengths
  <1>8. CommonRun(left, right, i, j, run[i][j])
    BY <1>4
  <1>9. QED
    BY <1>1, <1>6, <1>7, <1>8


\* A common run is a piece of both sequences.
LEMMA CommonPiece ==
  ASSUME NEW S, NEW left \in Seq(S), NEW right \in Seq(S),
         NEW i \in 0..Len(left), NEW j \in 0..Len(right), NEW n, n >= 1,
         CommonRun(left, right, i, j, n)
  PROVE  IsSubstring(SubSeq(right, j - n + 1, j), left)
  <1>1. /\ n \in Nat /\ n <= i /\ n <= j
        /\ \A d \in 0..(n - 1) : left[i - d] = right[j - d]
    BY DEF CommonRun
  <1>2. Len(left) \in Nat /\ Len(right) \in Nat /\ i \in Nat /\ j \in Nat
    OBVIOUS
  <1>3. /\ \A x \in (i - n + 1)..i : left[x] \in S
        /\ \A x \in (j - n + 1)..j : right[x] \in S
    BY <1>1, <1>2
  <1>4. /\ j - n + 1 <= j /\ j - (j - n + 1) + 1 = n /\ i - (i - n + 1) + 1 = n
        /\ i - n + 1 <= i /\ j - n + 1 \in Int /\ i - n + 1 \in Int
    BY <1>1, <1>2
  <1>5. PICK piece : piece = SubSeq(right, j - n + 1, j)
    OBVIOUS
  <1>6. /\ piece \in Seq(S) /\ Len(piece) = n
        /\ \A x \in 1..n : piece[x] = right[j - n + 1 + x - 1]
    <2>1. PICK low \in Int : low = j - n + 1
      BY <1>4
    <2>2. /\ SubSeq(right, low, j) \in Seq(S)
          /\ Len(SubSeq(right, low, j)) = IF low <= j THEN j - low + 1 ELSE 0
          /\ \A x \in 1..(j - low + 1) : SubSeq(right, low, j)[x] = right[low + x - 1]
      <3>1. \A x \in low..j : right[x] \in S
        BY <1>3, <2>1
      <3>2. QED
        BY <1>2, <3>1, SubSeqProperties
    <2>3. QED
      BY <1>4, <1>5, <2>1, <2>2
  <1>7. PICK other : other = SubSeq(left, i - n + 1, i)
    OBVIOUS
  <1>8. /\ other \in Seq(S) /\ Len(other) = n
        /\ \A x \in 1..n : other[x] = left[i - n + 1 + x - 1]
    <2>1. PICK low \in Int : low = i - n + 1
      BY <1>4
    <2>2. /\ SubSeq(left, low, i) \in Seq(S)
          /\ Len(SubSeq(left, low, i)) = IF low <= i THEN i - low + 1 ELSE 0
          /\ \A x \in 1..(i - low + 1) : SubSeq(left, low, i)[x] = left[low + x - 1]
      <3>1. \A x \in low..i : left[x] \in S
        BY <1>3, <2>1
      <3>2. QED
        BY <1>2, <3>1, SubSeqProperties
    <2>3. QED
      BY <1>4, <1>7, <2>1, <2>2
  <1>9. ASSUME NEW x \in 1..n PROVE piece[x] = other[x]
    <2>1. n - x \in 0..(n - 1)
      BY <1>1
    <2>2. left[i - (n - x)] = right[j - (n - x)]
      BY <1>1, <2>1
    <2>3. i - (n - x) = i - n + 1 + x - 1 /\ j - (n - x) = j - n + 1 + x - 1
      BY <1>1, <1>2
    <2>4. QED
      BY <1>6, <1>8, <2>2, <2>3
  <1>10. piece = other
    BY <1>6, <1>8, <1>9, SeqEqual
  <1>11. i - n \in 0..(Len(left) - Len(piece)) /\ i - n + Len(piece) = i
    BY <1>1, <1>2, <1>6
  <1>12. piece = SubSeq(left, i - n + 1, i - n + Len(piece))
    BY <1>7, <1>10, <1>11
  <1>13. QED
    BY <1>5, <1>11, <1>12 DEF IsSubstring

\* A candidate that is partly the bib holds a long piece of it unbroken.
LEMMA PartialPiece ==
  ASSUME NEW S, NEW c \in Seq(S), NEW target \in Seq(S), IsPartial(c, target)
  PROVE  \E i, k \in 1..Len(target) :
           k - i >= Len(target) - 2 /\ IsSubstring(SubSeq(target, i, k), c)
  <1>1. PICK n \in Nat, m \in Nat : n = Len(target) /\ m = Len(c)
    OBVIOUS
  <1>2. /\ n >= 3 /\ m \in 2..n
        /\ \/ IsSubstring(c, target) /\ m >= n - 1
           \/ LongestCommonSubstring(c, target) >= MaxOf({3, n - 1})
    BY <1>1 DEF IsPartial
  <1>3. CASE IsSubstring(c, target) /\ m >= n - 1
    <2>1. PICK i \in 0..(n - m) : c = SubSeq(target, i + 1, i + m)
      BY <1>1, <1>3 DEF IsSubstring
    <2>2. IsSubstring(c, c)
      <3>1. SubSeq(c, 1, m) = c
        BY <1>1, SubSeqFull
      <3>2. 0 \in 0..(Len(c) - Len(c)) /\ 0 + 1 = 1 /\ 0 + Len(c) = m
        BY <1>1
      <3>3. c = SubSeq(c, 0 + 1, 0 + Len(c))
        BY <3>1, <3>2
      <3>4. QED
        BY <3>2, <3>3 DEF IsSubstring
    <2>3. i + 1 \in 1..n /\ i + m \in 1..n /\ (i + m) - (i + 1) >= n - 2
      BY <1>2, <1>3
    <2>4. QED
      BY <1>1, <2>1, <2>2, <2>3
  <1>4. CASE LongestCommonSubstring(c, target) >= MaxOf({3, n - 1})
    <2>1. PICK l : l = LongestCommonSubstring(c, target)
      OBVIOUS
    <2>2. PICK i \in 0..m, j \in 0..n : CommonRun(c, target, i, j, l)
      BY <1>1, <2>1, LongestRun
    <2>3. n - 1 \in Nat /\ MaxOf({3, n - 1}) = IF 3 <= n - 1 THEN n - 1 ELSE 3
      BY <1>2, MaxOfTwo
    <2>4. l \in Nat /\ l >= 3 /\ l >= n - 1 /\ l <= j
      BY <1>4, <2>1, <2>2, <2>3 DEF CommonRun
    <2>5. IsSubstring(SubSeq(target, j - l + 1, j), c)
      BY <1>1, <2>2, <2>4, CommonPiece
    <2>6. j - l + 1 \in 1..n /\ j \in 1..n /\ j - (j - l + 1) >= n - 2
      BY <2>4
    <2>7. QED
      BY <1>1, <2>5, <2>6
  <1>5. QED
    BY <1>2, <1>3, <1>4

\* Both ways of reading a bib agree (score_bib_evidence, has_exact_bib_match).
LEMMA EvidenceAgreed ==
  ASSUME scene \in Scenes
  PROVE  EvidenceAgrees
  <1>1. PICK target : target = Normalized(Bib)
    OBVIOUS
  <1>2. SUFFICES ASSUME NEW p \in Photos
        PROVE  /\ Strength(p) = "strong" <=> ExactBib(p)
               /\ Strength(p) = "weak" =>
                    \E i, k \in 1..Len(target) :
                      /\ k - i >= Len(target) - 2
                      /\ \E c \in Candidates(text[p]) : IsSubstring(SubSeq(target, i, k), c)
    BY <1>1 DEF EvidenceAgrees
  <1>3. PICK t \in Texts : t = text[p]
    BY SceneTypes
  <1>4. PICK S : t \in Seq(S) /\ target \in Seq(S)
    <2>1. t \in Seq(Range(t)) /\ Bib \in Seq(Range(Bib))
      BY SearchAssumption
    <2>2. PICK A, B, C : A = Range(t) /\ B = Range(Bib) /\ C = A \union B
      OBVIOUS
    <2>3. Normalized(Bib) \in Seq(B)
      BY <2>1, <2>2, NormalizedSeq
    <2>4. A \subseteq C /\ B \subseteq C
      BY <2>2
    <2>5. t \in Seq(C)
      BY <2>1, <2>2, <2>4, SeqMonotonic
    <2>6. target \in Seq(C)
      BY <1>1, <2>3, <2>4, SeqMonotonic
    <2>7. QED
      BY <2>5, <2>6
  <1>5. PICK candidates : candidates = Candidates(t)
    OBVIOUS
  <1>6. \A c \in candidates : c \in Seq(S) /\ c # <<>>
    BY <1>4, <1>5, CandidatesSeq
  <1>7. StrengthOf[t] = IF target \in candidates THEN "strong"
                        ELSE IF \E c \in candidates : IsPartial(c, target) THEN "weak" ELSE "none"
    <2>1. StrengthOf[t] = BibStrength({t}, Bib)
      BY DEF StrengthOf
    <2>2. UNION {Candidates(x) : x \in {t}} = candidates
      BY <1>5
    <2>3. QED
      BY <1>1, <2>1, <2>2 DEF BibStrength
  <1>8. ExactOf[t] <=> target \in candidates
    <2>1. ExactOf[t] = HasExactBib({t}, Bib)
      BY DEF ExactOf
    <2>2. HasExactBib({t}, Bib) <=> target # <<>> /\ target \in candidates
      BY <1>1, <1>5 DEF HasExactBib
    <2>3. QED
      BY <1>6, <2>1, <2>2
  <1>9. Strength(p) = "strong" <=> ExactBib(p)
    BY <1>3, <1>7, <1>8 DEF Strength, ExactBib
  <1>10. ASSUME Strength(p) = "weak"
         PROVE  \E i, k \in 1..Len(target) :
                  /\ k - i >= Len(target) - 2
                  /\ \E c \in Candidates(text[p]) : IsSubstring(SubSeq(target, i, k), c)
    <2>1. PICK c \in candidates : IsPartial(c, target)
      BY <1>3, <1>7, <1>10 DEF Strength
    <2>2. PICK i \in 1..Len(target), k \in 1..Len(target) :
            k - i >= Len(target) - 2 /\ IsSubstring(SubSeq(target, i, k), c)
      BY <1>4, <1>6, <2>1, PartialPiece
    <2>3. QED
      BY <1>3, <1>5, <2>1, <2>2
  <1>11. QED
    BY <1>9, <1>10

\* What the rebuild of the rows takes for a bib the completion of the OCR does
\* too, extract_match_candidates in photographer.py and in face.py.
LEMMA TokenIsExact ==
  ASSUME NEW t \in Texts, TokenOf[t]
  PROVE  ExactOf[t]
  <1>1. PICK target : target = Normalized(Bib)
    OBVIOUS
  <1>2. target \in TokenCandidates(t)
    BY <1>1 DEF TokenOf
  <1>3. target # <<>>
    BY <1>2 DEF TokenCandidates
  <1>4. target \in Candidates(t)
    BY <1>2 DEF Candidates
  <1>5. HasExactBib({t}, Bib)
    BY <1>1, <1>3, <1>4 DEF HasExactBib
  <1>6. QED
    BY <1>5 DEF ExactOf

\* A row is made for one photo.
LEMMA RowMade ==
  ASSUME matched \in [Photos -> Nat], NEW p \in Photos
  PROVE  /\ Row(p) \in [Photos -> Nat] /\ Row(p)[p] # NoRow
         /\ \A q \in Photos \ {p} : Row(p)[q] = matched[q]
  <1>1. IsFiniteSet(Photos) /\ Photos # {}
    BY SearchAssumption
  <1>2. PICK latest \in Nat : latest = MaxOf({matched[q] : q \in Photos})
    BY <1>1, GreatestValue
  <1>3. Row(p) = [matched EXCEPT ![p] = 1 + latest]
    BY <1>2 DEF Row
  <1>4. QED
    BY <1>3 DEF NoRow

-----------------------------------------------------------------------------
(* The items and their pages.                                              *)

\* The best score of a photo is a score.
LEMMA BestScores ==
  ASSUME results \in [Faces -> Scores], NEW p
  PROVE  BestScore(p) \in Nat
  <1> DEFINE scores == {NoRow} \union {results[f] : f \in FacesOf({p})}
  <1>1. ASSUME NEW k \in scores PROVE k \in Nat /\ k <= 100
    <2>1. CASE k = NoRow
      BY <2>1 DEF NoRow
    <2>2. CASE \E f \in Faces : k = results[f]
      BY <2>2 DEF Scores
    <2>3. QED
      BY <2>1, <2>2 DEF FacesOf
  <1>2. scores # {}
    OBVIOUS
  <1>3. MaxOf(scores) \in scores
    <2> HIDE DEF scores
    <2>1. scores \subseteq Nat /\ \A k \in scores : k <= 100
      BY <1>1
    <2>2. QED
      BY <1>2, <2>1, MaxOfBounded
  <1>4. BestScore(p) = MaxOf(scores)
    BY DEF BestScore
  <1> HIDE DEF scores
  <1>5. QED
    BY <1>1, <1>3, <1>4

\* The key that the items are sorted by.
ItemKey ==
  [p \in Photos |-> <<BestScore(p), IF Strength(p) = "strong" THEN 1 ELSE 0, CreatedAt[p]>>]

\* The items are the accepted candidates, each once, the best first.
LEMMA ItemsListed ==
  ASSUME results \in [Faces -> Scores]
  PROVE  /\ Items \in Seq(Photos) /\ IsInjective(Items)
         /\ Range(Items) = {p \in CandidatePhotos : Accepted(p)}
         /\ \A i, k \in 1..Len(Items) : i < k => BestScore(Items[i]) >= BestScore(Items[k])
  <1>1. PICK accepted : accepted = {p \in CandidatePhotos : Accepted(p)}
    OBVIOUS
  <1>2. accepted \subseteq Photos
    <2>1. CandidatePhotos \subseteq Photos
      BY DEF CandidatePhotos, Top, Matched
    <2>2. QED
      BY <1>1, <2>1
  <1>3. PICK key : key = ItemKey
    OBVIOUS
  <1>4. Items = Sorted(accepted, Ranking(key))
    BY <1>1, <1>3 DEF Items, ItemKey
  <1>5. CreatedAt \in [Photos -> Nat] /\ IsInjective(CreatedAt)
    BY SearchAssumption
  <1>6. DOMAIN key = Photos
    BY <1>3 DEF ItemKey
  <1>7. ASSUME NEW p \in Photos
        PROVE  key[p] \in [1..3 -> Nat] /\ key[p][1] = BestScore(p) /\ key[p][3] = CreatedAt[p]
    <2>1. PICK best \in Nat, strong \in Nat, came \in Nat :
            /\ best = BestScore(p) /\ strong = (IF Strength(p) = "strong" THEN 1 ELSE 0)
            /\ came = CreatedAt[p]
      BY <1>5, BestScores
    <2>2. key[p] = <<best, strong, came>>
      BY <1>3, <2>1 DEF ItemKey
    <2>3. <<best, strong, came>> \in [1..3 -> Nat]
      OBVIOUS
    <2>4. QED
      BY <2>1, <2>2, <2>3
  <1>8. \A p, q \in Photos : key[p] = key[q] => p = q
    BY <1>5, <1>7 DEF IsInjective
  <1>9. Orders(Ranking(key), accepted)
    <2>1. PICK three \in Nat : three = 3
      OBVIOUS
    <2>2. \A p \in accepted : key[p] \in [1..three -> Nat]
      BY <1>2, <1>7, <2>1
    <2>3. QED
      BY <1>2, <1>6, <1>8, <2>2, RankingOrders
  <1>10. IsFiniteSet(accepted)
    BY <1>2, FS_Subset, SearchAssumption
  <1>11. PICK n \in Nat : n = Cardinality(accepted)
    BY <1>10, FS_CardinalityType
  <1>12. /\ Items \in Seq(accepted) /\ Len(Items) = n /\ Range(Items) = accepted /\ IsInjective(Items)
         /\ \A i, k \in 1..n : i < k => <<Items[i], Items[k]>> \in Ranking(key)
    BY <1>4, <1>9, <1>10, <1>11, SortedLists
  <1>13. ASSUME NEW i \in 1..n, NEW k \in 1..n, i < k
         PROVE  BestScore(Items[i]) >= BestScore(Items[k])
    <2>1. PICK p \in Photos, q \in Photos : p = Items[i] /\ q = Items[k]
      BY <1>2, <1>12
    <2>2. <<p, q>> \in Ranking(key)
      BY <1>12, <1>13, <2>1
    <2>3. Outranks(key[p], key[q])
      BY <2>2 DEF Ranking
    <2>4. DOMAIN key[p] = 1..3
      BY <1>7
    <2>5. PICK j \in 1..3 : key[p][j] > key[q][j] /\ \A l \in 1..(j - 1) : key[p][l] = key[q][l]
      BY <2>3, <2>4 DEF Outranks
    <2>6. key[p][1] >= key[q][1]
      <3>1. key[p][1] \in Nat /\ key[q][1] \in Nat
        BY <1>7
      <3>2. CASE j = 1
        BY <2>5, <3>1, <3>2
      <3>3. CASE j # 1
        <4>1. 1 \in 1..(j - 1)
          BY <3>3
        <4>2. QED
          BY <2>5, <3>1, <4>1
      <3>4. QED
        BY <3>2, <3>3
    <2>7. QED
      BY <1>7, <2>1, <2>6
  <1>14. Items \in Seq(Photos)
    BY <1>2, <1>12, SeqMonotonic
  <1>15. QED
    BY <1>1, <1>12, <1>13, <1>14

\* A photo is accepted for a scored face or for the bib.
LEMMA AcceptedFor ==
  ASSUME scene \in Scenes, results \in [Faces -> Scores], NEW p \in Photos, Accepted(p)
  PROVE  BestScore(p) # NoRow \/ ExactBib(p)
  <1>1. {CandidateScore, MediumScore, StrongScore} \subseteq 1..100
    BY SearchAssumption
  <1>2. BestScore(p) \in Nat
    BY BestScores
  <1>3. ClassOf(BestScore(p)) \in {"strong", "medium"} => BestScore(p) # NoRow
    BY <1>1, <1>2 DEF ClassOf, NoRow
  <1>4. Strength(p) = "strong" <=> ExactBib(p)
    BY EvidenceAgreed DEF EvidenceAgrees
  <1>5. QED
    BY <1>3, <1>4 DEF Accepted

\* When there is room for all of them, every photo with a scored face or a row is
\* a candidate.
LEMMA RoomForAll ==
  ASSUME scene \in Scenes, results \in [Faces -> Scores], matched \in [Photos -> Nat],
         Cardinality({p \in Photos : BestScore(p) # NoRow} \union Matched) <= MaxSearchResults
  PROVE  \A p \in Photos : BestScore(p) # NoRow \/ p \in Matched => p \in CandidatePhotos
  <1>1. PICK all : all = {p \in Photos : BestScore(p) # NoRow} \union Matched
    OBVIOUS
  <1>2. PICK scored : scored = {p \in Photos : BestScore(p) # NoRow}
    OBVIOUS
  <1>3. PICK others : others = Matched \ scored
    OBVIOUS
  <1>4. PICK max \in Nat : max = MaxSearchResults
    BY SearchAssumption
  <1>5. all = scored \union others /\ scored \intersect others = {} /\ all \subseteq Photos
    BY <1>1, <1>2, <1>3 DEF Matched
  <1>6. /\ IsFiniteSet(scored) /\ IsFiniteSet(others)
        /\ Cardinality(scored) \in Nat /\ Cardinality(others) \in Nat
        /\ Cardinality(scored) + Cardinality(others) <= max
    <2>1. IsFiniteSet(scored) /\ IsFiniteSet(others)
      BY <1>5, FS_Subset, SearchAssumption
    <2>2. Cardinality(scored) \in Nat /\ Cardinality(others) \in Nat
      BY <2>1, FS_CardinalityType
    <2>3. Cardinality(scored \union others) =
            Cardinality(scored) + Cardinality(others) - Cardinality(scored \intersect others)
      BY <2>1, FS_Union
    <2>4. Cardinality(scored \intersect others) = 0
      BY <1>5, FS_EmptySet
    <2>5. Cardinality(scored \union others) <= max
      BY <1>1, <1>4, <1>5
    <2>6. QED
      BY <2>1, <2>2, <2>3, <2>4, <2>5
  <1> DEFINE key == [p \in Photos |-> <<BestScore(p), CreatedAt[p]>>]
  <1>7. Top(max, scored, Ranking(key)) = scored
    <2>1. ASSUME NEW p \in Photos PROVE ~Outranks(key[p], key[p])
      <3>1. PICK best \in Nat, came \in Nat : best = BestScore(p) /\ came = CreatedAt[p]
        BY BestScores, SearchAssumption
      <3>2. key[p] = <<best, came>>
        BY <3>1
      <3>3. PICK k : k = <<best, came>>
        OBVIOUS
      <3>4. DOMAIN k = 1..2 /\ \A i \in 1..2 : k[i] \in Nat
        BY <3>3
      <3>5. ~Outranks(k, k)
        BY <3>4 DEF Outranks
      <3> HIDE DEF key
      <3>6. QED
        BY <3>2, <3>3, <3>5
    <2> HIDE DEF key
    <2>2. \A p \in scored : <<p, p>> \notin Ranking(key)
      BY <1>2, <2>1 DEF Ranking
    <2>3. QED
      BY <1>6, <2>2, TopOf
  <1>8. Top(max - Cardinality(scored), others, Descending(matched)) = others
    <2>1. \A p \in others : <<p, p>> \notin Descending(matched)
      BY <1>5 DEF Descending
    <2>2. PICK left \in Nat : left = max - Cardinality(scored) /\ Cardinality(others) <= left
      BY <1>6
    <2>3. QED
      BY <1>6, <2>1, <2>2, TopOf
  <1>9. CandidatePhotos = all
    <2>1. Top(MaxSearchResults, {p \in Photos : BestScore(p) # NoRow}, Ranking(key)) = scored
      BY <1>2, <1>4, <1>7
    <2>2. CandidatePhotos =
            scored \union Top(max - Cardinality(scored), others, Descending(matched))
      BY <1>3, <1>4, <2>1 DEF CandidatePhotos
    <2>3. QED
      BY <1>5, <1>8, <2>2
  <1>10. QED
    BY <1>1, <1>9

\* The rows of the photos follow their texts.
RowsInStep ==
  /\ matched \in [Photos -> Nat]
  /\ rebuild \in [step : {"none", "read", "cleared", "filling"}, photos : SUBSET Photos]
  /\ RowsFollowText

\* An archive of all items is faithful (user_download_all_photos).
LEMMA WholeArchive ==
  ASSUME scene \in Scenes, results \in [Faces -> Scores], RowsInStep,
         download.step = "done" /\ download.stable => download.photos = Items
  PROVE  ArchiveFaithful
  <1> DEFINE Room ==
        Cardinality({p \in Photos : BestScore(p) # NoRow} \union Matched) <= MaxSearchResults
  <1>1. SUFFICES ASSUME download.photos = Items
        PROVE  /\ IsInjective(Items)
               /\ Range(Items) \subseteq {p \in Photos : Accepted(p)}
               /\ Room =>
                    /\ rebuild.step = "none" => {p \in Photos : Accepted(p)} \subseteq Range(Items)
                    /\ \A p \in Photos :
                         /\ Accepted(p)
                         /\ \/ BestScore(p) # NoRow \/ p \in Matched
                            \/ Rebuilt /\ p \in read /\ TokenOf[text[p]]
                         => p \in Range(Items)
               /\ \A i, k \in DOMAIN Items : i < k => BestScore(Items[i]) >= BestScore(Items[k])
    BY DEF ArchiveFaithful
  <1>2. PICK items : items = Items
    OBVIOUS
  <1>3. /\ items \in Seq(Photos) /\ IsInjective(items)
        /\ Range(items) = {p \in CandidatePhotos : Accepted(p)}
        /\ \A i, k \in 1..Len(items) : i < k => BestScore(items[i]) >= BestScore(items[k])
    BY <1>2, ItemsListed
  <1>4. DOMAIN items = 1..Len(items)
    BY <1>3
  <1>5. CandidatePhotos \subseteq Photos
    BY DEF CandidatePhotos, Top, Matched
  <1>6. ASSUME Room, NEW p \in Photos, Accepted(p), BestScore(p) # NoRow \/ p \in Matched
        PROVE  p \in Range(items)
    <2>1. p \in CandidatePhotos
      BY <1>6, RoomForAll DEF RowsInStep
    <2>2. QED
      BY <1>3, <1>6, <2>1
  <1>7. ASSUME rebuild.step = "none", NEW p \in Photos, Accepted(p)
        PROVE  BestScore(p) # NoRow \/ p \in Matched
    BY <1>7, AcceptedFor DEF RowsInStep, RowsFollowText
  <1>8. ASSUME NEW p \in Photos, Rebuilt, p \in read, TokenOf[text[p]]
        PROVE  p \in Matched
    BY <1>8 DEF RowsInStep, RowsFollowText, Rebuilt
  <1> HIDE DEF Room
  <1>9. Room => /\ rebuild.step = "none" => {p \in Photos : Accepted(p)} \subseteq Range(items)
                /\ \A p \in Photos :
                     /\ Accepted(p)
                     /\ \/ BestScore(p) # NoRow \/ p \in Matched
                        \/ Rebuilt /\ p \in read /\ TokenOf[text[p]]
                     => p \in Range(items)
    BY <1>6, <1>7, <1>8
  <1>10. QED
    BY <1>2, <1>3, <1>4, <1>5, <1>9

-----------------------------------------------------------------------------
(* Reach.                                                                  *)

Further(near, points) ==
  near \union {y \in points : \E x \in near : Similarity(x, y) >= ReinforcementScore}
ReachOver(h, steps, seeds, points) ==
  h = [n \in 0..steps |->
         IF n = 0 THEN seeds
         ELSE h[n - 1] \union {y \in points :
                \E x \in h[n - 1] : Similarity(x, y) >= ReinforcementScore}]

\* There is a reach after every step.
LEMMA ReachExists ==
  ASSUME NEW steps \in Nat, NEW seeds, NEW points
  PROVE  \E h : ReachOver(h, steps, seeds, points)
  <1> DEFINE S == SUBSET (seeds \union points)
             step == [n \in 1..steps |-> [near \in S |-> Further(near, points)]]
  <1>1. step \in [1..steps -> [S -> S]] /\ seeds \in S
    <2>1. ASSUME NEW near \in S PROVE Further(near, points) \in S
      BY DEF Further
    <2>2. QED
      BY <2>1
  <1>2. \E g : Solves(g, steps, S, seeds, step)
    <2> HIDE DEF S, step
    <2>1. QED
      BY <1>1, Iterates
  <1>3. PICK g \in [0..steps -> S] :
          g[0] = seeds /\ \A n \in 1..steps : g[n] = step[n][g[n - 1]]
    BY <1>2 DEF Solves
  <1>4. ASSUME NEW n \in 0..steps, n # 0 PROVE g[n] = Further(g[n - 1], points)
    <2>1. n \in 1..steps /\ n - 1 \in 0..steps
      BY <1>4
    <2>2. g[n - 1] \in S
      BY <2>1
    <2> HIDE DEF S
    <2>3. QED
      BY <1>3, <2>1, <2>2
  <1>5. g = [n \in 0..steps |-> IF n = 0 THEN seeds ELSE Further(g[n - 1], points)]
    <2> HIDE DEF S
    <2>1. QED
      BY <1>3, <1>4
  <1>6. QED
    BY <1>5 DEF ReachOver, Further

\* The reach before any step, and after one more.
LEMMA ReachUnfolds ==
  ASSUME NEW n \in Nat, NEW seeds, NEW points
  PROVE  /\ Reach(0, seeds, points) = seeds
         /\ Reach(n + 1, seeds, points) = Further(Reach(n, seeds, points), points)
  <1> DEFINE near(steps) == CHOOSE h : h = [k \in 0..steps |->
               IF k = 0 THEN seeds
               ELSE h[k - 1] \union {y \in points :
                      \E x \in h[k - 1] : Similarity(x, y) >= ReinforcementScore}]
  <1>1. \A steps \in Nat : Reach(steps, seeds, points) = near(steps)[steps]
    BY DEF Reach
  <1>2. ASSUME NEW steps \in Nat
        PROVE  near(steps) = [k \in 0..steps |->
                 IF k = 0 THEN seeds ELSE Further(near(steps)[k - 1], points)]
    <2>1. \E h : ReachOver(h, steps, seeds, points)
      BY ReachExists
    <2>2. ReachOver(near(steps), steps, seeds, points)
      BY <2>1 DEF ReachOver
    <2> HIDE DEF near
    <2>3. QED
      BY <2>2 DEF ReachOver, Further
  <1> HIDE DEF near
  <1>3. ASSUME NEW steps \in Nat
        PROVE  /\ near(steps)[0] = seeds
               /\ \A k \in 1..steps : near(steps)[k] = Further(near(steps)[k - 1], points)
    <2>1. PICK g : g = near(steps)
      OBVIOUS
    <2>2. g = [k \in 0..steps |-> IF k = 0 THEN seeds ELSE Further(g[k - 1], points)]
      BY <1>2, <2>1
    <2>3. 0 \in 0..steps /\ \A k \in 1..steps : k \in 0..steps /\ k # 0
      OBVIOUS
    <2>4. QED
      BY <2>1, <2>2, <2>3
  <1>4. PICK less, more : less = near(n) /\ more = near(n + 1)
    OBVIOUS
  <1>5. less[n] = more[n]
    <2> DEFINE T == {k \in 0..n : less[k] = more[k]}
    <2>1. 0 \in T
      BY <1>3, <1>4
    <2>2. ASSUME NEW k \in 1..n, k - 1 \in T PROVE k \in T
      <3>1. k \in 1..(n + 1) /\ k \in 0..n /\ n + 1 \in Nat
        OBVIOUS
      <3>2. less[k] = Further(less[k - 1], points) /\ more[k] = Further(more[k - 1], points)
        BY <1>3, <1>4, <3>1
      <3>3. QED
        BY <2>2, <3>1, <3>2
    <2> HIDE DEF T
    <2>3. 0..n \subseteq T
      BY <2>1, <2>2, UpTo
    <2>4. QED
      BY <2>3 DEF T
  <1>6. more[n + 1] = Further(more[n], points)
    <2>1. n + 1 \in Nat /\ n + 1 \in 1..(n + 1) /\ n + 1 - 1 = n
      OBVIOUS
    <2>2. more[n + 1] = Further(more[n + 1 - 1], points)
      BY <1>3, <1>4, <2>1
    <2>3. QED
      BY <2>1, <2>2
  <1>7. Reach(n + 1, seeds, points) = more[n + 1] /\ Reach(n, seeds, points) = less[n]
    BY <1>1, <1>4
  <1>8. Reach(0, seeds, points) = seeds
    BY <1>1, <1>3
  <1>9. QED
    BY <1>5, <1>6, <1>7, <1>8

\* More steps, seeds and points reach as far.
LEMMA ReachGrows ==
  ASSUME NEW n \in Nat, NEW m \in Nat, n <= m,
         NEW seeds, NEW more, seeds \subseteq more, NEW points, NEW wider, points \subseteq wider
  PROVE  Reach(n, seeds, points) \subseteq Reach(m, more, wider)
  <1>1. Reach(n, seeds, points) \subseteq Reach(n, more, wider)
    <2> DEFINE T == {i \in 0..n : Reach(i, seeds, points) \subseteq Reach(i, more, wider)}
    <2>1. 0 \in T
      BY ReachUnfolds
    <2>2. ASSUME NEW i \in 1..n, i - 1 \in T PROVE i \in T
      <3>1. PICK k \in Nat : k = i - 1 /\ i = k + 1 /\ i \in 0..n
        OBVIOUS
      <3>2. /\ Reach(k + 1, seeds, points) = Further(Reach(k, seeds, points), points)
            /\ Reach(k + 1, more, wider) = Further(Reach(k, more, wider), wider)
        BY ReachUnfolds
      <3>3. Reach(k, seeds, points) \subseteq Reach(k, more, wider)
        BY <2>2, <3>1
      <3>4. Further(Reach(k, seeds, points), points) \subseteq Further(Reach(k, more, wider), wider)
        BY <3>3 DEF Further
      <3>5. QED
        BY <3>1, <3>2, <3>4
    <2> HIDE DEF T
    <2>3. 0..n \subseteq T
      BY <2>1, <2>2, UpTo
    <2>4. QED
      BY <2>3 DEF T
  <1>2. Reach(n, more, wider) \subseteq Reach(m, more, wider)
    <2> DEFINE T == {d \in 0..(m - n) : Reach(n, more, wider) \subseteq Reach(n + d, more, wider)}
    <2>1. 0 \in T
      OBVIOUS
    <2>2. ASSUME NEW d \in 1..(m - n), d - 1 \in T PROVE d \in T
      <3>1. PICK k \in Nat : k = n + (d - 1) /\ n + d = k + 1 /\ d \in 0..(m - n)
        OBVIOUS
      <3>2. Reach(k + 1, more, wider) = Further(Reach(k, more, wider), wider)
        BY ReachUnfolds
      <3>3. Reach(n, more, wider) \subseteq Reach(k, more, wider)
        BY <2>2, <3>1
      <3>4. QED
        BY <3>1, <3>2, <3>3 DEF Further
    <2>3. PICK e \in Nat : e = m - n /\ n + e = m
      OBVIOUS
    <2>4. 0..e \subseteq T
      <3> HIDE DEF T
      <3>1. QED
        BY <2>1, <2>2, <2>3, UpTo
    <2>5. e \in T
      BY <2>3, <2>4
    <2>6. QED
      BY <2>3, <2>5
  <1>3. QED
    BY <1>1, <1>2

\* One step more reaches what is similar.
LEMMA ReachNext ==
  ASSUME NEW n \in Nat, NEW seeds, NEW points, NEW x \in Reach(n, seeds, points), NEW y \in points,
         Similarity(x, y) >= ReinforcementScore
  PROVE  y \in Reach(n + 1, seeds, points)
  <1>1. Reach(n + 1, seeds, points) = Further(Reach(n, seeds, points), points)
    BY ReachUnfolds
  <1>2. QED
    BY <1>1 DEF Further

-----------------------------------------------------------------------------
(* What the invariant says of one transaction.                             *)

\* The transaction t of j may be what it is.
Lawful(j, t) ==
  /\ t \in Transaction
  /\ t.queue \intersect t.reinforced = {}
  /\ Cardinality(t.reinforced) <= MaxReinforcements
  /\ t.exact \subseteq t.known
  /\ \A u \in t.compared : u.photos \subseteq scanned
  /\ Explained(t.rows, t.compared)
  /\ NoneBetter(t.rows, t.compared)
  /\ Explained(t.seen, used \union t.compared)
  /\ mode = "hybrid" /\ t.active =>
       /\ j \in pending
       /\ Range(t.seeds) \subseteq {position[j]}
       /\ {u.embedding : u \in t.compared} \subseteq Near(j, t.round)
       /\ {position[f] : f \in t.queue} \subseteq Near(j, t.round)

\* Everything else.
Settled ==
  /\ scene \in Scenes
  /\ scanned \subseteq Photos
  /\ read \subseteq Photos
  /\ results \in [Faces -> Scores]
  /\ pending \subseteq Jobs
  /\ mode = "hybrid" => pending \subseteq Selfies
  /\ used \subseteq Use
  /\ \A u \in used : u.photos \subseteq scanned
  /\ TopFacesKept
  /\ DriftBounded
Downloading == download \in Download /\ DownloadInStep

\* The invariant is made of these parts.
LEMMA InvariantParts ==
  IInv <=> /\ Settled /\ RowsInStep /\ Downloading
           /\ job \in [Jobs -> Transaction] /\ \A j \in Jobs : Lawful(j, job[j])
  BY DEF IInv, TypeOK, RowsExplained, RoundsNear, Lawful, Settled, RowsInStep, Downloading

\* So it is after a step.
LEMMA PartsNext ==
  ASSUME Settled', RowsInStep', Downloading', job' \in [Jobs -> Transaction], \A j \in Jobs : Lawful(j, job[j])'
  PROVE  IInv'
  BY DEF IInv, TypeOK, RowsExplained, RoundsNear, Lawful, Settled, RowsInStep, Downloading

-----------------------------------------------------------------------------
(* What changes as little as what it depends on.                           *)

\* The items depend on the results, the texts, the rows and the way of the search.
LEMMA ItemsSame ==
  ASSUME scene' = scene, read' = read, results' = results, matched' = matched
  PROVE  Items' = Items
  <1>1. mode' = mode /\ text' = text
    BY DEF scene
  <1>2. \A p : BestScore(p)' = BestScore(p) /\ Strength(p)' = Strength(p) /\ ExactBib(p)' = ExactBib(p)
    BY <1>1 DEF BestScore, Strength, ExactBib
  <1>3. \A p : Accepted(p)' <=> Accepted(p)
    BY <1>1, <1>2 DEF Accepted
  <1>4. {p \in Photos : BestScore(p) # NoRow}' = {p \in Photos : BestScore(p) # NoRow}
    BY <1>2
  <1>5. [p \in Photos |-> <<BestScore(p), CreatedAt[p]>>]' = [p \in Photos |-> <<BestScore(p), CreatedAt[p]>>]
    BY <1>2
  <1>6. Matched' = Matched
    BY DEF Matched
  <1>7. CandidatePhotos' = CandidatePhotos
    <2>1. PICK S : S = {p \in Photos : BestScore(p) # NoRow} /\ S = {p \in Photos : BestScore(p) # NoRow}'
      BY <1>4
    <2>2. PICK key : /\ key = [p \in Photos |-> <<BestScore(p), CreatedAt[p]>>]
                     /\ key = [p \in Photos |-> <<BestScore(p), CreatedAt[p]>>]'
      BY <1>5
    <2>3. PICK scored : scored = Top(MaxSearchResults, S, Ranking(key))
      OBVIOUS
    <2>4. PICK rows : rows = Matched /\ rows = Matched'
      BY <1>6
    <2>5. CandidatePhotos =
            scored \union Top(MaxSearchResults - Cardinality(scored), rows \ scored, Descending(matched))
      BY <2>1, <2>2, <2>3, <2>4 DEF CandidatePhotos
    <2>6. CandidatePhotos' =
            scored \union Top(MaxSearchResults - Cardinality(scored), rows \ scored, Descending(matched))
      BY <2>1, <2>2, <2>3, <2>4 DEF CandidatePhotos
    <2>7. QED
      BY <2>5, <2>6
  <1>8. {p \in CandidatePhotos : Accepted(p)}' = {p \in CandidatePhotos : Accepted(p)}
    BY <1>3, <1>7
  <1>9. [p \in Photos |-> <<BestScore(p), IF Strength(p) = "strong" THEN 1 ELSE 0, CreatedAt[p]>>]' =
        [p \in Photos |-> <<BestScore(p), IF Strength(p) = "strong" THEN 1 ELSE 0, CreatedAt[p]>>]
    BY <1>2
  <1>10. QED
    BY <1>8, <1>9 DEF Items

\* Rows that do not change follow the texts that do not either.
LEMMA RowsSame ==
  ASSUME RowsInStep, UNCHANGED <<scene, read, matched, rebuild>>
  PROVE  RowsInStep'
  BY DEF RowsInStep, RowsFollowText, Matched, ExactBib, scene

\* As faces are stored and selfies completed, the search reaches further.
LEMMA ReachedGrows ==
  ASSUME scene' = scene, scanned \subseteq scanned', pending' \subseteq pending
  PROVE  /\ \A n, m \in Nat : \A j : n <= m => Near(j, n) \subseteq Near(j, m)'
         /\ \A n, m \in Nat : \A S, T : n <= m /\ S \subseteq T => Within(n, S) \subseteq Within(m, T)'
  <1>1. position' = position
    BY DEF scene
  <1>2. PICK done, more : done = Selfies \ pending /\ more = Selfies \ pending'
    OBVIOUS
  <1>3. done \subseteq more /\ IsFiniteSet(more) /\ IsFiniteSet(done)
    <2>1. IsFiniteSet(Selfies) /\ done \subseteq Selfies /\ more \subseteq Selfies
      BY <1>2, SearchAssumption
    <2>2. QED
      BY <1>2, <2>1, FS_Subset
  <1>4. PICK c \in Nat, d \in Nat : c = Cardinality(done) /\ d = Cardinality(more) /\ c <= d
    BY <1>3, FS_CardinalityType, FS_Subset
  <1>5. PICK points, wider : /\ points = {position[f] : f \in FacesOf(scanned)}
                             /\ wider = {position[f] : f \in FacesOf(scanned')}
    OBVIOUS
  <1>6. points \subseteq wider
    BY <1>5 DEF FacesOf
  <1>7. ASSUME NEW n \in Nat, NEW m \in Nat, n <= m, NEW S, NEW T, S \subseteq T
        PROVE  Within(n, S) \subseteq Within(m, T)'
    <2>1. Within(n, S) = Reach(n, S, points) /\ Within(m, T)' = Reach(m, T, wider)
      BY <1>1, <1>5 DEF Within
    <2>2. QED
      BY <1>6, <1>7, <2>1, ReachGrows
  <1>8. ASSUME NEW n \in Nat, NEW m \in Nat, n <= m, NEW j
        PROVE  Near(j, n) \subseteq Near(j, m)'
    <2>1. PICK S, T : /\ S = {position[s] : s \in done \union {j}}
                      /\ T = {position[s] : s \in more \union {j}}
      OBVIOUS
    <2>2. S \subseteq T
      BY <1>3, <2>1
    <2>3. PICK k \in Nat, l \in Nat : k = Rounds * c + n /\ l = Rounds * d + m /\ k <= l
      BY <1>4, <1>8 DEF Rounds
    <2>4. Near(j, n) = Reach(k, S, points)
      BY <1>2, <1>4, <1>5, <2>1, <2>3 DEF Near, Within
    <2>5. Near(j, m)' = Reach(l, T, wider)
      BY <1>1, <1>2, <1>4, <1>5, <2>1, <2>3 DEF Near, Within
    <2>6. QED
      BY <1>6, <2>2, <2>3, <2>4, <2>5, ReachGrows
  <1>9. QED
    BY <1>7, <1>8

\* A transaction stays lawful as photos come, and as others are committed.
LEMMA StaysLawful ==
  ASSUME scene' = scene, scanned \subseteq scanned', used \subseteq used', pending' \subseteq pending,
         NEW j, NEW t, Lawful(j, t), mode = "hybrid" /\ t.active => j \in pending'
  PROVE  Lawful(j, t)'
  <1>1. mode' = mode /\ position' = position
    BY DEF scene
  <1>2. /\ t \in Transaction /\ t.queue \intersect t.reinforced = {}
        /\ Cardinality(t.reinforced) <= MaxReinforcements /\ t.exact \subseteq t.known
        /\ \A u \in t.compared : u.photos \subseteq scanned
        /\ Explained(t.rows, t.compared) /\ NoneBetter(t.rows, t.compared)
        /\ Explained(t.seen, used \union t.compared)
    BY DEF Lawful
  <1>3. Explained(t.rows, t.compared)'
    BY <1>1, <1>2 DEF Explained
  <1>4. NoneBetter(t.rows, t.compared)'
    BY <1>1, <1>2 DEF NoneBetter
  <1>5. Explained(t.seen, used \union t.compared)'
    BY <1>1, <1>2 DEF Explained
  <1>6. ASSUME mode = "hybrid", t.active
        PROVE  /\ j \in pending' /\ Range(t.seeds) \subseteq {position[j]}'
               /\ {u.embedding : u \in t.compared} \subseteq Near(j, t.round)'
               /\ {position[f] : f \in t.queue}' \subseteq Near(j, t.round)'
    <2>1. t.round \in Nat
      BY <1>2 DEF Transaction, Rounds
    <2>2. Near(j, t.round) \subseteq Near(j, t.round)'
      BY <2>1, ReachedGrows
    <2>3. QED
      BY <1>1, <1>6, <2>2 DEF Lawful
  <1>7. \A u \in t.compared : u.photos \subseteq scanned'
    BY <1>2
  <1>8. QED
    BY <1>1, <1>2, <1>3, <1>4, <1>5, <1>6, <1>7 DEF Lawful

\* What is committed stays settled as photos come.
LEMMA StaysSettled ==
  ASSUME Settled, UNCHANGED <<scene, results, pending, used>>,
         scanned \subseteq scanned', scanned' \subseteq Photos,
         read' \subseteq Photos
  PROVE  Settled'
  <1>1. mode' = mode /\ position' = position
    BY DEF scene
  <1>2. TopFacesKept'
    BY <1>1 DEF Settled, TopFacesKept, Explained, NoneBetter
  <1>3. DriftBounded'
    <2>1. PICK n \in Nat, S \in {{position[s] : s \in Selfies \ pending}} :
            n = Rounds * Cardinality(Selfies \ pending)
      <3>1. IsFiniteSet(Selfies \ pending)
        BY SearchAssumption, FS_Subset
      <3>2. QED
        BY <3>1, FS_CardinalityType DEF Rounds
    <2>2. Within(n, S) \subseteq Within(n, S)'
      BY <2>1, ReachedGrows
    <2>3. mode = "hybrid" => {u.embedding : u \in used} \subseteq Within(n, S)
      BY <2>1 DEF Settled, DriftBounded
    <2>4. QED
      BY <1>1, <2>1, <2>2, <2>3 DEF DriftBounded
  <1>4. QED
    BY <1>1, <1>2, <1>3 DEF Settled

\* One transaction goes on, and nothing else.
LEMMA TransactionStep ==
  ASSUME IInv, NEW j \in Jobs, NEW t, Lawful(j, t), job' = [job EXCEPT ![j] = t],
         UNCHANGED <<scene, scanned, read, matches, results, pending, used, download>>
  PROVE  IInv'
  <1>1. /\ Settled /\ RowsInStep /\ Downloading
        /\ job \in [Jobs -> Transaction] /\ \A k \in Jobs : Lawful(k, job[k])
    BY InvariantParts
  <1>2. Settled' /\ RowsInStep'
    BY <1>1, StaysSettled, RowsSame DEF Settled, matches
  <1>3. Downloading'
    BY <1>1, ItemsSame DEF Downloading, DownloadInStep, matches
  <1>4. ASSUME NEW k \in Jobs PROVE Lawful(k, job[k])'
    <2>1. PICK s : s = job'[k]
      OBVIOUS
    <2>2. Lawful(k, s)
      BY <1>1, <2>1
    <2>3. mode = "hybrid" /\ s.active => k \in pending'
      BY <2>2 DEF Lawful
    <2>4. Lawful(k, s)'
      BY <2>2, <2>3, StaysLawful
    <2>5. QED
      BY <2>1, <2>4
  <1>5. job' \in [Jobs -> Transaction]
    <2>1. t \in Transaction
      BY DEF Lawful
    <2>2. QED
      BY <1>1, <2>1
  <1>6. QED
    BY <1>2, <1>3, <1>4, <1>5, PartsNext

-----------------------------------------------------------------------------
(* The steps of a transaction.                                             *)

\* Nothing is known of a face before anything is compared.
LEMMA IdleLawful ==
  ASSUME NEW j
  PROVE  Lawful(j, Idle)
  <1>1. NoRows \in [Faces -> Scores] /\ \A f \in Faces : NoRows[f] = NoRow
    BY DEF NoRows, NoRow, Scores
  <1>2. Idle \in Transaction
    BY <1>1 DEF Idle, Transaction, Rounds
  <1>3. Cardinality({}) <= MaxReinforcements
    BY FS_EmptySet, SearchAssumption
  <1>4. \A uses : Explained(NoRows, uses)
    BY <1>1 DEF Explained
  <1>5. NoneBetter(NoRows, {})
    BY DEF NoneBetter
  <1>6. QED
    BY <1>2, <1>3, <1>4, <1>5 DEF Lawful, Idle

\* Nor has a transaction that begins anything to explain.
LEMMA BegunLawful ==
  ASSUME NEW j \in pending, NEW seeds \in Seq(Nat), NEW round \in 0..Rounds,
         NEW known \in SUBSET Photos, NEW exact \in SUBSET known,
         mode = "hybrid" => Range(seeds) \subseteq {position[j]}
  PROVE  Lawful(j, [Idle EXCEPT !.active = TRUE, !.seeds = seeds, !.round = round,
                                !.known = known, !.exact = exact])
  <1>1. PICK t : t = [Idle EXCEPT !.active = TRUE, !.seeds = seeds, !.round = round,
                                  !.known = known, !.exact = exact]
    OBVIOUS
  <1>2. /\ t.seeds = seeds /\ t.round = round /\ t.known = known /\ t.exact = exact
        /\ t.queue = {} /\ t.reinforced = {} /\ t.compared = {}
        /\ t.rows = Idle.rows /\ t.seen = Idle.seen
    BY <1>1 DEF Idle
  <1>3. t \in Transaction
    <2>1. Idle \in Transaction
      BY IdleLawful DEF Lawful
    <2>2. exact \subseteq Photos
      OBVIOUS
    <2>3. QED
      BY <1>1, <2>1, <2>2 DEF Transaction
  <1>4. /\ Cardinality({}) <= MaxReinforcements
        /\ Explained(t.rows, {}) /\ NoneBetter(t.rows, {}) /\ Explained(t.seen, used \union {})
    BY <1>2, IdleLawful DEF Lawful, Idle
  <1>5. QED
    BY <1>1, <1>2, <1>3, <1>4 DEF Lawful

\* The search with a selfie starts from it (complete_face_search_job).
LEMMA BeginSelfieKeeps ==
  ASSUME IInv, NEW s \in Selfies, BeginSelfie(s)
  PROVE  IInv'
  <1>1. PICK seeds : seeds = <<position[s]>>
    OBVIOUS
  <1>2. position[s] \in Nat
    <2>1. scene \in Scenes
      BY DEF IInv, TypeOK
    <2>2. QED
      BY <2>1, SceneTypes
  <1>3. seeds \in Seq(Nat) /\ Range(seeds) \subseteq {position[s]}
    <2>1. seeds \in Seq(Nat) /\ DOMAIN seeds = {1} /\ seeds[1] = position[s]
      BY <1>1, <1>2
    <2>2. QED
      BY <2>1 DEF Range
  <1>4. PICK round \in 0..Rounds : round = 0
    BY DEF Rounds
  <1>5. PICK none \in SUBSET Photos : none = {}
    OBVIOUS
  <1>6. PICK t : t = [Idle EXCEPT !.active = TRUE, !.seeds = seeds, !.round = round,
                                  !.known = none, !.exact = none]
    OBVIOUS
  <1>7. s \in pending /\ job' = [job EXCEPT ![s] = t]
        /\ UNCHANGED <<scene, scanned, read, matches, results, pending, used, download>>
    BY <1>1, <1>4, <1>5, <1>6 DEF BeginSelfie, Begin
  <1>8. Lawful(s, t)
    BY <1>3, <1>5, <1>6, <1>7, BegunLawful
  <1>9. s \in Jobs
    BY DEF Jobs
  <1>10. QED
    BY <1>7, <1>8, <1>9, TransactionStep

\* The search by bib starts from its seeds (create_bib_only_face_search_session).
LEMMA BeginBibOnlyKeeps ==
  ASSUME IInv, BeginBibOnly
  PROVE  IInv'
  <1>1. /\ scene \in Scenes /\ (mode = "hybrid" => pending \subseteq Selfies)
    BY DEF IInv, TypeOK, RoundsNear
  <1>2. PICK known \in {{}, Photos}, seeds \in {BibOnlySeeds} :
          Begin(BibSearch, seeds, IF seeds = <<>> THEN Rounds ELSE 0,
                known, {p \in known : ExactBib(p)})
    BY DEF BeginBibOnly
  <1>3. PICK round \in 0..Rounds : round = IF seeds = <<>> THEN Rounds ELSE 0
    BY DEF Rounds
  <1>4. PICK exact \in SUBSET known : exact = {p \in known : ExactBib(p)}
    OBVIOUS
  <1>5. PICK t : t = [Idle EXCEPT !.active = TRUE, !.seeds = seeds, !.round = round,
                                  !.known = known, !.exact = exact]
    OBVIOUS
  <1>6. BibSearch \in pending /\ job' = [job EXCEPT ![BibSearch] = t]
        /\ UNCHANGED <<scene, scanned, read, matches, results, pending, used, download>>
    BY <1>2, <1>3, <1>4, <1>5 DEF Begin
  <1>7. mode # "hybrid"
    BY <1>1, <1>6, SearchAssumption
  <1>8. seeds \in Seq(Nat)
    BY <1>1, BibOnlySeedsFrom
  <1>9. known \in SUBSET Photos
    BY <1>2
  <1>10. Lawful(BibSearch, t)
    BY <1>5, <1>6, <1>7, <1>8, <1>9, BegunLawful
  <1>11. BibSearch \in Jobs
    BY DEF Jobs
  <1>12. QED
    BY <1>6, <1>10, <1>11, TransactionStep

\* A comparison keeps the transaction lawful (create_face_search_results).
LEMMA ComparedLawful ==
  ASSUME IInv, NEW j \in Jobs, job[j].active, NEW embedding \in Nat,
         mode = "hybrid" => embedding \in Near(j, job[j].round),
         NEW order \in RowOrders, NEW kept, kept = Streamed(embedding, order)
  PROVE  LET made == Compared(j, embedding, kept)
         IN /\ Lawful(j, made) /\ made \in Transaction
            /\ made.active /\ made.seeds = job[j].seeds /\ made.round = job[j].round
            /\ made.queue = job[j].queue /\ made.reinforced = job[j].reinforced
  <1>1. PICK old \in Transaction : old = job[j] /\ Lawful(j, old)
    BY InvariantParts DEF Lawful
  <1>2. scene \in Scenes /\ scanned \subseteq Photos
    BY DEF IInv, TypeOK
  <1>3. PICK u \in Use : u = [embedding |-> embedding, photos |-> scanned]
    BY <1>2 DEF Use
  <1>4. PICK t : t = Compared(j, embedding, kept)
    OBVIOUS
  <1>5. PICK rows \in [Faces -> Scores], all \in SUBSET Use :
          rows = Upserted(old.rows, embedding, kept) /\ all = old.compared \union {u}
    <2>1. old.rows \in [Faces -> Scores] /\ old.compared \in SUBSET Use
      BY DEF Transaction
    <2>2. QED
      BY <1>2, <2>1, UpsertedRows
  <1>6. t = [old EXCEPT !.rows = rows, !.compared = all]
    BY <1>1, <1>3, <1>4, <1>5 DEF Compared
  <1>7. /\ t \in Transaction /\ t.rows = rows /\ t.compared = all
        /\ t.active = old.active /\ t.seeds = old.seeds /\ t.round = old.round
        /\ t.queue = old.queue /\ t.rank = old.rank /\ t.seen = old.seen /\ t.known = old.known
        /\ t.exact = old.exact /\ t.reinforced = old.reinforced
    BY <1>6 DEF Transaction
  <1>8. Explained(rows, all) /\ NoneBetter(rows, all)
    <2>1. /\ old.rows \in [Faces -> Scores] /\ old.compared \in SUBSET Use
          /\ Explained(old.rows, old.compared) /\ NoneBetter(old.rows, old.compared)
      BY <1>1 DEF Transaction, Lawful
    <2>2. QED
      BY <1>2, <1>3, <1>5, <2>1, ComparisonFaithful
  <1>9. Explained(t.seen, used \union all)
    <2>1. Explained(old.seen, used \union old.compared) /\ used \union old.compared \subseteq used \union all
      BY <1>1, <1>5 DEF Lawful
    <2>2. QED
      BY <1>7, <2>1, ExplainedMore
  <1>10. \A v \in all : v.photos \subseteq scanned
    BY <1>1, <1>3, <1>5 DEF Lawful
  <1>11. mode = "hybrid" /\ t.active => {v.embedding : v \in all} \subseteq Near(j, t.round)
    <2>1. u.embedding = embedding
      BY <1>3
    <2>2. mode = "hybrid" => {v.embedding : v \in old.compared} \subseteq Near(j, old.round)
      BY <1>1 DEF Lawful
    <2>3. QED
      BY <1>1, <1>5, <1>7, <2>1, <2>2
  <1>12. Lawful(j, t)
    <2>1. /\ old.queue \intersect old.reinforced = {} /\ old.exact \subseteq old.known
          /\ Cardinality(old.reinforced) <= MaxReinforcements
          /\ mode = "hybrid" =>
               /\ j \in pending
               /\ Range(old.seeds) \subseteq {position[j]}
               /\ {position[f] : f \in old.queue} \subseteq Near(j, old.round)
      BY <1>1 DEF Lawful
    <2>2. QED
      BY <1>7, <1>8, <1>9, <1>10, <1>11, <2>1 DEF Lawful
  <1>13. QED
    BY <1>1, <1>4, <1>7, <1>12

\* The transaction compares its next seed.
LEMMA CompareSeedKeeps ==
  ASSUME IInv, NEW j \in Jobs, CompareSeed(j)
  PROVE  IInv'
  <1>1. /\ scene \in Scenes /\ job[j] \in Transaction /\ Lawful(j, job[j])
        /\ job[j].active /\ job[j].seeds # <<>> /\ job[j].seeds \in Seq(Nat)
    BY InvariantParts DEF Lawful, Settled, CompareSeed, Transaction
  <1>2. PICK seed \in Nat : seed = Head(job[j].seeds)
    BY <1>1, HeadTailProperties
  <1>3. PICK kept \in {Streamed(seed, order) : order \in RowOrders} :
          /\ job' = [job EXCEPT ![j] = [Compared(j, seed, kept) EXCEPT !.seeds = Tail(@)]]
          /\ UNCHANGED <<scene, scanned, read, matches, results, pending, used, download>>
    BY <1>2 DEF CompareSeed
  <1>4. PICK order \in RowOrders : kept = Streamed(seed, order)
    BY <1>3
  <1>5. mode = "hybrid" => seed = position[j] /\ seed \in Near(j, job[j].round)
    <2>1. SUFFICES ASSUME mode = "hybrid" PROVE seed = position[j] /\ seed \in Near(j, job[j].round)
      OBVIOUS
    <2>2. Range(job[j].seeds) \subseteq {position[j]}
      BY <1>1, <2>1 DEF Lawful
    <2>3. 1 \in DOMAIN job[j].seeds /\ seed = job[j].seeds[1]
      BY <1>1, <1>2, EmptySeq, LenProperties
    <2>4. seed = position[j]
      BY <2>2, <2>3 DEF Range
    <2>5. IsFiniteSet(Selfies \ pending)
      BY SearchAssumption, FS_Subset
    <2>6. PICK c \in Nat : c = Cardinality(Selfies \ pending)
      BY <2>5, FS_CardinalityType
    <2>7. PICK round \in Nat : round = job[j].round
      BY <1>1 DEF Transaction, Rounds
    <2>8. PICK n \in Nat : n = Rounds * c + round
      BY DEF Rounds
    <2>9. PICK places, points : /\ places = {position[s] : s \in (Selfies \ pending) \union {j}}
                                /\ points = {position[f] : f \in FacesOf(scanned)}
      OBVIOUS
    <2>10. Near(j, job[j].round) = Reach(n, places, points)
      BY <2>6, <2>7, <2>8, <2>9 DEF Near, Within
    <2>11. places \subseteq Reach(n, places, points)
      <3>1. PICK zero \in Nat : zero = 0 /\ zero <= n
        OBVIOUS
      <3>2. Reach(zero, places, points) \subseteq Reach(n, places, points)
        BY <3>1, ReachGrows
      <3>3. QED
        BY <3>1, <3>2, ReachUnfolds
    <2>12. QED
      BY <2>4, <2>9, <2>10, <2>11
  <1>6. PICK made : made = Compared(j, seed, kept)
    OBVIOUS
  <1>7. /\ Lawful(j, made) /\ made \in Transaction /\ made.seeds = job[j].seeds
        /\ made.active /\ made.round = job[j].round
    BY <1>1, <1>4, <1>5, <1>6, ComparedLawful
  <1>8. PICK rest \in Seq(Nat) : rest = Tail(job[j].seeds)
    BY <1>1, HeadTailProperties
  <1>9. Range(rest) \subseteq Range(job[j].seeds)
    <2>1. PICK seeds \in Seq(Nat) : seeds = job[j].seeds /\ seeds # <<>>
      BY <1>1
    <2>2. /\ Len(rest) = Len(seeds) - 1 /\ \A i \in 1..Len(rest) : rest[i] = seeds[i + 1]
      BY <1>8, <2>1, HeadTailProperties
    <2>3. Len(seeds) \in Nat /\ DOMAIN seeds = 1..Len(seeds) /\ DOMAIN rest = 1..Len(rest)
      BY LenProperties
    <2>4. \A i \in 1..Len(rest) : i + 1 \in 1..Len(seeds)
      BY <2>2, <2>3
    <2>5. QED
      BY <2>1, <2>2, <2>3, <2>4 DEF Range
  <1>10. PICK t : t = [made EXCEPT !.seeds = rest]
    OBVIOUS
  <1>11. Lawful(j, t)
    <2>1. /\ t \in Transaction /\ t.seeds = rest /\ t.active = made.active /\ t.rows = made.rows
          /\ t.round = made.round /\ t.queue = made.queue /\ t.seen = made.seen
          /\ t.known = made.known /\ t.exact = made.exact /\ t.reinforced = made.reinforced
          /\ t.compared = made.compared
      BY <1>7, <1>10 DEF Transaction
    <2>2. QED
      BY <1>7, <1>9, <2>1 DEF Lawful
  <1>12. job' = [job EXCEPT ![j] = t]
    BY <1>3, <1>6, <1>7, <1>8, <1>10
  <1>13. QED
    BY <1>3, <1>11, <1>12, TransactionStep

\* The transaction compares the best face of its queue.
LEMMA ReinforceKeeps ==
  ASSUME IInv, NEW j \in Jobs, Reinforce(j)
  PROVE  IInv'
  <1>1. /\ scene \in Scenes /\ job[j] \in Transaction /\ Lawful(j, job[j])
        /\ job[j].active /\ ~Exhausted(j)
    BY InvariantParts DEF Lawful, Settled, Reinforce
  <1>2. PICK f \in job[j].queue :
          \E kept \in {Streamed(position[f], order) : order \in RowOrders} :
            job' = [job EXCEPT ![j] =
                     [Compared(j, position[f], kept) EXCEPT
                        !.queue = @ \ {f}, !.reinforced = @ \union {f}]]
    BY DEF Reinforce
  <1>3. UNCHANGED <<scene, scanned, read, matches, results, pending, used, download>>
    BY DEF Reinforce
  <1>4. f \in Faces /\ job[j].queue \in SUBSET Faces /\ job[j].reinforced \in SUBSET Faces
    BY <1>1 DEF Transaction
  <1>5. PICK place \in Nat : place = position[f]
    BY <1>1, <1>4, SceneTypes
  <1>6. PICK kept \in {Streamed(place, order) : order \in RowOrders} :
          job' = [job EXCEPT ![j] =
                   [Compared(j, place, kept) EXCEPT !.queue = @ \ {f}, !.reinforced = @ \union {f}]]
    BY <1>2, <1>5
  <1>7. PICK order \in RowOrders : kept = Streamed(place, order)
    BY <1>6
  <1>8. PICK made : made = Compared(j, place, kept)
    OBVIOUS
  <1>9. mode = "hybrid" => place \in Near(j, job[j].round)
    BY <1>1, <1>5 DEF Lawful
  <1>10. /\ Lawful(j, made) /\ made \in Transaction /\ made.queue = job[j].queue
        /\ made.reinforced = job[j].reinforced
    BY <1>1, <1>7, <1>8, <1>9, ComparedLawful
  <1>11. PICK t : t = [made EXCEPT !.queue = @ \ {f}, !.reinforced = @ \union {f}]
    OBVIOUS
  <1>12. /\ t \in Transaction /\ t.seeds = made.seeds /\ t.active = made.active /\ t.rows = made.rows
         /\ t.round = made.round /\ t.queue = made.queue \ {f} /\ t.seen = made.seen
         /\ t.known = made.known /\ t.exact = made.exact
         /\ t.reinforced = made.reinforced \union {f} /\ t.compared = made.compared
    BY <1>4, <1>10, <1>11 DEF Transaction
  <1>13. Cardinality(t.reinforced) <= MaxReinforcements
    <2>1. PICK n \in Nat, max \in Nat :
            n = Cardinality(made.reinforced) /\ max = MaxReinforcements /\ IsFiniteSet(made.reinforced)
      <3>1. IsFiniteSet(made.reinforced)
        BY <1>4, <1>10, SearchAssumption, FS_Subset
      <3>2. QED
        BY <3>1, SearchAssumption, FS_CardinalityType
    <2>2. ~(n >= max)
      BY <1>1, <1>10, <2>1 DEF Exhausted
    <2>3. Cardinality(made.reinforced \union {f}) <= n + 1
      <3>1. PICK S : S = made.reinforced /\ IsFiniteSet(S) /\ Cardinality(S) = n
        BY <2>1
      <3>2. Cardinality(S \union {f}) = (IF f \in S THEN Cardinality(S) ELSE Cardinality(S) + 1)
        BY <3>1, FS_AddElement
      <3>3. Cardinality(S \union {f}) <= n + 1
        BY <3>1, <3>2
      <3>4. QED
        BY <3>1, <3>3
    <2>4. Cardinality(made.reinforced \union {f}) \in Nat
      BY <2>1, FS_AddElement, FS_CardinalityType
    <2>5. QED
      BY <1>12, <2>1, <2>2, <2>3, <2>4
  <1>14. Lawful(j, t)
    <2>1. t.queue \intersect t.reinforced = {}
      BY <1>10, <1>12 DEF Lawful
    <2>2. QED
      BY <1>10, <1>12, <1>13, <2>1 DEF Lawful
  <1>15. job' = [job EXCEPT ![j] = t]
    BY <1>6, <1>8, <1>11
  <1>16. QED
    BY <1>3, <1>14, <1>15, TransactionStep

\* A transaction that is rolled back starts again (PostgreSQL; HTTPException 413).
LEMMA RollBackKeeps ==
  ASSUME IInv, NEW j \in Jobs, RollBack(j)
  PROVE  IInv'
  BY IdleLawful, TransactionStep DEF RollBack

\* The transaction loads its best rows for the next round
\* (apply_adaptive_reinforcement).
LEMMA LoadRoundKeeps ==
  ASSUME IInv, NEW j \in Jobs, LoadRound(j)
  PROVE  IInv'
  <1>1. PICK old \in Transaction : old = job[j] /\ Lawful(j, old)
    BY InvariantParts DEF Lawful
  <1>2. /\ scene \in Scenes /\ scanned \subseteq Photos /\ results \in [Faces -> Scores]
        /\ used \subseteq Use /\ (\A u \in used : u.photos \subseteq scanned)
        /\ Explained(results, used) /\ DriftBounded
    BY DEF IInv, TypeOK, TopFacesKept
  <1>3. old.active /\ old.round < Rounds
    BY <1>1 DEF LoadRound, MayLoad
  <1>4. PICK now \in [Faces -> Scores] : now = Visible(j)
    <2>1. old.rows \in [Faces -> Scores]
      BY DEF Transaction
    <2>2. QED
      BY <1>1, <1>2, <2>1, BestRows DEF Visible
  <1>5. PICK loaded \in SUBSET Faces : loaded = LoadedRows(now)
    BY DEF LoadedRows, Top
  <1>6. PICK seen \in [Faces -> Scores] :
          seen = [f \in Faces |-> IF f \notin loaded THEN NoRow
                                  ELSE IF old.seen[f] # NoRow THEN old.seen[f] ELSE now[f]]
    <2>1. NoRow \in Scores
      BY DEF NoRow, Scores
    <2>2. old.seen \in [Faces -> Scores]
      BY DEF Transaction
    <2>3. QED
      BY <2>1, <2>2
  <1>7. PICK photos \in SUBSET Photos : photos = {PhotoOf[f] : f \in loaded}
    <2>1. PhotoOf \in [Faces -> Photos]
      BY SearchAssumption
    <2>2. {PhotoOf[f] : f \in loaded} \in SUBSET Photos
      BY <2>1
    <2>3. QED
      BY <2>2
  <1>8. PICK exact \in SUBSET Photos : exact = old.exact \union {p \in photos \ old.known : ExactBib(p)}
    BY DEF Transaction
  <1>9. PICK queue \in SUBSET Faces :
          queue = {f \in loaded \ old.reinforced : ShouldReinforce(seen[f], PhotoOf[f] \in exact)}
    OBVIOUS
  <1>10. PICK round \in 0..Rounds : round = (IF queue = {} THEN Rounds ELSE old.round + 1)
    BY <1>3 DEF Transaction, Rounds
  <1>11. PICK t : t = [old EXCEPT !.round = round, !.queue = queue, !.rank = now, !.seen = seen,
                                  !.known = old.known \union photos, !.exact = exact]
    OBVIOUS
  <1>12. /\ job' = [job EXCEPT ![j] = t]
         /\ UNCHANGED <<scene, scanned, read, matches, results, pending, used, download>>
    <2> DEFINE now0 == Visible(j)
               loaded0 == LoadedRows(now0)
               seen0 == [f \in Faces |->
                          IF f \notin loaded0 THEN NoRow
                          ELSE IF job[j].seen[f] # NoRow THEN job[j].seen[f] ELSE now0[f]]
               photos0 == {PhotoOf[f] : f \in loaded0}
               exact0 == job[j].exact \union {p \in photos0 \ job[j].known : ExactBib(p)}
               queue0 == {f \in loaded0 \ job[j].reinforced :
                            ShouldReinforce(seen0[f], PhotoOf[f] \in exact0)}
    <2>1. job' = [job EXCEPT ![j] = [job[j] EXCEPT
                    !.round = IF queue0 = {} THEN Rounds ELSE @ + 1,
                    !.queue = queue0, !.rank = now0, !.seen = seen0,
                    !.known = @ \union photos0, !.exact = exact0]]
      BY DEF LoadRound
    <2>2. UNCHANGED <<scene, scanned, read, matches, results, pending, used, download>>
      BY DEF LoadRound
    <2>3. now0 = now
      BY <1>4
    <2>4. loaded0 = loaded
      BY <1>5, <2>3
    <2> HIDE DEF now0, loaded0
    <2>5. seen0 = seen
      BY <1>1, <1>6, <2>3, <2>4
    <2>6. photos0 = photos
      BY <1>7, <2>4
    <2> HIDE DEF seen0, photos0
    <2>7. exact0 = exact
      BY <1>1, <1>8, <2>6
    <2> HIDE DEF exact0
    <2>8. queue0 = queue
      BY <1>1, <1>9, <2>4, <2>5, <2>7
    <2> HIDE DEF queue0
    <2>9. QED
      <3>1. t = [old EXCEPT
                   !.round = IF queue0 = {} THEN Rounds ELSE old.round + 1,
                   !.queue = queue0, !.rank = now0, !.seen = seen0,
                   !.known = old.known \union photos0, !.exact = exact0]
        BY <1>10, <1>11, <2>3, <2>5, <2>6, <2>7, <2>8
      <3>2. job' = [job EXCEPT ![j] = t]
        BY <1>1, <2>1, <3>1
      <3>3. QED
        BY <2>2, <3>2
  <1>13. /\ t \in Transaction /\ t.active = old.active /\ t.seeds = old.seeds /\ t.rows = old.rows
         /\ t.round = round /\ t.queue = queue /\ t.rank = now /\ t.seen = seen
         /\ t.known = old.known \union photos /\ t.exact = exact
         /\ t.reinforced = old.reinforced /\ t.compared = old.compared
    BY <1>11 DEF Transaction
  <1>14. PICK uses \in SUBSET Use : uses = used \union old.compared
    BY <1>2 DEF Transaction
  <1>15. Explained(now, uses)
    <2>1. old.rows \in [Faces -> Scores]
      BY DEF Transaction
    <2>2. Explained(results, uses)
      BY <1>2, <1>14, ExplainedMore
    <2>3. Explained(old.rows, old.compared) /\ old.compared \subseteq uses
      BY <1>1, <1>14 DEF Lawful
    <2>4. Explained(old.rows, uses)
      BY <2>3, ExplainedMore
    <2>5. QED
      BY <1>1, <1>2, <1>4, <2>1, <2>2, <2>4, BestExplained DEF Visible
  <1>16. Explained(seen, uses)
    <2>1. Explained(old.seen, uses)
      BY <1>1, <1>14 DEF Lawful
    <2>2. \A f \in Faces : seen[f] \in {NoRow, old.seen[f], now[f]}
      BY <1>6
    <2>3. QED
      BY <1>15, <2>1, <2>2 DEF Explained
  <1>17. mode = "hybrid" =>
           /\ {u.embedding : u \in old.compared} \subseteq Near(j, round)
           /\ {position[f] : f \in queue} \subseteq Near(j, round)
    <2>1. SUFFICES ASSUME mode = "hybrid"
          PROVE  /\ {u.embedding : u \in old.compared} \subseteq Near(j, round)
                 /\ {position[f] : f \in queue} \subseteq Near(j, round)
      OBVIOUS
    <2>2. PICK done \in SUBSET Selfies : done = Selfies \ pending
      OBVIOUS
    <2>3. PICK c \in Nat : c = Rounds * Cardinality(done)
      <3>1. IsFiniteSet(done)
        BY SearchAssumption, FS_Subset
      <3>2. QED
        BY <3>1, FS_CardinalityType DEF Rounds
    <2>4. PICK r \in Nat : r = old.round /\ r + 1 <= Rounds
      BY <1>3 DEF Transaction, Rounds
    <2>5. PICK places : places = {position[s] : s \in done}
      OBVIOUS
    <2>6. PICK more : more = {position[s] : s \in done \union {j}}
      OBVIOUS
    <2>7. PICK points : points = {position[f] : f \in FacesOf(scanned)}
      OBVIOUS
    <2>8. places \subseteq more
      BY <2>5, <2>6
    <2>9. \A n \in Nat : Near(j, n) = Reach(c + n, more, points)
      BY <2>2, <2>3, <2>6, <2>7 DEF Near, Within
    <2>10. {u.embedding : u \in uses} \subseteq Near(j, r)
      <3>1. PICK n \in Nat : n = c + r /\ c <= n
        OBVIOUS
      <3>2. Reach(c, places, points) \subseteq Reach(n, more, points)
        BY <2>8, <3>1, ReachGrows
      <3>3. {u.embedding : u \in used} \subseteq Reach(c, places, points)
        BY <1>2, <2>1, <2>2, <2>3, <2>5, <2>7 DEF DriftBounded, Within
      <3>4. {u.embedding : u \in old.compared} \subseteq Near(j, r)
        BY <1>1, <1>3, <2>1, <2>4 DEF Lawful
      <3>5. QED
        BY <1>14, <2>9, <3>1, <3>2, <3>3, <3>4
    <2>11. {u.embedding : u \in old.compared} \subseteq Near(j, round)
      <3>1. PICK n \in Nat : n = c + r
        OBVIOUS
      <3>2. round \in Nat /\ r <= round
        BY <1>10, <2>4 DEF Rounds
      <3>3. PICK m \in Nat : m = c + round /\ n <= m
        BY <3>1, <3>2
      <3>4. Reach(n, more, points) \subseteq Reach(m, more, points)
        BY <3>3, ReachGrows
      <3>5. QED
        BY <1>14, <2>9, <2>10, <3>1, <3>2, <3>3, <3>4
    <2>12. ASSUME NEW f \in queue PROVE position[f] \in Near(j, round)
      <3>1. round \in Nat /\ round = r + 1
        BY <1>10, <2>4 DEF Rounds
      <3>2. PICK n \in Nat : n = c + r /\ c + round = n + 1
        BY <3>1
      <3>3. seen[f] >= ReinforcementScore /\ seen[f] # NoRow
        <4>1. ShouldReinforce(seen[f], PhotoOf[f] \in exact)
          BY <1>9
        <4>2. PICK score \in Nat : score = seen[f]
          BY <1>9 DEF Scores
        <4>3. /\ StrongScore \in 1..100 /\ ReinforcementScore \in 1..100
              /\ ReinforcementScore <= StrongScore
          BY SearchAssumption
        <4>4. score >= StrongScore \/ score >= ReinforcementScore
          BY <2>1, <4>1, <4>2 DEF ShouldReinforce
        <4>5. QED
          BY <4>2, <4>3, <4>4 DEF NoRow
      <3>4. PICK u \in uses : /\ PhotoOf[f] \in u.photos
                              /\ seen[f] = Similarity(u.embedding, position[f])
        BY <1>16, <3>3 DEF Explained
      <3>5. u.photos \subseteq scanned
        BY <1>1, <1>2, <1>14 DEF Lawful
      <3>6. position[f] \in points
        BY <2>7, <3>4, <3>5 DEF FacesOf
      <3>7. u.embedding \in Reach(n, more, points)
        BY <2>9, <2>10, <3>2
      <3>8. Similarity(u.embedding, position[f]) >= ReinforcementScore
        BY <3>3, <3>4
      <3>9. position[f] \in Reach(n + 1, more, points)
        BY <3>6, <3>7, <3>8, ReachNext
      <3>10. QED
        BY <2>9, <3>1, <3>2, <3>9
    <2>13. QED
      BY <2>11, <2>12
  <1>18. Lawful(j, t)
    <2>1. /\ Explained(old.rows, old.compared) /\ NoneBetter(old.rows, old.compared)
          /\ (\A u \in old.compared : u.photos \subseteq scanned) /\ old.exact \subseteq old.known
          /\ Cardinality(old.reinforced) <= MaxReinforcements
          /\ mode = "hybrid" => j \in pending /\ Range(old.seeds) \subseteq {position[j]}
      BY <1>1, <1>3 DEF Lawful
    <2>2. exact \subseteq old.known \union photos /\ queue \intersect old.reinforced = {}
      BY <1>8, <1>9, <2>1
    <2>3. QED
      BY <1>13, <1>14, <1>16, <1>17, <2>1, <2>2 DEF Lawful
  <1>19. QED
    BY <1>12, <1>18, TransactionStep

\* The transaction is committed (complete_face_search_job).
LEMMA CommitKeeps ==
  ASSUME IInv, NEW j \in Jobs, Commit(j)
  PROVE  IInv'
  <1>1. PICK old \in Transaction : old = job[j] /\ Lawful(j, old)
    BY InvariantParts DEF Lawful
  <1>2. /\ Settled /\ RowsInStep /\ Downloading
        /\ job \in [Jobs -> Transaction] /\ \A k \in Jobs : Lawful(k, job[k])
    BY InvariantParts
  <1>3. /\ old.active /\ results' = Visible(j) /\ used' = used \union old.compared
        /\ pending' = pending \ {j} /\ job' = [job EXCEPT ![j] = Idle]
        /\ download' = [download EXCEPT !.stable = FALSE] /\ UNCHANGED <<scene, scanned, read, matched, rebuild>>
    BY <1>1 DEF Commit, matches
  <1>4. mode' = mode /\ position' = position /\ scene \in Scenes
    BY <1>2, <1>3 DEF scene, Settled
  <1>5. /\ results \in [Faces -> Scores] /\ old.rows \in [Faces -> Scores]
        /\ used \in SUBSET Use /\ old.compared \in SUBSET Use
        /\ Explained(results, used) /\ NoneBetter(results, used)
        /\ Explained(old.rows, old.compared) /\ NoneBetter(old.rows, old.compared)
    BY <1>1, <1>2 DEF Settled, TopFacesKept, Lawful, Transaction
  <1>6. PICK best \in [Faces -> Scores] : best = Best(results, old.rows)
    BY <1>5, BestRows
  <1>7. PICK all \in SUBSET Use : all = used \union old.compared
    BY <1>5
  <1>8. results' = best /\ used' = all
    BY <1>1, <1>3, <1>6, <1>7 DEF Visible
  <1>9. Explained(best, all) /\ NoneBetter(best, all)
    <2>1. Explained(results, all) /\ Explained(old.rows, all)
      BY <1>5, <1>7, ExplainedMore
    <2>2. Explained(best, all)
      BY <1>5, <1>6, <2>1, BestExplained
    <2>3. NoneBetter(best, all)
      BY <1>4, <1>5, <1>6, <1>7, BestNoneBetter
    <2>4. QED
      BY <2>2, <2>3
  <1>10. TopFacesKept'
    <2>1. Explained(best, all)' /\ NoneBetter(best, all)'
      BY <1>4, <1>9 DEF Explained, NoneBetter
    <2>2. QED
      BY <1>8, <2>1 DEF TopFacesKept, Explained, NoneBetter
  <1>11. DriftBounded'
    <2>1. SUFFICES ASSUME mode = "hybrid"
          PROVE  {u.embedding : u \in all} \subseteq
                   Within(Rounds * Cardinality(Selfies \ pending),
                          {position[s] : s \in Selfies \ pending})'
      BY <1>4, <1>8 DEF DriftBounded
    <2>2. j \in pending /\ pending \subseteq Selfies
      BY <1>1, <1>2, <1>3, <2>1 DEF Lawful, Settled
    <2>3. PICK done \in SUBSET Selfies : done = Selfies \ pending
      OBVIOUS
    <2>4. Selfies \ pending' = done \union {j} /\ j \notin done
      BY <1>3, <2>2, <2>3
    <2>5. PICK c \in Nat : c = Cardinality(done) /\ Cardinality(done \union {j}) = c + 1
      <3>1. IsFiniteSet(done)
        BY SearchAssumption, FS_Subset
      <3>2. QED
        BY <2>4, <3>1, FS_CardinalityType, FS_AddElement
    <2>6. PICK r \in Nat : r = old.round /\ r <= Rounds
      BY DEF Transaction, Rounds
    <2>7. PICK n \in Nat : n = Rounds * c
      BY DEF Rounds
    <2>8. PICK l \in Nat : l = n + r
      OBVIOUS
    <2>9. PICK m \in Nat : m = Rounds * (c + 1) /\ n <= m /\ l <= m
      BY <2>6, <2>7, <2>8 DEF Rounds
    <2>10. PICK places : places = {position[s] : s \in done}
      OBVIOUS
    <2>11. PICK more : more = {position[s] : s \in done \union {j}}
      OBVIOUS
    <2>12. places \subseteq more
      BY <2>10, <2>11
    <2>13. Within(n, places) \subseteq Within(m, more)' /\ Within(l, more) \subseteq Within(m, more)'
      BY <1>3, <2>9, <2>12, ReachedGrows
    <2>14. {u.embedding : u \in used} \subseteq Within(n, places)
      BY <1>2, <2>1, <2>3, <2>5, <2>7, <2>10 DEF Settled, DriftBounded
    <2>15. {u.embedding : u \in old.compared} \subseteq Within(l, more)
      BY <1>1, <1>3, <2>1, <2>3, <2>5, <2>6, <2>7, <2>8, <2>11 DEF Lawful, Near
    <2>16. {u.embedding : u \in all} \subseteq Within(m, more)'
      BY <1>7, <2>13, <2>14, <2>15
    <2>17. {position[s] : s \in Selfies \ pending}' = more
      BY <1>4, <2>4, <2>11
    <2>18. (Rounds * Cardinality(Selfies \ pending))' = m
      BY <2>4, <2>5, <2>9
    <2>19. QED
      BY <2>16, <2>17, <2>18
  <1>12. Settled'
    <2>1. \A u \in used' : u.photos \subseteq scanned
      BY <1>1, <1>2, <1>3 DEF Lawful, Settled
    <2>2. QED
      BY <1>2, <1>3, <1>4, <1>8, <1>10, <1>11, <2>1 DEF Settled
  <1>13. Downloading'
    BY <1>2, <1>3 DEF Downloading, Download, DownloadInStep
  <1>14. ASSUME NEW k \in Jobs PROVE Lawful(k, job[k])'
    <2>1. PICK s \in Transaction : s = job'[k]
      BY <1>2, <1>3, IdleLawful DEF Lawful
    <2>2. Lawful(k, s) /\ (s.active => k # j)
      BY <1>2, <1>3, <2>1, IdleLawful DEF Idle
    <2>3. mode = "hybrid" /\ s.active => k \in pending'
      BY <1>3, <2>2 DEF Lawful
    <2>4. Lawful(k, s)'
      BY <1>3, <2>2, <2>3, StaysLawful
    <2>5. QED
      BY <2>1, <2>4
  <1>15. job' \in [Jobs -> Transaction]
    BY <1>2, <1>3, IdleLawful DEF Lawful
  <1>16. RowsInStep'
    BY <1>2, <1>3, RowsSame
  <1>17. QED
    BY <1>12, <1>13, <1>14, <1>15, <1>16, PartsNext

-----------------------------------------------------------------------------
(* The steps of the photo jobs and of the download.                        *)

\* The transactions do not notice a step of another kind.
LEMMA OtherStep ==
  ASSUME IInv, RowsInStep', Downloading', UNCHANGED <<scene, results, pending, used, job>>,
         scanned \subseteq scanned', scanned' \subseteq Photos, read' \subseteq Photos
  PROVE  IInv'
  <1>1. Settled /\ job \in [Jobs -> Transaction] /\ \A k \in Jobs : Lawful(k, job[k])
    BY InvariantParts
  <1>2. Settled'
    BY <1>1, StaysSettled
  <1>3. ASSUME NEW k \in Jobs PROVE Lawful(k, job[k])'
    <2>1. PICK s : s = job[k]
      OBVIOUS
    <2>2. Lawful(k, s) /\ (mode = "hybrid" /\ s.active => k \in pending')
      BY <1>1, <2>1 DEF Lawful
    <2>3. Lawful(k, s)'
      BY <2>2, StaysLawful
    <2>4. QED
      BY <2>1, <2>3
  <1>4. QED
    BY <1>1, <1>2, <1>3, PartsNext

\* The faces of a photo are stored (complete_photo_job).
LEMMA ScanKeeps ==
  ASSUME IInv, NEW p \in Photos, Scan(p)
  PROVE  IInv'
  <1>1. /\ scanned' = scanned \union {p}
        /\ UNCHANGED <<scene, read, matched, rebuild, results, pending, job, used, download>>
    BY DEF Scan, matches
  <1>2. RowsInStep /\ Downloading /\ scanned \subseteq Photos /\ read \subseteq Photos
    BY InvariantParts DEF Settled
  <1>3. RowsInStep' /\ Downloading'
    BY <1>1, <1>2, ItemsSame, RowsSame DEF Downloading, DownloadInStep
  <1>4. QED
    BY <1>1, <1>2, <1>3, OtherStep

\* The text of a photo is stored (complete_photo_job).
LEMMA ReadTextKeeps ==
  ASSUME IInv, NEW p \in Photos, ReadText(p)
  PROVE  IInv'
  <1>1. /\ p \notin read /\ read' = read \union {p}
        /\ matched' = IF ExactOf[text[p]] THEN Row(p) ELSE matched
        /\ download' = [download EXCEPT !.stable = FALSE]
        /\ UNCHANGED <<scene, scanned, rebuild, results, pending, job, used>>
    BY DEF ReadText
  <1>2. /\ RowsInStep /\ Downloading /\ scene \in Scenes
        /\ scanned \subseteq Photos /\ read \subseteq Photos
    BY InvariantParts DEF Settled
  <1>3. Downloading'
    BY <1>1, <1>2 DEF Downloading, Download, DownloadInStep
  <1>4. text' = text /\ text \in [Photos -> Texts]
    BY <1>1, <1>2, SceneTypes DEF scene
  <1>5. /\ matched' \in [Photos -> Nat]
        /\ \A q \in Photos \ {p} : matched'[q] = matched[q]
        /\ ExactOf[text[p]] => matched'[p] # NoRow
        /\ ~ExactOf[text[p]] => matched'[p] = matched[p]
    BY <1>1, <1>2, RowMade DEF RowsInStep
  <1>6. ASSUME NEW q \in Photos, rebuild.step = "none" PROVE q \in Matched' <=> ExactBib(q)'
    <2>1. q \in Matched <=> ExactBib(q)
      BY <1>2, <1>6 DEF RowsInStep, RowsFollowText
    <2>2. CASE q = p
      BY <1>1, <1>4, <1>5, <2>1, <2>2 DEF Matched, ExactBib
    <2>3. CASE q # p
      BY <1>1, <1>4, <1>5, <2>1, <2>3 DEF Matched, ExactBib
    <2>4. QED
      BY <2>2, <2>3
  <1>7. ASSUME NEW q \in Photos, rebuild.step = "filling", q \in read', TokenOf[text[q]]
        PROVE  q \in Matched' \/ q \in rebuild.photos
    <2>1. CASE q = p
      <3>1. ExactOf[text[p]]
        BY <1>4, <1>7, <2>1, TokenIsExact
      <3>2. QED
        BY <1>5, <2>1, <3>1 DEF Matched
    <2>2. CASE q # p
      BY <1>1, <1>2, <1>5, <1>7, <2>2 DEF RowsInStep, RowsFollowText, Matched
    <2>3. QED
      BY <2>1, <2>2
  <1>8. RowsInStep'
    BY <1>1, <1>2, <1>4, <1>5, <1>6, <1>7 DEF RowsInStep, RowsFollowText
  <1>9. QED
    BY <1>1, <1>2, <1>3, <1>8, OtherStep

\* A rebuild clears the rows and makes them again (rebuild_event_photo_matches).
LEMMA RebuildKeeps ==
  ASSUME IInv,
         RebuildRead \/ RebuildClear \/ RebuildList \/ \E p \in Photos : RebuildPhoto(p)
  PROVE  IInv'
  <1>1. UNCHANGED <<scene, scanned, read, results, pending, job, used>>
    BY DEF RebuildRead, RebuildClear, RebuildList, RebuildPhoto
  <1>2. /\ RowsInStep /\ Downloading /\ scanned \subseteq Photos /\ read \subseteq Photos
        /\ matched \in [Photos -> Nat] /\ text' = text
    BY <1>1, InvariantParts DEF Settled, RowsInStep, scene
  <1>3. CASE RebuildRead
    <2>1. /\ rebuild' = [step |-> "read", photos |-> Matched]
          /\ UNCHANGED <<matched, download>>
      BY <1>3 DEF RebuildRead, Rebuilding
    <2>2. RowsInStep'
      BY <1>1, <1>2, <2>1 DEF RowsInStep, RowsFollowText, Matched
    <2>3. Downloading'
      BY <1>1, <1>2, <2>1, ItemsSame DEF Downloading, DownloadInStep
    <2>4. QED
      BY <1>1, <1>2, <2>2, <2>3, OtherStep
  <1>4. CASE RebuildClear
    <2>1. /\ matched' = [p \in Photos |-> IF p \in rebuild.photos THEN NoRow ELSE matched[p]]
          /\ rebuild' = [step |-> "cleared", photos |-> {}]
          /\ download' = [download EXCEPT !.stable = FALSE]
      BY <1>4 DEF RebuildClear, Rebuilding
    <2>2. RowsInStep'
      BY <1>2, <2>1 DEF RowsInStep, RowsFollowText, NoRow
    <2>3. Downloading'
      BY <1>2, <2>1 DEF Downloading, Download, DownloadInStep
    <2>4. QED
      BY <1>1, <1>2, <2>2, <2>3, OtherStep
  <1>5. CASE RebuildList
    <2>1. /\ rebuild' = [step |-> "filling", photos |-> {p \in read : TokenOf[text[p]]}]
          /\ UNCHANGED <<matched, download>>
      BY <1>5 DEF RebuildList, Rebuilding
    <2>2. {p \in read : TokenOf[text[p]]} \subseteq Photos
      BY <1>2
    <2>3. RowsInStep'
      BY <1>1, <1>2, <2>1, <2>2 DEF RowsInStep, RowsFollowText
    <2>4. Downloading'
      BY <1>1, <1>2, <2>1, ItemsSame DEF Downloading, DownloadInStep
    <2>5. QED
      BY <1>1, <1>2, <2>3, <2>4, OtherStep
  <1>6. ASSUME NEW p \in Photos, RebuildPhoto(p) PROVE IInv'
    <2>1. /\ rebuild.step = "filling"
          /\ matched' = IF p \in Matched THEN matched ELSE Row(p)
          /\ rebuild' = [step |-> "filling", photos |-> rebuild.photos \ {p}]
          /\ download' = [download EXCEPT !.stable = FALSE]
      BY <1>6 DEF RebuildPhoto, Rebuilding
    <2>2. /\ matched' \in [Photos -> Nat] /\ matched'[p] # NoRow
          /\ \A q \in Photos \ {p} : matched'[q] = matched[q]
      BY <1>2, <2>1, RowMade DEF Matched
    <2>3. ASSUME NEW q \in Photos, q \in read, TokenOf[text[q]]
          PROVE  q \in Matched' \/ q \in rebuild.photos \ {p}
      <3>1. q \in Matched \/ q \in rebuild.photos
        BY <1>2, <2>1, <2>3 DEF RowsInStep, RowsFollowText
      <3>2. QED
        BY <2>2, <3>1 DEF Matched
    <2>4. RowsInStep'
      <3>1. rebuild.photos \ {p} \subseteq Photos
        BY <1>2 DEF RowsInStep
      <3>2. QED
        BY <1>1, <1>2, <2>1, <2>2, <2>3, <3>1 DEF RowsInStep, RowsFollowText
    <2>5. Downloading'
      BY <1>2, <2>1 DEF Downloading, Download, DownloadInStep
    <2>6. QED
      BY <1>1, <1>2, <2>4, <2>5, OtherStep
  <1>7. QED
    BY <1>3, <1>4, <1>5, <1>6

\* A page follows the pages before it.
LEMMA PageFollows ==
  ASSUME results \in [Faces -> Scores], NEW offset \in Nat
  PROVE  /\ Items \in Seq(Photos) /\ Len(Items) \in Nat /\ PageAt(offset) \in Seq(Photos)
         /\ PageAt(offset) = <<>> => FirstOf(offset, Items) = Items
         /\ PageAt(offset) # <<>> =>
              /\ FirstOf(offset, Items) \o PageAt(offset) = FirstOf(offset + PageSize, Items)
              /\ offset + PageSize \in Nat \ {0}
  <1>1. PICK items \in Seq(Photos) : items = Items
    BY ItemsListed
  <1>2. PICK n \in Nat : n = Len(items) /\ items \in [1..n -> Photos]
    BY LenProperties
  <1>3. PICK size \in Nat \ {0} : size = PageSize
    BY SearchAssumption
  <1>4. PICK last \in 0..n : last = IF offset + size < n THEN offset + size ELSE n
    OBVIOUS
  <1>5. PICK page : page = PageAt(offset)
    OBVIOUS
  <1>6. page = SubSeq(items, offset + 1, last)
    BY <1>1, <1>2, <1>3, <1>4, <1>5 DEF PageAt
  <1>7. CASE offset >= n
    <2>1. PICK start \in Int, end \in Int : start = offset + 1 /\ end = last /\ end < start
      BY <1>4, <1>7
    <2>2. page = <<>>
      BY <1>6, <2>1, SubSeqEmpty
    <2>3. FirstOf(offset, items) = items
      BY <1>2, <1>7, FirstOfSeq
    <2>4. page \in Seq(Photos)
      BY <2>2, EmptySeq
    <2>5. QED
      BY <1>1, <1>2, <1>5, <2>2, <2>3, <2>4
  <1>8. CASE offset < n
    <2>1. PICK start \in Int : start = offset + 1 /\ start <= last
      BY <1>3, <1>4, <1>8
    <2>2. PICK end \in Int : end = last
      BY <1>4
    <2>3. \A i \in start..end : items[i] \in Photos
      <3>1. last <= n
        OBVIOUS
      <3>2. \A i \in start..end : i \in 1..n
        BY <1>2, <2>1, <2>2, <3>1
      <3>3. QED
        BY <1>2, <3>2
    <2>4. page \in Seq(Photos) /\ Len(page) = end - start + 1
      BY <1>6, <2>1, <2>2, <2>3, SubSeqProperties
    <2>5. page # <<>>
      BY <2>1, <2>2, <2>4
    <2>6. FirstOf(offset, items) = SubSeq(items, 1, offset)
      BY <1>2, <1>8 DEF FirstOf
    <2>7. PICK later \in Nat : later = offset + size
      BY <1>3
    <2>8. FirstOf(later, items) = SubSeq(items, 1, last)
      BY <1>2, <1>4, <2>7 DEF FirstOf
    <2>9. SubSeq(items, 1, offset) \o SubSeq(items, offset + 1, last) = SubSeq(items, 1, last)
      <3>1. PICK one \in 1..(Len(items) + 1) : one = 1
        BY <1>2
      <3>2. PICK k \in (one - 1)..Len(items) : k = offset
        BY <1>2, <1>8, <3>1
      <3>3. PICK l \in k..Len(items) : l = last
        BY <1>2, <2>1, <3>2
      <3>4. SubSeq(items, one, k) \o SubSeq(items, k + 1, l) = SubSeq(items, one, l)
        BY ConcatAdjacentSubSeq
      <3>5. QED
        BY <3>1, <3>2, <3>3, <3>4
    <2>10. later # 0
      BY <1>3, <2>7
    <2>11. QED
      BY <1>1, <1>2, <1>3, <1>5, <1>6, <2>4, <2>5, <2>6, <2>7, <2>8, <2>9, <2>10
  <1>9. QED
    BY <1>2, <1>7, <1>8

\* The browser reads the next page (list_face_search_photos).
LEMMA ReadPageKeeps ==
  ASSUME IInv, ReadPage
  PROVE  IInv'
  <1>1. /\ RowsInStep /\ Downloading /\ scanned \subseteq Photos /\ read \subseteq Photos
        /\ results \in [Faces -> Scores]
    BY InvariantParts DEF Settled
  <1>2. PICK now \in Download : now = download
    BY <1>1 DEF Downloading
  <1>3. PICK offset \in Nat : offset = now.offset
    BY DEF Download
  <1>4. PICK page : page = PageAt(offset)
    OBVIOUS
  <1>5. /\ now.step = "reading"
        /\ UNCHANGED <<scene, scanned, read, matched, rebuild, results, pending, job, used>>
        /\ download' = IF page = <<>> THEN [now EXCEPT !.step = "done"]
                       ELSE [now EXCEPT !.photos = @ \o page, !.total = Len(Items),
                                        !.offset = NextOffset(@)]
    BY <1>2, <1>3, <1>4 DEF ReadPage, matches
  <1>6. Items' = Items /\ RowsInStep'
    BY <1>1, <1>5, ItemsSame, RowsSame
  <1>7. PICK items \in Seq(Photos) :
          /\ items = Items /\ Len(items) \in Nat /\ page \in Seq(Photos)
          /\ page = <<>> => FirstOf(offset, items) = items
          /\ page # <<>> =>
               /\ FirstOf(offset, items) \o page = FirstOf(offset + PageSize, items)
               /\ offset + PageSize \in Nat \ {0}
    BY <1>1, <1>4, PageFollows
  <1>8. now.stable => now.photos = FirstOf(offset, items)
    BY <1>1, <1>2, <1>3, <1>5, <1>7 DEF Downloading, DownloadInStep
  <1>9. CASE page = <<>>
    <2>1. PICK next : next = [now EXCEPT !.step = "done"]
      OBVIOUS
    <2>2. /\ next \in Download /\ next.step = "done" /\ next.stable = now.stable
          /\ next.photos = now.photos
      BY <2>1 DEF Download
    <2>3. download' = next
      BY <1>5, <1>9, <2>1
    <2>4. Downloading'
      BY <1>6, <1>7, <1>8, <1>9, <2>2, <2>3 DEF Downloading, DownloadInStep
    <2>5. QED
      BY <1>1, <1>5, <1>6, <2>4, OtherStep
  <1>10. CASE page # <<>>
    <2>1. PICK further \in Nat : further = offset + PageSize /\ further # 0
      BY <1>7, <1>10
    <2>2. PICK all \in Seq(Photos) : all = now.photos \o page
      <3>1. now.photos \in Seq(Photos)
        BY DEF Download
      <3>2. QED
        BY <1>7, <3>1, ConcatProperties
    <2>3. PICK next : next = [now EXCEPT !.photos = all, !.total = Len(items), !.offset = further]
      OBVIOUS
    <2>4. /\ next \in Download /\ next.step = "reading" /\ next.stable = now.stable
          /\ next.photos = all /\ next.total = Len(items) /\ next.offset = further
      BY <1>5, <1>7, <2>3 DEF Download
    <2>5. download' = next
      BY <1>3, <1>5, <1>7, <1>10, <2>1, <2>2, <2>3 DEF NextOffset
    <2>6. now.stable => all = FirstOf(further, items)
      BY <1>7, <1>8, <1>10, <2>1, <2>2
    <2>7. Downloading'
      BY <1>6, <1>7, <2>1, <2>4, <2>5, <2>6 DEF Downloading, DownloadInStep
    <2>8. QED
      BY <1>1, <1>5, <1>6, <2>7, OtherStep
  <1>11. QED
    BY <1>9, <1>10

\* The download begins and ends (user_download_all_photos).
LEMMA DownloadKeeps ==
  ASSUME IInv, BeginDownload \/ EndDownload
  PROVE  IInv'
  <1>1. /\ RowsInStep /\ Downloading /\ scanned \subseteq Photos /\ read \subseteq Photos
        /\ results \in [Faces -> Scores] /\ download \in Download
    BY InvariantParts DEF Settled, Downloading
  <1>2. UNCHANGED <<scene, scanned, read, matched, rebuild, results, pending, job, used>>
    BY DEF BeginDownload, EndDownload, matches
  <1>3. Items' = Items /\ RowsInStep'
    BY <1>1, <1>2, ItemsSame, RowsSame
  <1>4. PICK items \in Seq(Photos) : items = Items
    BY <1>1, ItemsListed
  <1>5. CASE BeginDownload
    <2>1. PICK next : next = [NoDownload EXCEPT !.step = "reading"]
      OBVIOUS
    <2>2. NoDownload \in Download
      BY EmptySeq DEF NoDownload, Download
    <2>3. /\ next \in Download /\ next.step = "reading" /\ next.offset = 0 /\ next.total = 1
          /\ next.photos = <<>>
      BY <2>1, <2>2 DEF NoDownload, Download
    <2>4. download' = next
      BY <1>5, <2>1 DEF BeginDownload
    <2>5. FirstOf(0, items) = <<>>
      <3>1. PICK zero \in Nat : zero = 0
        OBVIOUS
      <3>2. FirstOf(zero, items) \in Seq(Photos) /\ Len(FirstOf(zero, items)) = 0
        BY <3>1, FirstOfSeq, LenProperties
      <3>3. QED
        BY <3>1, <3>2, EmptySeq
    <2>6. Downloading'
      BY <1>3, <1>4, <2>3, <2>4, <2>5 DEF Downloading, DownloadInStep
    <2>7. QED
      BY <1>1, <1>2, <1>3, <2>6, OtherStep
  <1>6. CASE EndDownload
    <2>1. PICK now \in Download : now = download /\ now.step = "reading" /\ now.offset >= now.total
      BY <1>1, <1>6 DEF EndDownload
    <2>2. PICK offset \in Nat : offset = now.offset
      BY DEF Download
    <2>3. now.stable => /\ now.photos = FirstOf(offset, items)
                        /\ now.total = IF offset = 0 THEN 1 ELSE Len(items)
      BY <1>1, <1>4, <2>1, <2>2 DEF Downloading, DownloadInStep
    <2>4. now.stable => now.photos = items
      <3>1. now.stable => offset >= Len(items)
        BY <2>1, <2>2, <2>3
      <3>2. QED
        BY <2>3, <3>1, FirstOfSeq
    <2>5. PICK next : next = [now EXCEPT !.step = "done"]
      OBVIOUS
    <2>6. /\ next \in Download /\ next.step = "done" /\ next.stable = now.stable
          /\ next.photos = now.photos
      BY <2>5 DEF Download
    <2>7. download' = next
      BY <1>6, <2>1, <2>5 DEF EndDownload
    <2>8. Downloading'
      BY <1>3, <1>4, <2>4, <2>6, <2>7 DEF Downloading, DownloadInStep
    <2>9. QED
      BY <1>1, <1>2, <1>3, <2>8, OtherStep
  <1>7. QED
    BY <1>5, <1>6

-----------------------------------------------------------------------------
(* The theorems.                                                           *)

\* A search begins with the invariant.
LEMMA InitKeeps ==
  ASSUME Init
  PROVE  IInv
  <1>1. scene \in Scenes
    <2>1. PICK s \in Scenes : mode = s[1] /\ position = s[2] /\ text = s[3]
      BY DEF Init
    <2>2. s = <<s[1], s[2], s[3]>>
      BY SearchAssumption
    <2>3. QED
      BY <2>1, <2>2 DEF scene
  <1>2. scanned \subseteq Photos
    BY DEF Init
  <1>3. read \subseteq Photos
    BY DEF Init
  <1>4. /\ results = NoRows /\ used = {} /\ download = NoDownload
        /\ job = [j \in Jobs |-> Idle]
        /\ pending = IF mode = "hybrid" THEN Selfies ELSE {BibSearch}
    BY DEF Init
  <1>5. NoRows \in [Faces -> Scores] /\ \A f \in Faces : NoRows[f] = NoRow
    BY DEF NoRows, NoRow, Scores
  <1>6. pending \subseteq Jobs /\ (mode = "hybrid" => pending \subseteq Selfies)
    BY <1>4 DEF Jobs
  <1>7. TopFacesKept
    BY <1>4, <1>5 DEF TopFacesKept, Explained, NoneBetter
  <1>8. DriftBounded
    BY <1>4 DEF DriftBounded
  <1>9. Settled
    BY <1>1, <1>2, <1>3, <1>4, <1>5, <1>6, <1>7, <1>8 DEF Settled
  <1>10. Downloading
    BY <1>4, EmptySeq DEF Downloading, DownloadInStep, NoDownload, Download
  <1>11. job \in [Jobs -> Transaction] /\ \A j \in Jobs : Lawful(j, job[j])
    <2>1. ASSUME NEW j \in Jobs PROVE job[j] = Idle /\ Lawful(j, Idle) /\ Idle \in Transaction
      BY <1>4, IdleLawful DEF Lawful
    <2>2. QED
      BY <1>4, <2>1
  <1>12. RowsInStep
    <2>1. \A p \in Photos : CreatedAt[p] + 1 \in Nat /\ CreatedAt[p] + 1 # NoRow
      BY SearchAssumption DEF NoRow
    <2>2. /\ matched = [p \in Photos |-> IF ExactBib(p) THEN CreatedAt[p] + 1 ELSE NoRow]
          /\ rebuild = [step |-> "none", photos |-> {}]
      BY DEF Init
    <2>3. \A p \in Photos : p \in Matched <=> ExactBib(p)
      BY <2>1, <2>2 DEF Matched
    <2>4. matched \in [Photos -> Nat]
      BY <2>1, <2>2 DEF NoRow
    <2>5. QED
      BY <2>2, <2>3, <2>4 DEF RowsInStep, RowsFollowText
  <1>13. QED
    BY <1>9, <1>10, <1>11, <1>12, InvariantParts

\* Every step keeps the invariant.
LEMMA NextKeeps ==
  ASSUME IInv, [Next]_vars
  PROVE  IInv'
  <1>1. ASSUME NEW s \in Selfies, BeginSelfie(s) PROVE IInv'
    BY <1>1, BeginSelfieKeeps
  <1>2. CASE BeginBibOnly
    BY <1>2, BeginBibOnlyKeeps
  <1>3. ASSUME NEW j \in Jobs, CompareSeed(j) PROVE IInv'
    BY <1>3, CompareSeedKeeps
  <1>4. ASSUME NEW j \in Jobs, LoadRound(j) PROVE IInv'
    BY <1>4, LoadRoundKeeps
  <1>5. ASSUME NEW j \in Jobs, Reinforce(j) PROVE IInv'
    BY <1>5, ReinforceKeeps
  <1>6. ASSUME NEW j \in Jobs, Commit(j) PROVE IInv'
    BY <1>6, CommitKeeps
  <1>7. ASSUME NEW j \in Jobs, RollBack(j) PROVE IInv'
    BY <1>7, RollBackKeeps
  <1>8. CASE BeginDownload \/ EndDownload
    BY <1>8, DownloadKeeps
  <1>9. CASE ReadPage
    BY <1>9, ReadPageKeeps
  <1>10. ASSUME NEW p \in Photos, Scan(p) PROVE IInv'
    BY <1>10, ScanKeeps
  <1>11. ASSUME NEW p \in Photos, ReadText(p) PROVE IInv'
    BY <1>11, ReadTextKeeps
  <1>12. ASSUME RebuildRead \/ RebuildClear \/ RebuildList \/ \E p \in Photos : RebuildPhoto(p)
         PROVE  IInv'
    BY <1>12, RebuildKeeps
  <1>13. CASE UNCHANGED vars
    <2>1. /\ UNCHANGED <<scene, scanned, read, matched, rebuild, results, pending, job, used, download>>
          /\ RowsInStep /\ Downloading /\ scanned \subseteq Photos /\ read \subseteq Photos
      BY <1>13, InvariantParts DEF vars, scene, Settled
    <2>2. RowsInStep' /\ Downloading'
      BY <2>1, ItemsSame, RowsSame DEF Downloading, DownloadInStep
    <2>3. QED
      BY <2>1, <2>2, OtherStep
  <1>14. QED
    BY <1>1, <1>2, <1>3, <1>4, <1>5, <1>6, <1>7, <1>8, <1>9, <1>10, <1>11, <1>12, <1>13 DEF Next

\* The inductive invariant of the search: every transaction explains its rows by
\* its comparisons, they stay near, and a download is a prefix of the items
\* (create_face_search_results, apply_adaptive_reinforcement,
\* user_download_all_photos).
THEOREM Invariance == Spec => []IInv
  <1>1. Init => IInv
    BY InitKeeps
  <1>2. IInv /\ [Next]_vars => IInv'
    BY NextKeeps
  <1>3. QED
    BY <1>1, <1>2, PTL DEF Spec

\* The types, and what a transaction may have reinforced and may know: no
\* embedding is reinforced twice, nor more of them than the limit of
\* apply_adaptive_reinforcement.
THEOREM TypeCorrect == Spec => []TypeOK
  <1>1. IInv => TypeOK
    BY DEF IInv
  <1>2. QED
    BY <1>1, Invariance, PTL

\* The bounded heap of create_face_search_results and the upserts of the better
\* score keep the best faces, in whatever order the rows stream and however
\* the transactions of several selfies overlap or roll back.
THEOREM BestFacesKept == Spec => []TopFacesKept
  <1>1. IInv => TopFacesKept
    BY DEF IInv
  <1>2. QED
    BY <1>1, Invariance, PTL

\* apply_adaptive_reinforcement goes at most two similar faces further for
\* every selfie that is completed.
THEOREM DriftIsBounded == Spec => []DriftBounded
  <1>1. IInv => DriftBounded
    BY DEF IInv
  <1>2. QED
    BY <1>1, Invariance, PTL

\* select_bib_only_seed_embeddings takes the seeds from one connected group of
\* faces on the majority of the photos, or from the only face.
THEOREM SeedsFromMajority == Spec => []SeedsHaveMajority
  <1>1. IInv => SeedsHaveMajority
    BY SeedsMajority DEF IInv, TypeOK
  <1>2. QED
    BY <1>1, Invariance, PTL

\* user_download_all_photos reads every item of list_face_search_photo_items once,
\* the best first, while nothing is committed between its pages: photos with a
\* scored face and photos with a row of photo_participant_matches, which OCR
\* completions make for more texts than rebuilds do.
THEOREM ArchiveIsFaithful == Spec => []ArchiveFaithful
  <1>1. IInv => ArchiveFaithful
    BY WholeArchive DEF IInv, TypeOK, RowsInStep, DownloadInStep
  <1>2. QED
    BY <1>1, Invariance, PTL

\* score_bib_evidence and has_exact_bib_match agree on what shows the bib.
THEOREM EvidenceAlwaysAgrees == Spec => []EvidenceAgrees
  <1>1. IInv => EvidenceAgrees
    BY EvidenceAgreed DEF IInv, TypeOK
  <1>2. QED
    BY <1>1, Invariance, PTL
=============================================================================
