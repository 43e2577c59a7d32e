--------------------------- MODULE AdmissionProofs ---------------------------
(***************************************************************************)
(* Theorems about Admission, for any requests, processes, visitors, limits *)
(* and sizes.                                                              *)
(***************************************************************************)
EXTENDS Admission, FiniteSetTheorems, SequenceTheorems, WellFoundedInduction, TLAPS

-----------------------------------------------------------------------------
(* Numbers and sums.                                                       *)

\* A window that starts at or before a time includes it.
LEMMA WindowBounds ==
  ASSUME NEW t \in Nat, NEW w \in Nat \ {0}
  PROVE  WindowOf(t, w) \in 0..t /\ t < WindowOf(t, w) + w
  BY DEF WindowOf

\* Among subsets of a finite set some contain no other.
LEMMA LeastSubset ==
  ASSUME NEW S, IsFiniteSet(S), NEW T, T \subseteq SUBSET S, T # {}
  PROVE  \E s \in T : \A t \in T : t \subseteq s => t = s
  <1>1. T \subseteq FiniteSubsetsOf(S)
    BY FS_Subset DEF FiniteSubsetsOf
  <1>2. PICK s \in T : \A t \in T : <<t, s>> \notin StrictSubsetOrdering(S)
    BY <1>1, FS_StrictSubsetOrderingWellFounded, WFMin
  <1>3. QED
    BY <1>2 DEF StrictSubsetOrdering

\* A set of numbers has a least one.
LEMMA LeastNumber ==
  ASSUME NEW T, T \subseteq Nat, T # {}
  PROVE  \E n \in T : \A m \in T : n <= m
  <1>1. PICK n \in T : TRUE
    OBVIOUS
  <1> DEFINE below == {m \in T : m <= n}
             prefixes == {u \in SUBSET (0..n) : \E m \in below : u = 0..m}
  <1>2. IsFiniteSet(0..n)
    BY FS_Interval
  <1>3. 0..n \in prefixes /\ prefixes \subseteq SUBSET (0..n)
    OBVIOUS
  <1>4. \E s \in prefixes : \A t \in prefixes : t \subseteq s => t = s
    <2> DEFINE whole == 0..n
    <2>1. IsFiniteSet(whole) /\ prefixes \subseteq SUBSET whole /\ prefixes # {}
      BY <1>2, <1>3
    <2> HIDE DEF whole, prefixes
    <2>2. QED
      BY <2>1, LeastSubset
  <1>5. PICK s \in prefixes : \A t \in prefixes : t \subseteq s => t = s
    BY <1>4
  <1>6. PICK l \in below : s = 0..l
    OBVIOUS
  <1>7. ASSUME NEW m \in T, m < l PROVE FALSE
    <2>1. 0..m \in prefixes /\ 0..m \subseteq s
      BY <1>6, <1>7
    <2>2. 0..m = 0..l
      BY <2>1, <1>5, <1>6
    <2>3. l \in 0..m
      BY <2>2, <1>6
    <2>4. QED
      BY <2>3, <1>7
  <1>8. QED
    BY <1>6, <1>7

\* The sum over the empty set.
LEMMA SumEmpty ==
  ASSUME NEW f
  PROVE  Sum(f, {}) = 0
  BY DEF Sum, FoldSet, MapThenFoldSet

\* The step of the recursion behind a sum: over s, from the sums g over less.
Chosen(s) == CHOOSE x \in s : TRUE
SumStep(f, g, s) == IF s = {} THEN 0 ELSE f[Chosen(s)] + g[s \ {Chosen(s)}]
Solves(g, f, S) == g = [s \in SUBSET S |-> SumStep(f, g, s)]

\* The recursion has a solution over the subsets of a finite set.
LEMMA SumsExist ==
  ASSUME NEW f, NEW S, IsFiniteSet(S)
  PROVE  \E g : Solves(g, f, S)
  <1> DEFINE upTo(n) == {s \in SUBSET S : Cardinality(s) <= n}
             solves(g, n) == g = [s \in upTo(n) |-> SumStep(f, g, s)]
             bad == {n \in Nat : ~ \E g : solves(g, n)}
  <1>1. \A s \in SUBSET S : IsFiniteSet(s) /\ Cardinality(s) \in Nat
    BY FS_Subset, FS_CardinalityType
  <1>2. 0 \notin bad
    <2> DEFINE g == [s \in upTo(0) |-> 0]
    <2>1. \A s \in upTo(0) : s = {}
      BY <1>1, FS_EmptySet
    <2>2. solves(g, 0)
      BY <2>1 DEF SumStep
    <2>3. QED
      BY <2>2
  <1>3. ASSUME NEW n \in Nat, n \notin bad PROVE n + 1 \notin bad
    <2>1. PICK g : solves(g, n)
      BY <1>3
    <2> DEFINE h == [s \in upTo(n + 1) |-> IF s \in upTo(n) THEN g[s] ELSE SumStep(f, g, s)]
    <2>2. ASSUME NEW s \in upTo(n + 1), s # {}
          PROVE  s \ {Chosen(s)} \in upTo(n)
      <3>1. Chosen(s) \in s
        BY <2>2 DEF Chosen
      <3>2. Cardinality(s \ {Chosen(s)}) = Cardinality(s) - 1
        BY <1>1, <3>1, FS_RemoveElement
      <3>3. QED
        BY <1>1, <3>2
    <2>3. \A s \in upTo(n) : s \in upTo(n + 1)
      BY <1>1
    <2>4. ASSUME NEW s \in upTo(n + 1) PROVE h[s] = SumStep(f, h, s)
      <3>1. s # {} => h[s \ {Chosen(s)}] = g[s \ {Chosen(s)}]
        BY <2>2, <2>3
      <3>2. SumStep(f, h, s) = SumStep(f, g, s)
        BY <3>1 DEF SumStep
      <3>3. CASE s \in upTo(n)
        BY <2>1, <3>2, <3>3
      <3>4. CASE s \notin upTo(n)
        BY <3>2, <3>4
      <3>5. QED
        BY <3>3, <3>4
    <2>5. h = [s \in upTo(n + 1) |-> SumStep(f, h, s)]
      BY <2>4
    <2>6. QED
      BY <2>5
  <1>4. bad = {}
    <2>1. SUFFICES ASSUME bad # {} PROVE FALSE
      OBVIOUS
    <2>0. bad \subseteq Nat
      OBVIOUS
    <2> HIDE DEF bad
    <2>2. PICK n \in bad : \A m \in bad : n <= m
      BY <2>0, <2>1, LeastNumber
    <2>3. n \in Nat \ {0} /\ n - 1 \in Nat /\ n - 1 \notin bad
      BY <1>2, <2>0, <2>2
    <2>4. QED
      BY <1>3, <2>2, <2>3, n - 1 + 1 = n
  <1>5. Cardinality(S) \in Nat /\ upTo(Cardinality(S)) = SUBSET S
    BY FS_Subset, FS_CardinalityType
  <1>6. \E g : solves(g, Cardinality(S))
    BY <1>4, <1>5
  <1>7. QED
    BY <1>5, <1>6 DEF Solves

\* A sum is what a solution says of the whole set.
LEMMA SumSolves ==
  ASSUME NEW f, NEW S, IsFiniteSet(S)
  PROVE  \E g : Solves(g, f, S) /\ Sum(f, S) = g[S]
  <1> DEFINE iter ==
               CHOOSE iter :
                 iter = [s \in SUBSET S |->
                           IF s = {} THEN 0
                           ELSE f[CHOOSE x \in s : TRUE] + iter[s \ {CHOOSE x \in s : TRUE}]]
  <1>1. Sum(f, S) = iter[S]
    BY DEF Sum, FoldSet, MapThenFoldSet
  <1>2. \E g : g = [s \in SUBSET S |->
                      IF s = {} THEN 0
                      ELSE f[CHOOSE x \in s : TRUE] + g[s \ {CHOOSE x \in s : TRUE}]]
    <2>1. PICK g : Solves(g, f, S)
      BY SumsExist
    <2>2. g = [s \in SUBSET S |->
                 IF s = {} THEN 0
                 ELSE f[CHOOSE x \in s : TRUE] + g[s \ {CHOOSE x \in s : TRUE}]]
      BY <2>1 DEF Solves, SumStep, Chosen
    <2>3. QED
      BY <2>2
  <1>3. iter = [s \in SUBSET S |->
                  IF s = {} THEN 0
                  ELSE f[CHOOSE x \in s : TRUE] + iter[s \ {CHOOSE x \in s : TRUE}]]
    BY <1>2
  <1>4. Solves(iter, f, S)
    BY <1>3 DEF Solves, SumStep, Chosen
  <1>5. QED
    BY <1>1, <1>4

\* Solutions agree.
LEMMA SumsAgree ==
  ASSUME NEW f, NEW S, IsFiniteSet(S), NEW R \in SUBSET S,
         NEW g, Solves(g, f, S), NEW h, Solves(h, f, R)
  PROVE  g[R] = h[R]
  <1> DEFINE bad == {s \in SUBSET R : g[s] # h[s]}
  <1>1. SUFFICES ASSUME bad # {} PROVE FALSE
    OBVIOUS
  <1>2. IsFiniteSet(R)
    BY FS_Subset
  <1>3. PICK s \in bad : \A t \in bad : t \subseteq s => t = s
    <2>1. bad \subseteq SUBSET R
      OBVIOUS
    <2> HIDE DEF bad
    <2>2. QED
      BY <1>1, <1>2, <2>1, LeastSubset
  <1>4. g[s] = SumStep(f, g, s) /\ h[s] = SumStep(f, h, s)
    <2>1. s \in SUBSET S /\ s \in SUBSET R
      OBVIOUS
    <2>2. QED
      BY <2>1 DEF Solves
  <1>5. s # {}
    BY <1>4 DEF SumStep
  <1>6. Chosen(s) \in s
    BY <1>5 DEF Chosen
  <1>7. s \ {Chosen(s)} \notin bad
    BY <1>3, <1>6
  <1>8. g[s \ {Chosen(s)}] = h[s \ {Chosen(s)}]
    BY <1>7
  <1>9. QED
    BY <1>4, <1>5, <1>8 DEF SumStep

\* The first element goes, the sum of the rest remains.
LEMMA SumChosen ==
  ASSUME NEW f, NEW S, IsFiniteSet(S), S # {}
  PROVE  /\ Chosen(S) \in S
         /\ Sum(f, S) = f[Chosen(S)] + Sum(f, S \ {Chosen(S)})
  <1> DEFINE R == S \ {Chosen(S)}
  <1>1. Chosen(S) \in S
    BY DEF Chosen
  <1>2. IsFiniteSet(R) /\ R \in SUBSET S
    BY FS_Subset
  <1>3. PICK g : Solves(g, f, S) /\ Sum(f, S) = g[S]
    BY SumSolves
  <1>4. PICK h : Solves(h, f, R) /\ Sum(f, R) = h[R]
    BY <1>2, SumSolves
  <1>5. g[R] = h[R]
    <2> HIDE DEF R
    <2>1. QED
      BY <1>2, <1>3, <1>4, SumsAgree
  <1>6. S \in SUBSET S
    OBVIOUS
  <1>7. g[S] = f[Chosen(S)] + g[R]
    BY <1>3, <1>6 DEF Solves, SumStep
  <1>8. QED
    BY <1>1, <1>3, <1>4, <1>5, <1>7

\* Sums of numbers are numbers.
LEMMA SumNat ==
  ASSUME NEW f, NEW S, IsFiniteSet(S), \A x \in S : f[x] \in Nat
  PROVE  Sum(f, S) \in Nat
  <1> DEFINE bad == {s \in SUBSET S : Sum(f, s) \notin Nat}
  <1>1. SUFFICES ASSUME bad # {} PROVE FALSE
    OBVIOUS
  <1>2. PICK s \in bad : \A t \in bad : t \subseteq s => t = s
    <2>1. bad \subseteq SUBSET S
      OBVIOUS
    <2> HIDE DEF bad
    <2>2. QED
      BY <1>1, <2>1, LeastSubset
  <1>3. s \in SUBSET S /\ IsFiniteSet(s) /\ Sum(f, s) \notin Nat
    BY FS_Subset
  <1>4. s # {}
    BY <1>3, SumEmpty
  <1>5. Chosen(s) \in s /\ Sum(f, s) = f[Chosen(s)] + Sum(f, s \ {Chosen(s)})
    BY <1>3, <1>4, SumChosen
  <1>6. s \ {Chosen(s)} \notin bad
    BY <1>2, <1>5
  <1>7. QED
    BY <1>3, <1>5, <1>6

\* The sum of nothing but zeros.
LEMMA SumZero ==
  ASSUME NEW f, NEW S, IsFiniteSet(S), \A x \in S : f[x] = 0
  PROVE  Sum(f, S) = 0
  <1> DEFINE bad == {s \in SUBSET S : Sum(f, s) # 0}
  <1>1. SUFFICES ASSUME bad # {} PROVE FALSE
    OBVIOUS
  <1>2. PICK s \in bad : \A t \in bad : t \subseteq s => t = s
    <2>1. bad \subseteq SUBSET S
      OBVIOUS
    <2> HIDE DEF bad
    <2>2. QED
      BY <1>1, <2>1, LeastSubset
  <1>3. s \in SUBSET S /\ IsFiniteSet(s) /\ Sum(f, s) # 0
    BY FS_Subset
  <1>4. s # {}
    BY <1>3, SumEmpty
  <1>5. Chosen(s) \in s /\ Sum(f, s) = f[Chosen(s)] + Sum(f, s \ {Chosen(s)})
    BY <1>3, <1>4, SumChosen
  <1>6. s \ {Chosen(s)} \notin bad
    BY <1>2, <1>5
  <1>7. QED
    BY <1>3, <1>5, <1>6

\* Any element may go first.
LEMMA SumPick ==
  ASSUME NEW f, NEW S, IsFiniteSet(S), \A y \in S : f[y] \in Nat, NEW x \in S
  PROVE  Sum(f, S) = f[x] + Sum(f, S \ {x})
  <1> DEFINE apart(s) == \E y \in s : Sum(f, s) # f[y] + Sum(f, s \ {y})
             bad == {s \in SUBSET S : apart(s)}
  <1>1. SUFFICES ASSUME bad # {} PROVE FALSE
    OBVIOUS
  <1>2. PICK s \in bad : \A t \in bad : t \subseteq s => t = s
    <2>1. bad \subseteq SUBSET S
      OBVIOUS
    <2> HIDE DEF bad
    <2>2. QED
      BY <1>1, <2>1, LeastSubset
  <1>3. s \in SUBSET S /\ IsFiniteSet(s)
    BY FS_Subset
  <1>4. PICK y \in s : Sum(f, s) # f[y] + Sum(f, s \ {y})
    OBVIOUS
  <1> DEFINE c == Chosen(s)
  <1>5. c \in s /\ Sum(f, s) = f[c] + Sum(f, s \ {c})
    BY <1>3, SumChosen
  <1>6. y # c
    BY <1>4, <1>5
  <1>7. s \ {c} \notin bad /\ s \ {y} \notin bad
    BY <1>2, <1>5
  <1>8. Sum(f, s \ {c}) = f[y] + Sum(f, (s \ {c}) \ {y})
    BY <1>3, <1>6, <1>7
  <1>9. Sum(f, s \ {y}) = f[c] + Sum(f, (s \ {y}) \ {c})
    BY <1>3, <1>5, <1>6, <1>7
  <1>10. (s \ {c}) \ {y} = (s \ {y}) \ {c}
    OBVIOUS
  <1>11. Sum(f, (s \ {y}) \ {c}) \in Nat /\ f[c] \in Nat /\ f[y] \in Nat
    <2>1. (s \ {y}) \ {c} \in SUBSET S
      BY <1>3
    <2> DEFINE rest == (s \ {y}) \ {c}
    <2>2. IsFiniteSet(rest) /\ \A z \in rest : f[z] \in Nat
      BY <2>1, FS_Subset
    <2>3. QED
      BY <1>3, <1>5, <2>2, SumNat
  <1>12. QED
    BY <1>4, <1>5, <1>8, <1>9, <1>10, <1>11

\* A sum of smaller numbers is smaller.
LEMMA SumMonotone ==
  ASSUME NEW f, NEW g, NEW S, IsFiniteSet(S),
         \A x \in S : f[x] \in Nat /\ g[x] \in Nat /\ f[x] <= g[x]
  PROVE  Sum(f, S) <= Sum(g, S)
  <1> DEFINE bad == {s \in SUBSET S : ~(Sum(f, s) <= Sum(g, s))}
  <1>1. SUFFICES ASSUME bad # {} PROVE FALSE
    OBVIOUS
  <1>2. PICK s \in bad : \A t \in bad : t \subseteq s => t = s
    <2>1. bad \subseteq SUBSET S
      OBVIOUS
    <2> HIDE DEF bad
    <2>2. QED
      BY <1>1, <2>1, LeastSubset
  <1>3. s \in SUBSET S /\ IsFiniteSet(s) /\ ~(Sum(f, s) <= Sum(g, s))
    BY FS_Subset
  <1>4. s # {}
    BY <1>3, SumEmpty
  <1> DEFINE c == Chosen(s)
             rest == s \ {c}
  <1>5. /\ c \in s
        /\ Sum(f, s) = f[c] + Sum(f, rest)
        /\ Sum(g, s) = g[c] + Sum(g, rest)
    BY <1>3, <1>4, SumChosen
  <1>6. rest \in SUBSET S /\ IsFiniteSet(rest)
    BY <1>3, FS_Subset
  <1>7. Sum(f, rest) \in Nat /\ Sum(g, rest) \in Nat
    BY <1>6, SumNat
  <1>8. Sum(f, rest) <= Sum(g, rest)
    BY <1>2, <1>5, <1>6
  <1>9. QED
    BY <1>3, <1>5, <1>7, <1>8

\* One number changes, and the sum by as much.
LEMMA SumChange ==
  ASSUME NEW f, NEW g, NEW S, IsFiniteSet(S), NEW x \in S, NEW u \in Nat,
         \A y \in S : f[y] \in Nat,
         g[x] = f[x] + u, \A y \in S \ {x} : g[y] = f[y]
  PROVE  Sum(g, S) = Sum(f, S) + u
  <1> DEFINE rest == S \ {x}
  <1>1. IsFiniteSet(rest) /\ \A y \in rest : f[y] \in Nat /\ g[y] \in Nat
    BY FS_Subset
  <1>2. \A y \in S : g[y] \in Nat
    OBVIOUS
  <1>3. Sum(f, rest) <= Sum(g, rest) /\ Sum(g, rest) <= Sum(f, rest)
    <2>1. \A y \in rest : f[y] <= g[y] /\ g[y] <= f[y]
      BY <1>1
    <2> HIDE DEF rest
    <2>2. QED
      BY <1>1, <2>1, SumMonotone
  <1>4. Sum(f, rest) \in Nat /\ Sum(g, rest) \in Nat
    BY <1>1, SumNat
  <1>5. Sum(f, S) = f[x] + Sum(f, rest) /\ Sum(g, S) = g[x] + Sum(g, rest)
    BY <1>2, SumPick
  <1>6. QED
    BY <1>3, <1>4, <1>5

-----------------------------------------------------------------------------
(* The limits and slots of a process.                                      *)

\* What both kinds of limits are.
LEMMA LimitTypes ==
  ASSUME kind \in Kinds
  PROVE  /\ Own \in Seq(Limits)
         /\ Shared \in Seq(Limits) /\ Len(Shared) \in Nat \ {0}
         /\ \A i \in 1..Len(Shared) :
              /\ Shared[i] \in Limits
              /\ Shared[i].window \in Nat \ {0} /\ Shared[i].limit \in Nat \ {0}
  <1>1. Own \in Seq(Limits) /\ Shared \in Seq(Limits) \ {<<>>}
    BY AdmissionAssumption DEF Own, Shared
  <1>2. Len(Shared) \in Nat \ {0}
    BY <1>1
  <1>3. \A i \in 1..Len(Shared) : Shared[i] \in Limits
    BY <1>1
  <1>4. QED
    BY <1>1, <1>2, <1>3 DEF Limits

\* An interval has as many elements as its end says.
LEMMA Interval ==
  ASSUME NEW n \in Nat
  PROVE  IsFiniteSet(1..n) /\ Cardinality(1..n) = n
  <1>1. IsFiniteSet(1..n)
    BY FS_Interval
  <1>2. Cardinality(1..n) = IF 1 > n THEN 0 ELSE n - 1 + 1
    BY FS_Interval, 1 \in Int, n \in Int
  <1>3. QED
    BY <1>1, <1>2

\* Dropping old hits leaves times.
LEMMA RecentTyped ==
  ASSUME NEW times \in Seq(0..MaxTime), NEW window \in Nat, clock \in 0..MaxTime
  PROVE  Recent(times, window) \in Seq(0..MaxTime)
  <1> DEFINE past == {i \in DOMAIN times : \A j \in 1..i : times[j] <= clock - window}
  <1>0. Len(times) \in Nat
    OBVIOUS
  <1>1. IsFiniteSet(1..Len(times)) /\ Cardinality(1..Len(times)) = Len(times)
    BY <1>0, Interval
  <1>2. Cardinality(past) \in 0..Len(times)
    <2>1. past \in SUBSET (1..Len(times))
      OBVIOUS
    <2> HIDE DEF past
    <2>2. IsFiniteSet(past) /\ Cardinality(past) <= Cardinality(1..Len(times))
      BY <1>1, <2>1, FS_Subset
    <2>3. QED
      BY <1>0, <1>1, <2>2, FS_CardinalityType
  <1> HIDE DEF past
  <1>3. SubSeq(times, Cardinality(past) + 1, Len(times)) \in Seq(0..MaxTime)
    <2>1. \A i \in (Cardinality(past) + 1)..Len(times) : times[i] \in 0..MaxTime
      <3>1. \A i \in 1..Len(times) : times[i] \in 0..MaxTime
        BY ElementOfSeq
      <3>2. (Cardinality(past) + 1)..Len(times) \subseteq 1..Len(times)
        BY <1>0, <1>2
      <3>3. QED
        BY <3>1, <3>2
    <2>2. QED
      BY <1>0, <1>2, <2>1, SubSeqProperties
  <1>4. QED
    BY <1>3 DEF Recent, past

\* Hits leave the deques of their type, one check after the other.
HitState == [deque : [KeysOf(Own) -> Seq(0..MaxTime)], ok : BOOLEAN]
HitSteps(h, n, d, v) ==
  h = [i \in 0..n |-> IF i = 0 THEN [deque |-> d, ok |-> TRUE] ELSE HitAt(h[i - 1], i, v)]

LEMMA HitAtTyped ==
  ASSUME NEW hit \in HitState, NEW i \in 1..Len(Own), NEW v \in Visitors,
         kind \in Kinds, clock \in 0..MaxTime
  PROVE  HitAt(hit, i, v) \in HitState
  <1> DEFINE key == KeyOf(Own, i, v)
             times == Recent(hit.deque[key], Own[i].window)
  <1>1. Own[i].window \in Nat /\ i \in DOMAIN Own
    <2>1. Own[i] \in Limits /\ DOMAIN Own = 1..Len(Own)
      BY LimitTypes
    <2>2. QED
      BY <2>1 DEF Limits
  <1>2. key \in KeysOf(Own)
    BY <1>1 DEF KeyOf, KeysOf
  <1>3. hit.deque \in [KeysOf(Own) -> Seq(0..MaxTime)] /\ hit.ok \in BOOLEAN
    BY DEF HitState
  <1>4. times \in Seq(0..MaxTime)
    BY <1>1, <1>2, <1>3, RecentTyped
  <1> HIDE DEF key, times
  <1>5. [hit.deque EXCEPT ![key] = times] \in [KeysOf(Own) -> Seq(0..MaxTime)]
    BY <1>2, <1>3, <1>4
  <1>6. Append(times, clock) \in Seq(0..MaxTime)
    BY <1>4
  <1>7. [hit EXCEPT !.deque[key] = Append(times, clock)] \in HitState
    BY <1>2, <1>3, <1>6 DEF HitState
  <1>8. [deque |-> [hit.deque EXCEPT ![key] = times], ok |-> FALSE] \in HitState
    BY <1>5 DEF HitState
  <1>9. QED
    BY <1>7, <1>8 DEF HitAt, key, times

\* The checks can be taken in turn, and the last one says what remains.
LEMMA HitStepsExist ==
  ASSUME NEW d, NEW v, kind \in Kinds
  PROVE  \E h : HitSteps(h, Len(Own), d, v) /\ Hits(d, v) = h[Len(Own)]
  <1> DEFINE bad == {n \in Nat : ~ \E h : HitSteps(h, n, d, v)}
  <1>1. 0 \notin bad
    <2> DEFINE h == [i \in 0..0 |-> [deque |-> d, ok |-> TRUE]]
    <2>1. HitSteps(h, 0, d, v)
      BY DEF HitSteps
    <2>2. QED
      BY <2>1
  <1>2. ASSUME NEW n \in Nat, n \notin bad PROVE n + 1 \notin bad
    <2>1. PICK g : HitSteps(g, n, d, v)
      BY <1>2
    <2> DEFINE h == [i \in 0..(n + 1) |-> IF i \in 0..n THEN g[i] ELSE HitAt(g[n], n + 1, v)]
    <2>2. ASSUME NEW i \in 0..(n + 1)
          PROVE  h[i] = IF i = 0 THEN [deque |-> d, ok |-> TRUE] ELSE HitAt(h[i - 1], i, v)
      <3>1. CASE i \in 0..n
        <4>1. h[i] = g[i] /\ (i # 0 => h[i - 1] = g[i - 1])
          BY <3>1
        <4>2. g[i] = IF i = 0 THEN [deque |-> d, ok |-> TRUE] ELSE HitAt(g[i - 1], i, v)
          BY <2>1, <3>1 DEF HitSteps
        <4>3. QED
          BY <4>1, <4>2
      <3>2. CASE i = n + 1
        BY <3>2
      <3>3. QED
        BY <3>1, <3>2
    <2>3. HitSteps(h, n + 1, d, v)
      BY <2>2 DEF HitSteps
    <2>4. QED
      BY <2>3
  <1>3. bad = {}
    <2>1. SUFFICES ASSUME bad # {} PROVE FALSE
      OBVIOUS
    <2>2. bad \subseteq Nat
      OBVIOUS
    <2> HIDE DEF bad
    <2>3. PICK n \in bad : \A m \in bad : n <= m
      BY <2>1, <2>2, LeastNumber
    <2>4. n \in Nat \ {0} /\ n - 1 \in Nat /\ n - 1 \notin bad
      BY <1>1, <2>2, <2>3
    <2>5. QED
      BY <1>2, <2>3, <2>4, n - 1 + 1 = n
  <1>4. Len(Own) \in Nat
    BY LimitTypes
  <1>5. PICK g : HitSteps(g, Len(Own), d, v)
    BY <1>3, <1>4
  <1> DEFINE after ==
               CHOOSE after :
                 after = [i \in 0..Len(Own) |->
                            IF i = 0 THEN [deque |-> d, ok |-> TRUE] ELSE HitAt(after[i - 1], i, v)]
  <1>6. Hits(d, v) = after[Len(Own)]
    BY DEF Hits
  <1>7. after = [i \in 0..Len(Own) |->
                   IF i = 0 THEN [deque |-> d, ok |-> TRUE] ELSE HitAt(after[i - 1], i, v)]
    BY <1>5 DEF HitSteps
  <1>8. HitSteps(after, Len(Own), d, v)
    BY <1>7 DEF HitSteps
  <1>9. QED
    BY <1>6, <1>8

\* So that the deques of a process stay of their type.
LEMMA HitsTyped ==
  ASSUME NEW d \in [KeysOf(Own) -> Seq(0..MaxTime)], NEW v \in Visitors,
         kind \in Kinds, clock \in 0..MaxTime
  PROVE  Hits(d, v) \in HitState
  <1>1. PICK h : HitSteps(h, Len(Own), d, v) /\ Hits(d, v) = h[Len(Own)]
    BY HitStepsExist
  <1> DEFINE bad == {n \in 0..Len(Own) : h[n] \notin HitState}
  <1>2. Len(Own) \in Nat
    BY LimitTypes
  <1>3. h[0] \in HitState
    BY <1>1, <1>2 DEF HitSteps, HitState
  <1>4. ASSUME NEW i \in 1..Len(Own), h[i - 1] \in HitState PROVE h[i] \in HitState
    <2>1. h[i] = HitAt(h[i - 1], i, v)
      <3>1. i \in 0..Len(Own) /\ i # 0
        BY <1>2
      <3>2. h[i] = IF i = 0 THEN [deque |-> d, ok |-> TRUE] ELSE HitAt(h[i - 1], i, v)
        BY <1>1, <3>1 DEF HitSteps
      <3>3. QED
        BY <3>1, <3>2
    <2>2. QED
      BY <1>4, <2>1, HitAtTyped
  <1>5. bad = {}
    <2>1. SUFFICES ASSUME bad # {} PROVE FALSE
      OBVIOUS
    <2>2. bad \subseteq Nat
      OBVIOUS
    <2>3. PICK n \in bad : \A m \in bad : n <= m
      <3> HIDE DEF bad
      <3>1. QED
        BY <2>1, <2>2, LeastNumber
    <2>4. n \in 1..Len(Own) /\ n - 1 \notin bad /\ n - 1 \in 0..Len(Own)
      BY <1>2, <1>3, <2>3
    <2>5. QED
      BY <1>4, <2>3, <2>4
  <1>6. QED
    BY <1>1, <1>2, <1>5

\* What each process has at most Slots of is at most Slots for each process.
LEMMA Slotted ==
  ASSUME NEW A, NEW at \in [A -> Processes],
         \A p \in Processes : /\ IsFiniteSet({r \in A : at[r] = p})
                              /\ Cardinality({r \in A : at[r] = p}) <= Slots
  PROVE  IsFiniteSet(A) /\ Cardinality(A) <= Slots * Cardinality(Processes)
  <1> DEFINE Here(p) == {r \in A : at[r] = p}
             order(p) == CHOOSE b : b \in Bijection(1..Cardinality(Here(p)), Here(p))
             place == [r \in A |-> <<at[r], CHOOSE i \in 1..Slots : order(at[r])[i] = r>>]
             places == Processes \X (1..Slots)
  <1>1. Slots \in Nat /\ IsFiniteSet(Processes)
    BY AdmissionAssumption
  <1>2. IsFiniteSet(places) /\ Cardinality(places) = Slots * Cardinality(Processes)
    <2>1. IsFiniteSet(1..Slots) /\ Cardinality(1..Slots) = Slots
      BY <1>1, Interval
    <2>2. IsFiniteSet(places) /\ Cardinality(places) = Cardinality(Processes) * Cardinality(1..Slots)
      BY <1>1, <2>1, FS_Product
    <2>3. Cardinality(Processes) \in Nat
      BY <1>1, FS_CardinalityType
    <2>4. QED
      BY <1>1, <2>1, <2>2, <2>3
  <1>3. ASSUME NEW r \in A PROVE \E i \in 1..Slots : order(at[r])[i] = r
    <2> DEFINE p == at[r]
               n == Cardinality(Here(p))
    <2>1. n \in Nat /\ n <= Slots /\ ExistsBijection(1..n, Here(p))
      BY FS_CardinalityType
    <2>2. order(p) \in Bijection(1..n, Here(p))
      BY <2>1 DEF ExistsBijection
    <2>3. r \in Here(p)
      OBVIOUS
    <2> HIDE DEF order, Here, n
    <2>4. \E i \in 1..n : order(p)[i] = r
      BY <2>2, <2>3 DEF Bijection, Surjection
    <2>5. QED
      BY <1>1, <2>1, <2>4
  <1> HIDE DEF order
  <1>4. \A r \in A : /\ place[r][1] = at[r] /\ place[r][2] \in 1..Slots
                     /\ order(at[r])[place[r][2]] = r
    BY <1>3
  <1>5. \A r \in A : place[r] \in places
    BY <1>3
  <1>6. \A q, r \in A : place[q] = place[r] => q = r
    BY <1>4
  <1>7. place \in Injection(A, places)
    BY <1>5, <1>6 DEF Injection, IsInjective
  <1> HIDE DEF place, places
  <1>8. IsFiniteSet(A) /\ Cardinality(A) <= Cardinality(places)
    BY <1>2, <1>7, FS_Injection
  <1>9. QED
    BY <1>2, <1>8

-----------------------------------------------------------------------------
(* Requests.                                                               *)

\* What a request asks for while it is at work.
LEMMA Asks ==
  ASSUME kind \in Kinds, RequestsMakeSense, NEW r \in Requests
  PROVE  /\ request[r] \in Request /\ InOrder(request[r])
         /\ request[r].files \in 0..MaxFiles /\ Units(r) \in Nat
         /\ request[r].step = "limits" =>
              /\ request[r].visitor \in Visitors /\ request[r].process \in Processes
              /\ request[r].check \in 1..Len(Shared) /\ KeyFor(r) \in KeysOf(Shared)
              /\ KeyFor(r)[1] = request[r].check
              /\ Check(r).window \in Nat \ {0} /\ Check(r).limit \in Nat \ {0}
  <1>1. request[r] \in Request /\ InOrder(request[r])
    BY DEF RequestsMakeSense
  <1>2. request[r].files \in 0..MaxFiles
    BY <1>1 DEF Request
  <1>3. Units(r) \in Nat
    BY <1>2, AdmissionAssumption DEF Units
  <1>4. ASSUME request[r].step = "limits"
        PROVE  /\ request[r].visitor \in Visitors /\ request[r].process \in Processes
               /\ request[r].check \in 1..Len(Shared)
    BY <1>1, <1>4 DEF InOrder, AtWork
  <1>5. ASSUME request[r].step = "limits"
        PROVE  /\ KeyFor(r) \in KeysOf(Shared) /\ KeyFor(r)[1] = request[r].check
               /\ Check(r).window \in Nat \ {0} /\ Check(r).limit \in Nat \ {0}
    <2>1. DOMAIN Shared = 1..Len(Shared)
      BY LimitTypes
    <2>2. QED
      BY <1>4, <1>5, <2>1, LimitTypes DEF KeyFor, KeyOf, KeysOf, Check
  <1>6. QED
    BY <1>1, <1>2, <1>3, <1>4, <1>5

\* One request goes on, in order, while time stands still.
LEMMA GoesOn ==
  ASSUME RequestsMakeSense, kind' = kind, clock' = clock,
         NEW r \in Requests, NEW q \in Request, InOrder(q),
         request' = [request EXCEPT ![r] = q]
  PROVE  RequestsMakeSense'
  <1>1. request' \in [Requests -> Request]
    BY DEF RequestsMakeSense
  <1>2. ASSUME NEW o \in Requests PROVE InOrder(request'[o])
    BY DEF RequestsMakeSense
  <1>3. ASSUME NEW o \in Requests PROVE InOrder(request[o])'
    BY <1>2 DEF InOrder, Shared
  <1>4. QED
    BY <1>1, <1>3 DEF RequestsMakeSense

\* The end of a request is in order.
LEMMA DoneInOrder == Done \in Request /\ InOrder(Done) /\ Done.step = "done"
  BY AdmissionAssumption DEF Done, NoRequest, Request, InOrder, AtWork

\* What the updates of a request leave and change.
LEMMA InWindowUpdates ==
  ASSUME NEW q \in Request, NEW w \in 0..MaxTime
  PROVE  /\ InWindow(q, w) \in Request
         /\ InWindow(q, w).window = w /\ InWindow(q, w).step = q.step
         /\ InWindow(q, w).process = q.process /\ InWindow(q, w).visitor = q.visitor
         /\ InWindow(q, w).check = q.check /\ InWindow(q, w).files = q.files
  BY DEF InWindow, Request

LEMMA Updates ==
  ASSUME NEW q \in Request
  PROVE  /\ PassedOne(q) \in Request
         /\ PassedOne(q).window = NoWindow /\ PassedOne(q).step = q.step
         /\ PassedOne(q).process = q.process /\ PassedOne(q).visitor = q.visitor
         /\ PassedOne(q).check = q.check + 1 /\ PassedOne(q).files = q.files
         /\ PassedAll(q) \in Request
         /\ PassedAll(q).window = NoWindow /\ PassedAll(q).step = "capacity"
         /\ PassedAll(q).process = q.process /\ PassedAll(q).visitor = q.visitor
         /\ PassedAll(q).files = q.files
         /\ Checking(q) \in Request
         /\ Checking(q).window = q.window /\ Checking(q).step = "check"
         /\ Checking(q).process = q.process /\ Checking(q).visitor = q.visitor
         /\ Checking(q).files = q.files
         /\ Committing(q) \in Request
         /\ Committing(q).window = q.window /\ Committing(q).step = "commit"
         /\ Committing(q).process = q.process /\ Committing(q).visitor = q.visitor
         /\ Committing(q).files = q.files
         /\ q.files > 0 => NextFile(q) \in Request
         /\ NextFile(q).window = q.window /\ NextFile(q).step = "check"
         /\ NextFile(q).process = q.process /\ NextFile(q).visitor = q.visitor
         /\ NextFile(q).files = q.files - 1
  <1>1. /\ PassedOne(q) \in Request
        /\ PassedOne(q).window = NoWindow /\ PassedOne(q).step = q.step
        /\ PassedOne(q).process = q.process /\ PassedOne(q).visitor = q.visitor
        /\ PassedOne(q).check = q.check + 1 /\ PassedOne(q).files = q.files
    <2>1. q.check \in Nat /\ q.check + 1 \in Nat
      BY DEF Request
    <2>2. QED
      BY <2>1 DEF PassedOne, Request
  <1>2. /\ PassedAll(q) \in Request
        /\ PassedAll(q).window = NoWindow /\ PassedAll(q).step = "capacity"
        /\ PassedAll(q).process = q.process /\ PassedAll(q).visitor = q.visitor
        /\ PassedAll(q).files = q.files
    BY DEF PassedAll, Request
  <1>3. /\ Checking(q) \in Request
        /\ Checking(q).window = q.window /\ Checking(q).step = "check"
        /\ Checking(q).process = q.process /\ Checking(q).visitor = q.visitor
        /\ Checking(q).files = q.files
    BY DEF Checking, Request
  <1>4. /\ Committing(q) \in Request
        /\ Committing(q).window = q.window /\ Committing(q).step = "commit"
        /\ Committing(q).process = q.process /\ Committing(q).visitor = q.visitor
        /\ Committing(q).files = q.files
    BY DEF Committing, Request
  <1>5. /\ NextFile(q).window = q.window /\ NextFile(q).step = "check"
        /\ NextFile(q).process = q.process /\ NextFile(q).visitor = q.visitor
        /\ NextFile(q).files = q.files - 1
    BY DEF NextFile, Request
  <1>6. q.files > 0 => NextFile(q) \in Request
    <2>1. q.files > 0 => q.files - 1 \in 0..MaxFiles
      BY AdmissionAssumption DEF Request
    <2>2. QED
      BY <2>1 DEF NextFile, Request
  <1>7. QED
    BY <1>1, <1>2, <1>3, <1>4, <1>5, <1>6

LEMMA AdmittedRequest ==
  ASSUME NEW v \in Visitors, NEW p \in Processes, NEW files \in 1..MaxFiles
  PROVE  /\ Admitted(v, p, files) \in Request
         /\ Admitted(v, p, files).window = NoWindow /\ Admitted(v, p, files).step = "limits"
         /\ Admitted(v, p, files).process = p /\ Admitted(v, p, files).visitor = v
         /\ Admitted(v, p, files).files = files /\ Admitted(v, p, files).check = 1
  <1>1. files \in 0..MaxFiles /\ 1 \in Nat
    BY AdmissionAssumption
  <1>2. QED
    BY <1>1 DEF Admitted, NoRequest, Request

\* What a step does to its request r, and to the slots: the request is let in,
\* comes past the slots, is turned away, goes on or ends.
Acts(r) ==
  \/ \E v \in Visitors, p \in Processes, files \in 1..MaxFiles :
       Dispatch(r, v, p, files) \/ DispatchOutside(r, v, p, files)
  \/ ReadClock(r) \/ Hit(r) \/ HitFails(r) \/ Refuse(r) \/ EnsureCapacity(r)
  \/ CheckFile(r) \/ CommitFile(r) \/ EndRequest(r)

Enters(r, q) ==
  /\ request[r].step = "none" /\ AtWork(q) /\ q.process \in Processes
  /\ inFlight[q.process] < Slots
  /\ inFlight' = [inFlight EXCEPT ![q.process] = @ + 1] /\ outside' = outside
ComesOutside(r, q) ==
  /\ request[r].step = "none" /\ AtWork(q)
  /\ inFlight' = inFlight /\ outside' = outside \union {r}
TurnedAway(r, q) ==
  /\ request[r].step = "none" /\ q.step = "done"
  /\ inFlight' = inFlight /\ outside' = outside
Continues(r, q) ==
  /\ AtWork(request[r]) /\ AtWork(q) /\ q.process = request[r].process
  /\ inFlight' = inFlight /\ outside' = outside
Ends(r, q) ==
  /\ AtWork(request[r]) /\ q.step = "done" /\ outside' = outside
  /\ inFlight' = IF r \in outside THEN inFlight
                 ELSE [inFlight EXCEPT ![request[r].process] = @ - 1]

RequestMoves(r, q) ==
  /\ q \in Request /\ InOrder(q)
  /\ request' = [request EXCEPT ![r] = q]
  /\ \/ Enters(r, q) \/ ComesOutside(r, q) \/ TurnedAway(r, q)
     \/ Continues(r, q) \/ Ends(r, q)

LEMMA LeavesMoves ==
  ASSUME RequestsMakeSense, NEW r \in Requests, AtWork(request[r]), Leaves(r),
         outside' = outside
  PROVE  RequestMoves(r, Done)
  BY DoneInOrder DEF RequestMoves, Ends, Leaves, AtWork

\* A request looks at the clock, and will count in a window that has begun.
LEMMA ReadsAWindow ==
  ASSUME kind \in Kinds, clock \in 0..MaxTime, RequestsMakeSense,
         NEW r \in Requests, ReadClock(r)
  PROVE  \E w \in 0..MaxTime :
           /\ clock < ExpiresAt(w, Check(r).window)
           /\ request' = [request EXCEPT ![r] = InWindow(request[r], w)]
  <1> DEFINE W == Check(r).window
             w == WindowOf(clock, W)
  <1>1. request' = [request EXCEPT ![r] = InWindow(request[r], w)] /\ request[r].step = "limits"
    BY DEF ReadClock
  <1>2. W \in Nat \ {0} /\ clock \in Nat /\ clock <= MaxTime /\ MaxTime \in Nat
    BY <1>1, Asks, AdmissionAssumption
  <1> HIDE DEF W
  <1>3. w \in 0..clock /\ clock < w + W
    BY <1>2, WindowBounds
  <1> HIDE DEF w
  <1>4. w \in 0..MaxTime /\ clock < w + 2 * W
    BY <1>2, <1>3
  <1>5. QED
    BY <1>1, <1>4 DEF ExpiresAt, W

LEMMA ActsMove ==
  ASSUME kind \in Kinds, clock \in 0..MaxTime, RequestsMakeSense, NEW r \in Requests, Acts(r)
  PROVE  /\ \E q : RequestMoves(r, q)
         /\ kind' = kind /\ clock' = clock
  <1> DEFINE q == request[r]
  <1>0. q \in Request /\ InOrder(q)
    BY Asks
  <1>1. ASSUME NEW v \in Visitors, NEW p \in Processes, NEW files \in 1..MaxFiles,
               Dispatch(r, v, p, files)
        PROVE  (\E o : RequestMoves(r, o)) /\ kind' = kind /\ clock' = clock
    <2> DEFINE o == Admitted(v, p, files)
    <2>1. q.step = "none" /\ kind' = kind /\ clock' = clock
      BY <1>1 DEF Dispatch
    <2>2. o \in Request /\ InOrder(o) /\ AtWork(o) /\ o.process = p
      BY LimitTypes, AdmittedRequest DEF InOrder, AtWork
    <2>3. \/ request' = [request EXCEPT ![r] = o] /\ inFlight[p] < Slots
             /\ inFlight' = [inFlight EXCEPT ![p] = @ + 1] /\ outside' = outside
          \/ request' = [request EXCEPT ![r] = Done] /\ inFlight' = inFlight
             /\ outside' = outside
      BY <1>1 DEF Dispatch, MayEnter
    <2>4. RequestMoves(r, o) \/ RequestMoves(r, Done)
      BY <2>1, <2>2, <2>3, DoneInOrder DEF RequestMoves, Enters, TurnedAway, AtWork
    <2>5. QED
      BY <2>1, <2>4
  <1>2. CASE ReadClock(r)
    <2>1. q.step = "limits" /\ kind' = kind /\ clock' = clock /\ inFlight' = inFlight
         /\ outside' = outside
      BY <1>2 DEF ReadClock
    <2>2. PICK w \in 0..MaxTime : /\ clock < ExpiresAt(w, Check(r).window)
                                  /\ request' = [request EXCEPT ![r] = InWindow(q, w)]
      BY <1>2, ReadsAWindow
    <2> DEFINE o == InWindow(q, w)
    <2>3. o \in Request /\ InOrder(o) /\ AtWork(o) /\ o.process = q.process
      BY <1>0, <2>1, <2>2, InWindowUpdates DEF InOrder, AtWork, Check
    <2>4. RequestMoves(r, o)
      BY <2>1, <2>2, <2>3 DEF RequestMoves, Continues, AtWork
    <2>5. QED
      BY <2>1, <2>4
  <1>3. CASE Hit(r)
    <2> DEFINE last == q.check = Len(Shared)
               o == IF last THEN PassedAll(q) ELSE PassedOne(q)
    <2>1. q.step = "limits" /\ kind' = kind /\ clock' = clock /\ outside' = outside
      BY <1>3 DEF Hit
    <2>2. q.check \in 1..Len(Shared)
      BY <2>1, Asks
    <2>3. o \in Request /\ InOrder(o) /\ AtWork(o) /\ o.process = q.process
      BY <1>0, <2>1, <2>2, LimitTypes, Updates DEF InOrder, AtWork
    <2>4. \/ request' = [request EXCEPT ![r] = o] /\ inFlight' = inFlight
          \/ Leaves(r)
      BY <1>3 DEF Hit
    <2>5. RequestMoves(r, o) \/ RequestMoves(r, Done)
      BY <2>1, <2>3, <2>4, LeavesMoves DEF RequestMoves, Continues, AtWork
    <2>6. QED
      BY <2>1, <2>5
  <1>4. CASE HitFails(r) \/ Refuse(r) \/ EndRequest(r)
    BY <1>4, LeavesMoves DEF HitFails, Refuse, EndRequest, AtWork
  <1>5. CASE EnsureCapacity(r)
    <2> DEFINE o == Checking(q)
    <2>1. q.step = "capacity" /\ kind' = kind /\ clock' = clock /\ outside' = outside
      BY <1>5 DEF EnsureCapacity
    <2>2. o \in Request /\ InOrder(o) /\ AtWork(o) /\ o.process = q.process
      BY <1>0, <2>1, Updates DEF InOrder, AtWork
    <2>3. \/ request' = [request EXCEPT ![r] = o] /\ inFlight' = inFlight
          \/ Leaves(r)
      BY <1>5 DEF EnsureCapacity
    <2>4. RequestMoves(r, o) \/ RequestMoves(r, Done)
      BY <2>1, <2>2, <2>3, LeavesMoves DEF RequestMoves, Continues, AtWork
    <2>5. QED
      BY <2>1, <2>4
  <1>6. CASE CheckFile(r)
    <2> DEFINE o == Committing(q)
               s == NextFile(q)
    <2>1. q.step = "check" /\ q.files > 0 /\ kind' = kind /\ clock' = clock /\ inFlight' = inFlight
         /\ outside' = outside
      BY <1>6 DEF CheckFile
    <2>2. o \in Request /\ InOrder(o) /\ AtWork(o) /\ o.process = q.process
      BY <1>0, <2>1, Updates DEF InOrder, AtWork
    <2>3. s \in Request /\ InOrder(s) /\ AtWork(s) /\ s.process = q.process
      BY <1>0, <2>1, Updates DEF InOrder, AtWork
    <2>4. request' = [request EXCEPT ![r] = o] \/ request' = [request EXCEPT ![r] = s]
      BY <1>6 DEF CheckFile
    <2>5. RequestMoves(r, o) \/ RequestMoves(r, s)
      BY <2>1, <2>2, <2>3, <2>4 DEF RequestMoves, Continues, AtWork
    <2>6. QED
      BY <2>1, <2>5
  <1>7. CASE CommitFile(r)
    <2> DEFINE o == NextFile(q)
    <2>1. q.step = "commit" /\ kind' = kind /\ clock' = clock /\ inFlight' = inFlight
         /\ outside' = outside
      BY <1>7 DEF CommitFile
    <2>2. o \in Request /\ InOrder(o) /\ AtWork(o) /\ o.process = q.process
      BY <1>0, <2>1, Updates DEF InOrder, AtWork
    <2>3. RequestMoves(r, o)
      BY <1>7, <2>1, <2>2 DEF CommitFile, RequestMoves, Continues, AtWork
    <2>4. QED
      BY <2>1, <2>3
  <1>8. ASSUME NEW v \in Visitors, NEW p \in Processes, NEW files \in 1..MaxFiles,
               DispatchOutside(r, v, p, files)
        PROVE  (\E o : RequestMoves(r, o)) /\ kind' = kind /\ clock' = clock
    <2> DEFINE o == Admitted(v, p, files)
    <2>1. q.step = "none" /\ kind' = kind /\ clock' = clock
      BY <1>8 DEF DispatchOutside
    <2>2. o \in Request /\ InOrder(o) /\ AtWork(o)
      BY LimitTypes, AdmittedRequest DEF InOrder, AtWork
    <2>3. RequestMoves(r, o)
      BY <1>8, <2>1, <2>2 DEF DispatchOutside, RequestMoves, ComesOutside
    <2>4. QED
      BY <2>1, <2>3
  <1>9. QED
    BY <1>1, <1>2, <1>3, <1>4, <1>5, <1>6, <1>7, <1>8 DEF Acts

-----------------------------------------------------------------------------
(* Types and slots.                                                        *)

\* Requests stay in order; a request that holds a window keeps the clock from
\* leaving it behind.
LEMMA RequestsStep ==
  ASSUME TypeOK, RequestsMakeSense, [Next]_vars
  PROVE  RequestsMakeSense'
  <1>1. kind \in Kinds /\ clock \in 0..MaxTime
    BY DEF TypeOK
  <1>2. ASSUME NEW r \in Requests, Acts(r) PROVE RequestsMakeSense'
    <2>1. (\E q : RequestMoves(r, q)) /\ kind' = kind /\ clock' = clock
      BY <1>1, <1>2, ActsMove
    <2>2. QED
      BY <2>1, GoesOn DEF RequestMoves
  <1>3. ASSUME kind' = kind, clock' = clock, request' = request PROVE RequestsMakeSense'
    BY <1>3 DEF RequestsMakeSense, InOrder, Shared
  <1>4. CASE Tick
    <2>1. kind' = kind /\ clock' = clock + 1 /\ request' = request
      BY <1>4 DEF Tick
    <2>2. ASSUME NEW r \in Requests PROVE InOrder(request[r])'
      <3> DEFINE q == request[r]
      <3>1. q \in Request /\ InOrder(q)
        BY <1>1, Asks
      <3>2. ASSUME AtWork(q), q.window # NoWindow
            PROVE  clock + 1 < ExpiresAt(q.window, Shared[q.check].window)
        <4>1. clock < q.window + 2 * Check(r).window - 1
          BY <1>4, <3>2 DEF Tick, Active, AtWork
        <4>2. q.step = "limits"
          BY <3>1, <3>2 DEF InOrder
        <4>3. Check(r).window \in Nat
          BY <1>1, <4>2, Asks
        <4>4. q.window \in 0..MaxTime
          BY <3>1, <3>2 DEF Request
        <4> DEFINE w == q.window
                   W == Check(r).window
        <4>5. w \in Nat /\ W \in Nat /\ clock \in Nat /\ clock < w + 2 * W - 1
          BY <1>1, <4>1, <4>3, <4>4
        <4>6. ExpiresAt(q.window, Shared[q.check].window) = w + 2 * W
          BY DEF Check, ExpiresAt
        <4> HIDE DEF w, W
        <4>7. clock + 1 < w + 2 * W
          BY <4>5
        <4>8. QED
          BY <4>6, <4>7
      <3>3. QED
        BY <2>1, <3>1, <3>2 DEF InOrder, Shared
    <2>3. QED
      BY <2>1, <2>2 DEF RequestsMakeSense
  <1>5. QED
    BY <1>2, <1>3, <1>4 DEF Next, Acts, FinishJob, Purge, vars

\* The counts f with u more for a key in a window.
Adds(f, key, w, u) == [f EXCEPT ![key][w] = @ + u]

LEMMA AddsTyped ==
  ASSUME NEW K, NEW f \in [K -> [0..MaxTime -> Nat]],
         NEW key \in K, NEW w \in 0..MaxTime, NEW u \in Nat
  PROVE  /\ Adds(f, key, w, u) \in [K -> [0..MaxTime -> Nat]]
         /\ \A k \in K \ {key} : Adds(f, key, w, u)[k] = f[k]
         /\ Adds(f, key, w, u)[key] = [f[key] EXCEPT ![w] = f[key][w] + u]
         /\ \A x \in (0..MaxTime) \ {w} : Adds(f, key, w, u)[key][x] = f[key][x]
         /\ Adds(f, key, w, u)[key][w] = f[key][w] + u
  <1> DEFINE row == [f[key] EXCEPT ![w] = f[key][w] + u]
  <1>1. f[key] \in [0..MaxTime -> Nat]
    OBVIOUS
  <1>2. f[key][w] \in Nat
    BY <1>1
  <1>3. f[key][w] + u \in Nat
    BY <1>2
  <1>4. /\ row \in [0..MaxTime -> Nat]
        /\ row[w] = f[key][w] + u /\ \A x \in (0..MaxTime) \ {w} : row[x] = f[key][x]
    BY <1>1, <1>3
  <1>5. Adds(f, key, w, u) = [f EXCEPT ![key] = row]
    BY DEF Adds
  <1> HIDE DEF row
  <1>6. /\ Adds(f, key, w, u) \in [K -> [0..MaxTime -> Nat]]
        /\ Adds(f, key, w, u)[key] = row
        /\ \A k \in K \ {key} : Adds(f, key, w, u)[k] = f[k]
    BY <1>4, <1>5
  <1>7. QED
    BY <1>4, <1>6 DEF row

\* The kind stays, and the data of their types.
LEMMA DataStep ==
  ASSUME TypeOK, RequestsMakeSense, [Next]_vars
  PROVE  /\ kind' = kind /\ clock' \in 0..MaxTime
         /\ deques' \in [Processes -> [KeysOf(Own) -> Seq(0..MaxTime)]]
         /\ rows' \in [KeysOf(Shared) -> [0..MaxTime -> Nat]]
         /\ backlog' \in Nat
  <1> DEFINE D == [Processes -> [KeysOf(Own) -> Seq(0..MaxTime)]]
             C == [KeysOf(Shared) -> [0..MaxTime -> Nat]]
  <1>0. /\ kind \in Kinds /\ clock \in 0..MaxTime /\ deques \in D /\ rows \in C /\ backlog \in Nat
        /\ JobsPerFile[kind] \in Nat
    BY AdmissionAssumption DEF TypeOK
  <1>1. ASSUME NEW r \in Requests, request[r].step = "limits", request[r].window # NoWindow
        PROVE  Counted(r) \in C
    <2>1. KeyFor(r) \in KeysOf(Shared) /\ Units(r) \in Nat
      BY <1>0, <1>1, Asks
    <2>2. request[r].window \in 0..MaxTime
      BY <1>0, <1>1, Asks DEF Request
    <2>3. Counted(r) = Adds(rows, KeyFor(r), request[r].window, Units(r))
      BY DEF Counted, Adds
    <2>4. Adds(rows, KeyFor(r), request[r].window, Units(r)) \in C
      BY <1>0, <2>1, <2>2, AddsTyped
    <2>5. QED
      BY <2>3, <2>4
  <1>2. ASSUME NEW r \in Requests, NEW v \in Visitors, NEW p \in Processes,
               NEW files \in 1..MaxFiles, Dispatch(r, v, p, files)
        PROVE  deques' \in D
    <2>1. deques' = [deques EXCEPT ![p] = Hits(deques[p], v).deque]
      BY <1>2 DEF Dispatch
    <2>2. deques[p] \in [KeysOf(Own) -> Seq(0..MaxTime)]
      BY <1>0
    <2>3. Hits(deques[p], v).deque \in [KeysOf(Own) -> Seq(0..MaxTime)]
      BY <1>0, <2>2, HitsTyped DEF HitState
    <2>4. QED
      BY <1>0, <2>1, <2>3
  <1>3. ASSUME NEW r \in Requests, Acts(r)
        PROVE  /\ kind' = kind /\ clock' = clock
               /\ deques' \in D /\ rows' \in C /\ backlog' \in Nat
    <2>1. ASSUME NEW v \in Visitors, NEW p \in Processes, NEW files \in 1..MaxFiles,
                 Dispatch(r, v, p, files)
          PROVE  /\ kind' = kind /\ clock' = clock
                 /\ deques' \in D /\ rows' \in C /\ backlog' \in Nat
      BY <1>0, <1>2, <2>1 DEF Dispatch
    <2>2. CASE Hit(r)
      BY <1>0, <1>1, <2>2 DEF Hit
    <2>3. CASE HitFails(r)
      BY <1>0, <1>1, <2>3 DEF HitFails
    <2>4. CASE ReadClock(r) \/ Refuse(r) \/ EnsureCapacity(r) \/ EndRequest(r)
      BY <1>0, <2>4 DEF ReadClock, Refuse, EnsureCapacity, EndRequest
    <2>5. CASE CommitFile(r)
      BY <1>0, <2>5 DEF CommitFile
    <2>6. ASSUME NEW v \in Visitors, NEW p \in Processes, NEW files \in 1..MaxFiles,
                 DispatchOutside(r, v, p, files)
          PROVE  /\ kind' = kind /\ clock' = clock
                 /\ deques' \in D /\ rows' \in C /\ backlog' \in Nat
      BY <1>0, <2>6 DEF DispatchOutside
    <2>7. CASE CheckFile(r)
      BY <1>0, <2>7 DEF CheckFile
    <2>8. QED
      BY <1>3, <2>1, <2>2, <2>3, <2>4, <2>5, <2>6, <2>7 DEF Acts
  <1>4. CASE Purge
    <2>1. rows' = [key \in DOMAIN rows |-> [w \in 0..MaxTime |->
               IF ExpiresAt(w, Shared[key[1]].window) < clock THEN 0 ELSE rows[key][w]]]
      BY <1>4 DEF Purge
    <2>2. rows' \in C
      BY <1>0, <2>1
    <2>3. QED
      BY <1>0, <1>4, <2>2 DEF Purge
  <1>5. CASE FinishJob
    BY <1>0, <1>5 DEF FinishJob
  <1>6. CASE Tick
    BY <1>0, <1>6, AdmissionAssumption DEF Tick
  <1>7. CASE UNCHANGED vars
    BY <1>0, <1>7 DEF vars
  <1>8. QED
    BY <1>0, <1>3, <1>4, <1>5, <1>6, <1>7 DEF Next, Acts

\* A process counts the requests that have a slot there, one by one.
LEMMA SlotsStep ==
  ASSUME TypeOK, RequestsMakeSense, SlotsCounted, [Next]_vars
  PROVE  /\ SlotsCounted' /\ outside \subseteq outside'
         /\ \A p \in Processes : (inFlight[p] = Cardinality(ActiveAt(p)) /\ inFlight[p] <= Slots)'
  <1> DEFINE Here(req, out, p) ==
               {r \in Requests : AtWork(req[r]) /\ r \notin out /\ req[r].process = p}
             Fits(req, out, n, p) == /\ IsFiniteSet(Here(req, out, p))
                                     /\ n = Cardinality(Here(req, out, p)) /\ n <= Slots
             Fit(req, out, flight) ==
               /\ flight \in [Processes -> Nat]
               /\ \A p \in Processes : Fits(req, out, flight[p], p)
             Came(req, out) == /\ IsFiniteSet(out) /\ out \subseteq Requests
                               /\ \A r \in out : req[r].step # "none"
             Goal == /\ Fit(request', outside', inFlight') /\ Came(request', outside')
                     /\ outside \subseteq outside'
  <1>0. kind \in Kinds /\ clock \in 0..MaxTime /\ Slots \in Nat
    BY AdmissionAssumption DEF TypeOK
  <1>1. Fit(request, outside, inFlight) /\ Came(request, outside)
    BY DEF TypeOK, SlotsCounted, ActiveAt, Active, AtWork
  <1>2. SUFFICES Goal
    BY DEF SlotsCounted, ActiveAt, Active, AtWork
  <1>3. ASSUME NEW r \in Requests, Acts(r) PROVE Goal
    <2>1. PICK q : RequestMoves(r, q)
      BY <1>0, <1>3, ActsMove
    <2>2. /\ request \in [Requests -> Request] /\ request' = [request EXCEPT ![r] = q]
          /\ InOrder(request[r])
      BY <2>1 DEF RequestMoves, RequestsMakeSense
    <2>3. ASSUME NEW p \in Processes
          PROVE  /\ IsFiniteSet(Here(request, outside, p)) /\ inFlight[p] \in Nat
                 /\ inFlight[p] = Cardinality(Here(request, outside, p)) /\ inFlight[p] <= Slots
      BY <1>1
    <2>4. ASSUME outside' = outside, q.step # "none"
          PROVE  Came(request', outside') /\ outside \subseteq outside'
      BY <1>1, <2>2, <2>4
    <2>5. CASE Enters(r, q)
      <3> DEFINE s == q.process
      <3>1. /\ s \in Processes /\ inFlight[s] < Slots /\ outside' = outside /\ r \notin outside
            /\ inFlight' = [inFlight EXCEPT ![s] = @ + 1]
        BY <1>1, <2>5 DEF Enters
      <3>2. \A p \in Processes \ {s} : Here(request', outside', p) = Here(request, outside, p)
        BY <2>2, <2>5, <3>1 DEF Enters, AtWork
      <3>3. /\ Here(request', outside', s) = Here(request, outside, s) \union {r}
            /\ r \notin Here(request, outside, s)
        BY <2>2, <2>5, <3>1 DEF Enters, AtWork
      <3>4. /\ IsFiniteSet(Here(request, outside, s) \union {r})
            /\ Cardinality(Here(request, outside, s) \union {r})
                 = Cardinality(Here(request, outside, s)) + 1
        <4> DEFINE H == Here(request, outside, s)
        <4>1. IsFiniteSet(H) /\ r \notin H
          BY <2>3, <3>1, <3>3
        <4> HIDE DEF H
        <4>2. IsFiniteSet(H \union {r}) /\ Cardinality(H \union {r}) = Cardinality(H) + 1
          BY <4>1, FS_AddElement
        <4>3. QED
          BY <4>2 DEF H
      <3>5. Came(request', outside') /\ outside \subseteq outside'
        BY <2>4, <2>5, <3>1 DEF Enters, AtWork
      <3> HIDE DEF Here, Came
      <3>6. /\ inFlight[s] + 1 \in Nat /\ inFlight[s] + 1 <= Slots
            /\ inFlight[s] + 1 = Cardinality(Here(request', outside', s))
            /\ IsFiniteSet(Here(request', outside', s))
        BY <1>0, <2>3, <3>1, <3>3, <3>4
      <3>7. inFlight' \in [Processes -> Nat]
        BY <1>1, <3>1, <3>6
      <3>8. ASSUME NEW p \in Processes PROVE Fits(request', outside', inFlight'[p], p)
        BY <1>1, <3>1, <3>2, <3>6, <3>8
      <3>9. QED
        BY <3>5, <3>7, <3>8
    <2>6. CASE ComesOutside(r, q)
      <3>1. \A p \in Processes : Here(request', outside', p) = Here(request, outside, p)
        BY <2>2, <2>6 DEF ComesOutside, AtWork
      <3>2. IsFiniteSet(outside \union {r})
        BY <1>1, FS_AddElement
      <3>3. Came(request', outside') /\ outside \subseteq outside'
        BY <1>1, <2>2, <2>6, <3>2 DEF ComesOutside, AtWork
      <3> HIDE DEF Here, Came
      <3>4. QED
        BY <1>1, <2>6, <3>1, <3>3 DEF ComesOutside
    <2>7. CASE TurnedAway(r, q) \/ Continues(r, q)
      <3>1. \A p \in Processes : Here(request', outside', p) = Here(request, outside, p)
        BY <2>2, <2>7 DEF TurnedAway, Continues, AtWork
      <3>2. Came(request', outside') /\ outside \subseteq outside'
        BY <2>4, <2>7 DEF TurnedAway, Continues, AtWork
      <3> HIDE DEF Here, Came
      <3>3. QED
        BY <1>1, <2>7, <3>1, <3>2 DEF TurnedAway, Continues
    <2>8. CASE Ends(r, q) /\ r \in outside
      <3>1. \A p \in Processes : Here(request', outside', p) = Here(request, outside, p)
        BY <2>2, <2>8 DEF Ends, AtWork
      <3>2. Came(request', outside') /\ outside \subseteq outside'
        BY <2>4, <2>8 DEF Ends
      <3> HIDE DEF Here, Came
      <3>3. QED
        BY <1>1, <2>8, <3>1, <3>2 DEF Ends
    <2>9. CASE Ends(r, q) /\ r \notin outside
      <3> DEFINE s == request[r].process
      <3>1. /\ s \in Processes /\ inFlight' = [inFlight EXCEPT ![s] = @ - 1]
            /\ outside' = outside
        BY <2>2, <2>9 DEF Ends, InOrder
      <3>2. \A p \in Processes \ {s} : Here(request', outside', p) = Here(request, outside, p)
        BY <2>2, <2>9, <3>1 DEF Ends, AtWork
      <3>3. /\ Here(request', outside', s) = Here(request, outside, s) \ {r}
            /\ r \in Here(request, outside, s)
        BY <2>2, <2>9, <3>1 DEF Ends, AtWork
      <3>4. /\ IsFiniteSet(Here(request, outside, s) \ {r})
            /\ Cardinality(Here(request, outside, s) \ {r})
                 = Cardinality(Here(request, outside, s)) - 1
            /\ Cardinality(Here(request, outside, s) \ {r}) \in Nat
        <4> DEFINE H == Here(request, outside, s)
        <4>1. IsFiniteSet(H) /\ r \in H
          BY <2>3, <3>1, <3>3
        <4> HIDE DEF H
        <4>2. IsFiniteSet(H \ {r}) /\ Cardinality(H \ {r}) = Cardinality(H) - 1
          BY <4>1, FS_RemoveElement
        <4>3. Cardinality(H \ {r}) \in Nat
          BY <4>2, FS_CardinalityType
        <4>4. QED
          BY <4>2, <4>3 DEF H
      <3>5. Came(request', outside') /\ outside \subseteq outside'
        BY <2>4, <2>9, <3>1 DEF Ends
      <3> HIDE DEF Here, Came
      <3>6. /\ inFlight[s] - 1 \in Nat /\ inFlight[s] - 1 <= Slots
            /\ inFlight[s] - 1 = Cardinality(Here(request', outside', s))
            /\ IsFiniteSet(Here(request', outside', s))
        BY <1>0, <2>3, <3>1, <3>3, <3>4
      <3>7. inFlight' \in [Processes -> Nat]
        BY <1>1, <3>1, <3>6
      <3>8. ASSUME NEW p \in Processes PROVE Fits(request', outside', inFlight'[p], p)
        BY <1>1, <3>1, <3>2, <3>6, <3>8
      <3>9. QED
        BY <3>5, <3>7, <3>8
    <2>10. QED
      BY <2>1, <2>5, <2>6, <2>7, <2>8, <2>9 DEF RequestMoves
  <1>4. ASSUME request' = request, inFlight' = inFlight, outside' = outside PROVE Goal
    BY <1>1, <1>4
  <1>5. QED
    BY <1>3, <1>4 DEF Next, Acts, FinishJob, Purge, Tick, vars

-----------------------------------------------------------------------------
(* The backlog.                                                            *)

LEMMA Products ==
  ASSUME NEW j \in Nat, NEW m \in Nat, NEW n \in Nat
  PROVE  j * m \in Nat /\ j * (m + 1) = j * m + j /\ (m <= n => j * m <= j * n)
  <1>1. j * m \in Nat /\ j * (m + 1) = j * m + j
    OBVIOUS
  <1>2. ASSUME m <= n PROVE j * m <= j * n
    <2>1. PICK d \in Nat : n = m + d
      <3>1. n - m \in Nat /\ n = m + (n - m)
        BY <1>2
      <3>2. QED
        BY <3>1
    <2>2. j * n = j * m + j * d /\ j * d \in Nat /\ j * m \in Nat
      BY <2>1
    <2>3. QED
      BY <2>2
  <1>3. QED
    BY <1>1, <1>2

\* The requests at work have a slot or came without the context of a browser.
LEMMA FewAtWork ==
  ASSUME TypeOK, RequestsMakeSense, SlotsCounted
  PROVE  /\ IsFiniteSet(Active)
         /\ Cardinality(Active) <= Slots * Cardinality(Processes) + Cardinality(outside)
         /\ Slots * Cardinality(Processes) \in Nat /\ Cardinality(outside) \in Nat
  <1> DEFINE A == Active \ outside
             at == [r \in A |-> request[r].process]
  <1>1. at \in [A -> Processes]
    BY DEF RequestsMakeSense, InOrder, AtWork, Active
  <1>2. ASSUME NEW p \in Processes
        PROVE  LET Here == {r \in A : at[r] = p}
               IN IsFiniteSet(Here) /\ Cardinality(Here) <= Slots
    <2>1. {r \in A : at[r] = p} = ActiveAt(p)
      BY DEF ActiveAt
    <2>2. QED
      BY <2>1 DEF TypeOK, SlotsCounted
  <1>3. IsFiniteSet(Processes) /\ Slots \in Nat /\ IsFiniteSet(outside)
    BY AdmissionAssumption DEF SlotsCounted
  <1>4. Slots * Cardinality(Processes) \in Nat /\ Cardinality(outside) \in Nat
    BY <1>3, FS_CardinalityType, Products
  <1>5. Active \subseteq A \union outside
    OBVIOUS
  <1> HIDE DEF at, A
  <1>6. IsFiniteSet(A) /\ Cardinality(A) <= Slots * Cardinality(Processes)
    BY <1>1, <1>2, <1>3, Slotted
  <1>7. /\ IsFiniteSet(A \union outside)
        /\ Cardinality(A \union outside)
             = Cardinality(A) + Cardinality(outside) - Cardinality(A \cap outside)
    BY <1>3, <1>6, FS_Union
  <1>8. Cardinality(A) \in Nat /\ Cardinality(A \cap outside) \in Nat
    BY <1>3, <1>6, FS_Intersection, FS_CardinalityType
  <1>9. /\ IsFiniteSet(Active) /\ Cardinality(Active) <= Cardinality(A \union outside)
        /\ Cardinality(Active) \in Nat
    BY <1>5, <1>7, FS_Subset, FS_CardinalityType
  <1>10. QED
    BY <1>4, <1>6, <1>7, <1>8, <1>9

\* With no more jobs and files on their way, what had room has room.
LEMMA RoomRemains ==
  ASSUME NEW j \in Nat, NEW m \in Nat, NEW s \in Nat, NEW jobs \in Nat, NEW files \in Nat,
         NEW most \in Nat, NEW out \in Nat,
         NEW jobs2 \in Nat, NEW files2 \in Nat, NEW out2 \in Nat,
         jobs + j * files <= m - 1 + j * most, files <= most, most <= s + out,
         jobs2 <= jobs, files2 <= files, out <= out2
  PROVE  jobs2 + j * files2 <= m - 1 + j * most /\ files2 <= most /\ most <= s + out2
  <1>1. j * files2 <= j * files /\ j * files2 \in Nat /\ j * files \in Nat /\ j * most \in Nat
    BY Products
  <1>2. QED
    BY <1>1

\* A look at the backlog leaves room for all that are on their way at most.
LEMMA RoomStep ==
  ASSUME TypeOK, RequestsMakeSense, SlotsCounted, RoomLeft, [Next]_vars
  PROVE  RoomLeft' /\ busiest' \in Nat
  <1> DEFINE J == JobsPerFile[kind]
             M == MaxBacklog[kind]
             S == Slots * Cardinality(Processes)
             B == BeforeCommit
             c == Cardinality(B)
             o == Cardinality(outside)
             Goal == /\ backlog' + J * Cardinality(B') <= M - 1 + J * busiest'
                     /\ Cardinality(B') <= busiest'
                     /\ busiest' <= S + Cardinality(outside')
                     /\ busiest' \in Nat
  <1>1. /\ J \in Nat /\ M \in Nat /\ S \in Nat /\ backlog \in Nat /\ kind \in Kinds
        /\ kind' = kind /\ clock \in 0..MaxTime /\ busiest \in Nat /\ o \in Nat
        /\ backlog' \in Nat
    BY AdmissionAssumption, FewAtWork, DataStep DEF TypeOK
  <1>2. IsFiniteSet(Active) /\ B \subseteq Active /\ Cardinality(Active) <= S + o
    BY FewAtWork DEF BeforeCommit, Active
  <1>3. IsFiniteSet(B) /\ c \in Nat
    BY <1>2, FS_Subset, FS_CardinalityType
  <1>4. backlog + J * c <= M - 1 + J * busiest /\ c <= busiest /\ busiest <= S + o
    BY DEF RoomLeft
  <1>5. o <= Cardinality(outside') /\ Cardinality(outside') \in Nat
    <2>1. outside \subseteq outside' /\ IsFiniteSet(outside')
      BY SlotsStep DEF SlotsCounted
    <2>2. QED
      BY <2>1, FS_Subset, FS_CardinalityType
  <1>6. SUFFICES Goal
    BY <1>1 DEF RoomLeft
  <1>7. ASSUME B' \subseteq B
        PROVE  Cardinality(B') <= c /\ Cardinality(B') \in Nat
    BY <1>3, <1>7, FS_Subset, FS_CardinalityType
  <1>8. ASSUME backlog' <= backlog, B' \subseteq B, busiest' = busiest PROVE Goal
    <2>1. Cardinality(B') <= c /\ Cardinality(B') \in Nat
      BY <1>7, <1>8
    <2> HIDE DEF J, M, S, B, c, o
    <2>2. QED
      BY <1>1, <1>3, <1>4, <1>5, <1>8, <2>1, RoomRemains
  <1>9. ASSUME NEW r \in Requests, CheckFile(r) PROVE Goal
    <2>1. /\ request[r].step = "check" /\ backlog' = backlog /\ request[r] \in Request
          /\ busiest' = IF Cardinality(B') > busiest THEN Cardinality(B') ELSE busiest
      BY <1>1, <1>9, Asks DEF CheckFile
    <2>2. CASE HasRoom(backlog)
      <3>1. request' = [request EXCEPT ![r] = Committing(request[r])]
        BY <1>9, <2>2 DEF CheckFile
      <3>2. B' = B \union {r} /\ B \union {r} \subseteq Active
        BY <2>1, <3>1, Updates DEF BeforeCommit, Active, RequestsMakeSense
      <3>3. Cardinality(B') <= S + o /\ Cardinality(B') \in Nat
        <4>1. IsFiniteSet(B') /\ Cardinality(B') <= Cardinality(Active)
          BY <1>2, <3>2, FS_Subset
        <4>2. Cardinality(B') \in Nat /\ Cardinality(Active) \in Nat
          BY <1>2, <4>1, FS_CardinalityType
        <4>3. QED
          BY <1>1, <1>2, <4>1, <4>2
      <3>4. backlog <= M - 1
        BY <1>1, <2>2 DEF HasRoom
      <3> DEFINE n == Cardinality(B')
      <3> HIDE DEF J, M, S, B, c, o, n
      <3>5. n \in Nat /\ n <= S + o /\ busiest' = IF n > busiest THEN n ELSE busiest
        BY <2>1, <3>3 DEF n
      <3>6. busiest' \in Nat /\ n <= busiest' /\ busiest' <= S + Cardinality(outside')
        BY <1>1, <1>4, <1>5, <3>5
      <3>7. J * n <= J * busiest' /\ J * n \in Nat /\ J * busiest' \in Nat
        BY <1>1, <3>5, <3>6, Products
      <3>8. backlog' + J * n <= M - 1 + J * busiest'
        BY <1>1, <2>1, <3>4, <3>7
      <3>9. QED
        BY <3>6, <3>8 DEF n
    <2>3. CASE ~HasRoom(backlog)
      <3>1. request' = [request EXCEPT ![r] = NextFile(request[r])]
        BY <1>9, <2>3 DEF CheckFile
      <3>2. B' \subseteq B
        BY <2>1, <3>1, Updates DEF BeforeCommit, RequestsMakeSense
      <3>3. Cardinality(B') <= c /\ Cardinality(B') \in Nat
        BY <1>7, <3>2
      <3> HIDE DEF J, M, S, B, c, o
      <3>4. busiest' = busiest
        BY <1>1, <1>3, <1>4, <2>1, <3>3
      <3>5. backlog' <= backlog
        BY <1>1, <2>1
      <3>6. QED
        BY <1>8, <3>2, <3>4, <3>5
    <2>4. QED
      BY <2>2, <2>3
  <1>10. ASSUME NEW r \in Requests, CommitFile(r) PROVE Goal
    <2>1. /\ request[r].step = "commit" /\ request[r] \in Request
          /\ request' = [request EXCEPT ![r] = NextFile(request[r])]
          /\ backlog' \in {backlog, backlog + J} /\ busiest' = busiest
      BY <1>1, <1>10, Asks DEF CommitFile, ghosts
    <2>2. B' = B \ {r} /\ r \in B
      BY <2>1, Updates DEF BeforeCommit, RequestsMakeSense
    <2>3. Cardinality(B') = c - 1 /\ Cardinality(B') \in Nat
      <3> HIDE DEF B
      <3>1. IsFiniteSet(B \ {r}) /\ Cardinality(B \ {r}) = Cardinality(B) - 1
        BY <1>3, <2>2, FS_RemoveElement
      <3>2. Cardinality(B \ {r}) \in Nat
        BY <3>1, FS_CardinalityType
      <3>3. QED
        BY <2>2, <3>1, <3>2
    <2> HIDE DEF J, M, S, B, c, o
    <2>4. J * c = J * Cardinality(B') + J /\ J * Cardinality(B') \in Nat /\ J * busiest \in Nat
      <3>1. c = Cardinality(B') + 1
        BY <1>3, <2>3
      <3>2. QED
        BY <1>1, <2>3, <3>1, Products
    <2>5. backlog' + J * Cardinality(B') <= M - 1 + J * busiest
      BY <1>1, <1>4, <2>1, <2>4
    <2>6. Cardinality(B') <= busiest /\ busiest <= S + Cardinality(outside')
      BY <1>1, <1>3, <1>4, <1>5, <2>3
    <2>7. QED
      BY <1>1, <2>1, <2>5, <2>6
  <1>11. ASSUME NEW r \in Requests, NEW q \in Request, q.step # "commit", backlog' = backlog,
                busiest' = busiest, request' = [request EXCEPT ![r] = q]
         PROVE  Goal
    <2>1. B' \subseteq B
      BY <1>11 DEF BeforeCommit, RequestsMakeSense
    <2>2. backlog' <= backlog
      BY <1>1, <1>11
    <2>3. QED
      BY <1>8, <1>11, <2>1, <2>2
  <1>12. ASSUME NEW r \in Requests, Acts(r) PROVE Goal
    <2>0. request[r] \in Request
      BY <1>1, Asks
    <2>1. ASSUME NEW v \in Visitors, NEW p \in Processes, NEW files \in 1..MaxFiles,
                 Dispatch(r, v, p, files) \/ DispatchOutside(r, v, p, files)
          PROVE  Goal
      <3>1. /\ request' = [request EXCEPT ![r] = Admitted(v, p, files)]
               \/ request' = [request EXCEPT ![r] = Done]
            /\ backlog' = backlog /\ busiest' = busiest
        BY <2>1 DEF Dispatch, DispatchOutside, ghosts
      <3>2. QED
        BY <1>11, <3>1, AdmittedRequest, DoneInOrder
    <2>2. CASE ReadClock(r)
      <3>1. request[r].step = "limits" /\ backlog' = backlog /\ busiest' = busiest
        BY <2>2 DEF ReadClock, ghosts
      <3>2. PICK w \in 0..MaxTime : request' = [request EXCEPT ![r] = InWindow(request[r], w)]
        BY <1>1, <2>2, ReadsAWindow
      <3>3. QED
        BY <1>11, <2>0, <3>1, <3>2, InWindowUpdates
    <2>3. CASE Leaves(r) /\ backlog' = backlog /\ busiest' = busiest
      BY <1>11, <2>3, DoneInOrder DEF Leaves
    <2>4. CASE Hit(r) /\ ~Leaves(r)
      <3>1. /\ request[r].step = "limits" /\ backlog' = backlog /\ busiest' = busiest
            /\ \/ request' = [request EXCEPT ![r] = PassedAll(request[r])]
               \/ request' = [request EXCEPT ![r] = PassedOne(request[r])]
        BY <2>4 DEF Hit
      <3>2. QED
        BY <1>11, <2>0, <3>1, Updates
    <2>5. CASE EnsureCapacity(r) /\ ~Leaves(r)
      <3>1. /\ request' = [request EXCEPT ![r] = Checking(request[r])]
            /\ backlog' = backlog /\ busiest' = busiest
        BY <2>5 DEF EnsureCapacity, ghosts
      <3>2. QED
        BY <1>11, <2>0, <3>1, Updates
    <2>6. CASE (Hit(r) \/ EnsureCapacity(r)) /\ Leaves(r)
      BY <2>3, <2>6 DEF Hit, EnsureCapacity, ghosts
    <2>7. CASE HitFails(r) \/ Refuse(r) \/ EndRequest(r)
      BY <2>3, <2>7 DEF HitFails, Refuse, EndRequest, ghosts
    <2>8. QED
      BY <1>9, <1>10, <1>12, <2>1, <2>2, <2>4, <2>5, <2>6, <2>7 DEF Acts
  <1>13. ASSUME request' = request, backlog' <= backlog, busiest' = busiest PROVE Goal
    BY <1>8, <1>13 DEF BeforeCommit
  <1>14. CASE FinishJob
    <2>1. request' = request /\ backlog' = backlog - 1 /\ busiest' = busiest
      BY <1>14 DEF FinishJob, ghosts
    <2>2. QED
      BY <1>1, <1>13, <2>1
  <1>15. CASE Purge \/ Tick \/ UNCHANGED vars
    BY <1>1, <1>13, <1>15 DEF Purge, Tick, vars, ghosts
  <1>16. QED
    BY <1>12, <1>14, <1>15 DEF Next, Acts

\* What is on its way only adds to the backlog.
LEMMA RoomSuffices ==
  ASSUME TypeOK, RequestsMakeSense, SlotsCounted, RoomLeft
  PROVE  BacklogBounded
  <1> DEFINE J == JobsPerFile[kind]
             c == Cardinality(BeforeCommit)
  <1>1. J \in Nat /\ MaxBacklog[kind] \in Nat /\ backlog \in Nat /\ busiest \in Nat
    BY AdmissionAssumption DEF TypeOK
  <1>2. c \in Nat
    <2>1. IsFiniteSet(Active) /\ BeforeCommit \subseteq Active
      BY FewAtWork DEF BeforeCommit, Active
    <2>2. IsFiniteSet(BeforeCommit)
      BY <2>1, FS_Subset
    <2>3. QED
      BY <2>2, FS_CardinalityType
  <1>3. /\ backlog + J * c <= MaxBacklog[kind] - 1 + J * busiest
        /\ busiest <= Slots * Cardinality(Processes) + Cardinality(outside)
    BY DEF RoomLeft
  <1>4. BacklogBounded <=> /\ backlog <= MaxBacklog[kind] - 1 + J * busiest
                           /\ busiest <= Slots * Cardinality(Processes) + Cardinality(outside)
    BY DEF BacklogBounded
  <1> HIDE DEF J, c
  <1>5. J * c \in Nat /\ J * busiest \in Nat
    BY <1>1, <1>2, Products
  <1>6. backlog <= MaxBacklog[kind] - 1 + J * busiest
    BY <1>1, <1>2, <1>3, <1>5
  <1>7. QED
    BY <1>3, <1>4, <1>6

-----------------------------------------------------------------------------
(* The limits that all processes share.                                    *)

\* What is in a limit.
LEMMA KeysHaveLimits ==
  ASSUME kind \in Kinds, NEW key \in KeysOf(Shared)
  PROVE  /\ key[1] \in 1..Len(Shared) /\ Len(Shared) \in Nat
         /\ Shared[key[1]].limit \in Nat /\ Shared[key[1]].window \in Nat
  <1>1. key[1] \in DOMAIN Shared
    BY DEF KeysOf
  <1>2. QED
    BY <1>1, LimitTypes

\* What a request counts where it counts.
LEMMA CountsWhere ==
  ASSUME TypeOK, RequestsMakeSense, NEW r \in Requests,
         request[r].step = "limits", request[r].window # NoWindow
  PROVE  /\ KeyFor(r) \in KeysOf(Shared) /\ KeyFor(r)[1] = request[r].check
         /\ request[r].window \in 0..MaxTime /\ Units(r) \in Nat
         /\ ~(ExpiresAt(request[r].window, Shared[KeyFor(r)[1]].window) < clock)
         /\ Check(r) = Shared[KeyFor(r)[1]]
         /\ Counted(r) = Adds(rows, KeyFor(r), request[r].window, Units(r))
  <1>1. kind \in Kinds /\ clock \in Nat
    BY AdmissionAssumption DEF TypeOK
  <1>2. /\ KeyFor(r) \in KeysOf(Shared) /\ KeyFor(r)[1] = request[r].check
        /\ request[r] \in Request /\ InOrder(request[r]) /\ Units(r) \in Nat
    BY <1>1, Asks
  <1>3. request[r].window \in 0..MaxTime
    BY <1>2 DEF Request
  <1>4. clock < ExpiresAt(request[r].window, Shared[KeyFor(r)[1]].window)
    BY <1>2 DEF InOrder, AtWork
  <1>5. ExpiresAt(request[r].window, Shared[KeyFor(r)[1]].window) \in Nat
    <2> DEFINE w == request[r].window
               W == Shared[KeyFor(r)[1]].window
    <2>1. w \in Nat /\ W \in Nat
      BY <1>1, <1>2, <1>3, KeysHaveLimits
    <2> HIDE DEF w, W
    <2>2. ExpiresAt(w, W) \in Nat
      BY <2>1 DEF ExpiresAt
    <2>3. QED
      BY <2>2 DEF w, W
  <1>6. QED
    BY <1>1, <1>2, <1>3, <1>4, <1>5 DEF Check, Counted, Adds

\* After a hit of u, counts are as before, up to the window w of the key.
AddedTo(g, f, key, w, u) ==
  /\ g \in [KeysOf(Shared) -> [0..MaxTime -> Nat]]
  /\ \A k \in KeysOf(Shared) \ {key} : g[k] = f[k]
  /\ g[key] = [f[key] EXCEPT ![w] = f[key][w] + u]
  /\ \A x \in (0..MaxTime) \ {w} : g[key][x] = f[key][x]
  /\ g[key][w] = f[key][w] + u

LEMMA CountedIn ==
  ASSUME NEW f \in [KeysOf(Shared) -> [0..MaxTime -> Nat]],
         NEW key \in KeysOf(Shared), NEW w \in 0..MaxTime, NEW u \in Nat
  PROVE  AddedTo(Adds(f, key, w, u), f, key, w, u)
  <1> DEFINE K == KeysOf(Shared)
             g == Adds(f, key, w, u)
  <1>1. f \in [K -> [0..MaxTime -> Nat]] /\ key \in K
    OBVIOUS
  <1> HIDE DEF K
  <1>2. /\ g \in [K -> [0..MaxTime -> Nat]]
        /\ \A k \in K \ {key} : g[k] = f[k]
        /\ g[key] = [f[key] EXCEPT ![w] = f[key][w] + u]
        /\ \A x \in (0..MaxTime) \ {w} : g[key][x] = f[key][x]
        /\ g[key][w] = f[key][w] + u
    BY <1>1, AddsTyped
  <1>3. QED
    BY <1>2 DEF AddedTo, K

\* What is in a window of a key.
Counts(p, n, key, w) ==
  /\ p <= Shared[key[1]].limit
  /\ p <= n \/ ExpiresAt(w, Shared[key[1]].window) < clock

LEMMA PassedStep ==
  ASSUME TypeOK, RequestsMakeSense, PassedAreCounted, [Next]_vars
  PROVE  PassedAreCounted'
  <1> DEFINE C == [KeysOf(Shared) -> [0..MaxTime -> Nat]]
  <1>1. /\ kind \in Kinds /\ kind' = kind /\ clock \in Nat /\ rows \in C /\ passed \in C
        /\ rows' \in C
    <2>1. kind' = kind /\ rows' \in C
      BY DataStep
    <2>2. kind \in Kinds /\ clock \in Nat /\ rows \in C /\ passed \in C
      BY AdmissionAssumption DEF TypeOK, PassedAreCounted
    <2>3. QED
      BY <2>1, <2>2
  <1>2. \A key \in KeysOf(Shared), w \in 0..MaxTime : Counts(passed[key][w], rows[key][w], key, w)
    BY DEF PassedAreCounted, Counts
  <1>3. SUFFICES /\ passed' \in C
                 /\ \A key \in KeysOf(Shared), w \in 0..MaxTime :
                      Counts(passed[key][w], rows[key][w], key, w)'
    BY <1>1 DEF PassedAreCounted, Counts, KeysOf, Shared
  <1>4. ASSUME NEW key \in KeysOf(Shared), NEW w \in 0..MaxTime
        PROVE  /\ passed[key][w] \in Nat /\ rows[key][w] \in Nat
               /\ Shared[key[1]].limit \in Nat
               /\ ExpiresAt(w, Shared[key[1]].window) \in Nat
    <2>1. passed[key] \in [0..MaxTime -> Nat] /\ rows[key] \in [0..MaxTime -> Nat]
      BY <1>1
    <2> DEFINE W == Shared[key[1]].window
    <2>2. W \in Nat /\ Shared[key[1]].limit \in Nat
      BY <1>1, KeysHaveLimits
    <2> HIDE DEF W
    <2>3. ExpiresAt(w, W) \in Nat
      BY <2>2 DEF ExpiresAt
    <2>4. QED
      BY <2>1, <2>2, <2>3 DEF W
  <1>5. ASSUME passed' = passed, clock' = clock,
               \A key \in KeysOf(Shared), w \in 0..MaxTime : rows[key][w] <= rows'[key][w]
        PROVE  /\ passed' \in C
               /\ \A key \in KeysOf(Shared), w \in 0..MaxTime :
                    Counts(passed[key][w], rows[key][w], key, w)'
    <2>1. ASSUME NEW key \in KeysOf(Shared), NEW w \in 0..MaxTime
          PROVE  Counts(passed[key][w], rows[key][w], key, w)'
      <3>1. Counts(passed[key][w], rows[key][w], key, w) /\ rows[key][w] <= rows'[key][w]
        BY <1>2, <1>5
      <3>2. /\ passed[key][w] \in Nat /\ rows[key][w] \in Nat /\ rows'[key][w] \in Nat
        <4>1. rows'[key] \in [0..MaxTime -> Nat]
          BY <1>1
        <4>2. QED
          BY <1>4, <4>1
      <3>3. passed[key][w] <= rows[key][w] => passed[key][w] <= rows'[key][w]
        BY <3>1, <3>2
      <3>4. QED
        BY <1>1, <1>5, <3>1, <3>3 DEF Counts, Shared
    <2>2. QED
      BY <1>1, <1>5, <2>1
  <1>6. ASSUME NEW r \in Requests, Hit(r)
        PROVE  /\ passed' \in C
               /\ \A key \in KeysOf(Shared), w \in 0..MaxTime :
                    Counts(passed[key][w], rows[key][w], key, w)'
    <2> DEFINE k == KeyFor(r)
               v == request[r].window
               u == Units(r)
    <2>1. request[r].step = "limits" /\ v # NoWindow /\ rows' = Counted(r) /\ clock' = clock
      BY <1>6 DEF Hit
    <2>2. /\ k \in KeysOf(Shared) /\ v \in 0..MaxTime /\ u \in Nat
          /\ ~(ExpiresAt(v, Shared[k[1]].window) < clock) /\ rows' = Adds(rows, k, v, u)
      BY <2>1, CountsWhere
    <2>3. \/ passed' = Adds(passed, k, v, u) /\ rows'[k][v] <= Shared[k[1]].limit
          \/ passed' = passed
      BY <1>6, <2>1, CountsWhere DEF Hit, Adds, Allowed
    <2> HIDE DEF k, v, u
    <2>4. /\ \A o \in KeysOf(Shared) \ {k} : rows'[o] = rows[o]
          /\ \A x \in (0..MaxTime) \ {v} : rows'[k][x] = rows[k][x]
          /\ rows'[k][v] = rows[k][v] + u
      <3>1. AddedTo(rows', rows, k, v, u)
        BY <1>1, <2>2, CountedIn
      <3>2. QED
        BY <3>1 DEF AddedTo
    <2>5. CASE passed' = passed
      <3>1. ASSUME NEW key \in KeysOf(Shared), NEW w \in 0..MaxTime
            PROVE  rows[key][w] <= rows'[key][w]
        <4>1. rows[key][w] \in Nat
          BY <1>4
        <4>2. CASE key = k /\ w = v
          BY <2>2, <2>4, <4>1, <4>2
        <4>3. CASE ~(key = k /\ w = v)
          <5>1. rows'[key][w] = rows[key][w]
            BY <2>4, <4>3
          <5>2. QED
            BY <4>1, <5>1
        <4>4. QED
          BY <4>2, <4>3
      <3>2. QED
        BY <1>5, <2>1, <2>5, <3>1
    <2>6. CASE passed' = Adds(passed, k, v, u) /\ rows'[k][v] <= Shared[k[1]].limit
      <3>1. /\ passed' \in C
            /\ \A o \in KeysOf(Shared) \ {k} : passed'[o] = passed[o]
            /\ \A x \in (0..MaxTime) \ {v} : passed'[k][x] = passed[k][x]
            /\ passed'[k][v] = passed[k][v] + u
        <4>1. AddedTo(passed', passed, k, v, u)
          BY <1>1, <2>2, <2>6, CountedIn
        <4>2. QED
          BY <4>1 DEF AddedTo
      <3>2. ASSUME NEW key \in KeysOf(Shared), NEW w \in 0..MaxTime
            PROVE  Counts(passed[key][w], rows[key][w], key, w)'
        <4>1. CASE key = k /\ w = v
          <5>1. passed[k][v] <= rows[k][v]
            BY <1>2, <2>2 DEF Counts
          <5>2. /\ passed[k][v] \in Nat /\ rows[k][v] \in Nat /\ u \in Nat
                /\ Shared[k[1]].limit \in Nat
            BY <1>4, <2>2
          <5>3. passed'[k][v] <= rows'[k][v] /\ passed'[k][v] <= Shared[k[1]].limit
            <6> DEFINE a == passed[k][v]
                       b == rows[k][v]
                       l == Shared[k[1]].limit
            <6>1. /\ a \in Nat /\ b \in Nat /\ u \in Nat /\ l \in Nat /\ a <= b
                  /\ passed'[k][v] = a + u /\ rows'[k][v] = b + u /\ b + u <= l
              BY <2>4, <2>6, <3>1, <5>1, <5>2
            <6> HIDE DEF a, b, l
            <6>2. a + u <= b + u /\ a + u <= l
              BY <6>1
            <6>3. QED
              BY <6>1, <6>2 DEF l
          <5>4. QED
            BY <1>1, <4>1, <5>3 DEF Counts, Shared
        <4>2. CASE ~(key = k /\ w = v)
          <5>1. rows'[key][w] = rows[key][w] /\ passed'[key][w] = passed[key][w]
            BY <2>4, <3>1, <4>2
          <5>2. Counts(passed[key][w], rows[key][w], key, w)
            BY <1>2
          <5>3. QED
            BY <1>1, <2>1, <5>1, <5>2 DEF Counts, Shared
        <4>3. QED
          BY <4>1, <4>2
      <3>3. QED
        BY <3>1, <3>2
    <2>7. QED
      BY <2>3, <2>5, <2>6
  <1>7. CASE \E r \in Requests : HitFails(r)
    <2>1. PICK r \in Requests : HitFails(r)
      BY <1>7
    <2> DEFINE k == KeyFor(r)
               v == request[r].window
               u == Units(r)
    <2>2. /\ request[r].step = "limits" /\ v # NoWindow /\ clock' = clock /\ passed' = passed
          /\ rows' = rows \/ rows' = Counted(r)
      BY <2>1 DEF HitFails, ghosts
    <2>3. /\ k \in KeysOf(Shared) /\ v \in 0..MaxTime /\ u \in Nat
          /\ rows' = rows \/ rows' = Adds(rows, k, v, u)
      BY <2>2, CountsWhere
    <2> HIDE DEF k, v, u
    <2>4. ASSUME NEW key \in KeysOf(Shared), NEW w \in 0..MaxTime
          PROVE  rows[key][w] <= rows'[key][w]
      <3>1. rows[key][w] \in Nat
        BY <1>4
      <3>2. rows'[key][w] \in {rows[key][w], rows[key][w] + u}
        <4>1. rows' = rows \/ AddedTo(rows', rows, k, v, u)
          BY <1>1, <2>3, CountedIn
        <4>2. QED
          BY <4>1 DEF AddedTo
      <3>3. QED
        BY <2>3, <3>1, <3>2
    <2>5. QED
      BY <1>5, <2>2, <2>4
  <1>8. CASE rows' = rows /\ passed' = passed /\ clock' = clock
    BY <1>4, <1>5, <1>8
  <1>9. CASE Purge
    <2>1. /\ passed' = passed /\ clock' = clock
          /\ rows' = [key \in DOMAIN rows |-> [w \in 0..MaxTime |->
               IF ExpiresAt(w, Shared[key[1]].window) < clock THEN 0 ELSE rows[key][w]]]
      BY <1>9 DEF Purge, ghosts
    <2>2. ASSUME NEW key \in KeysOf(Shared), NEW w \in 0..MaxTime
          PROVE  Counts(passed[key][w], rows[key][w], key, w)'
      <3>1. Counts(passed[key][w], rows[key][w], key, w)
        BY <1>2
      <3>2. \/ rows'[key][w] = rows[key][w]
            \/ ExpiresAt(w, Shared[key[1]].window) < clock
        BY <1>1, <2>1
      <3>3. QED
        BY <1>1, <2>1, <3>1, <3>2 DEF Counts, Shared
    <2>3. QED
      BY <1>1, <2>1, <2>2
  <1>10. CASE Tick
    <2>1. rows' = rows /\ passed' = passed /\ clock' = clock + 1
      BY <1>10 DEF Tick, ghosts
    <2>2. ASSUME NEW key \in KeysOf(Shared), NEW w \in 0..MaxTime
          PROVE  Counts(passed[key][w], rows[key][w], key, w)'
      <3>1. Counts(passed[key][w], rows[key][w], key, w)
        BY <1>2
      <3> DEFINE e == ExpiresAt(w, Shared[key[1]].window)
      <3>2. e \in Nat
        BY <1>4
      <3> HIDE DEF e
      <3>3. e < clock => e < clock + 1
        BY <1>1, <3>2
      <3>4. QED
        BY <1>1, <2>1, <3>1, <3>3 DEF Counts, Shared, e
    <2>3. QED
      BY <1>1, <2>1, <2>2
  <1>11. ASSUME NEW r \in Requests, Acts(r), ~Hit(r), ~HitFails(r)
         PROVE  rows' = rows /\ passed' = passed /\ clock' = clock
    <2>1. \/ \E v \in Visitors, p \in Processes, files \in 1..MaxFiles :
               Dispatch(r, v, p, files) \/ DispatchOutside(r, v, p, files)
          \/ ReadClock(r) \/ Refuse(r) \/ EnsureCapacity(r)
          \/ CheckFile(r) \/ CommitFile(r) \/ EndRequest(r)
      BY <1>11 DEF Acts
    <2>2. QED
      BY <2>1 DEF Dispatch, DispatchOutside, ReadClock, Refuse, EnsureCapacity, CheckFile,
               CommitFile, EndRequest, ghosts
  <1>12. CASE FinishJob \/ UNCHANGED vars
    BY <1>8, <1>12 DEF FinishJob, vars, ghosts
  <1>13. ASSUME NEW r \in Requests, Acts(r)
         PROVE  /\ passed' \in C
                /\ \A key \in KeysOf(Shared), w \in 0..MaxTime :
                     Counts(passed[key][w], rows[key][w], key, w)'
    BY <1>6, <1>7, <1>8, <1>11, <1>13
  <1>14. QED
    BY <1>9, <1>10, <1>12, <1>13 DEF Next, Acts

-----------------------------------------------------------------------------
(* What a visitor was refused is not taken from the budget of all.         *)

\* Sums of the same numbers.
LEMMA SumSame ==
  ASSUME NEW f, NEW g, NEW S, IsFiniteSet(S), \A x \in S : f[x] \in Nat /\ g[x] = f[x]
  PROVE  Sum(g, S) = Sum(f, S)
  <1>1. Sum(f, S) \in Nat /\ Sum(g, S) \in Nat
    BY SumNat
  <1>2. Sum(f, S) <= Sum(g, S) /\ Sum(g, S) <= Sum(f, S)
    BY SumMonotone
  <1>3. QED
    BY <1>1, <1>2

\* One number joins, or goes, and the others stay.
LEMMA SumJoined ==
  ASSUME NEW f, NEW g, NEW S, IsFiniteSet(S), NEW x, x \notin S,
         g[x] \in Nat, \A y \in S : f[y] \in Nat /\ g[y] = f[y]
  PROVE  Sum(g, S \union {x}) = Sum(f, S) + g[x]
  <1> DEFINE T == S \union {x}
  <1>1. IsFiniteSet(T) /\ x \in T /\ T \ {x} = S /\ \A y \in T : g[y] \in Nat
    BY FS_AddElement
  <1> HIDE DEF T
  <1>2. Sum(g, T) = g[x] + Sum(g, T \ {x})
    BY <1>1, SumPick
  <1>3. Sum(g, S) = Sum(f, S) /\ Sum(f, S) \in Nat
    BY SumSame, SumNat
  <1>4. QED
    BY <1>1, <1>2, <1>3 DEF T

LEMMA SumLeft ==
  ASSUME NEW f, NEW g, NEW S, IsFiniteSet(S), NEW x \in S,
         f[x] \in Nat, \A y \in S \ {x} : f[y] \in Nat /\ g[y] = f[y]
  PROVE  Sum(f, S) = Sum(g, S \ {x}) + f[x]
  <1> DEFINE T == S \ {x}
  <1>1. IsFiniteSet(T) /\ \A y \in T : f[y] \in Nat /\ g[y] = f[y]
    BY FS_RemoveElement
  <1>2. \A y \in S : f[y] \in Nat
    OBVIOUS
  <1>3. Sum(f, S) = f[x] + Sum(f, T)
    BY <1>2, SumPick
  <1> HIDE DEF T
  <1>4. Sum(g, T) = Sum(f, T) /\ Sum(f, T) \in Nat
    BY <1>1, SumSame, SumNat
  <1>5. QED
    BY <1>3, <1>4 DEF T

\* The terms of BudgetSpared for counts n, requests req, and what passed p.
RowSum(n, key) == Sum(n[key], 0..MaxTime)
FirstSum(p) == Sum([v \in Visitors |-> RowSum(p, <<1, v>>)], Visitors)
UnitsOf(q) == IF kind = "upload" THEN q.files ELSE 1
OnWay(q, i) == q.step = "limits" /\ q.check \in 2..i
Way(req, i) == {r \in Requests : OnWay(req[r], i)}
WaySum(req, i) == Sum([r \in Requests |-> UnitsOf(req[r])], Way(req, i))
Spared(n, req, p) ==
  Shared[1].bucket = "visitor" =>
    \A key \in KeysOf(Shared) : key[1] > 1 =>
      RowSum(n, key) + WaySum(req, key[1]) <= FirstSum(p)

LEMMA BudgetIsSpared ==
  /\ BudgetSpared <=> Spared(rows, request, passed)
  /\ kind' = kind => (BudgetSpared' <=> Spared(rows', request', passed'))
  <1>1. /\ FirstPassed = FirstSum(passed)
        /\ FirstPassed' = FirstSum(passed')
    BY DEF FirstPassed, FirstSum, RowSum
  <1>2. \A r \in Requests : Units(r) = UnitsOf(request[r])
    BY DEF Units, UnitsOf
  <1>3. [r \in Requests |-> Units(r)] = [r \in Requests |-> UnitsOf(request[r])]
    BY <1>2
  <1>4. ASSUME kind' = kind, NEW r \in Requests PROVE Units(r)' = UnitsOf(request'[r])
    BY <1>4 DEF Units, UnitsOf
  <1>5. kind' = kind =>
          [r \in Requests |-> Units(r)]' = [r \in Requests |-> UnitsOf(request'[r])]
    BY <1>4
  <1>6. \A i : OnTheWay(i) = Way(request, i) /\ OnTheWay(i)' = Way(request', i)
    BY DEF OnTheWay, Way, OnWay
  <1>7. BudgetSpared <=> Spared(rows, request, passed)
    BY <1>1, <1>3, <1>6 DEF BudgetSpared, Spared, RowSum, WaySum
  <1>8. kind' = kind => (BudgetSpared' <=> Spared(rows', request', passed'))
    BY <1>1, <1>5, <1>6 DEF BudgetSpared, Spared, RowSum, WaySum, KeysOf, Shared
  <1>9. QED
    BY <1>7, <1>8

LEMMA FirstKey ==
  ASSUME kind \in Kinds, NEW v \in Visitors
  PROVE  <<1, v>> \in KeysOf(Shared) /\ <<1, v>>[1] = 1 /\ <<1, v>>[2] = v
  <1>1. DOMAIN Shared = 1..Len(Shared) /\ Len(Shared) \in Nat \ {0}
    BY LimitTypes
  <1>2. 1 \in DOMAIN Shared
    BY <1>1
  <1>3. QED
    BY <1>2 DEF KeysOf

LEMMA TimesFinite == IsFiniteSet(0..MaxTime)
  <1>1. 0 \in Int /\ MaxTime \in Int
    BY AdmissionAssumption
  <1>2. QED
    BY ONLY <1>1, FS_Interval

LEMMA RowSumTyped ==
  ASSUME NEW n \in [KeysOf(Shared) -> [0..MaxTime -> Nat]], NEW key \in KeysOf(Shared)
  PROVE  RowSum(n, key) \in Nat
  <1> DEFINE f == n[key]
             T == 0..MaxTime
  <1>1. \A x \in T : f[x] \in Nat
    OBVIOUS
  <1>2. IsFiniteSet(T)
    BY TimesFinite
  <1> HIDE DEF f, T
  <1>3. Sum(f, T) \in Nat
    BY <1>1, <1>2, SumNat
  <1>4. QED
    BY <1>3 DEF RowSum, f, T

\* A hit adds its units to the sum of its key, and to no other.
SumsAdded(g, f, key, u) ==
  /\ RowSum(g, key) = RowSum(f, key) + u
  /\ \A k \in KeysOf(Shared) \ {key} : RowSum(g, k) = RowSum(f, k)

LEMMA RowSumAdded ==
  ASSUME NEW f \in [KeysOf(Shared) -> [0..MaxTime -> Nat]], NEW g,
         NEW key \in KeysOf(Shared), NEW w \in 0..MaxTime, NEW u \in Nat,
         AddedTo(g, f, key, w, u)
  PROVE  SumsAdded(g, f, key, u)
  <1> DEFINE a == f[key]
             b == g[key]
             x == w
             T == 0..MaxTime
  <1>1. b[x] = a[x] + u /\ \A y \in T \ {x} : b[y] = a[y]
    BY DEF AddedTo
  <1>2. x \in T /\ \A y \in T : a[y] \in Nat
    OBVIOUS
  <1>3. IsFiniteSet(T)
    BY TimesFinite
  <1> HIDE DEF a, b, x, T
  <1>4. Sum(b, T) = Sum(a, T) + u
    BY <1>1, <1>2, <1>3, SumChange
  <1>5. RowSum(g, key) = RowSum(f, key) + u
    BY <1>4 DEF RowSum, a, b, T
  <1>6. \A k \in KeysOf(Shared) \ {key} : RowSum(g, k) = RowSum(f, k)
    BY DEF AddedTo, RowSum
  <1>7. QED
    BY <1>5, <1>6 DEF SumsAdded

LEMMA FirstSumTyped ==
  ASSUME kind \in Kinds, NEW p \in [KeysOf(Shared) -> [0..MaxTime -> Nat]]
  PROVE  FirstSum(p) \in Nat
  <1> DEFINE f == [v \in Visitors |-> RowSum(p, <<1, v>>)]
  <1>1. \A v \in Visitors : f[v] \in Nat
    BY FirstKey, RowSumTyped
  <1>2. IsFiniteSet(Visitors)
    BY AdmissionAssumption
  <1> HIDE DEF f
  <1>3. Sum(f, Visitors) \in Nat
    BY <1>1, <1>2, SumNat
  <1>4. QED
    BY <1>3 DEF FirstSum, f

\* What passes the first check of a visitor adds to what passed it.
FirstAdded(g, f, key, u) ==
  /\ key[1] # 1 => FirstSum(g) = FirstSum(f)
  /\ \A v \in Visitors : key = <<1, v>> => FirstSum(g) = FirstSum(f) + u

LEMMA FirstSumAdded ==
  ASSUME kind \in Kinds, NEW f \in [KeysOf(Shared) -> [0..MaxTime -> Nat]], NEW g,
         NEW key \in KeysOf(Shared), NEW w \in 0..MaxTime, NEW u \in Nat,
         AddedTo(g, f, key, w, u)
  PROVE  FirstAdded(g, f, key, u)
  <1> DEFINE a == [v \in Visitors |-> RowSum(f, <<1, v>>)]
             b == [v \in Visitors |-> RowSum(g, <<1, v>>)]
  <1>1. /\ RowSum(g, key) = RowSum(f, key) + u
        /\ \A k \in KeysOf(Shared) \ {key} : RowSum(g, k) = RowSum(f, k)
    BY RowSumAdded DEF SumsAdded
  <1>2. \A v \in Visitors : a[v] \in Nat
    BY FirstKey, RowSumTyped
  <1>3. IsFiniteSet(Visitors)
    BY AdmissionAssumption
  <1>4. ASSUME key[1] # 1 PROVE FirstSum(g) = FirstSum(f)
    <2>1. \A v \in Visitors : RowSum(g, <<1, v>>) = RowSum(f, <<1, v>>)
      BY <1>1, <1>4, FirstKey
    <2>2. QED
      BY <2>1 DEF FirstSum
  <1>5. ASSUME NEW v \in Visitors, key = <<1, v>> PROVE FirstSum(g) = FirstSum(f) + u
    <2>1. b[v] = a[v] + u
      BY <1>1, <1>5
    <2>2. ASSUME NEW o \in Visitors \ {v} PROVE b[o] = a[o]
      <3>1. <<1, o>> \in KeysOf(Shared) /\ <<1, o>> # key
        BY <1>5, FirstKey
      <3>2. QED
        BY <1>1, <3>1
    <2> HIDE DEF a, b
    <2>3. Sum(b, Visitors) = Sum(a, Visitors) + u
      BY <1>2, <1>3, <2>1, <2>2, SumChange
    <2>4. QED
      BY <2>3 DEF FirstSum, a, b
  <1>6. QED
    BY <1>4, <1>5 DEF FirstAdded

\* What is on its way changes with the one request r that moves to q.
WayMoved(req, new, r, q, i) ==
  /\ WaySum(req, i) \in Nat /\ WaySum(new, i) \in Nat
  /\ UnitsOf(q) \in Nat /\ UnitsOf(req[r]) \in Nat
  /\ ~OnWay(req[r], i) /\ ~OnWay(q, i) => WaySum(new, i) = WaySum(req, i)
  /\ OnWay(req[r], i) /\ OnWay(q, i) /\ q.files = req[r].files =>
       WaySum(new, i) = WaySum(req, i)
  /\ OnWay(req[r], i) /\ ~OnWay(q, i) =>
       WaySum(req, i) = WaySum(new, i) + UnitsOf(req[r])
  /\ ~OnWay(req[r], i) /\ OnWay(q, i) =>
       WaySum(new, i) = WaySum(req, i) + UnitsOf(q)

LEMMA WayMoves ==
  ASSUME kind \in Kinds, NEW req \in [Requests -> Request], NEW i,
         IsFiniteSet({r \in Requests : AtWork(req[r])}),
         NEW r \in Requests, NEW q \in Request, NEW new, new = [req EXCEPT ![r] = q]
  PROVE  WayMoved(req, new, r, q, i)
  <1> DEFINE f == [o \in Requests |-> UnitsOf(req[o])]
             g == [o \in Requests |-> UnitsOf(new[o])]
             A == Way(req, i)
             B == Way(new, i)
  <1>1. \A o \in Request : UnitsOf(o) \in Nat
    <2>1. \A o \in Request : o.files \in 0..MaxFiles
      BY DEF Request
    <2>2. QED
      BY <2>1, AdmissionAssumption DEF UnitsOf
  <1>2. new \in [Requests -> Request] /\ new[r] = q /\ \A o \in Requests \ {r} : new[o] = req[o]
    OBVIOUS
  <1>3. (\A o \in Requests : f[o] \in Nat /\ g[o] \in Nat) /\ f[r] = UnitsOf(req[r]) /\ g[r] = UnitsOf(q)
    BY <1>1, <1>2
  <1>4. \A o \in Requests \ {r} : g[o] = f[o]
    BY <1>2
  <1>5. IsFiniteSet(A) /\ A \subseteq Requests
    <2> DEFINE W == {o \in Requests : AtWork(req[o])}
    <2>1. A \subseteq W /\ IsFiniteSet(W) /\ A \subseteq Requests
      BY DEF Way, OnWay, AtWork
    <2> HIDE DEF W, A
    <2>2. QED
      BY <2>1, FS_Subset
  <1>6. /\ ~OnWay(req[r], i) /\ ~OnWay(q, i) => B = A /\ r \notin A
        /\ OnWay(req[r], i) /\ OnWay(q, i) => B = A /\ r \in A
        /\ OnWay(req[r], i) /\ ~OnWay(q, i) => B = A \ {r} /\ r \in A
        /\ ~OnWay(req[r], i) /\ OnWay(q, i) => B = A \union {r} /\ r \notin A
    BY <1>2 DEF Way
  <1>7. WaySum(req, i) = Sum(f, A) /\ WaySum(new, i) = Sum(g, B)
    BY DEF WaySum
  <1>8. q.files = req[r].files => g[r] = f[r]
    BY <1>2 DEF UnitsOf
  <1> HIDE DEF f, g, A, B
  <1>9. Sum(f, A) \in Nat
    BY <1>3, <1>5, SumNat
  <1>10. Sum(g, B) \in Nat
    <2>1. IsFiniteSet(B) /\ B \subseteq Requests
      BY <1>5, <1>6, FS_AddElement, FS_RemoveElement
    <2>2. QED
      BY <1>3, <2>1, SumNat
  <1>11. ASSUME B = A, r \notin A \/ g[r] = f[r] PROVE Sum(g, B) = Sum(f, A)
    <2>1. \A o \in A : f[o] \in Nat /\ g[o] = f[o]
      BY <1>3, <1>4, <1>5, <1>11
    <2>2. QED
      BY <1>5, <1>11, <2>1, SumSame
  <1>12. ASSUME B = A \ {r}, r \in A PROVE Sum(f, A) = Sum(g, B) + f[r]
    <2>1. f[r] \in Nat /\ \A o \in A \ {r} : f[o] \in Nat /\ g[o] = f[o]
      BY <1>3, <1>4, <1>5
    <2>2. QED
      BY <1>5, <1>12, <2>1, SumLeft
  <1>13. ASSUME B = A \union {r}, r \notin A PROVE Sum(g, B) = Sum(f, A) + g[r]
    <2>1. g[r] \in Nat /\ \A o \in A : f[o] \in Nat /\ g[o] = f[o]
      BY <1>3, <1>4, <1>5, <1>13
    <2>2. QED
      BY <1>5, <1>13, <2>1, SumJoined
  <1>14. QED
    BY <1>3, <1>6, <1>7, <1>8, <1>9, <1>10, <1>11, <1>12, <1>13 DEF WayMoved

LEMMA WayTyped ==
  ASSUME kind \in Kinds, NEW req \in [Requests -> Request], NEW i,
         IsFiniteSet({r \in Requests : AtWork(req[r])})
  PROVE  WaySum(req, i) \in Nat
  <1>1. CASE Requests = {}
    <2>1. Way(req, i) = {}
      BY <1>1 DEF Way
    <2>2. QED
      BY <2>1, SumEmpty DEF WaySum
  <1>2. CASE Requests # {}
    <2>1. PICK r \in Requests : TRUE
      BY <1>2
    <2>2. req[r] \in Request /\ req = [req EXCEPT ![r] = req[r]]
      OBVIOUS
    <2>3. QED
      BY <2>2, WayMoves DEF WayMoved
  <1>3. QED
    BY <1>1, <1>2

\* What was on its way to a check is counted there or leaves; what joins it has
\* just passed the first check.
LEMMA BudgetStep ==
  ASSUME TypeOK, RequestsMakeSense, SlotsCounted, PassedAreCounted, BudgetSpared, [Next]_vars
  PROVE  BudgetSpared'
  <1> DEFINE C == [KeysOf(Shared) -> [0..MaxTime -> Nat]]
  <1>1. /\ kind \in Kinds /\ kind' = kind /\ clock \in 0..MaxTime
        /\ rows \in C /\ rows' \in C /\ passed \in C
    <2>1. kind' = kind /\ rows' \in C
      BY DataStep
    <2>2. kind \in Kinds /\ clock \in 0..MaxTime /\ rows \in C /\ passed \in C
      BY DEF TypeOK, PassedAreCounted
    <2>3. QED
      BY <2>1, <2>2
  <1>2. /\ request \in [Requests -> Request]
        /\ IsFiniteSet({r \in Requests : AtWork(request[r])})
    <2>1. {r \in Requests : AtWork(request[r])} = Active
      BY DEF AtWork, Active
    <2>2. QED
      BY <2>1, FewAtWork DEF RequestsMakeSense
  <1>3. SUFFICES ASSUME Shared[1].bucket = "visitor", NEW key \in KeysOf(Shared), key[1] > 1
                 PROVE  RowSum(rows', key) + WaySum(request', key[1]) <= FirstSum(passed')
    BY <1>1, BudgetIsSpared DEF Spared
  <1> DEFINE i == key[1]
             Goal == RowSum(rows', key) + WaySum(request', i) <= FirstSum(passed')
  <1>4. RowSum(rows, key) + WaySum(request, i) <= FirstSum(passed)
    BY <1>3, BudgetIsSpared DEF Spared
  <1>5. i \in Nat /\ i > 1 /\ i \in 1..Len(Shared) /\ Len(Shared) \in Nat
    BY <1>1, <1>3, KeysHaveLimits
  <1>6. /\ RowSum(rows, key) \in Nat /\ RowSum(rows', key) \in Nat /\ FirstSum(passed) \in Nat
    BY <1>1, RowSumTyped, FirstSumTyped
  <1>7. ASSUME NEW r \in Requests, NEW q \in Request, request' = [request EXCEPT ![r] = q]
        PROVE  WayMoved(request, request', r, q, i)
    <2> HIDE DEF i
    <2>1. QED
      BY <1>1, <1>2, <1>7, WayMoves
  <1>8. ASSUME NEW r \in Requests, Acts(r), ~Hit(r), ~HitFails(r) PROVE Goal
    <2>0. request[r] \in Request
      BY <1>1, Asks
    <2>1. rows' = rows /\ passed' = passed
      <3>1. \/ \E v \in Visitors, p \in Processes, files \in 1..MaxFiles :
                 Dispatch(r, v, p, files) \/ DispatchOutside(r, v, p, files)
            \/ ReadClock(r) \/ Refuse(r) \/ EnsureCapacity(r)
            \/ CheckFile(r) \/ CommitFile(r) \/ EndRequest(r)
        BY <1>8 DEF Acts
      <3>2. QED
        BY <3>1 DEF Dispatch, DispatchOutside, ReadClock, Refuse, EnsureCapacity, CheckFile,
               CommitFile, EndRequest, ghosts
    <2>2. SUFFICES WaySum(request', i) = WaySum(request, i)
      BY <1>4, <2>1
    <2>3. ASSUME NEW q \in Request, request' = [request EXCEPT ![r] = q],
                 request[r].step # "limits", q.step # "limits" \/ q.check = 1
          PROVE  WaySum(request', i) = WaySum(request, i)
      <3>1. ~OnWay(request[r], i) /\ ~OnWay(q, i)
        BY <1>5, <2>3 DEF OnWay
      <3>2. QED
        BY <1>7, <2>3, <3>1 DEF WayMoved
    <2>4. ASSUME NEW v \in Visitors, NEW p \in Processes, NEW files \in 1..MaxFiles,
                 Dispatch(r, v, p, files) \/ DispatchOutside(r, v, p, files)
          PROVE  WaySum(request', i) = WaySum(request, i)
      <3>1. /\ request[r].step = "none"
            /\ \/ request' = [request EXCEPT ![r] = Admitted(v, p, files)]
               \/ request' = [request EXCEPT ![r] = Done]
        BY <2>4 DEF Dispatch, DispatchOutside
      <3>2. QED
        BY <2>3, <3>1, AdmittedRequest, DoneInOrder
    <2>5. CASE ReadClock(r)
      <3>1. PICK w \in 0..MaxTime : request' = [request EXCEPT ![r] = InWindow(request[r], w)]
        BY <1>1, <2>5, ReadsAWindow
      <3> DEFINE q == InWindow(request[r], w)
      <3>2. /\ q \in Request /\ q.step = request[r].step
            /\ q.check = request[r].check /\ q.files = request[r].files
        BY <2>0, InWindowUpdates
      <3>3. OnWay(q, i) <=> OnWay(request[r], i)
        BY <3>2 DEF OnWay
      <3>4. request' = [request EXCEPT ![r] = q]
        BY <3>1
      <3> HIDE DEF q
      <3>5. QED
        BY <1>7, <3>2, <3>3, <3>4 DEF WayMoved
    <2>6. CASE Refuse(r) \/ EndRequest(r)
      BY <2>3, <2>6, DoneInOrder DEF Refuse, EndRequest, Leaves
    <2>7. CASE EnsureCapacity(r)
      <3>1. /\ request[r].step = "capacity"
            /\ \/ request' = [request EXCEPT ![r] = Checking(request[r])]
               \/ request' = [request EXCEPT ![r] = Done]
        BY <2>7 DEF EnsureCapacity, Leaves
      <3>2. QED
        BY <2>0, <2>3, <3>1, Updates, DoneInOrder
    <2>8. CASE CheckFile(r) \/ CommitFile(r)
      <3>1. /\ request[r].step \in {"check", "commit"} /\ request[r].files > 0
            /\ \/ request' = [request EXCEPT ![r] = Committing(request[r])]
               \/ request' = [request EXCEPT ![r] = NextFile(request[r])]
        <4>1. request[r].step = "commit" => request[r].files > 0
          BY <1>1, Asks DEF InOrder, AtWork
        <4>2. QED
          BY <2>8, <4>1 DEF CheckFile, CommitFile
      <3>2. QED
        BY <2>0, <2>3, <3>1, Updates
    <2>9. QED
      BY <1>8, <2>4, <2>5, <2>6, <2>7, <2>8 DEF Acts
  <1>9. ASSUME NEW r \in Requests, request[r].step = "limits", request[r].window # NoWindow
        PROVE  LET k == KeyFor(r)
               IN /\ k \in KeysOf(Shared) /\ k[1] = request[r].check /\ k[1] \in 1..Len(Shared)
                  /\ k[1] = 1 => k = <<1, request[r].visitor>> /\ request[r].visitor \in Visitors
                  /\ request[r].window \in 0..MaxTime
                  /\ Units(r) = UnitsOf(request[r]) /\ Units(r) \in Nat
                  /\ AddedTo(Counted(r), rows, k, request[r].window, Units(r))
                  /\ OnWay(request[r], i) <=> k[1] \in 2..i
    <2> DEFINE k == KeyFor(r)
               w == request[r].window
    <2>1. /\ k \in KeysOf(Shared) /\ k[1] = request[r].check /\ k[1] \in 1..Len(Shared)
          /\ request[r].visitor \in Visitors
      BY <1>1, <1>9, Asks
    <2>2. k[1] = 1 => k = <<1, request[r].visitor>>
      BY <1>3, <2>1 DEF KeyFor, KeyOf
    <2>3. w \in 0..MaxTime /\ Units(r) \in Nat /\ Counted(r) = Adds(rows, k, w, Units(r))
      BY <1>9, CountsWhere
    <2>4. Units(r) = UnitsOf(request[r])
      BY DEF Units, UnitsOf
    <2>5. AddedTo(Adds(rows, k, w, Units(r)), rows, k, w, Units(r))
      <3> HIDE DEF k, w
      <3>1. QED
        BY <1>1, <2>1, <2>3, CountedIn
    <2>6. OnWay(request[r], i) <=> k[1] \in 2..i
      BY <1>9, <2>1 DEF OnWay
    <2>7. QED
      BY <2>1, <2>2, <2>3, <2>4, <2>5, <2>6
  <1>10. ASSUME NEW r \in Requests, request[r].step = "limits", request[r].window # NoWindow,
                Leaves(r), rows' \in {rows, Counted(r)}, passed' = passed
         PROVE  Goal
    <2> DEFINE k == KeyFor(r)
               u == Units(r)
               w == request[r].window
    <2>1. /\ k \in KeysOf(Shared) /\ w \in 0..MaxTime /\ u \in Nat /\ u = UnitsOf(request[r])
          /\ AddedTo(Counted(r), rows, k, w, u) /\ (OnWay(request[r], i) <=> k[1] \in 2..i)
      BY <1>9, <1>10
    <2>2. Done \in Request /\ request' = [request EXCEPT ![r] = Done] /\ ~OnWay(Done, i)
      BY <1>10, DoneInOrder DEF Leaves, OnWay
    <2>3. /\ WaySum(request, i) \in Nat /\ WaySum(request', i) \in Nat
          /\ ~OnWay(request[r], i) => WaySum(request', i) = WaySum(request, i)
          /\ OnWay(request[r], i) => WaySum(request, i) = WaySum(request', i) + u
      BY <1>7, <2>1, <2>2 DEF WayMoved
    <2> HIDE DEF k, u, w
    <2>4. SumsAdded(Counted(r), rows, k, u)
      <3>1. /\ rows \in [KeysOf(Shared) -> [0..MaxTime -> Nat]] /\ k \in KeysOf(Shared)
            /\ w \in 0..MaxTime /\ u \in Nat /\ AddedTo(Counted(r), rows, k, w, u)
        BY <1>1, <2>1
      <3>2. QED
        BY ONLY <3>1, RowSumAdded
    <2>5. /\ key = k => RowSum(rows', key) <= RowSum(rows, key) + u
          /\ key # k => RowSum(rows', key) = RowSum(rows, key)
      BY <1>6, <1>10, <2>1, <2>4 DEF SumsAdded
    <2>6. key = k => OnWay(request[r], i)
      BY <1>5, <2>1
    <2>7. QED
      BY <1>4, <1>6, <1>10, <2>1, <2>3, <2>5, <2>6
  <1>11. ASSUME NEW r \in Requests, request[r].step = "limits", request[r].window # NoWindow,
                request' = [request EXCEPT ![r] =
                  IF request[r].check = Len(Shared) THEN PassedAll(request[r])
                  ELSE PassedOne(request[r])],
                rows' = Counted(r),
                passed' = Adds(passed, KeyFor(r), request[r].window, Units(r))
         PROVE  Goal
    <2> DEFINE k == KeyFor(r)
               u == Units(r)
               w == request[r].window
               q == IF request[r].check = Len(Shared) THEN PassedAll(request[r])
                    ELSE PassedOne(request[r])
    <2>1. /\ k \in KeysOf(Shared) /\ w \in 0..MaxTime /\ u \in Nat /\ u = UnitsOf(request[r])
          /\ k[1] = request[r].check /\ k[1] \in 1..Len(Shared)
          /\ k[1] = 1 => k = <<1, request[r].visitor>> /\ request[r].visitor \in Visitors
          /\ AddedTo(rows', rows, k, w, u) /\ (OnWay(request[r], i) <=> k[1] \in 2..i)
      BY <1>9, <1>11
    <2>2. request[r] \in Request
      BY <1>1, Asks
    <2>3. /\ q \in Request /\ q.files = request[r].files /\ UnitsOf(q) = u
          /\ OnWay(q, i) => k[1] < i
          /\ OnWay(request[r], i) /\ k[1] < i => OnWay(q, i)
      <3>1. q \in Request /\ q.files = request[r].files
        BY <2>2, Updates
      <3>2. UnitsOf(q) = u
        BY <2>1, <3>1 DEF UnitsOf
      <3>3. CASE request[r].check = Len(Shared)
        <4>1. ~OnWay(q, i) /\ ~(k[1] < i)
          BY <1>5, <2>1, <2>2, <3>3, Updates DEF OnWay
        <4>2. QED
          BY <3>1, <3>2, <4>1
      <3>4. CASE request[r].check # Len(Shared)
        <4>1. q.step = "limits" /\ q.check = k[1] + 1
          BY <1>11, <2>1, <2>2, <3>4, Updates
        <4>2. OnWay(q, i) <=> k[1] + 1 \in 2..i
          BY <4>1 DEF OnWay
        <4>3. k[1] \in Nat /\ k[1] >= 1
          BY <1>5, <2>1
        <4>4. k[1] + 1 \in 2..i <=> k[1] < i
          BY <1>5, <4>3
        <4>5. QED
          BY <3>1, <3>2, <4>2, <4>4
      <3>5. QED
        BY <3>3, <3>4
    <2>4. AddedTo(passed', passed, k, w, u)
      <3> HIDE DEF k, w, u
      <3>1. passed' = Adds(passed, k, w, u)
        BY <1>11 DEF k, w, u
      <3>2. QED
        BY <1>1, <2>1, <3>1, CountedIn
    <2>5. /\ WaySum(request, i) \in Nat /\ WaySum(request', i) \in Nat
          /\ ~OnWay(request[r], i) /\ ~OnWay(q, i) => WaySum(request', i) = WaySum(request, i)
          /\ OnWay(request[r], i) /\ OnWay(q, i) => WaySum(request', i) = WaySum(request, i)
          /\ OnWay(request[r], i) /\ ~OnWay(q, i) =>
               WaySum(request, i) = WaySum(request', i) + u
          /\ ~OnWay(request[r], i) /\ OnWay(q, i) =>
               WaySum(request', i) = WaySum(request, i) + u
      <3>1. request' = [request EXCEPT ![r] = q]
        BY <1>11
      <3> HIDE DEF q, u
      <3>2. QED
        BY <1>7, <2>1, <2>3, <3>1 DEF WayMoved
    <2> HIDE DEF k, u, w, q
    <2>6. /\ key = k => RowSum(rows', key) = RowSum(rows, key) + u
          /\ key # k => RowSum(rows', key) = RowSum(rows, key)
      <3>1. /\ rows \in [KeysOf(Shared) -> [0..MaxTime -> Nat]] /\ k \in KeysOf(Shared)
            /\ w \in 0..MaxTime /\ u \in Nat /\ AddedTo(rows', rows, k, w, u)
        BY <1>1, <2>1
      <3>2. SumsAdded(rows', rows, k, u)
        BY ONLY <3>1, RowSumAdded
      <3>3. QED
        BY <3>2 DEF SumsAdded
    <2>7. /\ k[1] = 1 => FirstSum(passed') = FirstSum(passed) + u
          /\ k[1] # 1 => FirstSum(passed') = FirstSum(passed)
      <3>1. /\ passed \in [KeysOf(Shared) -> [0..MaxTime -> Nat]] /\ k \in KeysOf(Shared)
            /\ w \in 0..MaxTime /\ u \in Nat /\ AddedTo(passed', passed, k, w, u) /\ kind \in Kinds
        BY <1>1, <2>1, <2>4
      <3>2. FirstAdded(passed', passed, k, u)
        BY ONLY <3>1, FirstSumAdded
      <3>3. QED
        BY <2>1, <3>2 DEF FirstAdded
    <2>8. CASE k[1] = 1
      <3>1. key # k /\ ~OnWay(request[r], i)
        BY <1>5, <2>1, <2>8
      <3>2. WaySum(request', i) <= WaySum(request, i) + u
        BY <2>1, <2>5, <3>1
      <3>3. QED
        BY <1>4, <1>6, <2>1, <2>5, <2>6, <2>7, <2>8, <3>1, <3>2
    <2>9. CASE k[1] # 1 /\ key = k
      <3>1. OnWay(request[r], i) /\ ~OnWay(q, i)
        BY <1>5, <2>1, <2>3, <2>9
      <3>2. QED
        BY <1>4, <1>6, <2>1, <2>5, <2>6, <2>7, <2>9, <3>1
    <2>10. CASE k[1] # 1 /\ key # k
      <3>1. OnWay(q, i) => OnWay(request[r], i)
        BY <1>5, <2>1, <2>3, <2>10
      <3>2. WaySum(request', i) <= WaySum(request, i)
        BY <2>1, <2>5, <3>1
      <3>3. QED
        BY <1>4, <1>6, <2>5, <2>6, <2>7, <2>10, <3>2
    <2>11. QED
      BY <2>8, <2>9, <2>10
  <1>12. ASSUME NEW r \in Requests, Hit(r) PROVE Goal
    <2>1. request[r].step = "limits" /\ request[r].window # NoWindow /\ rows' = Counted(r)
      BY <1>12 DEF Hit
    <2>2. CASE Leaves(r) /\ passed' = passed
      BY <1>10, <2>1, <2>2
    <2>3. CASE ~(Leaves(r) /\ passed' = passed)
      <3>1. /\ request' = [request EXCEPT ![r] =
                 IF request[r].check = Len(Shared) THEN PassedAll(request[r])
                 ELSE PassedOne(request[r])]
            /\ passed' = Adds(passed, KeyFor(r), request[r].window, Units(r))
        BY <1>12, <2>3 DEF Hit, Adds
      <3>2. QED
        BY <1>11, <2>1, <3>1
    <2>4. QED
      BY <2>2, <2>3
  <1>13. ASSUME NEW r \in Requests, HitFails(r) PROVE Goal
    BY <1>10, <1>13 DEF HitFails, ghosts
  <1>14. CASE Purge
    <2>1. /\ passed' = passed /\ request' = request
          /\ rows' = [o \in DOMAIN rows |-> [w \in 0..MaxTime |->
               IF ExpiresAt(w, Shared[o[1]].window) < clock THEN 0 ELSE rows[o][w]]]
      BY <1>14 DEF Purge, ghosts
    <2> DEFINE a == rows'[key]
               b == rows[key]
               T == 0..MaxTime
    <2>2. \A x \in T : a[x] \in Nat /\ b[x] \in Nat
      <3>1. a \in [T -> Nat] /\ b \in [T -> Nat]
        BY <1>1
      <3>2. QED
        BY <3>1
    <2>3. \A x \in T : a[x] = 0 \/ a[x] = b[x]
      BY <1>1, <2>1
    <2>4. IsFiniteSet(T)
      BY TimesFinite
    <2> HIDE DEF a, b, T
    <2>5. \A x \in T : a[x] \in Nat /\ b[x] \in Nat /\ a[x] <= b[x]
      BY <2>2, <2>3
    <2>6. Sum(a, T) <= Sum(b, T)
      BY <2>4, <2>5, SumMonotone
    <2>7. RowSum(rows', key) <= RowSum(rows, key)
      BY <2>6 DEF RowSum, a, b, T
    <2>8. WaySum(request, i) \in Nat
      BY <1>1, <1>2, WayTyped
    <2>9. QED
      BY <1>4, <1>6, <2>1, <2>7, <2>8
  <1>15. CASE request' = request /\ rows' = rows /\ passed' = passed
    BY <1>4, <1>15
  <1>16. CASE FinishJob \/ Tick \/ UNCHANGED vars
    BY <1>15, <1>16 DEF FinishJob, Tick, vars, ghosts
  <1>17. ASSUME NEW r \in Requests, Acts(r) PROVE Goal
    BY <1>8, <1>12, <1>13, <1>17
  <1>18. QED
    BY <1>14, <1>16, <1>17 DEF Next, Acts

-----------------------------------------------------------------------------
(* The theorems.                                                           *)

LEMMA InitInvariant == Init => IInv
  <1> SUFFICES ASSUME Init PROVE IInv
    OBVIOUS
  <1> DEFINE C == [KeysOf(Shared) -> [0..MaxTime -> Nat]]
  <1>1. /\ kind \in Kinds /\ clock \in 0..MaxTime /\ backlog = 0
        /\ busiest = 0 /\ outside = {}
        /\ Slots \in Nat /\ MaxBacklog[kind] \in Nat \ {0} /\ JobsPerFile[kind] \in Nat
    BY AdmissionAssumption DEF Init
  <1>2. NoRequest \in Request /\ NoRequest.step = "none"
    BY AdmissionAssumption DEF NoRequest, Request
  <1>3. request \in [Requests -> Request] /\ \A r \in Requests : request[r] = NoRequest
    BY <1>2 DEF Init
  <1>4. RequestsMakeSense
    BY <1>2, <1>3 DEF RequestsMakeSense, InOrder, AtWork
  <1>5. Active = {} /\ BeforeCommit = {} /\ \A i : Way(request, i) = {}
    BY <1>2, <1>3 DEF Active, BeforeCommit, Way, OnWay
  <1>6. ASSUME NEW p \in Processes
        PROVE  IsFiniteSet(ActiveAt(p)) /\ Cardinality(ActiveAt(p)) = 0 /\ inFlight[p] = 0
    <2>1. ActiveAt(p) = {}
      BY <1>5 DEF ActiveAt
    <2>2. QED
      BY <2>1, FS_EmptySet DEF Init
  <1>7. SlotsCounted
    <2>1. IsFiniteSet(outside)
      BY <1>1, FS_EmptySet
    <2>2. QED
      BY <1>1, <1>6, <2>1 DEF SlotsCounted, Init
  <1>8. rows \in C /\ passed = rows /\ \A key \in KeysOf(Shared), w \in 0..MaxTime : rows[key][w] = 0
    BY DEF Init
  <1>9. deques \in [Processes -> [KeysOf(Own) -> Seq(0..MaxTime)]]
    BY DEF Init
  <1>10. TypeOK
    BY <1>1, <1>5, <1>6, <1>8, <1>9 DEF TypeOK
  <1>11. RoomLeft
    <2> DEFINE J == JobsPerFile[kind]
               M == MaxBacklog[kind]
               S == Slots * Cardinality(Processes)
    <2>1. Cardinality(BeforeCommit) = 0 /\ Cardinality(outside) = 0
      BY <1>1, <1>5, FS_EmptySet
    <2>2. S \in Nat
      BY <1>4, <1>7, <1>10, FewAtWork
    <2>3. J \in Nat /\ M \in Nat \ {0} /\ backlog = 0 /\ busiest = 0
      BY <1>1
    <2>4. RoomLeft <=> /\ backlog + J * Cardinality(BeforeCommit) <= M - 1 + J * busiest
                       /\ Cardinality(BeforeCommit) <= busiest
                       /\ busiest <= S + Cardinality(outside)
      BY DEF RoomLeft
    <2> HIDE DEF J, M, S
    <2>5. J * 0 = 0
      BY <2>3
    <2>6. QED
      BY <2>1, <2>2, <2>3, <2>4, <2>5
  <1>12. PassedAreCounted
    <2>1. \A key \in KeysOf(Shared) : Shared[key[1]].limit \in Nat
      BY <1>1, KeysHaveLimits
    <2>2. QED
      BY <1>8, <2>1 DEF PassedAreCounted
  <1>13. BudgetSpared
    <2>1. ASSUME NEW key \in KeysOf(Shared)
          PROVE  RowSum(rows, key) = 0 /\ WaySum(request, key[1]) = 0
      <3> DEFINE f == rows[key]
                 T == 0..MaxTime
      <3>1. IsFiniteSet(T) /\ \A x \in T : f[x] = 0
        BY <1>8, TimesFinite
      <3> HIDE DEF f, T
      <3>2. Sum(f, T) = 0
        BY <3>1, SumZero
      <3>3. WaySum(request, key[1]) = 0
        BY <1>5, SumEmpty DEF WaySum
      <3>4. QED
        BY <3>2, <3>3 DEF RowSum, f, T
    <2>2. FirstSum(passed) \in Nat
      BY <1>1, <1>8, FirstSumTyped
    <2>3. Spared(rows, request, passed)
      BY <2>1, <2>2 DEF Spared
    <2>4. QED
      BY <2>3, BudgetIsSpared
  <1>14. QED
    BY <1>4, <1>7, <1>10, <1>11, <1>12, <1>13 DEF IInv

LEMMA StepInvariant == IInv /\ [Next]_vars => IInv'
  <1> SUFFICES ASSUME IInv, [Next]_vars PROVE IInv'
    OBVIOUS
  <1>1. /\ TypeOK /\ RequestsMakeSense /\ SlotsCounted /\ RoomLeft
        /\ PassedAreCounted /\ BudgetSpared
    BY DEF IInv
  <1>2. RequestsMakeSense'
    BY <1>1, RequestsStep
  <1>3. TypeOK'
    <2>1. /\ kind' = kind /\ clock' \in 0..MaxTime
          /\ deques' \in [Processes -> [KeysOf(Own) -> Seq(0..MaxTime)]]
          /\ rows' \in [KeysOf(Shared) -> [0..MaxTime -> Nat]]
          /\ backlog' \in Nat /\ busiest' \in Nat
      BY <1>1, DataStep, RoomStep
    <2>2. Own' = Own /\ Shared' = Shared
      BY <2>1 DEF Own, Shared
    <2>3. kind' \in Kinds
      BY <1>1, <2>1 DEF TypeOK
    <2>4. \A r \in Active' : request'[r].files \in 0..MaxFiles
      BY <1>2 DEF RequestsMakeSense, Request, Active
    <2>5. \A p \in Processes : (inFlight[p] = Cardinality(ActiveAt(p)) /\ inFlight[p] <= Slots)'
      BY <1>1, SlotsStep
    <2>6. QED
      BY <2>1, <2>2, <2>3, <2>4, <2>5 DEF TypeOK
  <1>4. SlotsCounted'
    BY <1>1, SlotsStep
  <1>5. RoomLeft'
    BY <1>1, RoomStep
  <1>6. PassedAreCounted'
    BY <1>1, PassedStep
  <1>7. BudgetSpared'
    BY <1>1, BudgetStep
  <1>8. QED
    BY <1>2, <1>3, <1>4, <1>5, <1>6, <1>7 DEF IInv

\* In every reachable state the invariant of limits, slots and backlog holds.
THEOREM Invariance == Spec => []IInv
  <1>1. Init => IInv
    BY InitInvariant
  <1>2. IInv /\ [Next]_vars => IInv'
    BY StepInvariant
  <1>3. QED
    BY <1>1, <1>2, PTL DEF Spec

\* Every variable has its type, and each process counts in its InFlightLimiter
\* exactly the requests that took a slot there and have not ended, no more than
\* its slots; those without the context of a browser took none and give none back.
THEOREM TypeCorrect == Spec => []TypeOK
  <1>1. IInv => TypeOK
    BY DEF IInv
  <1>2. QED
    BY <1>1, Invariance, PTL

\* hit_persistent_limit lets no more than the limit pass in a window, however
\* the hits of the processes, their failures and the purges of rate_limit_buckets
\* fall; and no hit that a visitor's own limit refused has taken from the budget
\* that all visitors share.
THEOREM BudgetsAreHeld == Spec => []BudgetsHold
  <1>1. IInv => BudgetsHold
    <2> SUFFICES ASSUME IInv PROVE BudgetsHold
      OBVIOUS
    <2>1. /\ TypeOK /\ RequestsMakeSense /\ SlotsCounted /\ PassedAreCounted
          /\ Spared(rows, request, passed)
      BY BudgetIsSpared DEF IInv
    <2>2. kind \in Kinds /\ passed \in [KeysOf(Shared) -> [0..MaxTime -> Nat]]
          /\ rows \in [KeysOf(Shared) -> [0..MaxTime -> Nat]]
      BY <2>1 DEF TypeOK, PassedAreCounted
    <2>3. ASSUME NEW key \in KeysOf(Shared), key[1] > 1, Shared[1].bucket = "visitor"
          PROVE  RowSum(rows, key) <= FirstSum(passed)
      <3>1. RowSum(rows, key) + WaySum(request, key[1]) <= FirstSum(passed)
        BY <2>1, <2>3 DEF Spared
      <3>2. IsFiniteSet({r \in Requests : AtWork(request[r])}) /\ request \in [Requests -> Request]
        <4>1. {r \in Requests : AtWork(request[r])} = Active
          BY DEF AtWork, Active
        <4>2. QED
          BY <2>1, <4>1, FewAtWork DEF RequestsMakeSense
      <3>3. WaySum(request, key[1]) \in Nat
        BY <2>2, <3>2, WayTyped
      <3>4. RowSum(rows, key) \in Nat /\ FirstSum(passed) \in Nat
        BY <2>2, RowSumTyped, FirstSumTyped
      <3>5. QED
        BY <3>1, <3>3, <3>4
    <2>4. \A key \in KeysOf(Shared), w \in 0..MaxTime : passed[key][w] <= Shared[key[1]].limit
      BY <2>1 DEF PassedAreCounted
    <2>5. QED
      BY <2>3, <2>4 DEF BudgetsHold, RowSum, FirstSum
  <1>2. QED
    BY <1>1, Invariance, PTL

\* The jobs that wait pass MaxBacklog by no more than the files that were between
\* the look of ensure_job_capacity and their commit at once, and these were no
\* more than the slots of all processes and the requests that took none, because
\* they came without the context of a browser.
THEOREM BacklogStaysBounded == Spec => []BacklogBounded
  <1>1. IInv => BacklogBounded
    BY RoomSuffices DEF IInv
  <1>2. QED
    BY <1>1, Invariance, PTL
=============================================================================
