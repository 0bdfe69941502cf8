--------------------------- MODULE BarrierMapsProofs ---------------------------
(***************************************************************************)
(* What the operations on barrier maps do, for any number of tasks and     *)
(* barriers: lemmas for the proofs about BarrierInfo and about the passes  *)
(* that edit a function through it.  The first part, on recursive          *)
(* functions, is the only one that the proofs about the simulator need:    *)
(* sums over finite sets, as SlotSum counts the slots of the tasks of a    *)
(* barrier, and what is collected along the edges of a graph, as           *)
(* BarrierInfo does from task to task.  It is proved by induction as the   *)
(* search for a smallest counterexample.                                   *)
(***************************************************************************)
EXTENDS BarrierMaps, FiniteSetTheorems, SequenceTheorems, WellFoundedInduction, TLAPS

(* The two forms of induction that the proofs use.                         *)
LEMMA MinimalSubset ==
    ASSUME NEW S, IsFiniteSet(S), NEW B, B \subseteq SUBSET S, B # {}
    PROVE  \E U \in B : \A V \in SUBSET U : V # U => V \notin B
<1>1. IsWellFoundedOn(StrictSubsetOrdering(S), SUBSET S)
  BY FS_StrictSubsetOrderingWellFounded, FS_FiniteSubsetsOfFinite
<1>2. \E x \in B : \A y \in B : ~ (<<y, x>> \in StrictSubsetOrdering(S))
  BY <1>1, WFMin
<1>3. PICK U \in B : \A V \in B : <<V, U>> \notin StrictSubsetOrdering(S)
  BY <1>2
<1>4. ASSUME NEW V \in SUBSET U, V # U, V \in B PROVE FALSE
  <2>1. <<V, U>> \in StrictSubsetOrdering(S)
    BY <1>4, <1>3 DEF StrictSubsetOrdering
  <2> QED  BY <2>1, <1>3, <1>4
<1> QED  BY <1>4

LEMMA LeastNat ==
    ASSUME NEW T, T \subseteq Nat, T # {}
    PROVE  \E x \in T : \A y \in T : x <= y
<1>1. PICK n \in T : TRUE
  OBVIOUS
<1> DEFINE B == {1..k : k \in {i \in T : i <= n}}
<1>2. IsFiniteSet(1..n)
  BY FS_Interval
<1>3. B \subseteq SUBSET (1..n) /\ B # {}
  BY <1>1
<1>4. PICK U \in B : \A V \in SUBSET U : V # U => V \notin B
  <2>1. \E U \in B : \A V \in SUBSET U : V # U => V \notin B
    <3> HIDE DEF B
    <3> QED  BY <1>2, <1>3, MinimalSubset
  <2> QED  BY <2>1
<1>5. PICK x \in T : x <= n /\ U = 1..x
  BY <1>4
<1>6. ASSUME NEW y \in T, y < x PROVE FALSE
  <2>1. 1..y \in B
    BY <1>5, <1>6, <1>1
  <2>2. x \in 1..x /\ x \notin 1..y /\ 1..y \subseteq 1..x
    BY <1>5, <1>6
  <2> QED  BY <2>1, <2>2, <1>4, <1>5
<1> QED  BY <1>5, <1>6

-----------------------------------------------------------------------------
(* Sequences that list a finite set.                                       *)

(* The sizes of the index ranges the vectors use.                          *)
LEMMA Ranges ==
    ASSUME NEW k \in Nat
    PROVE  /\ IsFiniteSet(1..k) /\ Cardinality(1..k) = k
           /\ IsFiniteSet(0..(k - 1)) /\ Cardinality(0..(k - 1)) = k
<1>1. k \in Int /\ k - 1 \in Int /\ 0 \in Int /\ 1 \in Int
  OBVIOUS
<1>2. IsFiniteSet(1..k) /\ Cardinality(1..k) = IF 1 > k THEN 0 ELSE k - 1 + 1
  BY <1>1, FS_Interval
<1>3. IsFiniteSet(0..(k - 1)) /\ Cardinality(0..(k - 1)) = IF 0 > k - 1 THEN 0 ELSE k - 1 - 0 + 1
  BY <1>1, FS_Interval
<1> QED BY <1>2, <1>3

(* below[x] are the elements before x in a total order.                    *)
StandsInLine(below) ==
    /\ \A x \in DOMAIN below : below[x] \subseteq DOMAIN below /\ x \notin below[x]
    /\ \A x, y \in DOMAIN below : x # y => x \in below[y] \/ y \in below[x]
    /\ \A x, y \in DOMAIN below : x \in below[y] => below[x] \subseteq below[y]

(* s is a list of the elements of S, each once.                            *)
Enumerates(s, S) ==
    /\ Cardinality(S) \in Nat
    /\ s \in [1..Cardinality(S) -> S]
    /\ \A x \in S : \E i \in 1..Cardinality(S) : s[i] = x
    /\ \A i, j \in 1..Cardinality(S) : s[i] = s[j] => i = j

(* In a line the number of elements before x is the place of x.            *)
LEMMA ListedEnumerates ==
    ASSUME NEW below, IsFiniteSet(DOMAIN below), StandsInLine(below)
    PROVE  /\ Enumerates(Listed(below), DOMAIN below)
           /\ \A i, j \in 1..Cardinality(DOMAIN below) :
                i < j <=> Listed(below)[i] \in below[Listed(below)[j]]
<1> DEFINE S == DOMAIN below
           n == Cardinality(S)
           rank == [x \in S |-> Cardinality(below[x])]
           L == Listed(below)
<1>1. n \in Nat /\ IsFiniteSet(0..(n - 1)) /\ Cardinality(0..(n - 1)) = n
  <2>1. n \in Nat
    BY FS_CardinalityType
  <2> HIDE DEF n
  <2> QED BY <2>1, Ranges
<1>2. \A x \in S : IsFiniteSet(below[x]) /\ rank[x] \in Nat
  <2>1. ASSUME NEW x \in S PROVE IsFiniteSet(below[x]) /\ Cardinality(below[x]) \in Nat
    <3>1. below[x] \in SUBSET S
      BY DEF StandsInLine
    <3>2. IsFiniteSet(below[x])
      BY <3>1, FS_Subset
    <3> QED BY <3>2, FS_CardinalityType
  <2> QED BY <2>1
<1>3. ASSUME NEW x \in S, NEW T \in SUBSET S, below[x] \subseteq T, x \in T
      PROVE  rank[x] < Cardinality(T)
  <2>1. IsFiniteSet(T) /\ Cardinality(T) \in Nat
    BY FS_Subset, FS_CardinalityType
  <2>2. below[x] \in SUBSET T /\ below[x] # T
    BY <1>3 DEF StandsInLine
  <2>3. Cardinality(below[x]) <= Cardinality(T) /\ Cardinality(T) # Cardinality(below[x])
    BY <2>1, <2>2, FS_Subset
  <2> QED BY <1>2, <2>1, <2>3
<1>4. ASSUME NEW x \in S, NEW y \in S, x \in below[y] PROVE rank[x] < rank[y]
  <2>1. below[x] \subseteq below[y] /\ below[y] \in SUBSET S
    BY <1>4 DEF StandsInLine
  <2> QED BY <1>3, <1>4, <2>1
<1>5. ASSUME NEW x \in S, NEW y \in S, rank[x] = rank[y] PROVE x = y
  <2>1. ASSUME x # y PROVE FALSE
    <3>1. CASE x \in below[y]
      BY <1>2, <1>4, <1>5, <3>1
    <3>2. CASE y \in below[x]
      <4>1. rank[y] < rank[x]
        BY <1>4, <3>2
      <4> QED BY <1>2, <1>5, <4>1
    <3> QED BY <2>1, <3>1, <3>2 DEF StandsInLine
  <2> QED BY <2>1
<1>6. rank \in [S -> 0..(n - 1)]
  <2>1. ASSUME NEW x \in S PROVE rank[x] \in 0..(n - 1)
    <3>1. rank[x] < n
      BY <1>3 DEF StandsInLine
    <3> QED BY <1>1, <1>2, <3>1
  <2> QED BY <2>1
<1>7. \A k \in 0..(n - 1) : \E x \in S : rank[x] = k
  <2>1. rank \in Injection(S, 0..(n - 1))
    <3> HIDE DEF rank
    <3> QED BY <1>5, <1>6 DEF Injection, IsInjective
  <2>2. rank \in Surjection(S, 0..(n - 1))
    <3> HIDE DEF rank
    <3> QED BY <1>1, <2>1, FS_Injection
  <2> HIDE DEF rank
  <2> QED BY <2>2 DEF Surjection
<1>8. L = [i \in 1..n |-> CHOOSE x \in S : Cardinality(below[x]) = i - 1]
  BY DEF Listed
<1>9. \A i \in 1..n : L[i] \in S /\ rank[L[i]] = i - 1
  <2>1. ASSUME NEW i \in 1..n PROVE L[i] \in S /\ rank[L[i]] = i - 1
    <3>1. i - 1 \in 0..(n - 1)
      BY <1>1
    <3>2. \E x \in S : Cardinality(below[x]) = i - 1
      BY <1>7, <3>1
    <3>3. L[i] = CHOOSE x \in S : Cardinality(below[x]) = i - 1
      BY <1>8
    <3>4. L[i] \in S /\ Cardinality(below[L[i]]) = i - 1
      BY <3>2, <3>3
    <3> QED BY <3>4
  <2> QED BY <2>1
<1>10. L \in [1..n -> S]
  <2>1. DOMAIN L = 1..n /\ L = [i \in 1..n |-> L[i]]
    BY <1>8
  <2> QED BY <1>9, <2>1
<1>11. \A x \in S : \E i \in 1..n : L[i] = x
  <2>1. ASSUME NEW x \in S PROVE \E i \in 1..n : L[i] = x
    <3> DEFINE i == rank[x] + 1
    <3>1. i \in 1..n /\ i - 1 = rank[x]
      BY <1>1, <1>6
    <3>2. L[i] = x
      BY <1>5, <1>9, <3>1
    <3> QED BY <3>1, <3>2
  <2> QED BY <2>1
<1>12. \A i, j \in 1..n : L[i] = L[j] => i = j
  <2>1. ASSUME NEW i \in 1..n, NEW j \in 1..n, L[i] = L[j] PROVE i = j
    <3>1. i - 1 = j - 1
      BY <1>9, <2>1
    <3> QED BY <3>1
  <2> QED BY <2>1
<1>13. ASSUME NEW i \in 1..n, NEW j \in 1..n PROVE i < j <=> L[i] \in below[L[j]]
  <2>1. L[i] \in S /\ L[j] \in S /\ rank[L[i]] = i - 1 /\ rank[L[j]] = j - 1
    BY <1>9
  <2>2. ASSUME L[i] \in below[L[j]] PROVE i < j
    <3>1. i - 1 < j - 1
      BY <1>4, <2>1, <2>2
    <3> QED BY <1>1, <3>1
  <2>3. ASSUME i < j PROVE L[i] \in below[L[j]]
    <3>1. L[i] # L[j]
      BY <1>1, <1>12, <2>3
    <3>2. ~(L[j] \in below[L[i]])
      <4>1. ASSUME L[j] \in below[L[i]] PROVE FALSE
        <5>1. j - 1 < i - 1
          BY <1>4, <2>1, <4>1
        <5> QED BY <1>1, <2>3, <5>1
      <4> QED BY <4>1
    <3> QED BY <2>1, <3>1, <3>2 DEF StandsInLine
  <2> QED BY <2>2, <2>3
<1> HIDE DEF rank
<1>14. Enumerates(L, S)
  BY <1>1, <1>10, <1>11, <1>12 DEF Enumerates
<1> QED BY <1>13, <1>14

(* The numbers of a finite set in ascending order.                         *)
LEMMA AscendingLists ==
    ASSUME NEW S, IsFiniteSet(S), S \subseteq Int
    PROVE  /\ Enumerates(Ascending(S), S)
           /\ \A i, j \in 1..Cardinality(S) : i < j <=> Ascending(S)[i] < Ascending(S)[j]
<1> DEFINE below == [x \in S |-> {y \in S : y < x}]
<1>1. DOMAIN below = S
  OBVIOUS
<1>2. StandsInLine(below)
  <2>1. \A x \in S : below[x] \subseteq S /\ x \notin below[x]
    OBVIOUS
  <2>2. \A x, y \in S : x # y => x \in below[y] \/ y \in below[x]
    OBVIOUS
  <2>3. ASSUME NEW x \in S, NEW y \in S, x \in below[y] PROVE below[x] \subseteq below[y]
    <3>1. x < y /\ x \in Int /\ y \in Int
      BY <2>3
    <3>2. ASSUME NEW z \in S, z < x PROVE z < y
      BY <3>1, <3>2
    <3>3. below[x] = {z \in S : z < x} /\ below[y] = {z \in S : z < y}
      OBVIOUS
    <3> QED BY <3>2, <3>3
  <2> HIDE DEF below
  <2> QED BY <1>1, <2>1, <2>2, <2>3 DEF StandsInLine
<1>3. Ascending(S) = Listed(below)
  BY DEF Ascending
<1> DEFINE s == Ascending(S)
           n == Cardinality(S)
<1>4. Enumerates(s, S) /\ \A i, j \in 1..n : i < j <=> s[i] \in below[s[j]]
  <2> HIDE DEF below
  <2> QED BY <1>1, <1>2, <1>3, ListedEnumerates
<1> HIDE DEF s
<1>5. \A i \in 1..n : s[i] \in S
  BY <1>4 DEF Enumerates
<1>6. ASSUME NEW i \in 1..n, NEW j \in 1..n PROVE i < j <=> s[i] < s[j]
  <2>1. s[i] \in S /\ s[j] \in S
    BY <1>5
  <2>2. s[i] \in below[s[j]] <=> s[i] < s[j]
    BY <2>1
  <2> QED BY <1>4, <2>2
<1> QED BY <1>4, <1>6 DEF s

-----------------------------------------------------------------------------
Some(s) == CHOOSE x \in s : TRUE

(* The equation that defines the fold, and its solution.                   *)
Sums(f, S, g) == g = [s \in SUBSET S |-> IF s = {} THEN 0 ELSE f[Some(s)] + g[s \ {Some(s)}]]
TheSums(f, S) == CHOOSE g : Sums(f, S, g)

LEMMA SumIsFold ==
    ASSUME NEW f, NEW S
    PROVE  SumFunctionOnSet(f, S) = TheSums(f, S)[S]
BY DEF SumFunctionOnSet, FoldFunctionOnSet, MapThenFoldSet, TheSums, Sums, Some

LEMMA SomeInSet ==
    ASSUME NEW s, s # {}
    PROVE  Some(s) \in s
BY DEF Some

(* The equation has a solution: it can be solved for the sets of at most n *)
(* elements, one size after the other.                                     *)
LEMMA SumsExist ==
    ASSUME NEW S, IsFiniteSet(S), NEW f, \A x \in S : f[x] \in Int
    PROVE  /\ Sums(f, S, TheSums(f, S))
           /\ TheSums(f, S) \in [SUBSET S -> Int]
<1> DEFINE Body(g, s) == IF s = {} THEN 0 ELSE f[Some(s)] + g[s \ {Some(s)}]
           UpTo(n) == \E g \in [SUBSET S -> Int] :
                          \A s \in SUBSET S : Cardinality(s) <= n => g[s] = Body(g, s)
<1>1. \A s \in SUBSET S : IsFiniteSet(s) /\ Cardinality(s) \in Nat
  BY FS_Subset, FS_CardinalityType
<1>2. \A s \in SUBSET S : s # {} =>
         /\ Some(s) \in S /\ s \ {Some(s)} \in SUBSET S
         /\ Cardinality(s \ {Some(s)}) = Cardinality(s) - 1
  BY <1>1, SomeInSet, FS_RemoveElement
<1>3. UpTo(0)
  <2> DEFINE g == [s \in SUBSET S |-> 0]
  <2>1. g \in [SUBSET S -> Int]
    OBVIOUS
  <2>2. ASSUME NEW s \in SUBSET S, Cardinality(s) <= 0 PROVE g[s] = Body(g, s)
    <3>1. s = {}
      BY <2>2, <1>1, FS_EmptySet
    <3> QED  BY <3>1
  <2> QED  BY <2>1, <2>2
<1>4. ASSUME NEW n \in Nat, UpTo(n) PROVE UpTo(n + 1)
  <2>1. PICK g \in [SUBSET S -> Int] : \A s \in SUBSET S : Cardinality(s) <= n => g[s] = Body(g, s)
    BY <1>4
  <2> DEFINE h == [s \in SUBSET S |-> Body(g, s)]
  <2>2. h \in [SUBSET S -> Int]
    <3>1. ASSUME NEW s \in SUBSET S PROVE Body(g, s) \in Int
      <4>1. CASE s = {}
        BY <4>1
      <4>2. CASE s # {}
        <5>1. f[Some(s)] \in Int /\ g[s \ {Some(s)}] \in Int
          BY <4>2, <1>2
        <5> QED  BY <4>2, <5>1
      <4> QED  BY <4>1, <4>2
    <3> HIDE DEF Body
    <3> QED  BY <3>1
  <2>3. \A s \in SUBSET S : Cardinality(s) <= n => h[s] = g[s]
    BY <2>1
  <2>4. ASSUME NEW s \in SUBSET S, Cardinality(s) <= n + 1 PROVE h[s] = Body(h, s)
    <3>1. CASE s = {}
      BY <3>1
    <3>2. CASE s # {}
      <4>1. Cardinality(s \ {Some(s)}) <= n /\ s \ {Some(s)} \in SUBSET S
        BY <3>2, <2>4, <1>1, <1>2
      <4>2. h[s \ {Some(s)}] = g[s \ {Some(s)}]
        BY <4>1, <2>3
      <4> QED  BY <3>2, <4>2
    <3> QED  BY <3>1, <3>2
  <2> HIDE DEF h
  <2> QED  BY <2>2, <2>4
<1>5. \A n \in Nat : UpTo(n)
  <2> HIDE DEF UpTo
  <2> DEFINE Bad == {n \in Nat : ~UpTo(n)}
  <2> SUFFICES ASSUME Bad # {} PROVE FALSE
    OBVIOUS
  <2>1. PICK n \in Bad : \A m \in Bad : n <= m
    <3>1. Bad \subseteq Nat
      OBVIOUS
    <3> HIDE DEF Bad
    <3> QED  BY <3>1, LeastNat
  <2>2. n # 0
    BY <1>3
  <2>3. n - 1 \in Nat /\ ~(n <= n - 1)
    BY <2>2
  <2>4. UpTo(n - 1)
    BY <2>1, <2>3
  <2>5. UpTo((n - 1) + 1)
    BY <2>3, <2>4, <1>4
  <2>6. (n - 1) + 1 = n
    BY <2>2
  <2> QED  BY <2>5, <2>6
<1>6. PICK g \in [SUBSET S -> Int] : \A s \in SUBSET S : Cardinality(s) <= Cardinality(S) => g[s] = Body(g, s)
  <2>1. UpTo(Cardinality(S))
    <3> HIDE DEF UpTo
    <3> QED  BY <1>1, <1>5
  <2> QED  BY <2>1
<1>7. \A s \in SUBSET S : g[s] = Body(g, s)
  BY <1>6, FS_Subset
<1>8. Sums(f, S, g)
  BY <1>6, <1>7 DEF Sums
<1>9. Sums(f, S, TheSums(f, S))
  BY <1>8 DEF TheSums
<1> DEFINE h == TheSums(f, S)
<1>10. /\ DOMAIN h = SUBSET S
       /\ \A s \in SUBSET S : h[s] = IF s = {} THEN 0 ELSE f[Some(s)] + h[s \ {Some(s)}]
       /\ h = [s \in SUBSET S |-> h[s]]
  BY <1>9 DEF Sums
<1>11. \A s \in SUBSET S : h[s] = g[s]
  <2> HIDE DEF h
  <2> DEFINE Bad == {s \in SUBSET S : h[s] # g[s]}
  <2> SUFFICES ASSUME Bad # {} PROVE FALSE
    OBVIOUS
  <2>1. PICK s \in Bad : \A v \in SUBSET s : v # s => v \notin Bad
    <3>1. Bad \subseteq SUBSET S
      OBVIOUS
    <3> HIDE DEF Bad
    <3> QED  BY <3>1, MinimalSubset
  <2>2. s # {}
    BY <1>7, <1>10
  <2>3. s \ {Some(s)} \in SUBSET s /\ s \ {Some(s)} # s
    BY <2>2, SomeInSet
  <2>4. h[s \ {Some(s)}] = g[s \ {Some(s)}]
    BY <2>1, <2>3
  <2> QED  BY <2>1, <2>2, <2>4, <1>7, <1>10
<1>12. h \in [SUBSET S -> Int]
  <2> HIDE DEF h
  <2> QED  BY <1>10, <1>11
<1> QED  BY <1>9, <1>12

(* The sum over a subset is the same whatever set the fold started from.   *)
LEMMA SumOfSubset ==
    ASSUME NEW S, IsFiniteSet(S), NEW f, \A x \in S : f[x] \in Int, NEW W \in SUBSET S
    PROVE  TheSums(f, S)[W] = SumFunctionOnSet(f, W)
<1> DEFINE h == TheSums(f, S)
           k == TheSums(f, W)
<1>1. IsFiniteSet(W) /\ \A x \in W : f[x] \in Int
  BY FS_Subset
<1>2. Sums(f, S, h) /\ Sums(f, W, k)
  <2>1. Sums(f, S, h)
    BY SumsExist
  <2>2. Sums(f, W, k)
    BY <1>1, SumsExist
  <2> QED  BY <2>1, <2>2
<1>3. /\ \A s \in SUBSET S : h[s] = IF s = {} THEN 0 ELSE f[Some(s)] + h[s \ {Some(s)}]
      /\ \A s \in SUBSET W : k[s] = IF s = {} THEN 0 ELSE f[Some(s)] + k[s \ {Some(s)}]
  <2> HIDE DEF h, k
  <2> QED  BY <1>2 DEF Sums
<1> HIDE DEF h, k
<1>4. \A s \in SUBSET W : h[s] = k[s]
  <2> DEFINE Bad == {s \in SUBSET W : h[s] # k[s]}
  <2> SUFFICES ASSUME Bad # {} PROVE FALSE
    OBVIOUS
  <2>1. PICK s \in Bad : \A v \in SUBSET s : v # s => v \notin Bad
    <3>1. Bad \subseteq SUBSET W
      OBVIOUS
    <3> HIDE DEF Bad
    <3> QED  BY <1>1, <3>1, MinimalSubset
  <2>2. s # {} /\ s \in SUBSET W /\ s \in SUBSET S
    BY <1>3
  <2>3. s \ {Some(s)} \in SUBSET s /\ s \ {Some(s)} # s
    BY <2>2, SomeInSet
  <2>4. h[s \ {Some(s)}] = k[s \ {Some(s)}]
    BY <2>1, <2>2, <2>3
  <2>5. h[s] = k[s]
    BY <2>2, <2>4, <1>3
  <2> QED  BY <2>1, <2>5
<1>5. SumFunctionOnSet(f, W) = k[W]
  BY SumIsFold DEF k
<1> QED  BY <1>4, <1>5 DEF h

-----------------------------------------------------------------------------
(* What the proofs about counters use. *)

LEMMA SumOfNone ==
    ASSUME NEW f
    PROVE  SumFunctionOnSet(f, {}) = 0
<1>1. IsFiniteSet({}) /\ \A x \in {} : f[x] \in Int
  BY FS_EmptySet
<1>2. Sums(f, {}, TheSums(f, {}))
  BY <1>1, SumsExist
<1>3. TheSums(f, {})[{}] = 0
  BY <1>2 DEF Sums
<1> QED  BY <1>3, SumIsFold

LEMMA SumType ==
    ASSUME NEW S, IsFiniteSet(S), NEW f, \A x \in S : f[x] \in Int
    PROVE  SumFunctionOnSet(f, S) \in Int
<1>1. TheSums(f, S) \in [SUBSET S -> Int]
  BY SumsExist
<1> QED  BY <1>1, SumIsFold

(* Any element can be taken out of the sum, not only the one the fold      *)
(* takes first.                                                            *)
LEMMA SumRemove ==
    ASSUME NEW S, IsFiniteSet(S), NEW f, \A x \in S : f[x] \in Int, NEW x \in S
    PROVE  SumFunctionOnSet(f, S) = f[x] + SumFunctionOnSet(f, S \ {x})
<1> DEFINE h == TheSums(f, S)
<1>1. /\ \A s \in SUBSET S : h[s] = IF s = {} THEN 0 ELSE f[Some(s)] + h[s \ {Some(s)}]
      /\ h \in [SUBSET S -> Int]
  <2>1. Sums(f, S, h) /\ h \in [SUBSET S -> Int]
    BY SumsExist
  <2> HIDE DEF h
  <2> QED  BY <2>1 DEF Sums
<1> HIDE DEF h
<1> DEFINE Bad == {s \in SUBSET S : \E y \in s : h[s] # f[y] + h[s \ {y}]}
<1>2. Bad = {}
  <2> SUFFICES ASSUME Bad # {} PROVE FALSE
    OBVIOUS
  <2>1. PICK s \in Bad : \A v \in SUBSET s : v # s => v \notin Bad
    <3>1. Bad \subseteq SUBSET S
      OBVIOUS
    <3> HIDE DEF Bad
    <3> QED  BY <3>1, MinimalSubset
  <2>2. PICK y \in s : h[s] # f[y] + h[s \ {y}]
    BY <2>1
  <2> DEFINE c == Some(s)
  <2>3. c \in s
    BY <2>2, SomeInSet
  <2> HIDE DEF c
  <2>4. h[s] = f[c] + h[s \ {c}]
    BY <2>1, <2>3, <1>1 DEF c
  <2>5. y # c
    BY <2>2, <2>4
  <2>6. /\ s \ {c} \in SUBSET S /\ s \ {y} \in SUBSET S /\ (s \ {c}) \ {y} \in SUBSET S
        /\ (s \ {c}) \ {y} = (s \ {y}) \ {c}
        /\ y \in s \ {c} /\ c \in s \ {y}
    BY <2>1, <2>2, <2>3, <2>5
  <2>7. h[s \ {c}] = f[y] + h[(s \ {c}) \ {y}]
    BY <2>1, <2>3, <2>6
  <2>8. h[s \ {y}] = f[c] + h[(s \ {y}) \ {c}]
    BY <2>1, <2>2, <2>6
  <2>9. f[y] \in Int /\ f[c] \in Int /\ h[(s \ {c}) \ {y}] \in Int
    BY <2>1, <2>2, <2>3, <2>6, <1>1
  <2>10. h[s] = f[y] + h[s \ {y}]
    <3>1. \A a, b, d \in Int : a + (b + d) = b + (a + d)
      OBVIOUS
    <3>2. f[c] + (f[y] + h[(s \ {c}) \ {y}]) = f[y] + (f[c] + h[(s \ {c}) \ {y}])
      BY <2>9, <3>1
    <3> QED  BY <3>2, <2>4, <2>6, <2>7, <2>8, Zenon
  <2> QED  BY <2>2, <2>10
<1>3. h[S] = f[x] + h[S \ {x}]
  BY <1>2
<1>4. h[S] = SumFunctionOnSet(f, S) /\ h[S \ {x}] = SumFunctionOnSet(f, S \ {x})
  BY SumOfSubset DEF h
<1> QED  BY <1>3, <1>4

LEMMA SumIsNat ==
    ASSUME NEW S, IsFiniteSet(S), NEW f, \A x \in S : f[x] \in Nat
    PROVE  SumFunctionOnSet(f, S) \in Nat
<1> DEFINE Bad == {s \in SUBSET S : SumFunctionOnSet(f, s) \notin Nat}
<1> SUFFICES ASSUME Bad # {} PROVE FALSE
  OBVIOUS
<1>1. PICK s \in Bad : \A v \in SUBSET s : v # s => v \notin Bad
  <2>1. Bad \subseteq SUBSET S
    OBVIOUS
  <2> HIDE DEF Bad
  <2> QED  BY <2>1, MinimalSubset
<1>2. s # {}
  BY SumOfNone
<1>3. PICK x \in s : TRUE
  BY <1>2
<1>4. IsFiniteSet(s) /\ \A y \in s : f[y] \in Int
  BY FS_Subset
<1>5. SumFunctionOnSet(f, s) = f[x] + SumFunctionOnSet(f, s \ {x})
  BY <1>4, SumRemove
<1>6. SumFunctionOnSet(f, s \ {x}) \in Nat /\ f[x] \in Nat
  BY <1>1
<1>7. SumFunctionOnSet(f, s) \in Nat
  <2> DEFINE a == SumFunctionOnSet(f, s)
             b == SumFunctionOnSet(f, s \ {x})
             c == f[x]
  <2>1. a = c + b /\ b \in Nat /\ c \in Nat
    BY <1>5, <1>6
  <2> HIDE DEF a, b, c
  <2>2. a \in Nat
    BY <2>1
  <2> QED  BY <2>2 DEF a
<1> QED  BY <1>1, <1>7

(* No element is larger than the sum.                                      *)
LEMMA SumCovers ==
    ASSUME NEW S, IsFiniteSet(S), NEW f, \A x \in S : f[x] \in Nat, NEW x \in S
    PROVE  f[x] <= SumFunctionOnSet(f, S)
<1>1. SumFunctionOnSet(f, S) = f[x] + SumFunctionOnSet(f, S \ {x})
  BY SumRemove
<1>2. SumFunctionOnSet(f, S \ {x}) \in Nat
  <2>1. IsFiniteSet(S \ {x})
    BY FS_RemoveElement
  <2> QED  BY <2>1, SumIsNat
<1> QED  BY <1>1, <1>2

-----------------------------------------------------------------------------
(* Recursive functions over a graph E whose edges lead to lower ranks: what *)
(* a node t collects is D[t] and what its successors collect.               *)

Ranked(T, E, rank, N) ==
    /\ N \in Nat
    /\ E \in [T -> SUBSET T]
    /\ rank \in [T -> 0..N]
    /\ \A t \in T : \A u \in E[t] : rank[u] < rank[t]

Solves(f, T, D, E) == f = [t \in T |-> D[t] \cup UNION {f[u] : u \in E[t]}]

(* What holds of a node if it holds of all its successors holds of all.    *)
LEMMA RankInduction ==
    ASSUME NEW T, NEW E, NEW rank, NEW N, Ranked(T, E, rank, N), NEW G,
           \A t \in T : E[t] \subseteq G => t \in G
    PROVE  T \subseteq G
<1> DEFINE Bad == {t \in T : t \notin G}
           Ranks == {rank[t] : t \in Bad}
<1> SUFFICES ASSUME Bad # {} PROVE FALSE
  OBVIOUS
<1>1. Ranks \subseteq Nat /\ Ranks # {}
  BY DEF Ranked
<1>2. PICK x \in Ranks : \A y \in Ranks : x <= y
  <2> HIDE DEF Ranks
  <2> QED  BY <1>1, LeastNat
<1>3. PICK t \in Bad : x = rank[t]
  OBVIOUS
<1>4. ASSUME NEW u \in E[t], u \notin G PROVE FALSE
  <2>1. u \in Bad /\ rank[u] < rank[t]
    BY <1>4 DEF Ranked
  <2>2. rank[t] <= rank[u] /\ rank[t] \in Int /\ rank[u] \in Int
    BY <2>1, <1>2, <1>3 DEF Ranked
  <2> QED  BY <2>1, <2>2
<1> QED  BY <1>3, <1>4

LEMMA SolutionMember ==
    ASSUME NEW f, NEW T, NEW D, NEW E, Solves(f, T, D, E), NEW t \in T, NEW x
    PROVE  x \in f[t] <=> x \in D[t] \/ \E u \in E[t] : x \in f[u]
<1>1. f[t] = D[t] \cup UNION {f[u] : u \in E[t]}
  BY DEF Solves
<1> QED  BY <1>1

(* Such a function exists: it is defined rank by rank.                     *)
LEMMA SolutionExists ==
    ASSUME NEW T, NEW E, NEW rank, NEW N, Ranked(T, E, rank, N), NEW D
    PROVE  \E f : Solves(f, T, D, E)
<1> DEFINE Below(k) == {s \in T : rank[s] < k}
           Partial(g, k) == g = [t \in Below(k) |-> D[t] \cup UNION {g[u] : u \in E[t]}]
           K == {k \in Nat : ~\E g : Partial(g, k)}
<1>1. \A t \in T : rank[t] \in 0..N /\ N \in Nat
  BY DEF Ranked
<1>2. ASSUME K # {} PROVE FALSE
  <2>1. PICK m \in K : \A k \in K : m <= k
    <3>1. K \subseteq Nat
      OBVIOUS
    <3> HIDE DEF K
    <3> QED  BY <3>1, <1>2, LeastNat
  <2>2. CASE m = 0
    <3>1. Below(m) = {}
      BY <2>2, <1>1
    <3> HIDE DEF Below
    <3>2. Partial([t \in Below(m) |-> {}], m)
      BY <3>1
    <3> QED  BY <3>2
  <2>3. CASE m # 0
    <3>1. m - 1 \in Nat /\ m - 1 \notin K
      <4>1. m \in Nat
        OBVIOUS
      <4>2. m - 1 \in K => m <= m - 1
        BY <2>1
      <4> HIDE DEF K
      <4> QED  BY <4>1, <4>2, <2>3
    <3>2. PICK g : Partial(g, m - 1)
      BY <3>1
    <3> DEFINE h == [t \in Below(m) |-> IF t \in Below(m - 1) THEN g[t]
                                        ELSE D[t] \cup UNION {g[u] : u \in E[t]}]
    <3>3. ASSUME NEW t \in Below(m) PROVE h[t] = D[t] \cup UNION {h[u] : u \in E[t]}
      <4>1. ASSUME NEW u \in E[t] PROVE u \in Below(m - 1) /\ u \in Below(m)
        <5>1. u \in T /\ rank[u] < rank[t] /\ rank[t] < m
          BY DEF Ranked
        <5> QED  BY <5>1, <1>1, <3>1
      <4> HIDE DEF Below
      <4>2. \A u \in E[t] : h[u] = g[u]
        BY <4>1
      <4>3. h[t] = D[t] \cup UNION {g[u] : u \in E[t]}
        BY <3>2
      <4> HIDE DEF h
      <4>4. {h[u] : u \in E[t]} = {g[u] : u \in E[t]}
        BY <4>2
      <4> QED  BY <4>3, <4>4
    <3>4. Partial(h, m)
      <4>1. h = [t \in Below(m) |-> h[t]]
        OBVIOUS
      <4> HIDE DEF h, Below
      <4> QED  BY <3>3, <4>1
    <3> QED  BY <3>4
  <2> QED  BY <2>2, <2>3
<1>3. PICK f : Partial(f, N + 1)
  <2>1. N + 1 \in Nat
    BY DEF Ranked
  <2> HIDE DEF Partial
  <2> QED  BY <1>2, <2>1
<1>4. Below(N + 1) = T
  BY <1>1
<1> QED  BY <1>3, <1>4 DEF Solves

-----------------------------------------------------------------------------
(* R is the order that E generates, C collects D along it.                 *)

LEMMA OrderDescends ==
    ASSUME NEW T, NEW E, NEW rank, NEW N, Ranked(T, E, rank, N),
           NEW R, Solves(R, T, E, E)
    PROVE  \A t \in T : \A u \in R[t] : u \in T /\ rank[u] < rank[t]
<1> DEFINE G == {t \in T : \A u \in R[t] : u \in T /\ rank[u] < rank[t]}
<1>1. ASSUME NEW t \in T, E[t] \subseteq G PROVE t \in G
  <2> SUFFICES ASSUME NEW u \in R[t] PROVE u \in T /\ rank[u] < rank[t]
    OBVIOUS
  <2>1. CASE u \in E[t]
    BY <2>1 DEF Ranked
  <2>2. ASSUME NEW s \in E[t], u \in R[s] PROVE u \in T /\ rank[u] < rank[t]
    <3>1. s \in T /\ rank[s] < rank[t] /\ u \in T /\ rank[u] < rank[s]
      BY <1>1, <2>2 DEF Ranked
    <3>2. rank[s] \in Int /\ rank[t] \in Int /\ rank[u] \in Int
      BY <3>1 DEF Ranked
    <3> QED  BY <3>1, <3>2
  <2> QED  BY <2>1, <2>2, SolutionMember
<1> HIDE DEF G
<1>2. T \subseteq G
  BY <1>1, RankInduction
<1> QED  BY <1>2 DEF G

(* A node collects all that those behind it collect.                       *)
LEMMA CollectedGrows ==
    ASSUME NEW T, NEW E, NEW rank, NEW N, Ranked(T, E, rank, N),
           NEW R, Solves(R, T, E, E), NEW D, NEW C, Solves(C, T, D, E)
    PROVE  \A t \in T : \A u \in R[t] : C[u] \subseteq C[t]
<1> DEFINE G == {t \in T : \A u \in R[t] : C[u] \subseteq C[t]}
<1>1. ASSUME NEW t \in T, E[t] \subseteq G PROVE t \in G
  <2>1. ASSUME NEW u \in E[t] PROVE C[u] \subseteq C[t]
    <3>1. ASSUME NEW x \in C[u] PROVE x \in C[t]
      BY SolutionMember
    <3> QED  BY <3>1
  <2>2. ASSUME NEW u \in R[t] PROVE C[u] \subseteq C[t]
    <3>1. CASE u \in E[t]
      BY <3>1, <2>1
    <3>2. ASSUME NEW s \in E[t], u \in R[s] PROVE C[u] \subseteq C[t]
      <4>1. C[u] \subseteq C[s] /\ C[s] \subseteq C[t]
        BY <1>1, <2>1, <3>2
      <4> QED  BY <4>1
    <3> QED  BY <3>1, <3>2, SolutionMember
  <2> QED  BY <2>2
<1> HIDE DEF G
<1>2. T \subseteq G
  BY <1>1, RankInduction
<1> QED  BY <1>2 DEF G

LEMMA OrderTransitive ==
    ASSUME NEW T, NEW E, NEW rank, NEW N, Ranked(T, E, rank, N),
           NEW R, Solves(R, T, E, E)
    PROVE  \A t \in T : \A u \in R[t] : R[u] \subseteq R[t]
BY CollectedGrows

(* What a node collects was somewhere behind it.                           *)
LEMMA CollectedOrigin ==
    ASSUME NEW T, NEW E, NEW rank, NEW N, Ranked(T, E, rank, N),
           NEW R, Solves(R, T, E, E), NEW D, NEW C, Solves(C, T, D, E)
    PROVE  \A t \in T : \A x : x \in C[t] <=> x \in D[t] \/ \E s \in R[t] : x \in D[s]
<1> DEFINE Origin(t, x) == x \in D[t] \/ \E s \in R[t] : x \in D[s]
           G == {t \in T : \A x \in C[t] : Origin(t, x)}
<1>1. ASSUME NEW t \in T, E[t] \subseteq G PROVE t \in G
  <2> SUFFICES ASSUME NEW x \in C[t] PROVE Origin(t, x)
    OBVIOUS
  <2>1. ASSUME NEW u \in E[t], x \in C[u] PROVE Origin(t, x)
    <3>1. Origin(u, x)
      BY <1>1, <2>1
    <3>2. u \in R[t]
      BY SolutionMember
    <3>3. R[u] \subseteq R[t]
      BY <3>2, OrderTransitive
    <3> QED  BY <3>1, <3>2, <3>3
  <2> QED  BY <2>1, SolutionMember
<1>2. T \subseteq G
  <2> HIDE DEF G
  <2> QED  BY <1>1, RankInduction
<1>3. ASSUME NEW t \in T, NEW x, x \in D[t] \/ \E s \in R[t] : x \in D[s] PROVE x \in C[t]
  <2>1. ASSUME NEW s \in R[t], x \in D[s] PROVE x \in C[t]
    <3>1. s \in T /\ C[s] \subseteq C[t]
      BY OrderDescends, CollectedGrows
    <3>2. x \in C[s]
      BY <3>1, <2>1, SolutionMember
    <3> QED  BY <3>1, <3>2
  <2>2. x \in D[t] => x \in C[t]
    BY SolutionMember
  <2> QED  BY <1>3, <2>1, <2>2
<1> QED  BY <1>2, <1>3

(* The order of the reversed graph is the reversed order.                  *)
LEMMA HalfConverse ==
    ASSUME NEW T, NEW E, NEW rank, NEW N, Ranked(T, E, rank, N),
           NEW E2, NEW rank2, NEW N2, Ranked(T, E2, rank2, N2),
           \A t, u \in T : u \in E[t] => t \in E2[u],
           NEW R, Solves(R, T, E, E), NEW R2, Solves(R2, T, E2, E2)
    PROVE  \A t \in T : \A u \in R[t] : t \in R2[u]
<1> DEFINE G == {t \in T : \A u \in R[t] : t \in R2[u]}
<1>1. ASSUME NEW t \in T, E[t] \subseteq G PROVE t \in G
  <2> SUFFICES ASSUME NEW u \in R[t] PROVE t \in R2[u]
    OBVIOUS
  <2>1. ASSUME NEW s \in E[t] PROVE s \in T /\ t \in R2[s]
    <3>1. s \in T /\ t \in E2[s]
      BY DEF Ranked
    <3> QED  BY <3>1, SolutionMember
  <2>2. ASSUME NEW s \in E[t], u \in R[s] PROVE t \in R2[u]
    <3>1. u \in T /\ s \in R2[u] /\ t \in R2[s]
      BY <1>1, <2>1, <2>2, OrderDescends
    <3>2. R2[s] \subseteq R2[u]
      BY <3>1, OrderTransitive
    <3> QED  BY <3>1, <3>2
  <2> QED  BY <2>1, <2>2, SolutionMember
<1> HIDE DEF G
<1>2. T \subseteq G
  BY <1>1, RankInduction
<1> QED  BY <1>2 DEF G

(* Two graphs generate the same order if the edges of the second follow    *)
(* the order of the first, and the edges of the first with nothing between *)
(* their ends are edges of the second.                                     *)
LEMMA SameOrder ==
    ASSUME NEW T, NEW E, NEW rank, NEW N, Ranked(T, E, rank, N),
           NEW E2, Ranked(T, E2, rank, N),
           NEW R, Solves(R, T, E, E), NEW R2, Solves(R2, T, E2, E2),
           \A t \in T : E2[t] \subseteq R[t],
           \A t \in T : \A u \in E[t] : u \in E2[t] \/ \E s \in R[t] : u \in R[s]
    PROVE  R2 = R
<1>1. \A t \in T : rank[t] \in 0..N /\ N \in Nat
  BY DEF Ranked
<1>2. \A t \in T : R2[t] \subseteq R[t]
  <2> DEFINE G == {t \in T : R2[t] \subseteq R[t]}
  <2>1. ASSUME NEW t \in T, E2[t] \subseteq G PROVE t \in G
    <3>1. ASSUME NEW u \in R2[t] PROVE u \in R[t]
      <4>1. ASSUME NEW s \in E2[t], u \in R2[s] PROVE u \in R[t]
        <5>1. u \in R[s] /\ s \in R[t]
          BY <2>1, <4>1
        <5> QED  BY <5>1, OrderTransitive
      <4> QED  BY <4>1, SolutionMember
    <3> QED  BY <3>1
  <2> HIDE DEF G
  <2>2. T \subseteq G
    BY <2>1, RankInduction
  <2> QED  BY <2>2 DEF G
<1>3. ASSUME NEW a \in T, NEW b \in R[a], b \notin R2[a] PROVE FALSE
  <2> DEFINE Bad(d) == \E t \in T : \E u \in R[t] : u \notin R2[t] /\ d = rank[t] - rank[u]
             B == {d \in Nat : Bad(d)}
  <2>1. \A t \in T : \A u \in R[t] : u \in T /\ rank[t] - rank[u] \in Nat
    <3>1. ASSUME NEW t \in T, NEW u \in R[t] PROVE u \in T /\ rank[u] < rank[t]
      BY OrderDescends
    <3> QED  BY <3>1, <1>1
  <2>2. B \subseteq Nat /\ rank[a] - rank[b] \in B
    BY <1>3, <2>1
  <2>3. PICK d \in B : \A e \in B : d <= e
    <3> HIDE DEF B
    <3> QED  BY <2>2, LeastNat
  <2>4. PICK t \in T : \E u \in R[t] : u \notin R2[t] /\ d = rank[t] - rank[u]
    OBVIOUS
  <2>5. PICK u \in R[t] : u \notin R2[t] /\ d = rank[t] - rank[u]
    BY <2>4
  <2>6. ASSUME NEW p \in T, NEW q \in R[p], rank[p] - rank[q] < d PROVE q \in R2[p]
    <3>1. rank[p] - rank[q] \notin B
      BY <2>1, <2>3, <2>6
    <3> QED  BY <3>1, <2>1
  <2>7. ASSUME NEW s \in R[t], u \in R[s] PROVE FALSE
    <3>1. s \in T /\ u \in T /\ rank[s] < rank[t] /\ rank[u] < rank[s]
      BY <2>7, OrderDescends
    <3>2. rank[t] - rank[s] < d /\ rank[s] - rank[u] < d
      BY <3>1, <2>5, <1>1
    <3>3. s \in R2[t] /\ u \in R2[s]
      BY <3>1, <3>2, <2>6, <2>7
    <3> QED  BY <3>3, <2>5, OrderTransitive
  <2>8. u \in E[t]
    <3>1. ASSUME NEW s \in E[t], u \in R[s] PROVE FALSE
      <4>1. s \in R[t]
        BY SolutionMember
      <4> QED  BY <4>1, <3>1, <2>7
    <3> QED  BY <3>1, SolutionMember
  <2>9. u \in E2[t]
    BY <2>7, <2>8
  <2>10. u \in R2[t]
    BY <2>9, SolutionMember
  <2> QED  BY <2>10, <2>5
<1>4. \A t \in T : R[t] = R2[t]
  BY <1>2, <1>3
<1>5. R = [t \in T |-> R[t]] /\ R2 = [t \in T |-> R2[t]]
  BY DEF Solves
<1> QED  BY <1>4, <1>5
-----------------------------------------------------------------------------
(* Barrier maps of n tasks.                                                *)

Index(n) == 0..(n - 1)

(* The two sides of one relation between tasks and the barriers below m.   *)
Mirror(n, m, byTask, byBarrier) ==
    /\ byTask \in [Index(n) -> SUBSET Index(m)]
    /\ byBarrier \in [Index(m) -> SUBSET Index(n)]
    /\ \A t \in Index(n), v \in Index(m) : v \in byTask[t] <=> t \in byBarrier[v]

(* The inductive invariant.                                                *)
Agreeing(n, b) ==
    /\ b.num \in Nat
    /\ Mirror(n, b.num, b.wait, b.cons)
    /\ Mirror(n, b.num, b.update, b.prod)

(* It implies the property.                                                *)
LEMMA AgreeingMapsAgree == ASSUME NEW n, NEW b, Agreeing(n, b) PROVE MapsAgree(b)
<1>1. TaskOf(b) = Index(n) /\ BarrierOf(b) = Index(b.num)
  BY DEF Agreeing, Mirror, TaskOf, BarrierOf, Index
<1>2. /\ DOMAIN b.prod = Index(b.num)
      /\ DOMAIN b.cons = Index(b.num)
      /\ DOMAIN b.update = Index(n)
  BY DEF Agreeing, Mirror
<1>3. \A t \in Index(n) : b.wait[t] \subseteq Index(b.num) /\ b.update[t] \subseteq Index(b.num)
  BY DEF Agreeing, Mirror
<1>4. \A v \in Index(b.num) : b.prod[v] \subseteq Index(n) /\ b.cons[v] \subseteq Index(n)
  BY DEF Agreeing, Mirror
<1>5. \A t \in Index(n), v \in Index(b.num) :
        /\ v \in b.wait[t] <=> t \in b.cons[v]
        /\ v \in b.update[t] <=> t \in b.prod[v]
  BY DEF Agreeing, Mirror
<1> QED
  BY <1>1, <1>2, <1>3, <1>4, <1>5 DEF MapsAgree

(* Four maps that mirror each other make an agreeing value.                *)
LEMMA Assemble ==
    ASSUME NEW n, NEW m \in Nat, NEW wait, NEW update, NEW prod, NEW cons,
           Mirror(n, m, wait, cons), Mirror(n, m, update, prod)
    PROVE  Agreeing(n, Maps(m, wait, update, prod, cons))
BY DEF Agreeing, Maps

-----------------------------------------------------------------------------
(* The edits of one relation.                                              *)

(* A barrier gets, or loses, a set of tasks.                               *)
LEMMA JoinMirrors ==
    ASSUME NEW n, NEW m, NEW f, NEW g, Mirror(n, m, f, g),
           NEW v \in Index(m), NEW S \in SUBSET Index(n)
    PROVE  /\ Mirror(n, m, Join(f, S, v), With(g, v, S))
           /\ Mirror(n, m, Leave(f, S, v), Without(g, v, S))
BY DEF Mirror, Join, With, Leave, Without

(* A barrier loses all its tasks.                                          *)
LEMMA ResetMirrors ==
    ASSUME NEW n, NEW m, NEW f, NEW g, Mirror(n, m, f, g), NEW v \in Index(m)
    PROVE  Mirror(n, m, Leave(f, g[v], v), [g EXCEPT ![v] = {}])
BY DEF Mirror, Leave

(* A task gets another set of barriers.                                    *)
LEMMA SetMirrors ==
    ASSUME NEW n, NEW m, NEW f, NEW g, Mirror(n, m, f, g),
           NEW t \in Index(n), NEW S \in SUBSET Index(m)
    PROVE  Mirror(n, m, [f EXCEPT ![t] = S], Join(Leave(g, f[t], t), S, t))
<1> DEFINE h == Join(Leave(g, f[t], t), S, t)
<1>1. /\ DOMAIN h = Index(m)
      /\ \A v \in Index(m) :
            h[v] = IF v \in S THEN (IF v \in f[t] THEN g[v] \ {t} ELSE g[v]) \cup {t}
                   ELSE IF v \in f[t] THEN g[v] \ {t} ELSE g[v]
  BY DEF Mirror, Join, Leave
<1>2. h \in [Index(m) -> SUBSET Index(n)]
  BY DEF Mirror, Join, Leave
<1>3. [f EXCEPT ![t] = S] \in [Index(n) -> SUBSET Index(m)]
  BY DEF Mirror
<1>4. ASSUME NEW u \in Index(n), NEW v \in Index(m)
      PROVE  v \in [f EXCEPT ![t] = S][u] <=> u \in h[v]
  <2> HIDE DEF h
  <2>1. v \in f[u] <=> u \in g[v]
    BY DEF Mirror
  <2>2. v \in f[t] <=> t \in g[v]
    BY DEF Mirror
  <2>3. CASE u = t
    BY <1>1, <2>3 DEF Mirror
  <2>4. CASE u # t
    BY <1>1, <2>1, <2>4 DEF Mirror
  <2> QED
    BY <2>3, <2>4
<1> HIDE DEF h
<1>5. Mirror(n, m, [f EXCEPT ![t] = S], h)
  BY <1>2, <1>3, <1>4 DEF Mirror
<1> QED
  BY <1>5 DEF h

(* A relation computed by task and written back on both sides.             *)
LEMMA ComputedMirrors ==
    ASSUME NEW n, NEW m, NEW r, NEW T, T = Index(n), NEW I, I = Index(m)
    PROVE  Mirror(n, m, [t \in T |-> {v \in I : v \in r[t]}],
                     [v \in I |-> {t \in T : v \in r[t]}])
BY DEF Mirror

(* A relation without the barriers of a set.                               *)
LEMMA SparedMirrors ==
    ASSUME NEW n, NEW m, NEW f, NEW g, Mirror(n, m, f, g), NEW S,
           NEW T, T = Index(n), NEW I, I = Index(m)
    PROVE  Mirror(n, m, [t \in T |-> f[t] \ S],
                     [v \in I |-> IF v \in S THEN {} ELSE g[v]])
BY DEF Mirror

-----------------------------------------------------------------------------
(* The three stages of optimizeBarriers.  What they compute does not       *)
(* matter here, only that they write it to both sides.                     *)


LEMMA Domains ==
    ASSUME NEW n, NEW b, Agreeing(n, b)
    PROVE  TaskOf(b) = Index(n) /\ BarrierOf(b) = Index(b.num)
BY DEF Agreeing, Mirror, TaskOf, BarrierOf, Index

LEMMA ReduceProducersAgrees ==
    ASSUME NEW n \in Nat, NEW b, Agreeing(n, b) PROVE Agreeing(n, ReduceProducers(b))
<1> DEFINE r == ReducedUpdates(b)
<1>1. ReduceProducers(b) =
        Maps(b.num, b.wait, [t \in TaskOf(b) |-> {v \in BarrierOf(b) : v \in r[t]}],
             [v \in BarrierOf(b) |-> {t \in TaskOf(b) : v \in r[t]}], b.cons)
  BY DEF ReduceProducers
<1> HIDE DEF r
<1>2. Mirror(n, b.num, [t \in TaskOf(b) |-> {v \in BarrierOf(b) : v \in r[t]}],
                    [v \in BarrierOf(b) |-> {t \in TaskOf(b) : v \in r[t]}])
  BY Domains, ComputedMirrors
<1> QED
  BY <1>1, <1>2, Assemble DEF Agreeing

LEMMA ReduceConsumersAgrees ==
    ASSUME NEW n \in Nat, NEW b, Agreeing(n, b) PROVE Agreeing(n, ReduceConsumers(b))
<1> DEFINE r == ReducedWaits(b)
<1>1. ReduceConsumers(b) =
        Maps(b.num, [t \in TaskOf(b) |-> {v \in BarrierOf(b) : v \in r[t]}], b.update,
             b.prod, [v \in BarrierOf(b) |-> {t \in TaskOf(b) : v \in r[t]}])
  BY DEF ReduceConsumers
<1> HIDE DEF r
<1>2. Mirror(n, b.num, [t \in TaskOf(b) |-> {v \in BarrierOf(b) : v \in r[t]}],
                    [v \in BarrierOf(b) |-> {t \in TaskOf(b) : v \in r[t]}])
  BY Domains, ComputedMirrors
<1> QED
  BY <1>1, <1>2, Assemble DEF Agreeing

LEMMA MergeSameProducersAgrees ==
    ASSUME NEW n \in Nat, NEW b, Agreeing(n, b) PROVE Agreeing(n, MergeSameProducers(b))
<1> DEFINE same(v) == {w \in BarrierOf(b) : b.prod[w] = b.prod[v]}
           first(S) == CHOOSE v \in S : \A w \in S : v <= w
           spare == {v \in BarrierOf(b) : b.prod[v] = {} \/ \E w \in same(v) : w < v}
           leader(v) == IF b.prod[v] = {} THEN first(spare) ELSE first(same(v))
           ledBy(w, S) == \E v \in S : leader(v) = w
           r == [t \in TaskOf(b) |-> {w \in BarrierOf(b) : ledBy(w, b.wait[t])}]
           waits == [t \in TaskOf(b) |-> {w \in BarrierOf(b) : w \in r[t]}]
           conss == [w \in BarrierOf(b) |-> {t \in TaskOf(b) : w \in r[t]}]
           updates == [t \in TaskOf(b) |-> b.update[t] \ spare]
           prods == [v \in BarrierOf(b) |-> IF v \in spare THEN {} ELSE b.prod[v]]
<1>1. MergeSameProducers(b) =
        Maps(b.num,
             [t \in TaskOf(b) |-> {w \in BarrierOf(b) : ledBy(w, b.wait[t])}],
             updates, prods,
             [w \in BarrierOf(b) |-> {t \in TaskOf(b) : ledBy(w, b.wait[t])}])
  BY DEF MergeSameProducers
<1> HIDE DEF ledBy, spare
<1>2. /\ [t \in TaskOf(b) |-> {w \in BarrierOf(b) : ledBy(w, b.wait[t])}] = waits
      /\ [w \in BarrierOf(b) |-> {t \in TaskOf(b) : ledBy(w, b.wait[t])}] = conss
  OBVIOUS
<1>3. MergeSameProducers(b) = Maps(b.num, waits, updates, prods, conss)
  BY <1>1, <1>2
<1> HIDE DEF r
<1>4. Mirror(n, b.num, waits, conss)
  BY Domains, ComputedMirrors
<1>5. Mirror(n, b.num, updates, prods)
  BY Domains, SparedMirrors DEF Agreeing
<1> HIDE DEF waits, conss, updates, prods
<1> QED
  BY <1>3, <1>4, <1>5, Assemble DEF Agreeing

LEMMA OptimizeBarriersAgrees ==
    ASSUME NEW n \in Nat, NEW b, Agreeing(n, b) PROVE Agreeing(n, OptimizeBarriers(b))
BY ReduceProducersAgrees, MergeSameProducersAgrees, ReduceConsumersAgrees
   DEF OptimizeBarriers

-----------------------------------------------------------------------------
(* Consumers stand behind producers: the graph of the tasks has no cycle.  *)

Forward(b) == \A v \in BarrierOf(b) : \A t \in b.prod[v], u \in b.cons[v] : t < u

Drives(n, b) == [t \in Index(n) |-> Children(b, t)]
DrivenBy(n, b) == [t \in Index(n) |-> Parents(b, t)]

FromEnd(n) == [t \in Index(n) |-> n - 1 - t]
FromStart(n) == [t \in Index(n) |-> t]

LEMMA TaskIndices ==
    ASSUME NEW n \in Nat PROVE \A t \in Index(n) : t \in Nat /\ t < n
BY DEF Index

LEMMA ChildMember ==
    ASSUME NEW b, NEW t, NEW u
    PROVE  /\ u \in Children(b, t) <=> \E v \in b.update[t] : u \in b.cons[v]
           /\ u \in Parents(b, t) <=> \E v \in b.wait[t] : u \in b.prod[v]
BY DEF Children, Parents

(* Nothing refers to a barrier or a task that does not exist, and the two   *)
(* sides of both relations agree.                                          *)
TwoSided(n, b) ==
    /\ \A t \in Index(n) : b.update[t] \subseteq BarrierOf(b) /\ b.wait[t] \subseteq BarrierOf(b)
    /\ \A v \in BarrierOf(b) : b.prod[v] \subseteq Index(n) /\ b.cons[v] \subseteq Index(n)
    /\ \A t \in Index(n), v \in BarrierOf(b) : /\ v \in b.wait[t] <=> t \in b.cons[v]
                                               /\ v \in b.update[t] <=> t \in b.prod[v]

LEMMA Members ==
    ASSUME NEW n, NEW b, Agreeing(n, b)
    PROVE  TwoSided(n, b)
BY Domains DEF Agreeing, Mirror, TwoSided

LEMMA ChildOrParent ==
    ASSUME NEW n, NEW b, Agreeing(n, b), NEW t \in Index(n), NEW u \in Index(n)
    PROVE  u \in Children(b, t) <=> t \in Parents(b, u)
<1>0. TwoSided(n, b)
  BY Members
<1>1. u \in Children(b, t) <=> \E v \in BarrierOf(b) : t \in b.prod[v] /\ u \in b.cons[v]
  BY <1>0, ChildMember DEF TwoSided
<1>2. t \in Parents(b, u) <=> \E v \in BarrierOf(b) : t \in b.prod[v] /\ u \in b.cons[v]
  BY <1>0, ChildMember DEF TwoSided
<1> QED  BY <1>1, <1>2

LEMMA ForwardChildren ==
    ASSUME NEW n, NEW b, Agreeing(n, b)
    PROVE  Forward(b) <=> \A t \in Index(n) : \A u \in Children(b, t) : t < u
<1>0. TwoSided(n, b)
  BY Members
<1>1. ASSUME Forward(b), NEW t \in Index(n), NEW u \in Children(b, t) PROVE t < u
  <2>1. PICK v \in b.update[t] : u \in b.cons[v]
    BY ChildMember
  <2>2. v \in BarrierOf(b) /\ t \in b.prod[v]
    BY <2>1, <1>0 DEF TwoSided
  <2> QED  BY <1>1, <2>1, <2>2 DEF Forward
<1>2. ASSUME \A t \in Index(n) : \A u \in Children(b, t) : t < u,
             NEW v \in BarrierOf(b), NEW t \in b.prod[v], NEW u \in b.cons[v]
      PROVE  t < u
  <2>1. t \in Index(n) /\ v \in b.update[t]
    BY <1>0 DEF TwoSided
  <2>2. u \in Children(b, t)
    BY <2>1, ChildMember
  <2> QED  BY <1>2, <2>1, <2>2
<1> QED  BY <1>1, <1>2 DEF Forward

LEMMA GraphRanked ==
    ASSUME NEW n \in Nat, NEW b, Agreeing(n, b), Forward(b)
    PROVE  /\ Ranked(Index(n), Drives(n, b), FromEnd(n), n)
           /\ Ranked(Index(n), DrivenBy(n, b), FromStart(n), n)
           /\ \A t \in Index(n) : \A u \in Children(b, t) : u \in Index(n) /\ t < u
           /\ \A t \in Index(n) : \A u \in Parents(b, t) : u \in Index(n) /\ u < t
<1>1. \A t \in Index(n) : \A u \in Children(b, t) : u \in Index(n) /\ t < u
  <2>1. ASSUME NEW t \in Index(n), NEW u \in Children(b, t) PROVE u \in Index(n)
    <3>1. PICK v \in b.update[t] : u \in b.cons[v]
      BY ChildMember
    <3> QED  BY <3>1, Members DEF TwoSided
  <2> QED  BY <2>1, ForwardChildren
<1>2. \A t \in Index(n) : \A u \in Parents(b, t) : u \in Index(n) /\ u < t
  <2> SUFFICES ASSUME NEW t \in Index(n), NEW u \in Parents(b, t) PROVE u \in Index(n) /\ u < t
    OBVIOUS
  <2>1. u \in Index(n)
    <3>1. PICK v \in b.wait[t] : u \in b.prod[v]
      BY ChildMember
    <3> QED  BY <3>1, Members DEF TwoSided
  <2>2. t \in Children(b, u)
    BY <2>1, ChildOrParent
  <2> QED  BY <2>1, <2>2, <1>1
<1>3. \A t \in Index(n) : FromEnd(n)[t] \in 0..n /\ FromStart(n)[t] \in 0..n
  BY TaskIndices DEF FromEnd, FromStart
<1>4. \A t, u \in Index(n) : t < u => FromEnd(n)[u] < FromEnd(n)[t] /\ FromStart(n)[t] < FromStart(n)[u]
  BY TaskIndices DEF FromEnd, FromStart
<1>5. Ranked(Index(n), Drives(n, b), FromEnd(n), n)
  <2>1. Drives(n, b) \in [Index(n) -> SUBSET Index(n)] /\ \A t \in Index(n) : Drives(n, b)[t] = Children(b, t)
    BY <1>1 DEF Drives
  <2>2. FromEnd(n) \in [Index(n) -> 0..n]
    BY <1>3 DEF FromEnd
  <2>3. \A t \in Index(n) : \A u \in Drives(n, b)[t] : FromEnd(n)[u] < FromEnd(n)[t]
    BY <2>1, <1>1, <1>4
  <2> QED  BY <2>1, <2>2, <2>3, TaskIndices DEF Ranked
<1>6. Ranked(Index(n), DrivenBy(n, b), FromStart(n), n)
  <2>1. DrivenBy(n, b) \in [Index(n) -> SUBSET Index(n)] /\ \A t \in Index(n) : DrivenBy(n, b)[t] = Parents(b, t)
    BY <1>2 DEF DrivenBy
  <2>2. FromStart(n) \in [Index(n) -> 0..n]
    BY <1>3 DEF FromStart
  <2>3. \A t \in Index(n) : \A u \in DrivenBy(n, b)[t] : FromStart(n)[u] < FromStart(n)[t]
    BY <2>1, <1>2, <1>4
  <2> QED  BY <2>1, <2>2, <2>3, TaskIndices DEF Ranked
<1> QED  BY <1>1, <1>2, <1>5, <1>6

(* The recursive functions of the class, on a graph without a cycle.       *)

LEMMA RunsAfterSolves ==
    ASSUME NEW n \in Nat, NEW b, Agreeing(n, b), Forward(b)
    PROVE  Solves(RunsAfter(b), Index(n), Drives(n, b), Drives(n, b))
<1>1. PICK f : Solves(f, Index(n), Drives(n, b), Drives(n, b))
  BY GraphRanked, SolutionExists
<1> DEFINE Eq(r) == r = [t \in TaskOf(b) |-> Children(b, t) \cup UNION {r[u] : u \in Children(b, t)}]
<1>2. \A r : Eq(r) <=> Solves(r, Index(n), Drives(n, b), Drives(n, b))
  BY Domains DEF Solves, Drives
<1>3. RunsAfter(b) = CHOOSE r : Eq(r)
  BY DEF RunsAfter
<1>4. Eq(f)
  BY <1>1, <1>2
<1> HIDE DEF Eq
<1> QED  BY <1>2, <1>3, <1>4

LEMMA UpdateClosureSolves ==
    ASSUME NEW n \in Nat, NEW b, Agreeing(n, b), Forward(b)
    PROVE  Solves(UpdateClosure(b), Index(n), b.update, Drives(n, b))
<1>1. PICK f : Solves(f, Index(n), b.update, Drives(n, b))
  BY GraphRanked, SolutionExists
<1> DEFINE Eq(c) == c = [t \in TaskOf(b) |->
                            b.update[t] \cup
                            UNION {IF u > t THEN c[u] ELSE b.update[u] : u \in Children(b, t)}]
<1>2. ASSUME NEW c PROVE Eq(c) <=> Solves(c, Index(n), b.update, Drives(n, b))
  <2>1. ASSUME NEW t \in Index(n)
        PROVE  {IF u > t THEN c[u] ELSE b.update[u] : u \in Children(b, t)} = {c[u] : u \in Drives(n, b)[t]}
    <3>1. \A u \in Children(b, t) : u > t
      BY GraphRanked, TaskIndices
    <3>2. Drives(n, b)[t] = Children(b, t)
      BY DEF Drives
    <3> QED  BY <3>1, <3>2
  <2> QED  BY <2>1, Domains DEF Solves
<1>3. UpdateClosure(b) = CHOOSE c : Eq(c)
  BY DEF UpdateClosure
<1>4. Eq(f)
  BY <1>1, <1>2
<1> HIDE DEF Eq
<1> QED  BY <1>2, <1>3, <1>4

LEMMA WaitClosureSolves ==
    ASSUME NEW n \in Nat, NEW b, Agreeing(n, b), Forward(b)
    PROVE  Solves(WaitClosure(b), Index(n), b.wait, DrivenBy(n, b))
<1>1. PICK f : Solves(f, Index(n), b.wait, DrivenBy(n, b))
  BY GraphRanked, SolutionExists
<1> DEFINE Eq(c) == c = [t \in TaskOf(b) |->
                            b.wait[t] \cup
                            UNION {IF u < t THEN c[u] ELSE b.wait[u] : u \in Parents(b, t)}]
<1>2. ASSUME NEW c PROVE Eq(c) <=> Solves(c, Index(n), b.wait, DrivenBy(n, b))
  <2>1. ASSUME NEW t \in Index(n)
        PROVE  {IF u < t THEN c[u] ELSE b.wait[u] : u \in Parents(b, t)} = {c[u] : u \in DrivenBy(n, b)[t]}
    <3>1. \A u \in Parents(b, t) : u < t
      BY GraphRanked
    <3>2. DrivenBy(n, b)[t] = Parents(b, t)
      BY DEF DrivenBy
    <3> QED  BY <3>1, <3>2
  <2> QED  BY <2>1, Domains DEF Solves
<1>3. WaitClosure(b) = CHOOSE c : Eq(c)
  BY DEF WaitClosure
<1>4. Eq(f)
  BY <1>1, <1>2
<1> HIDE DEF Eq
<1> QED  BY <1>2, <1>3, <1>4

(* The second loops drop what the neighbours have in their closure.        *)
LEMMA ReducedSets ==
    ASSUME NEW n \in Nat, NEW b, Agreeing(n, b), Forward(b)
    PROVE  /\ \A t \in Index(n) : \A v : v \in ReducedUpdates(b)[t] <=>
                /\ v \in UpdateClosure(b)[t]
                /\ \A u \in Children(b, t) : v \notin UpdateClosure(b)[u]
           /\ \A t \in Index(n) : \A v : v \in ReducedWaits(b)[t] <=>
                /\ v \in WaitClosure(b)[t]
                /\ \A u \in Parents(b, t) : v \notin WaitClosure(b)[u]
<1> DEFINE C == UpdateClosure(b)
           W == WaitClosure(b)
           EqU(r) == r = [t \in TaskOf(b) |->
                            C[t] \ UNION {IF u < t THEN r[u] ELSE C[u] : u \in Children(b, t)}]
           EqW(r) == r = [t \in TaskOf(b) |->
                            W[t] \ UNION {IF u > t THEN r[u] ELSE W[u] : u \in Parents(b, t)}]
           f == [t \in Index(n) |-> C[t] \ UNION {C[u] : u \in Children(b, t)}]
           g == [t \in Index(n) |-> W[t] \ UNION {W[u] : u \in Parents(b, t)}]
<1>1. ReducedUpdates(b) = (CHOOSE r : EqU(r)) /\ ReducedWaits(b) = (CHOOSE r : EqW(r))
  BY DEF ReducedUpdates, ReducedWaits
<1>2. TaskOf(b) = Index(n)
  BY Domains
<1> HIDE DEF C, W
<1>3. ASSUME NEW t \in Index(n), NEW r
      PROVE  /\ {IF u < t THEN r[u] ELSE C[u] : u \in Children(b, t)} = {C[u] : u \in Children(b, t)}
             /\ {IF u > t THEN r[u] ELSE W[u] : u \in Parents(b, t)} = {W[u] : u \in Parents(b, t)}
  <2>1. \A u \in Children(b, t) : ~(u < t)
    BY GraphRanked, TaskIndices
  <2>2. \A u \in Parents(b, t) : ~(u > t)
    BY GraphRanked, TaskIndices
  <2> QED  BY <2>1, <2>2
<1>4. ASSUME NEW r PROVE (EqU(r) <=> r = f) /\ (EqW(r) <=> r = g)
  <2>1. \A t \in Index(n) :
            C[t] \ UNION {IF u < t THEN r[u] ELSE C[u] : u \in Children(b, t)}
            = C[t] \ UNION {C[u] : u \in Children(b, t)}
    BY <1>3
  <2>2. \A t \in Index(n) :
            W[t] \ UNION {IF u > t THEN r[u] ELSE W[u] : u \in Parents(b, t)}
            = W[t] \ UNION {W[u] : u \in Parents(b, t)}
    BY <1>3
  <2>3. EqU(r) <=> r = f
    BY <1>2, <2>1
  <2>4. EqW(r) <=> r = g
    BY <1>2, <2>2
  <2> QED  BY <2>3, <2>4
<1> HIDE DEF EqU, EqW, f, g
<1>5. ReducedUpdates(b) = f /\ ReducedWaits(b) = g
  BY <1>1, <1>4
<1>6. \A t \in Index(n) : /\ f[t] = C[t] \ UNION {C[u] : u \in Children(b, t)}
                      /\ g[t] = W[t] \ UNION {W[u] : u \in Parents(b, t)}
  BY DEF f, g
<1> QED  BY <1>5, <1>6 DEF C, W

-----------------------------------------------------------------------------
(* The stages of optimizeBarriers keep the order.                          *)

(* What the generated order is good for.                                   *)
LEMMA OrderFacts ==
    ASSUME NEW n \in Nat, NEW b, Agreeing(n, b), Forward(b)
    PROVE  /\ \A t \in Index(n) : \A u : u \in RunsAfter(b)[t] <=>
                u \in Children(b, t) \/ \E s \in Children(b, t) : u \in RunsAfter(b)[s]
           /\ \A t \in Index(n) : \A u \in RunsAfter(b)[t] : u \in Index(n) /\ t < u
           /\ \A t \in Index(n) : \A u \in RunsAfter(b)[t] : RunsAfter(b)[u] \subseteq RunsAfter(b)[t]
           /\ \A t \in Index(n) : \A u \in RunsAfter(b)[t] :
                u \in Children(b, t) \/ \E s \in RunsAfter(b)[t] : u \in Children(b, s)
<1>1. /\ Solves(RunsAfter(b), Index(n), Drives(n, b), Drives(n, b))
      /\ Ranked(Index(n), Drives(n, b), FromEnd(n), n)
      /\ \A t \in Index(n) : Drives(n, b)[t] = Children(b, t)
  BY RunsAfterSolves, GraphRanked DEF Drives
<1>2. \A t \in Index(n) : \A u : u \in RunsAfter(b)[t] <=>
            u \in Children(b, t) \/ \E s \in Children(b, t) : u \in RunsAfter(b)[s]
  BY <1>1, SolutionMember
<1>3. \A t \in Index(n) : \A u \in RunsAfter(b)[t] : u \in Index(n) /\ t < u
  <2> SUFFICES ASSUME NEW t \in Index(n), NEW u \in RunsAfter(b)[t] PROVE u \in Index(n) /\ t < u
    OBVIOUS
  <2>1. u \in Index(n) /\ FromEnd(n)[u] < FromEnd(n)[t]
    BY <1>1, OrderDescends
  <2> QED  BY <2>1, TaskIndices DEF FromEnd
<1>4. \A t \in Index(n) : \A u \in RunsAfter(b)[t] : RunsAfter(b)[u] \subseteq RunsAfter(b)[t]
  BY <1>1, OrderTransitive
<1>5. \A t \in Index(n) : \A u : u \in RunsAfter(b)[t] <=>
            u \in Drives(n, b)[t] \/ \E s \in RunsAfter(b)[t] : u \in Drives(n, b)[s]
  BY <1>1, CollectedOrigin
<1>6. ASSUME NEW t \in Index(n), NEW u \in RunsAfter(b)[t], u \notin Children(b, t)
      PROVE  \E s \in RunsAfter(b)[t] : u \in Children(b, s)
  <2>1. PICK s \in RunsAfter(b)[t] : u \in Drives(n, b)[s]
    BY <1>1, <1>5, <1>6
  <2> QED  BY <2>1, <1>1, <1>3
<1> QED  BY <1>2, <1>3, <1>4, <1>6

LEMMA StageKeepsOrder ==
    ASSUME NEW n \in Nat, NEW b, Agreeing(n, b), Forward(b), NEW c, Agreeing(n, c),
           \A t \in Index(n) : Children(c, t) \subseteq RunsAfter(b)[t],
           \A t \in Index(n) : \A u \in Children(b, t) :
                u \in Children(c, t) \/ \E s \in RunsAfter(b)[t] : u \in RunsAfter(b)[s]
    PROVE  Forward(c) /\ RunsAfter(c) = RunsAfter(b)
<1>1. Forward(c)
  BY ForwardChildren, OrderFacts
<1>2. /\ Solves(RunsAfter(b), Index(n), Drives(n, b), Drives(n, b)) /\ Ranked(Index(n), Drives(n, b), FromEnd(n), n)
      /\ Solves(RunsAfter(c), Index(n), Drives(n, c), Drives(n, c)) /\ Ranked(Index(n), Drives(n, c), FromEnd(n), n)
  BY <1>1, RunsAfterSolves, GraphRanked
<1>3. /\ \A t \in Index(n) : Drives(n, c)[t] \subseteq RunsAfter(b)[t]
      /\ \A t \in Index(n) : \A u \in Drives(n, b)[t] :
            u \in Drives(n, c)[t] \/ \E s \in RunsAfter(b)[t] : u \in RunsAfter(b)[s]
  BY DEF Drives
<1> QED  BY <1>1, <1>2, <1>3, SameOrder

LEMMA UpdateClosureFacts ==
    ASSUME NEW n \in Nat, NEW b, Agreeing(n, b), Forward(b)
    PROVE  /\ \A t \in Index(n) : \A v : v \in UpdateClosure(b)[t] <=>
                v \in b.update[t] \/ \E s \in RunsAfter(b)[t] : v \in b.update[s]
           /\ \A t \in Index(n) : \A u \in RunsAfter(b)[t] : UpdateClosure(b)[u] \subseteq UpdateClosure(b)[t]
           /\ \A t \in Index(n) : \A v \in UpdateClosure(b)[t] : b.cons[v] \subseteq RunsAfter(b)[t]
<1>1. /\ Solves(RunsAfter(b), Index(n), Drives(n, b), Drives(n, b))
      /\ Ranked(Index(n), Drives(n, b), FromEnd(n), n)
      /\ Solves(UpdateClosure(b), Index(n), b.update, Drives(n, b))
  BY RunsAfterSolves, UpdateClosureSolves, GraphRanked
<1>2. \A t \in Index(n) : \A v : v \in UpdateClosure(b)[t] <=>
            v \in b.update[t] \/ \E s \in RunsAfter(b)[t] : v \in b.update[s]
  BY <1>1, CollectedOrigin
<1>3. \A t \in Index(n) : \A u \in RunsAfter(b)[t] : UpdateClosure(b)[u] \subseteq UpdateClosure(b)[t]
  BY <1>1, CollectedGrows
<1>4. ASSUME NEW t \in Index(n), NEW v \in b.update[t] PROVE b.cons[v] \subseteq RunsAfter(b)[t]
  <2>1. b.cons[v] \subseteq Children(b, t)
    BY ChildMember
  <2> QED  BY <2>1, OrderFacts
<1>5. ASSUME NEW t \in Index(n), NEW v \in UpdateClosure(b)[t] PROVE b.cons[v] \subseteq RunsAfter(b)[t]
  <2>1. ASSUME NEW s \in RunsAfter(b)[t], v \in b.update[s] PROVE b.cons[v] \subseteq RunsAfter(b)[t]
    <3>1. s \in Index(n) /\ RunsAfter(b)[s] \subseteq RunsAfter(b)[t]
      BY OrderFacts
    <3> QED  BY <3>1, <2>1, <1>4
  <2> QED  BY <2>1, <1>2, <1>4
<1> QED  BY <1>2, <1>3, <1>5

LEMMA WaitClosureFacts ==
    ASSUME NEW n \in Nat, NEW b, Agreeing(n, b), Forward(b)
    PROVE  /\ \A u \in Index(n) : \A v : v \in WaitClosure(b)[u] <=>
                v \in b.wait[u] \/ \E s \in Index(n) : u \in RunsAfter(b)[s] /\ v \in b.wait[s]
           /\ \A t \in Index(n) : \A u \in RunsAfter(b)[t] : WaitClosure(b)[t] \subseteq WaitClosure(b)[u]
           /\ \A u \in Index(n) : \A v \in WaitClosure(b)[u], t \in Index(n) :
                v \in b.update[t] => u \in RunsAfter(b)[t]
<1>0. TwoSided(n, b)
  BY Members
<1>1. PICK Q : Solves(Q, Index(n), DrivenBy(n, b), DrivenBy(n, b))
  BY GraphRanked, SolutionExists
<1>2. /\ Solves(RunsAfter(b), Index(n), Drives(n, b), Drives(n, b))
      /\ Ranked(Index(n), Drives(n, b), FromEnd(n), n)
      /\ Ranked(Index(n), DrivenBy(n, b), FromStart(n), n)
      /\ Solves(WaitClosure(b), Index(n), b.wait, DrivenBy(n, b))
  BY RunsAfterSolves, WaitClosureSolves, GraphRanked
<1>3. \A t, u \in Index(n) : u \in Drives(n, b)[t] <=> t \in DrivenBy(n, b)[u]
  BY ChildOrParent DEF Drives, DrivenBy
<1>4. \A t, u \in Index(n) : u \in RunsAfter(b)[t] <=> t \in Q[u]
  <2>1. \A t \in Index(n) : \A u \in RunsAfter(b)[t] : t \in Q[u]
    BY <1>1, <1>2, <1>3, HalfConverse
  <2>2. \A u \in Index(n) : \A t \in Q[u] : u \in RunsAfter(b)[t]
    BY <1>1, <1>2, <1>3, HalfConverse
  <2> QED  BY <2>1, <2>2
<1>5. \A u \in Index(n) : Q[u] \subseteq Index(n)
  BY <1>1, <1>2, OrderDescends
<1>6. \A u \in Index(n) : \A v : v \in WaitClosure(b)[u] <=>
            v \in b.wait[u] \/ \E s \in Index(n) : u \in RunsAfter(b)[s] /\ v \in b.wait[s]
  <2>1. \A u \in Index(n) : \A v : v \in WaitClosure(b)[u] <=>
            v \in b.wait[u] \/ \E s \in Q[u] : v \in b.wait[s]
    BY <1>1, <1>2, CollectedOrigin
  <2> QED  BY <2>1, <1>4, <1>5
<1>7. \A t \in Index(n) : \A u \in RunsAfter(b)[t] : WaitClosure(b)[t] \subseteq WaitClosure(b)[u]
  <2> SUFFICES ASSUME NEW t \in Index(n), NEW u \in RunsAfter(b)[t]
               PROVE  WaitClosure(b)[t] \subseteq WaitClosure(b)[u]
    OBVIOUS
  <2>1. u \in Index(n) /\ t \in Q[u]
    BY <1>4, OrderFacts
  <2> QED  BY <2>1, <1>1, <1>2, CollectedGrows
<1>8. ASSUME NEW u \in Index(n), NEW v \in WaitClosure(b)[u], NEW t \in Index(n), v \in b.update[t]
      PROVE  u \in RunsAfter(b)[t]
  <2>1. ASSUME NEW s \in Index(n), v \in b.wait[s] PROVE s \in RunsAfter(b)[t]
    <3>1. s \in b.cons[v]
      BY <1>8, <2>1, <1>0 DEF TwoSided
    <3>2. s \in Children(b, t)
      BY <1>8, <3>1, ChildMember
    <3> QED  BY <3>2, OrderFacts
  <2>2. ASSUME NEW s \in Index(n), v \in b.wait[s], u \in RunsAfter(b)[s] PROVE u \in RunsAfter(b)[t]
    BY <2>1, <2>2, OrderFacts
  <2> QED  BY <2>1, <2>2, <1>6
<1> QED  BY <1>6, <1>7, <1>8

(* ReduceProducers: a barrier that a task no longer updates is updated by  *)
(* a task between it and the consumers.                                    *)
LEMMA ReduceProducersOrder ==
    ASSUME NEW n \in Nat, NEW b, Agreeing(n, b), Forward(b)
    PROVE  Forward(ReduceProducers(b)) /\ RunsAfter(ReduceProducers(b)) = RunsAfter(b)
<1> DEFINE c == ReduceProducers(b)
           r == ReducedUpdates(b)
<1>1. /\ Agreeing(n, c) /\ c.cons = b.cons
      /\ \A t \in Index(n) : c.update[t] = {v \in BarrierOf(b) : v \in r[t]}
  BY ReduceProducersAgrees, Domains DEF ReduceProducers, Maps
<1> HIDE DEF c, r
<1>2. ASSUME NEW t \in Index(n), NEW u \in Children(c, t) PROVE u \in RunsAfter(b)[t]
  <2>1. PICK v \in c.update[t] : u \in b.cons[v]
    BY <1>1, ChildMember
  <2>2. v \in UpdateClosure(b)[t]
    BY <2>1, <1>1, ReducedSets DEF r
  <2> QED  BY <2>1, <2>2, UpdateClosureFacts
<1>3. ASSUME NEW t \in Index(n), NEW u \in Children(b, t), u \notin Children(c, t)
      PROVE  \E s \in RunsAfter(b)[t] : u \in RunsAfter(b)[s]
  <2>1. PICK v \in b.update[t] : u \in b.cons[v]
    BY ChildMember
  <2>2. v \in BarrierOf(b) /\ v \in UpdateClosure(b)[t]
    BY Members, UpdateClosureFacts DEF TwoSided
  <2>3. v \notin r[t]
    BY <2>1, <2>2, <1>1, <1>3, ChildMember
  <2>4. PICK s \in Children(b, t) : v \in UpdateClosure(b)[s]
    BY <2>2, <2>3, ReducedSets DEF r
  <2>5. s \in Index(n) /\ s \in RunsAfter(b)[t]
    BY OrderFacts, GraphRanked
  <2>6. u \in RunsAfter(b)[s]
    BY <2>1, <2>4, <2>5, UpdateClosureFacts
  <2> QED  BY <2>5, <2>6
<1>4. Forward(c) /\ RunsAfter(c) = RunsAfter(b)
  BY <1>1, <1>2, <1>3, StageKeepsOrder
<1> QED  BY <1>4 DEF c

LEMMA ReduceConsumersOrder ==
    ASSUME NEW n \in Nat, NEW b, Agreeing(n, b), Forward(b)
    PROVE  Forward(ReduceConsumers(b)) /\ RunsAfter(ReduceConsumers(b)) = RunsAfter(b)
<1> DEFINE c == ReduceConsumers(b)
           r == ReducedWaits(b)
<1>0. TwoSided(n, b)
  BY Members
<1>1. /\ Agreeing(n, c) /\ c.update = b.update /\ BarrierOf(c) = BarrierOf(b)
      /\ \A u \in Index(n) : c.wait[u] = {v \in BarrierOf(b) : v \in r[u]}
  BY ReduceConsumersAgrees, Domains DEF ReduceConsumers, Maps, BarrierOf
<1>2. \A t \in Index(n), v \in BarrierOf(b) : t \in c.cons[v] <=> v \in r[t]
  <2>1. TwoSided(n, c)
    BY <1>1, Members DEF TwoSided
  <2> QED  BY <2>1, <1>1 DEF TwoSided
<1> HIDE DEF c, r
<1>3. \A v \in BarrierOf(b) : c.cons[v] \subseteq Index(n)
  BY <1>1, Members DEF TwoSided
<1>4. ASSUME NEW t \in Index(n), NEW u \in Children(c, t) PROVE u \in RunsAfter(b)[t]
  <2>1. PICK v \in b.update[t] : u \in c.cons[v]
    BY <1>1, ChildMember
  <2>2. v \in BarrierOf(b) /\ u \in Index(n)
    BY <2>1, <1>3, Members DEF TwoSided
  <2>3. v \in WaitClosure(b)[u]
    BY <2>1, <2>2, <1>2, ReducedSets DEF r
  <2> QED  BY <2>1, <2>2, <2>3, WaitClosureFacts
<1>5. ASSUME NEW t \in Index(n), NEW u \in Children(b, t), u \notin Children(c, t)
      PROVE  \E s \in RunsAfter(b)[t] : u \in RunsAfter(b)[s]
  <2>1. PICK v \in b.update[t] : u \in b.cons[v]
    BY ChildMember
  <2>2. v \in BarrierOf(b) /\ u \in Index(n) /\ v \in b.wait[u]
    BY <2>1, <1>0 DEF TwoSided
  <2>3. v \in WaitClosure(b)[u]
    BY <2>2, WaitClosureFacts
  <2>4. u \notin c.cons[v]
    BY <2>1, <1>1, <1>5, ChildMember
  <2>5. PICK s \in Parents(b, u) : v \in WaitClosure(b)[s]
    BY <2>2, <2>3, <2>4, <1>2, ReducedSets DEF r
  <2>6. s \in Index(n) /\ u \in Children(b, s)
    BY <2>2, GraphRanked, ChildOrParent
  <2>7. u \in RunsAfter(b)[s] /\ s \in RunsAfter(b)[t]
    BY <2>1, <2>5, <2>6, OrderFacts, WaitClosureFacts
  <2> QED  BY <2>7
<1>6. Forward(c) /\ RunsAfter(c) = RunsAfter(b)
  BY <1>1, <1>4, <1>5, StageKeepsOrder
<1> QED  BY <1>6 DEF c

(* MergeSameProducers: the first of the barriers with the same producers   *)
(* stands for all of them.                                                 *)
LEMMA MergedMaps ==
    ASSUME NEW n \in Nat, NEW b, Agreeing(n, b), NEW c, c = MergeSameProducers(b)
    PROVE  /\ Agreeing(n, c) /\ BarrierOf(c) = BarrierOf(b)
           /\ \A t \in Index(n) : Children(c, t) = Children(b, t)
           /\ \A v \in BarrierOf(b) : c.prod[v] \in {{}, b.prod[v]}
           /\ \A v, w \in BarrierOf(b) : c.prod[v] = c.prod[w] /\ c.prod[v] # {} => v = w
<1> DEFINE same(v) == {w \in BarrierOf(b) : b.prod[w] = b.prod[v]}
           first(S) == CHOOSE v \in S : \A w \in S : v <= w
           spare == {v \in BarrierOf(b) : b.prod[v] = {} \/ \E w \in same(v) : w < v}
           leader(v) == IF b.prod[v] = {} THEN first(spare) ELSE first(same(v))
           ledBy(w, S) == \E v \in S : leader(v) = w
<1>0. TwoSided(n, b)
  BY Members
<1>1. BarrierOf(b) \subseteq Nat /\ TaskOf(b) = Index(n)
  BY Domains DEF BarrierOf
<1>2. c = Maps(b.num,
             [t \in TaskOf(b) |-> {w \in BarrierOf(b) : ledBy(w, b.wait[t])}],
             [t \in TaskOf(b) |-> b.update[t] \ spare],
             [v \in BarrierOf(b) |-> IF v \in spare THEN {} ELSE b.prod[v]],
             [w \in BarrierOf(b) |-> {t \in TaskOf(b) : ledBy(w, b.wait[t])}])
  BY DEF MergeSameProducers
<1>2a. \A w, S : ledBy(w, S) <=> \E v \in S : leader(v) = w
  BY DEF ledBy
<1> HIDE DEF spare, ledBy
<1>3. /\ BarrierOf(c) = BarrierOf(b)
      /\ \A t \in Index(n) : c.update[t] = b.update[t] \ spare
      /\ \A v \in BarrierOf(b) : c.prod[v] = IF v \in spare THEN {} ELSE b.prod[v]
      /\ \A w \in BarrierOf(b) : c.cons[w] = {t \in Index(n) : ledBy(w, b.wait[t])}
  BY <1>1, <1>2 DEF Maps, BarrierOf
<1>4. ASSUME NEW S, S \subseteq BarrierOf(b), S # {}
      PROVE  first(S) \in S /\ \A w \in S : first(S) <= w
  <2>1. \E v \in S : \A w \in S : v <= w
    BY <1>1, <1>4, LeastNat
  <2> QED  BY <2>1
<1> HIDE DEF first
<1>5. ASSUME NEW w \in BarrierOf(b), w \notin spare
      PROVE  b.prod[w] # {} /\ first(same(w)) = w
  <2>1. b.prod[w] # {} /\ \A x \in same(w) : ~(x < w)
    BY <1>5 DEF spare
  <2>2. w \in same(w) /\ same(w) \subseteq BarrierOf(b)
    OBVIOUS
  <2>3. first(same(w)) \in same(w) /\ first(same(w)) <= w
    BY <2>2, <1>4
  <2>4. first(same(w)) \in Nat /\ w \in Nat
    BY <2>3, <1>1
  <2> QED  BY <2>1, <2>3, <2>4
<1>6. ASSUME NEW v \in BarrierOf(b), NEW w \in BarrierOf(b), w \notin spare
      PROVE  leader(v) = w <=> b.prod[v] = b.prod[w]
  <2>1. CASE b.prod[v] = {}
    <3>1. v \in spare /\ spare \subseteq BarrierOf(b)
      BY <2>1 DEF spare
    <3>2. first(spare) \in spare
      BY <3>1, <1>4
    <3> QED  BY <3>2, <2>1, <1>5, <1>6
  <2>2. CASE b.prod[v] # {}
    <3>1. v \in same(v) /\ same(v) \subseteq BarrierOf(b)
      OBVIOUS
    <3>2. first(same(v)) \in same(v)
      BY <3>1, <1>4
    <3>3. b.prod[v] = b.prod[w] => same(v) = same(w)
      OBVIOUS
    <3> QED  BY <2>2, <3>2, <3>3, <1>5, <1>6
  <2> QED  BY <2>1, <2>2
<1>7. ASSUME NEW v \in BarrierOf(b), b.prod[v] # {}
      PROVE  \E w \in BarrierOf(b) : w \notin spare /\ b.prod[w] = b.prod[v]
  <2>1. v \in same(v) /\ same(v) \subseteq BarrierOf(b)
    OBVIOUS
  <2>2. PICK w \in same(v) : \A x \in same(v) : w <= x
    BY <2>1, <1>4
  <2>3. same(w) = same(v) /\ b.prod[w] = b.prod[v] /\ w \in BarrierOf(b)
    OBVIOUS
  <2>4. \A x \in same(w) : ~(x < w)
    <3>1. \A x \in same(w) : x \in Nat /\ w <= x /\ w \in Nat
      BY <2>2, <2>3, <1>1
    <3> QED  BY <3>1
  <2> QED  BY <2>3, <2>4, <1>7 DEF spare
<1>8. ASSUME NEW t \in Index(n), NEW u \in Children(c, t) PROVE u \in Children(b, t)
  <2>1. PICK w \in c.update[t] : u \in c.cons[w]
    BY ChildMember
  <2>2. w \in b.update[t] /\ w \notin spare /\ w \in BarrierOf(b)
    BY <2>1, <1>3, <1>0 DEF TwoSided
  <2>7. ledBy(w, b.wait[u])
    BY <2>1, <2>2, <1>3
  <2>3. PICK v \in b.wait[u] : leader(v) = w
    BY <2>7, <1>2a
  <2>4. u \in Index(n) /\ v \in BarrierOf(b)
    BY <2>1, <2>2, <1>3, <1>0 DEF TwoSided
  <2>5. b.prod[v] = b.prod[w]
    BY <2>2, <2>3, <2>4, <1>6
  <2>6. v \in b.update[t] /\ u \in b.cons[v]
    BY <2>2, <2>4, <2>5, <1>0 DEF TwoSided
  <2> QED  BY <2>6, ChildMember
<1>9. ASSUME NEW t \in Index(n), NEW u \in Children(b, t) PROVE u \in Children(c, t)
  <2>1. PICK v \in b.update[t] : u \in b.cons[v]
    BY ChildMember
  <2>2. v \in BarrierOf(b) /\ t \in b.prod[v] /\ u \in Index(n) /\ v \in b.wait[u]
    BY <2>1, <1>0 DEF TwoSided
  <2>3. PICK w \in BarrierOf(b) : w \notin spare /\ b.prod[w] = b.prod[v]
    BY <2>2, <1>7
  <2>4. leader(v) = w
    BY <2>2, <2>3, <1>6
  <2>5. ledBy(w, b.wait[u])
    BY <2>2, <2>4, <1>2a
  <2>6. u \in c.cons[w]
    BY <2>2, <2>3, <2>5, <1>3
  <2>7. w \in b.update[t]
    BY <2>2, <2>3, <1>0 DEF TwoSided
  <2>8. w \in c.update[t]
    BY <2>3, <2>7, <1>3
  <2> QED  BY <2>6, <2>8, ChildMember
<1>10. \A t \in Index(n) : Children(c, t) = Children(b, t)
  BY <1>8, <1>9
<1>11. ASSUME NEW v \in BarrierOf(b), NEW w \in BarrierOf(b), c.prod[v] = c.prod[w], c.prod[v] # {}
       PROVE  v = w
  <2>1. v \notin spare /\ w \notin spare /\ b.prod[v] = b.prod[w]
    BY <1>3, <1>11
  <2>2. same(v) = same(w)
    BY <2>1
  <2> QED  BY <2>1, <2>2, <1>5
<1> QED  BY <1>3, <1>10, <1>11, MergeSameProducersAgrees

LEMMA MergeSameProducersOrder ==
    ASSUME NEW n \in Nat, NEW b, Agreeing(n, b), Forward(b)
    PROVE  Forward(MergeSameProducers(b)) /\ RunsAfter(MergeSameProducers(b)) = RunsAfter(b)
<1>1. PICK c : c = MergeSameProducers(b)
  OBVIOUS
<1>2. Agreeing(n, c) /\ \A t \in Index(n) : Children(c, t) = Children(b, t)
  BY <1>1, MergedMaps
<1>3. \A t \in Index(n) : Children(b, t) \subseteq RunsAfter(b)[t]
  BY OrderFacts
<1>4. Forward(c) /\ RunsAfter(c) = RunsAfter(b)
  BY <1>2, <1>3, StageKeepsOrder
<1> QED  BY <1>1, <1>4

LEMMA OptimizeBarriersOrder ==
    ASSUME NEW n \in Nat, NEW b, Agreeing(n, b), Forward(b)
    PROVE  Forward(OptimizeBarriers(b)) /\ RunsAfter(OptimizeBarriers(b)) = RunsAfter(b)
BY ReduceProducersAgrees, ReduceProducersOrder, MergeSameProducersAgrees, MergeSameProducersOrder,
   ReduceConsumersOrder DEF OptimizeBarriers

-----------------------------------------------------------------------------
(* What optimizeBarriers leaves.                                           *)

(* No producer drives another producer of the same barrier.                *)
LEMMA ProducersReduced ==
    ASSUME NEW n \in Nat, NEW b, Agreeing(n, b), Forward(b)
    PROVE  \A v \in BarrierOf(b) : \A t \in ReduceProducers(b).prod[v] :
                RunsAfter(b)[t] \cap ReduceProducers(b).prod[v] = {}
<1>1. \A v \in BarrierOf(b) :
            ReduceProducers(b).prod[v] = {t \in Index(n) : v \in ReducedUpdates(b)[t]}
  BY Domains DEF ReduceProducers, Maps
<1>2. ASSUME NEW v \in BarrierOf(b), NEW t \in Index(n), v \in ReducedUpdates(b)[t],
             NEW u \in RunsAfter(b)[t], u \in Index(n), v \in ReducedUpdates(b)[u]
      PROVE  FALSE
  <2>1. v \in UpdateClosure(b)[u]
    BY <1>2, ReducedSets
  <2>2. ASSUME NEW s \in Children(b, t), u = s \/ u \in RunsAfter(b)[s] PROVE FALSE
    <3>1. s \in Index(n)
      BY GraphRanked
    <3>2. v \in UpdateClosure(b)[s]
      BY <2>1, <2>2, <3>1, UpdateClosureFacts
    <3> QED  BY <3>2, <1>2, ReducedSets
  <2> QED  BY <2>2, OrderFacts
<1> QED  BY <1>1, <1>2

(* No consumer drives another consumer of the same barrier.                *)
LEMMA ConsumersReduced ==
    ASSUME NEW n \in Nat, NEW b, Agreeing(n, b), Forward(b)
    PROVE  \A v \in BarrierOf(b) : \A t \in ReduceConsumers(b).cons[v] :
                RunsAfter(b)[t] \cap ReduceConsumers(b).cons[v] = {}
<1>1. \A v \in BarrierOf(b) :
            ReduceConsumers(b).cons[v] = {t \in Index(n) : v \in ReducedWaits(b)[t]}
  BY Domains DEF ReduceConsumers, Maps
<1>2. ASSUME NEW v \in BarrierOf(b), NEW t \in Index(n), v \in ReducedWaits(b)[t],
             NEW u \in RunsAfter(b)[t], u \in Index(n), v \in ReducedWaits(b)[u]
      PROVE  FALSE
  <2>1. v \in WaitClosure(b)[t]
    BY <1>2, ReducedSets
  <2>2. ASSUME NEW s \in Index(n), u \in Children(b, s), s = t \/ s \in RunsAfter(b)[t] PROVE FALSE
    <3>1. s \in Parents(b, u)
      BY <2>2, <1>2, ChildOrParent
    <3>2. v \in WaitClosure(b)[s]
      BY <2>1, <2>2, WaitClosureFacts
    <3> QED  BY <3>1, <3>2, <1>2, ReducedSets
  <2>3. CASE u \in Children(b, t)
    BY <2>2, <2>3
  <2>4. CASE \E s \in RunsAfter(b)[t] : u \in Children(b, s)
    <3>1. PICK s \in RunsAfter(b)[t] : u \in Children(b, s)
      BY <2>4
    <3>2. s \in Index(n)
      BY OrderFacts
    <3> QED  BY <3>1, <3>2, <2>2
  <2> QED  BY <2>3, <2>4, OrderFacts
<1> QED  BY <1>1, <1>2


(* buildTaskControllMap collects at least the order.                       *)
LEMMA ControlMapCoversOrder ==
    ASSUME NEW n \in Nat, NEW b, Agreeing(n, b), Forward(b), NEW old
    PROVE  \A t \in Index(n) : RunsAfter(b)[t] \subseteq TaskControlMap(b, old)[t]
<1> DEFINE direct == [t \in TaskOf(b) |-> old[t] \cup Children(b, t)]
           Eq(c) == c = [t \in TaskOf(b) |->
                direct[t] \cup UNION {IF u > t THEN c[u] ELSE direct[u] : u \in Children(b, t)}]
<1>1. TaskControlMap(b, old) = CHOOSE c : Eq(c)
  BY DEF TaskControlMap
<1>2. ASSUME NEW c PROVE Eq(c) <=> Solves(c, Index(n), direct, Drives(n, b))
  <2> HIDE DEF direct
  <2>1. ASSUME NEW t \in Index(n)
        PROVE  {IF u > t THEN c[u] ELSE direct[u] : u \in Children(b, t)} = {c[u] : u \in Drives(n, b)[t]}
    <3>1. \A u \in Children(b, t) : u > t
      BY GraphRanked, TaskIndices
    <3>2. Drives(n, b)[t] = Children(b, t)
      BY DEF Drives
    <3> QED  BY <3>1, <3>2
  <2> QED  BY <2>1, Domains DEF Solves
<1>3. PICK f : Solves(f, Index(n), direct, Drives(n, b))
  <2> HIDE DEF direct
  <2> QED  BY GraphRanked, SolutionExists
<1>4. \A t \in Index(n) : Children(b, t) \subseteq direct[t]
  BY Domains
<1> HIDE DEF direct, Eq
<1>5. PICK c : Solves(c, Index(n), direct, Drives(n, b)) /\ c = TaskControlMap(b, old)
  BY <1>1, <1>2, <1>3
<1>6. /\ Solves(RunsAfter(b), Index(n), Drives(n, b), Drives(n, b))
      /\ Ranked(Index(n), Drives(n, b), FromEnd(n), n)
  BY RunsAfterSolves, GraphRanked
<1>7. \A t \in Index(n) : \A x : x \in c[t] <=> x \in direct[t] \/ \E s \in RunsAfter(b)[t] : x \in direct[s]
  BY <1>5, <1>6, CollectedOrigin
<1>8. ASSUME NEW t \in Index(n), NEW u \in RunsAfter(b)[t] PROVE u \in c[t]
  <2>1. CASE u \in Children(b, t)
    BY <2>1, <1>4, <1>7
  <2>2. CASE \E s \in RunsAfter(b)[t] : u \in Children(b, s)
    <3>1. PICK s \in RunsAfter(b)[t] : u \in Children(b, s)
      BY <2>2
    <3>2. s \in Index(n)
      BY OrderFacts
    <3> QED  BY <3>1, <3>2, <1>4, <1>7
  <2> QED  BY <2>1, <2>2, OrderFacts
<1> QED  BY <1>5, <1>8


LEMMA AddNewBarrierAgrees ==
    ASSUME NEW n \in Nat, NEW b, Agreeing(n, b) PROVE Agreeing(n, AddNewBarrier(b))
<1> DEFINE extended(f) == [v \in 0..b.num |-> IF v = b.num THEN {} ELSE f[v]]
<1>1. b.num \in Nat /\ b.num + 1 \in Nat /\ Index(b.num + 1) = 0..b.num
  BY DEF Agreeing, Index
<1>2. /\ Index(b.num) \subseteq 0..b.num
      /\ \A v \in 0..b.num : v = b.num \/ v \in Index(b.num)
      /\ b.num \notin Index(b.num)
  BY <1>1 DEF Index
<1>3. ASSUME NEW f, NEW g, Mirror(n, b.num, f, g)
      PROVE  Mirror(n, b.num + 1, f, extended(g))
  <2> DEFINE h == extended(g)
  <2>1. h \in [0..b.num -> SUBSET Index(n)]
    BY <1>2, <1>3 DEF Mirror
  <2>2. f \in [Index(n) -> SUBSET (0..b.num)]
    BY <1>2, <1>3 DEF Mirror
  <2>3. \A t \in Index(n), v \in 0..b.num : v \in f[t] <=> t \in h[v]
    BY <1>2, <1>3 DEF Mirror
  <2> QED
    BY <1>1, <2>1, <2>2, <2>3 DEF Mirror
<1>4. AddNewBarrier(b) = Maps(b.num + 1, b.wait, b.update, extended(b.prod), extended(b.cons))
  BY DEF AddNewBarrier
<1>5. Mirror(n, b.num + 1, b.wait, extended(b.cons)) /\ Mirror(n, b.num + 1, b.update, extended(b.prod))
  BY <1>3 DEF Agreeing
<1> HIDE DEF extended
<1> QED
  BY <1>1, <1>4, <1>5, Assemble

-----------------------------------------------------------------------------
(* What holds at the start, and of an index if of the one before it, holds *)
(* of all indices.                                                         *)
LEMMA CountUp ==
    ASSUME NEW n \in Nat, NEW Good, 0 \in Good,
           \A k \in 1..n : k - 1 \in Good => k \in Good
    PROVE  0..n \subseteq Good
<1> DEFINE Bad == {k \in 0..n : k \notin Good}
<1> SUFFICES ASSUME Bad # {} PROVE FALSE
  OBVIOUS
<1>1. PICK k \in Bad : \A j \in Bad : k <= j
  <2>1. Bad \subseteq Nat
    OBVIOUS
  <2> HIDE DEF Bad
  <2> QED BY <2>1, LeastNat
<1>2. k # 0 /\ k \in 1..n
  BY <1>1
<1>3. k - 1 \in 0..n /\ ~(k <= k - 1)
  BY <1>2
<1>4. k - 1 \in Good
  BY <1>1, <1>3
<1> QED BY <1>1, <1>2, <1>4

-----------------------------------------------------------------------------
(* FoldLeft takes the elements of a sequence one by one: the fold over the *)
(* indices 1..n, as the library defines it by taking out the greatest.     *)
Greatest(S) == CHOOSE x \in S : \A y \in S : x >= y

(* The greatest of some indices is one of them and no less than any.       *)
LEMMA GreatestIndex ==
    ASSUME NEW n \in Nat, NEW S \in SUBSET (1..n), S # {}
    PROVE  Greatest(S) \in S /\ \A y \in S : y <= Greatest(S)
<1> DEFINE gap == {n - x : x \in S}
<1>0. \A x \in S : x \in 1..n /\ x \in Int /\ n - x \in Nat
  <2>1. \A x \in 1..n : x \in Int /\ n - x \in Nat
    OBVIOUS
  <2> QED BY <2>1
<1>1. gap \subseteq Nat /\ gap # {}
  BY <1>0
<1>2. PICK d \in gap : \A e \in gap : d <= e
  <2> HIDE DEF gap
  <2> QED BY <1>1, LeastNat
<1>3. PICK x \in S : d = n - x
  BY <1>2
<1>4. \A y \in S : n - x <= n - y
  BY <1>2, <1>3
<1>5. ASSUME NEW y \in S PROVE x >= y
  <2>1. x \in Int /\ y \in Int /\ n - x <= n - y
    BY <1>0, <1>4
  <2> QED BY <2>1
<1>6. Greatest(S) \in S /\ \A y \in S : Greatest(S) >= y
  BY <1>3, <1>5 DEF Greatest
<1>7. \A y \in S : Greatest(S) \in Int /\ y \in Int
  BY <1>0, <1>6
<1> QED BY <1>6, <1>7

(* G takes a value and the next index to the next value.                   *)
FoldStep(h, n, G, k) ==
    [S \in SUBSET (1..n) |-> IF k \in S THEN G[<<h[S \ {k}], k>>] ELSE h[S]]

IsLevels(H, n, base, G) ==
    /\ \A S \in SUBSET (1..n) : H[0][S] = base
    /\ \A k \in 1..n : H[k] = FoldStep(H[k - 1], n, G, k)

(* By induction on the length: what the fold gives for the indices up to   *)
(* k.                                                                      *)
LEMMA FoldLevels ==
    ASSUME NEW n \in Nat, NEW V, NEW base \in V, NEW G \in [V \X (1..n) -> V]
    PROVE  \E H \in [0..n -> [SUBSET (1..n) -> V]] : IsLevels(H, n, base, G)
<1> DEFINE W == [SUBSET (1..n) -> V]
           Starts(H) == \A S \in SUBSET (1..n) : H[0][S] = base
           Good == {m \in 0..n : \E H \in [0..m -> W] :
                        Starts(H) /\ \A k \in 1..m : H[k] = FoldStep(H[k - 1], n, G, k)}
<1>1. 0 \in Good
  <2> DEFINE first == [S \in SUBSET (1..n) |-> base]
             H == [k \in 0..0 |-> first]
  <2>1. first \in W /\ \A S \in SUBSET (1..n) : first[S] = base
    OBVIOUS
  <2> HIDE DEF first
  <2>2. H \in [0..0 -> W] /\ H[0] = first /\ 0 \in 0..n
    BY <2>1
  <2>3. \A k \in 1..0 : H[k] = FoldStep(H[k - 1], n, G, k)
    OBVIOUS
  <2> HIDE DEF H
  <2> QED BY <2>1, <2>2, <2>3
<1>2. ASSUME NEW k \in 1..n, k - 1 \in Good PROVE k \in Good
  <2>1. PICK H \in [0..(k - 1) -> W] :
            Starts(H) /\ \A j \in 1..(k - 1) : H[j] = FoldStep(H[j - 1], n, G, j)
    BY <1>2
  <2> DEFINE next == FoldStep(H[k - 1], n, G, k)
             K == [j \in 0..k |-> IF j = k THEN next ELSE H[j]]
  <2>2. H[k - 1] \in W /\ k - 1 \in Nat
    <3>1. k - 1 \in 0..(k - 1) /\ k - 1 \in Nat
      OBVIOUS
    <3> HIDE DEF W, Starts
    <3> QED BY <2>1, <3>1
  <2>3. next \in W
    <3> DEFINE h == H[k - 1]
    <3>1. h \in [SUBSET (1..n) -> V]
      BY <2>2
    <3> HIDE DEF h
    <3>2. \A S \in SUBSET (1..n) : (IF k \in S THEN G[<<h[S \ {k}], k>>] ELSE h[S]) \in V
      BY <3>1
    <3>3. FoldStep(h, n, G, k) \in W
      BY <3>2 DEF FoldStep
    <3> QED BY <3>3 DEF h
  <2> HIDE DEF next
  <2>4. K \in [0..k -> W] /\ K[k] = next
    BY <2>2, <2>3
  <2>5. \A j \in 0..(k - 1) : K[j] = H[j]
    BY <2>2
  <2> HIDE DEF K
  <2>6. Starts(K)
    <3>1. 0 \in 0..(k - 1)
      BY <2>2
    <3> QED BY <2>1, <2>5, <3>1
  <2>7. ASSUME NEW j \in 1..k PROVE K[j] = FoldStep(K[j - 1], n, G, j)
    <3>1. K[j - 1] = H[j - 1]
      BY <2>5
    <3>2. CASE j = k
      BY <2>4, <3>1, <3>2 DEF next
    <3>3. CASE j # k
      <4>1. j \in 1..(k - 1) /\ j \in 0..(k - 1)
        BY <2>2, <3>3
      <4> QED BY <2>1, <2>5, <3>1, <4>1
    <3> QED BY <3>2, <3>3
  <2>8. k \in 0..n
    OBVIOUS
  <2> QED BY <2>4, <2>6, <2>7, <2>8
<1>3. n \in Good
  <2> HIDE DEF Good
  <2>1. 0..n \subseteq Good
    BY <1>1, <1>2, CountUp
  <2> QED BY <2>1
<1> QED BY <1>3 DEF IsLevels

IsFold(g, n, base, G) ==
    \A S \in SUBSET (1..n) :
        g[S] = IF S = {} THEN base ELSE G[<<g[S \ {Greatest(S)}], Greatest(S)>>]

(* The levels agree, so that they are one function, which is the fold.     *)
LEMMA FoldTable ==
    ASSUME NEW n \in Nat, NEW V, NEW base \in V, NEW G \in [V \X (1..n) -> V]
    PROVE  \E g \in [SUBSET (1..n) -> V] : IsFold(g, n, base, G)
<1>0. PICK H \in [0..n -> [SUBSET (1..n) -> V]] : IsLevels(H, n, base, G)
  BY FoldLevels
<1>1. /\ \A S \in SUBSET (1..n) : H[0][S] = base
      /\ \A k \in 1..n : H[k] = FoldStep(H[k - 1], n, G, k)
  BY <1>0 DEF IsLevels
<1>2. ASSUME NEW S \in SUBSET (1..n), NEW k \in 0..n, \A x \in S : x <= k
      PROVE  H[n][S] = H[k][S]
  <2> DEFINE Good == {i \in 0..(n - k) : H[k + i][S] = H[k][S]}
  <2>1. 0 \in Good /\ n - k \in Nat
    OBVIOUS
  <2>2. ASSUME NEW i \in 1..(n - k), i - 1 \in Good PROVE i \in Good
    <3>1. k + i \in 1..n /\ (k + i) - 1 = k + (i - 1) /\ ~(k + i <= k)
      OBVIOUS
    <3>2. H[k + i] = FoldStep(H[k + (i - 1)], n, G, k + i)
      BY <1>1, <3>1
    <3>3. k + i \notin S
      BY <1>2, <3>1
    <3>4. H[k + i][S] = H[k + (i - 1)][S]
      BY <3>2, <3>3 DEF FoldStep
    <3> QED BY <2>2, <3>4
  <2>3. n - k \in Good
    <3> HIDE DEF Good
    <3>1. 0..(n - k) \subseteq Good
      BY <2>1, <2>2, CountUp
    <3> QED BY <2>1, <3>1
  <2>4. k + (n - k) = n
    OBVIOUS
  <2> QED BY <2>3, <2>4
<1>3. ASSUME NEW S \in SUBSET (1..n)
      PROVE  H[n][S] = IF S = {} THEN base ELSE G[<<H[n][S \ {Greatest(S)}], Greatest(S)>>]
  <2>1. CASE S = {}
    <3>1. H[n][S] = H[0][S]
      BY <1>2, <2>1
    <3>2. H[0][S] = base
      BY <1>1
    <3> QED BY <2>1, <3>1, <3>2, Zenon
  <2>2. CASE S # {}
    <3> DEFINE m == Greatest(S)
    <3>1. m \in S /\ m \in 1..n /\ \A y \in S : y <= m
      BY <2>2, GreatestIndex
    <3> HIDE DEF m
    <3>2. S \ {m} \in SUBSET (1..n) /\ m - 1 \in 0..n /\ m \in 0..n /\ \A y \in S \ {m} : y <= m - 1
      BY <3>1
    <3>3. H[n][S] = H[m][S] /\ H[n][S \ {m}] = H[m - 1][S \ {m}]
      BY <1>2, <3>1, <3>2
    <3>4. H[m][S] = G[<<H[m - 1][S \ {m}], m>>]
      BY <1>1, <3>1 DEF FoldStep
    <3> QED BY <2>2, <3>3, <3>4 DEF m
  <2> QED BY <2>1, <2>2
<1>4. H[n] \in [SUBSET (1..n) -> V]
  <2>1. n \in 0..n
    OBVIOUS
  <2> QED BY <2>1
<1>5. IsFold(H[n], n, base, G)
  BY <1>3 DEF IsFold
<1> QED BY <1>4, <1>5

(* The fold over the first k elements takes the k-th one last.             *)
LEMMA FoldPrefixes ==
    ASSUME NEW n \in Nat, NEW k \in 1..n
    PROVE  /\ 1..k \in SUBSET (1..n) /\ 1..k # {}
           /\ Greatest(1..k) = k /\ (1..k) \ {k} = 1..(k - 1)
<1>1. 1..k \in SUBSET (1..n) /\ 1..k # {} /\ (1..k) \ {k} = 1..(k - 1) /\ k \in 1..k
  OBVIOUS
<1>2. Greatest(1..k) = k
  <2>1. Greatest(1..k) \in 1..k /\ \A y \in 1..k : y <= Greatest(1..k)
    BY <1>1, GreatestIndex
  <2>2. k <= Greatest(1..k)
    BY <1>1, <2>1
  <2> QED BY <2>1, <2>2
<1> QED BY <1>1, <1>2

-----------------------------------------------------------------------------
(* The maps of a function agree.                                           *)
LEMMA BuiltAgrees ==
    ASSUME NEW b, BuiltMaps(b)
    PROVE  Cardinality(TaskOf(b)) \in Nat /\ Agreeing(Cardinality(TaskOf(b)), b)
<1> DEFINE n == Cardinality(TaskOf(b))
           m == b.num
           wait == [t \in 0..(n - 1) |-> b.wait[t]]
           update == [t \in 0..(n - 1) |-> b.update[t]]
           prod == [v \in 0..(m - 1) |-> {t \in 0..(n - 1) : v \in b.update[t]}]
           cons == [v \in 0..(m - 1) |-> {t \in 0..(n - 1) : v \in b.wait[t]}]
<1>1. n \in Nat
  BY FS_CardinalityType DEF BuiltMaps
<1>2. /\ m \in Nat /\ b = Maps(m, wait, update, prod, cons)
      /\ b.wait \in [Index(n) -> SUBSET Index(m)] /\ b.update \in [Index(n) -> SUBSET Index(m)]
  BY DEF BuiltMaps, Build, BarrierOf, Index
<1> HIDE DEF n, m
<1>3. Mirror(n, m, wait, cons) /\ Mirror(n, m, update, prod)
  <2>1. wait \in [Index(n) -> SUBSET Index(m)] /\ update \in [Index(n) -> SUBSET Index(m)]
    BY <1>2 DEF Index
  <2>2. cons \in [Index(m) -> SUBSET Index(n)] /\ prod \in [Index(m) -> SUBSET Index(n)]
    BY DEF Index
  <2>3. \A t \in Index(n), v \in Index(m) : (v \in wait[t] <=> t \in cons[v]) /\ (v \in update[t] <=> t \in prod[v])
    BY DEF Index
  <2> HIDE DEF wait, update, prod, cons
  <2> QED BY <2>1, <2>2, <2>3 DEF Mirror
<1> HIDE DEF wait, update, prod, cons
<1>4. Agreeing(n, Maps(m, wait, update, prod, cons))
  BY <1>2, <1>3, Assemble
<1>5. Agreeing(n, b)
  BY <1>2, <1>4
<1> QED BY <1>1, <1>5 DEF n

-----------------------------------------------------------------------------
(* Which task drives which, from the side of the barriers.                 *)
LEMMA Edges ==
    ASSUME NEW n, NEW b, Agreeing(n, b), NEW t \in Index(n), NEW u
    PROVE  u \in Children(b, t) <=> \E v \in BarrierOf(b) : t \in b.prod[v] /\ u \in b.cons[v]
BY Members, ChildMember DEF TwoSided

(* The same edges, the same order.                                         *)
LEMMA SameEdgesSameOrder ==
    ASSUME NEW n \in Nat, NEW b, Agreeing(n, b), Forward(b), NEW c, Agreeing(n, c),
           \A t \in Index(n) : Children(c, t) = Children(b, t)
    PROVE  Forward(c) /\ RunsAfter(c) = RunsAfter(b)
<1>1. \A t \in Index(n) : Children(b, t) \subseteq RunsAfter(b)[t]
  BY OrderFacts
<1> QED BY <1>1, StageKeepsOrder

(* Whatever keeps a path for every edge keeps the order.                   *)
LEMMA OrderGrows ==
    ASSUME NEW n \in Nat, NEW b, Agreeing(n, b), Forward(b), NEW c, Agreeing(n, c), Forward(c),
           \A t \in Index(n) : Children(b, t) \subseteq RunsAfter(c)[t]
    PROVE  \A t \in Index(n) : RunsAfter(b)[t] \subseteq RunsAfter(c)[t]
<1> DEFINE G == {t \in Index(n) : RunsAfter(b)[t] \subseteq RunsAfter(c)[t]}
<1>1. /\ Ranked(Index(n), Drives(n, b), FromEnd(n), n)
      /\ \A t \in Index(n) : Drives(n, b)[t] = Children(b, t)
  BY GraphRanked DEF Drives
<1>2. ASSUME NEW t \in Index(n), Children(b, t) \subseteq G PROVE t \in G
  <2>1. ASSUME NEW u \in RunsAfter(b)[t] PROVE u \in RunsAfter(c)[t]
    <3>1. CASE u \in Children(b, t)
      BY <3>1
    <3>2. CASE u \notin Children(b, t)
      <4>1. PICK s \in Children(b, t) : u \in RunsAfter(b)[s]
        BY <2>1, <3>2, OrderFacts
      <4>2. u \in RunsAfter(c)[s] /\ s \in RunsAfter(c)[t]
        BY <1>2, <4>1
      <4>3. RunsAfter(c)[s] \subseteq RunsAfter(c)[t]
        BY <4>2, OrderFacts
      <4> QED BY <4>2, <4>3
    <3> QED BY <3>1, <3>2
  <2> QED BY <2>1
<1>3. G \subseteq Index(n) /\ \A t \in Index(n) : Drives(n, b)[t] \subseteq G => t \in G
  BY <1>1, <1>2
<1>4. Index(n) \subseteq G
  <2> HIDE DEF G
  <2> QED BY <1>1, <1>3, RankInduction
<1> QED BY <1>4

-----------------------------------------------------------------------------
(* The edits of the passes, from the side of the barriers.                 *)

(* New barriers with their producers and consumers.                        *)
Links(n) == Seq((SUBSET Index(n)) \X (SUBSET Index(n)))

IsLinked(n, b, links, c) ==
    /\ Agreeing(n, c)
    /\ c.num = b.num + Len(links) /\ c.num \in Nat
    /\ \A v \in Index(b.num) : c.prod[v] = b.prod[v] /\ c.cons[v] = b.cons[v]
    /\ \A v \in b.num..(b.num + Len(links) - 1) :
            c.prod[v] = links[v - b.num + 1][1] /\ c.cons[v] = links[v - b.num + 1][2]

(* addNewBarrier, addProducer and addConsumer, for every new barrier in    *)
(* turn, keep the maps in agreement.                                       *)
LEMMA AddLinkedBarriersAgrees ==
    ASSUME NEW n, NEW b, Agreeing(n, b), NEW links \in Links(n), NEW c,
           c = AddLinkedBarriers(b, links)
    PROVE  IsLinked(n, b, links, c)
<1> DEFINE m == b.num + Len(links)
           L(k) == [v \in b.num..(m - 1) |-> links[v - b.num + 1][k]]
           joined(f, k) == [t \in DOMAIN f |-> f[t] \cup {v \in b.num..(m - 1) : t \in links[v - b.num + 1][k]}]
           extended(f, k) == [v \in 0..(m - 1) |-> IF v < b.num THEN f[v] ELSE links[v - b.num + 1][k]]
<1>1. b.num \in Nat /\ Len(links) \in Nat /\ m \in Nat
      /\ links \in [1..Len(links) -> (SUBSET Index(n)) \X (SUBSET Index(n))]
  BY DEF Agreeing, Links
<1>2. \A v \in b.num..(m - 1) : links[v - b.num + 1][1] \subseteq Index(n) /\ links[v - b.num + 1][2] \subseteq Index(n)
  <2>1. ASSUME NEW v \in b.num..(m - 1) PROVE v - b.num + 1 \in 1..Len(links)
    BY <1>1
  <2> QED BY <1>1, <2>1
<1>3. \A v \in Index(m) : v \in Index(b.num) \/ v \in b.num..(m - 1)
  BY <1>1 DEF Index
<1>4. /\ Index(b.num) \subseteq Index(m) /\ b.num..(m - 1) \subseteq Index(m)
      /\ \A v \in Index(b.num) : v < b.num /\ v \notin b.num..(m - 1)
      /\ \A v \in b.num..(m - 1) : ~(v < b.num) /\ v \notin Index(b.num)
  BY <1>1 DEF Index
<1>5. ASSUME NEW f, NEW g, NEW k \in {1, 2}, Mirror(n, b.num, f, g)
      PROVE  /\ Mirror(n, m, joined(f, k), extended(g, k))
             /\ \A v \in Index(b.num) : extended(g, k)[v] = g[v]
             /\ \A v \in b.num..(m - 1) : extended(g, k)[v] = links[v - b.num + 1][k]
  <2>1. /\ f \in [Index(n) -> SUBSET Index(b.num)]
        /\ g \in [Index(b.num) -> SUBSET Index(n)]
        /\ \A t \in Index(n), v \in Index(b.num) : v \in f[t] <=> t \in g[v]
    BY <1>5 DEF Mirror
  <2>2. \A v \in b.num..(m - 1) : links[v - b.num + 1][k] \subseteq Index(n)
    BY <1>2
  <2>3. /\ \A v \in Index(b.num) : extended(g, k)[v] = g[v]
        /\ \A v \in b.num..(m - 1) : extended(g, k)[v] = links[v - b.num + 1][k]
        /\ DOMAIN extended(g, k) = Index(m)
    BY <1>4 DEF Index
  <2>4. extended(g, k) \in [Index(m) -> SUBSET Index(n)]
    <3>1. \A v \in Index(m) : extended(g, k)[v] \subseteq Index(n)
      <4> HIDE DEF extended
      <4> QED BY <1>3, <2>1, <2>2, <2>3
    <3> QED BY <3>1 DEF Index
  <2>5. /\ DOMAIN joined(f, k) = Index(n)
        /\ \A t \in Index(n) : joined(f, k)[t] = f[t] \cup {v \in b.num..(m - 1) : t \in links[v - b.num + 1][k]}
    BY <2>1
  <2>6. joined(f, k) \in [Index(n) -> SUBSET Index(m)]
    <3>1. \A t \in Index(n) : joined(f, k)[t] \subseteq Index(m)
      <4> HIDE DEF joined
      <4> QED BY <1>4, <2>1, <2>5
    <3> QED BY <2>1, <3>1
  <2> HIDE DEF joined, extended
  <2>7. ASSUME NEW t \in Index(n), NEW v \in Index(m)
        PROVE  v \in joined(f, k)[t] <=> t \in extended(g, k)[v]
    <3>1. CASE v \in Index(b.num)
      BY <1>4, <2>1, <2>3, <2>5, <3>1
    <3>2. CASE v \in b.num..(m - 1)
      <4>1. v \notin f[t]
        BY <1>4, <2>1, <3>2
      <4> QED BY <2>3, <2>5, <3>2, <4>1
    <3> QED BY <1>3, <3>1, <3>2
  <2>8. Mirror(n, m, joined(f, k), extended(g, k))
    BY <2>4, <2>6, <2>7 DEF Mirror
  <2> QED BY <2>3, <2>8
<1>6. c = Maps(m, joined(b.wait, 2), joined(b.update, 1), extended(b.prod, 1), extended(b.cons, 2))
  BY DEF AddLinkedBarriers
<1> HIDE DEF joined, extended
<1>7. Mirror(n, b.num, b.wait, b.cons) /\ Mirror(n, b.num, b.update, b.prod)
  BY DEF Agreeing
<1>8. Mirror(n, m, joined(b.wait, 2), extended(b.cons, 2)) /\ Mirror(n, m, joined(b.update, 1), extended(b.prod, 1))
  BY <1>5, <1>7
<1>9. Agreeing(n, c)
  <2> HIDE DEF m
  <2> QED BY <1>1, <1>6, <1>8, Assemble
<1>10. c.num = m /\ c.prod = extended(b.prod, 1) /\ c.cons = extended(b.cons, 2)
  BY <1>6 DEF Maps
<1>11. \A v \in Index(b.num) : c.prod[v] = b.prod[v] /\ c.cons[v] = b.cons[v]
  BY <1>5, <1>7, <1>10
<1>12. \A v \in b.num..(m - 1) : c.prod[v] = links[v - b.num + 1][1] /\ c.cons[v] = links[v - b.num + 1][2]
  BY <1>5, <1>7, <1>10
<1> QED BY <1>1, <1>9, <1>10, <1>11, <1>12 DEF IsLinked

(* A barrier without tasks.                                                *)
IsReset(n, b, v, c) ==
    /\ Agreeing(n, c) /\ c.num = b.num
    /\ c.prod = [b.prod EXCEPT ![v] = {}] /\ c.cons = [b.cons EXCEPT ![v] = {}]

(* resetBarrier takes the barrier out of the maps of its tasks.            *)
LEMMA ResetBarrierAgrees ==
    ASSUME NEW n, NEW b, Agreeing(n, b), NEW v \in Index(b.num), NEW c, c = ResetBarrier(b, v)
    PROVE  IsReset(n, b, v, c)
<1>1. c = Maps(b.num, Leave(b.wait, b.cons[v], v), Leave(b.update, b.prod[v], v),
               [b.prod EXCEPT ![v] = {}], [b.cons EXCEPT ![v] = {}])
  BY DEF ResetBarrier
<1>2. Agreeing(n, c)
  BY <1>1, ResetMirrors, Assemble DEF Agreeing
<1> QED BY <1>1, <1>2 DEF Maps, IsReset

-----------------------------------------------------------------------------
(* What the next reader of the IR gets: some barriers under other numbers. *)
Renamed(n, b, c) ==
    /\ Agreeing(n, c)
    /\ \A w \in BarrierOf(c) : \E v \in BarrierOf(b) : c.prod[w] = b.prod[v] /\ c.cons[w] = b.cons[v]

(* The maps that are built for the IR in a new order agree.                *)
LEMMA RenumberAgrees ==
    ASSUME NEW n, NEW b, Agreeing(n, b), NEW k \in Nat, NEW ord \in [1..k -> BarrierOf(b)],
           NEW c, c = Renumber(b, ord)
    PROVE  /\ Renamed(n, b, c) /\ c.num = k
           /\ \A i \in Index(k) : c.prod[i] = b.prod[ord[i + 1]] /\ c.cons[i] = b.cons[ord[i + 1]]
<1> DEFINE at(v) == {i \in DOMAIN ord : ord[i] = v}
           new(S) == UNION {{i - 1 : i \in at(v)} : v \in S}
           prod == [i \in 0..(k - 1) |-> b.prod[ord[i + 1]]]
           cons == [i \in 0..(k - 1) |-> b.cons[ord[i + 1]]]
           wait == [t \in TaskOf(b) |-> new(b.wait[t])]
           update == [t \in TaskOf(b) |-> new(b.update[t])]
<1>1. DOMAIN ord = 1..k /\ Cardinality(1..k) = k /\ BarrierOf(b) = Index(b.num) /\ TaskOf(b) = Index(n)
  BY Ranges, Domains
<1>2. c = Maps(k, wait, update, prod, cons)
  BY <1>1 DEF Renumber
<1>3. \A i \in Index(k) : i + 1 \in 1..k /\ (i + 1) - 1 = i /\ ord[i + 1] \in Index(b.num)
  <2>1. \A i \in Index(k) : i + 1 \in 1..k /\ (i + 1) - 1 = i
    BY DEF Index
  <2> QED BY <1>1, <2>1
<1>4. \A j \in 1..k : j - 1 \in Index(k) /\ (j - 1) + 1 = j
  BY DEF Index
<1>5. ASSUME NEW S PROVE /\ new(S) \subseteq Index(k)
                         /\ \A i \in Index(k) : i \in new(S) <=> ord[i + 1] \in S
  <2>1. \A x : x \in new(S) <=> \E v \in S, j \in 1..k : ord[j] = v /\ x = j - 1
    BY <1>1
  <2> HIDE DEF new
  <2>2. new(S) \subseteq Index(k)
    BY <1>4, <2>1
  <2>3. ASSUME NEW i \in Index(k) PROVE i \in new(S) <=> ord[i + 1] \in S
    <3>1. ASSUME i \in new(S) PROVE ord[i + 1] \in S
      <4>1. PICK v \in S, j \in 1..k : ord[j] = v /\ i = j - 1
        BY <2>1, <3>1
      <4>2. i + 1 = j
        BY <1>4, <4>1
      <4> QED BY <4>1, <4>2
    <3>2. ASSUME ord[i + 1] \in S PROVE i \in new(S)
      BY <1>3, <2>1, <3>2
    <3> QED BY <3>1, <3>2
  <2> QED BY <2>2, <2>3
<1>6. ASSUME NEW f, NEW g, Mirror(n, b.num, f, g)
      PROVE  Mirror(n, k, [t \in TaskOf(b) |-> new(f[t])], [i \in 0..(k - 1) |-> g[ord[i + 1]]])
  <2> HIDE DEF new
  <2>1. /\ f \in [Index(n) -> SUBSET Index(b.num)]
        /\ g \in [Index(b.num) -> SUBSET Index(n)]
        /\ \A t \in Index(n), v \in Index(b.num) : v \in f[t] <=> t \in g[v]
    BY <1>6 DEF Mirror
  <2>2. [t \in TaskOf(b) |-> new(f[t])] \in [Index(n) -> SUBSET Index(k)]
    BY <1>1, <1>5
  <2>3. [i \in 0..(k - 1) |-> g[ord[i + 1]]] \in [Index(k) -> SUBSET Index(n)]
    <3>1. \A i \in Index(k) : g[ord[i + 1]] \in SUBSET Index(n)
      BY <1>3, <2>1
    <3> QED BY <3>1 DEF Index
  <2>4. ASSUME NEW t \in Index(n), NEW i \in Index(k) PROVE i \in new(f[t]) <=> t \in g[ord[i + 1]]
    BY <1>3, <1>5, <2>1
  <2> QED BY <1>1, <2>2, <2>3, <2>4 DEF Mirror, Index
<1>7. Mirror(n, k, wait, cons) /\ Mirror(n, k, update, prod)
  <2> HIDE DEF new
  <2>1. Mirror(n, b.num, b.wait, b.cons) /\ Mirror(n, b.num, b.update, b.prod)
    BY DEF Agreeing
  <2> QED BY <1>6, <2>1
<1> HIDE DEF wait, update
<1>8. Agreeing(n, c)
  <2> HIDE DEF prod, cons
  <2> QED BY <1>2, <1>7, Assemble
<1>9. c.num = k /\ c.prod = prod /\ c.cons = cons
  BY <1>2 DEF Maps
<1>10. \A i \in Index(k) : c.prod[i] = b.prod[ord[i + 1]] /\ c.cons[i] = b.cons[ord[i + 1]]
  BY <1>9 DEF Index
<1>11. BarrierOf(c) = Index(k)
  BY <1>9 DEF BarrierOf, Index
<1>12. ASSUME NEW w \in BarrierOf(c)
       PROVE  \E v \in BarrierOf(b) : c.prod[w] = b.prod[v] /\ c.cons[w] = b.cons[v]
  BY <1>1, <1>3, <1>10, <1>11
<1> HIDE DEF prod, cons
<1> QED BY <1>8, <1>9, <1>10, <1>12 DEF Renamed

(* No edge is lost if every barrier in use is listed.                      *)
LEMMA RenumberChildren ==
    ASSUME NEW n, NEW b, Agreeing(n, b), NEW k \in Nat, NEW ord \in [1..k -> BarrierOf(b)],
           NEW c, c = Renumber(b, ord),
           \A v \in BarrierOf(b) : Unused(b, v) \/ \E i \in 1..k : ord[i] = v
    PROVE  \A t \in Index(n) : Children(c, t) = Children(b, t)
<1>1. /\ Renamed(n, b, c) /\ c.num = k
      /\ \A i \in Index(k) : c.prod[i] = b.prod[ord[i + 1]] /\ c.cons[i] = b.cons[ord[i + 1]]
  BY RenumberAgrees
<1>2. Agreeing(n, c) /\ BarrierOf(c) = Index(k)
  BY <1>1, Domains DEF Renamed
<1>3. ASSUME NEW t \in Index(n), NEW u PROVE u \in Children(c, t) <=> u \in Children(b, t)
  <2>1. ASSUME u \in Children(c, t) PROVE u \in Children(b, t)
    <3>1. PICK w \in BarrierOf(c) : t \in c.prod[w] /\ u \in c.cons[w]
      BY <1>2, <2>1, Edges
    <3>2. PICK v \in BarrierOf(b) : c.prod[w] = b.prod[v] /\ c.cons[w] = b.cons[v]
      BY <1>1 DEF Renamed
    <3> QED BY <3>1, <3>2, Edges
  <2>2. ASSUME u \in Children(b, t) PROVE u \in Children(c, t)
    <3>1. PICK v \in BarrierOf(b) : t \in b.prod[v] /\ u \in b.cons[v]
      BY <2>2, Edges
    <3>2. PICK i \in 1..k : ord[i] = v
      BY <3>1 DEF Unused
    <3>3. i - 1 \in Index(k) /\ (i - 1) + 1 = i
      BY DEF Index
    <3>4. c.prod[i - 1] = b.prod[v] /\ c.cons[i - 1] = b.cons[v]
      <4>1. c.prod[i - 1] = b.prod[ord[(i - 1) + 1]] /\ c.cons[i - 1] = b.cons[ord[(i - 1) + 1]]
        BY <1>1, <3>3
      <4> QED BY <3>2, <3>3, <4>1
    <3> QED BY <1>2, <3>1, <3>3, <3>4, Edges
  <2> QED BY <2>1, <2>2
<1> QED BY <1>3

(* Rebuilding leaves out nothing but barriers without use.                 *)
LEMMA RebuiltKeeps ==
    ASSUME NEW n, NEW b, Agreeing(n, b), NEW m \in Nat, NEW inIR \in [1..m -> BarrierOf(b)],
           \A v \in BarrierOf(b) : \E i \in 1..m : inIR[i] = v,
           NEW c, c = Rebuilt(b, inIR)
    PROVE  /\ Renamed(n, b, c)
           /\ \A t \in Index(n) : Children(c, t) = Children(b, t)
<1> DEFINE S == {i \in DOMAIN inIR : ~Unused(b, inIR[i])}
           used == Ascending(S)
           k == Cardinality(S)
           ord == [i \in DOMAIN used |-> inIR[used[i]]]
<1>1. S \in SUBSET (1..m) /\ IsFiniteSet(1..m) /\ 1..m \subseteq Int
  BY Ranges
<1>2. Enumerates(used, S)
  <2> HIDE DEF S
  <2>1. IsFiniteSet(S) /\ S \subseteq Int
    BY <1>1, FS_Subset
  <2> QED BY <2>1, AscendingLists
<1>3. k \in Nat /\ used \in [1..k -> S] /\ \A x \in S : \E i \in 1..k : used[i] = x
  <2> HIDE DEF S, used
  <2> QED BY <1>2 DEF Enumerates
<1>4. ord \in [1..k -> BarrierOf(b)]
  <2> HIDE DEF S, used, k
  <2>1. \A i \in 1..k : inIR[used[i]] \in BarrierOf(b)
    BY <1>1, <1>3
  <2> QED BY <1>3, <2>1
<1>5. ASSUME NEW v \in BarrierOf(b), ~Unused(b, v) PROVE \E i \in 1..k : ord[i] = v
  <2>1. PICK j \in 1..m : inIR[j] = v
    OBVIOUS
  <2>2. j \in S
    BY <1>5, <2>1
  <2> HIDE DEF S, used, k
  <2>3. PICK i \in 1..k : used[i] = j
    BY <1>3, <2>2
  <2> QED BY <1>3, <2>1, <2>3
<1>6. c = Renumber(b, ord)
  BY DEF Rebuilt
<1> HIDE DEF S, used, k, ord
<1> QED BY <1>3, <1>4, <1>5, <1>6, RenumberAgrees, RenumberChildren

-----------------------------------------------------------------------------
(* orderBarriers lists every barrier.                                      *)
LEMMA FirstUserIsTask ==
    ASSUME NEW n \in Nat, NEW b, Agreeing(n, b), NEW v \in BarrierOf(b), ~Unused(b, v)
    PROVE  FirstUserOf(b, v) \in Nat
<1> DEFINE U == b.prod[v] \cup b.cons[v]
<1>1. U # {} /\ U \subseteq Nat
  <2>1. b.prod[v] \subseteq Index(n) /\ b.cons[v] \subseteq Index(n)
    BY Members DEF TwoSided
  <2> QED BY <2>1 DEF Unused, Index
<1>2. FirstUserOf(b, v) = CHOOSE t \in U : \A u \in U : t <= u
  BY DEF FirstUserOf
<1> HIDE DEF U
<1>3. \E t \in U : \A u \in U : t <= u
  BY <1>1, LeastNat
<1> QED BY <1>1, <1>2, <1>3

(* orderBarriers lists every barrier, and no other.                        *)
LEMMA BarrierOrderLists ==
    ASSUME NEW n \in Nat, NEW b, Agreeing(n, b)
    PROVE  /\ b.num \in Nat /\ BarrierOrder(b) \in [1..b.num -> BarrierOf(b)]
           /\ \A v \in BarrierOf(b) : \E i \in 1..b.num : BarrierOrder(b)[i] = v
<1> DEFINE before == [v \in BarrierOf(b) |-> {w \in BarrierOf(b) : StandsBefore(b, w, v)}]
<1>1. b.num \in Nat /\ BarrierOf(b) = Index(b.num) /\ BarrierOf(b) \subseteq Int
  BY Domains DEF Agreeing, Index
<1>2. IsFiniteSet(BarrierOf(b)) /\ Cardinality(BarrierOf(b)) = b.num
  BY <1>1, Ranges DEF BarrierOf
<1>3. DOMAIN before = BarrierOf(b)
  OBVIOUS
<1>4. \A v \in BarrierOf(b) : Unused(b, v) \/ FirstUserOf(b, v) \in Nat
  BY FirstUserIsTask
<1>5. StandsInLine(before)
  <2>1. ASSUME NEW v \in BarrierOf(b) PROVE ~StandsBefore(b, v, v)
    BY <1>1, <1>4 DEF StandsBefore
  <2>2. ASSUME NEW v \in BarrierOf(b), NEW w \in BarrierOf(b), v # w
        PROVE  StandsBefore(b, v, w) \/ StandsBefore(b, w, v)
    BY <1>1, <1>4, <2>2 DEF StandsBefore
  <2>3. ASSUME NEW v \in BarrierOf(b), NEW w \in BarrierOf(b), NEW x \in BarrierOf(b),
               StandsBefore(b, x, v), StandsBefore(b, v, w)
        PROVE  StandsBefore(b, x, w)
    BY <1>1, <1>4, <2>3 DEF StandsBefore
  <2> QED BY <2>1, <2>2, <2>3 DEF StandsInLine
<1>6. BarrierOrder(b) = Listed(before)
  BY DEF BarrierOrder
<1> HIDE DEF before
<1>7. Enumerates(Listed(before), BarrierOf(b))
  BY <1>2, <1>3, <1>5, ListedEnumerates
<1> QED BY <1>1, <1>2, <1>6, <1>7 DEF Enumerates
=============================================================================
