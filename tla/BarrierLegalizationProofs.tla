----------------------- MODULE BarrierLegalizationProofs ----------------------
(***************************************************************************)
(* Proofs about the passes that split barriers and give every task one     *)
(* wait barrier, for functions of any size and any limit on the slots.     *)
(* Splitting and chaining go through the edits of barrier maps, whose      *)
(* effect BarrierMapsProofs states; here come the batches that             *)
(* createLegalVariantBatches and createProducerBatches make, what one step *)
(* of each pass does to the function, and the two invariants: LegalInv,    *)
(* that what was visited fits the slots, and KeptInv, that the order of    *)
(* the tasks of the function that was read is never lost.                  *)
(***************************************************************************)
EXTENDS BarrierLegalization, BarrierMapsProofs

(* Elements of two sequences in a row.                                     *)
LEMMA Concatenated ==
    ASSUME NEW T, NEW s \in Seq(T), NEW t \in Seq(T)
    PROVE  /\ s \o t \in Seq(T) /\ Len(s \o t) = Len(s) + Len(t)
           /\ \A i \in 1..Len(s) : (s \o t)[i] = s[i]
           /\ \A i \in 1..Len(t) : (s \o t)[Len(s) + i] = t[i]
<1>1. Len(s) \in Nat /\ Len(t) \in Nat
  OBVIOUS
<1>2. s \o t \in Seq(T) /\ Len(s \o t) = Len(s) + Len(t)
  OBVIOUS
<1>3. \A i \in 1..(Len(s) + Len(t)) : (s \o t)[i] = IF i <= Len(s) THEN s[i] ELSE t[i - Len(s)]
  OBVIOUS
<1>4. ASSUME NEW i \in 1..Len(t) PROVE (s \o t)[Len(s) + i] = t[i]
  <2>1. Len(s) + i \in 1..(Len(s) + Len(t)) /\ ~(Len(s) + i <= Len(s)) /\ Len(s) + i - Len(s) = i
    BY <1>1
  <2> QED BY <1>3, <2>1
<1> QED BY <1>1, <1>2, <1>3, <1>4

(* A function on 1..n is a sequence of length n.                           *)
LEMMA TableIsSequence ==
    ASSUME NEW T, NEW k \in Nat, NEW f \in [1..k -> T]
    PROVE  f \in Seq(T) /\ Len(f) = k
OBVIOUS

(* Sequences with one more element, or with another one at the end.        *)
Ends(s, x, e) ==
    /\ Len(e) = Len(s)
    /\ \A i \in 1..(Len(s) - 1) : e[i] = s[i]
    /\ e[Len(s)] = x

(* Appending an element, and replacing the last one.                       *)
LEMMA LastTwo ==
    ASSUME NEW T, NEW s \in Seq(T), Len(s) >= 1, NEW x \in T
    PROVE  /\ Len(s) \in Nat /\ \A i \in 1..Len(s) : s[i] \in T
           /\ Last(s) = s[Len(s)] /\ Last(s) \in T
           /\ Append(s, x) \in Seq(T) /\ Len(Append(s, x)) = Len(s) + 1
           /\ \A i \in 1..Len(s) : Append(s, x)[i] = s[i]
           /\ Append(s, x)[Len(s) + 1] = x
           /\ Front(s) \o <<x>> \in Seq(T)
           /\ Ends(s, x, Front(s) \o <<x>>)
<1>1. Len(s) \in Nat /\ s \in [1..Len(s) -> T] /\ Len(s) \in 1..Len(s) /\ Len(s) - 1 \in Nat
  OBVIOUS
<1>2. Last(s) = s[Len(s)] /\ Last(s) \in T
  BY <1>1 DEF Last
<1>3. /\ Append(s, x) \in Seq(T) /\ Len(Append(s, x)) = Len(s) + 1
      /\ \A i \in 1..Len(s) : Append(s, x)[i] = s[i]
      /\ Append(s, x)[Len(s) + 1] = x
  OBVIOUS
<1> DEFINE f == Front(s)
<1>4. /\ f \in Seq(T) /\ Len(f) = Len(s) - 1
      /\ \A i \in 1..(Len(s) - 1) : f[i] = s[i]
  BY <1>1 DEF Front
<1> HIDE DEF f
<1> DEFINE one == <<x>>
<1>5. one \in Seq(T) /\ Len(one) = 1 /\ one[1] = x
  OBVIOUS
<1> HIDE DEF one
<1> DEFINE e == f \o one
<1>9. /\ e \in Seq(T) /\ Len(e) = Len(f) + Len(one)
      /\ \A i \in 1..Len(f) : e[i] = f[i]
      /\ \A i \in 1..Len(one) : e[Len(f) + i] = one[i]
  <2>1. f \in Seq(T) /\ one \in Seq(T)
    BY <1>4, <1>5
  <2>2. \A p, q \in Seq(T) :
            /\ p \o q \in Seq(T) /\ Len(p \o q) = Len(p) + Len(q)
            /\ \A i \in 1..Len(p) : (p \o q)[i] = p[i]
            /\ \A i \in 1..Len(q) : (p \o q)[Len(p) + i] = q[i]
    BY Concatenated
  <2> QED BY <2>1, <2>2
<1> HIDE DEF e
<1>6. e \in Seq(T) /\ Len(e) = Len(s)
  <2>1. Len(s) - 1 + 1 = Len(s)
    BY <1>1
  <2> QED BY <1>4, <1>5, <1>9, <2>1
<1>7. \A i \in 1..(Len(s) - 1) : e[i] = s[i]
  BY <1>4, <1>9
<1>8. e[Len(s)] = x
  <2>1. 1 \in 1..Len(one) /\ Len(s) - 1 + 1 = Len(s)
    BY <1>1, <1>5
  <2>2. e[Len(f) + 1] = one[1]
    BY <1>9, <2>1
  <2> QED BY <1>4, <1>5, <2>1, <2>2
<1> QED BY <1>1, <1>2, <1>3, <1>6, <1>7, <1>8 DEF f, one, e, Ends

-----------------------------------------------------------------------------
(* Slots of sets of tasks.                                                 *)
SlotsGiven == IsFiniteSet(Task) /\ fn.slots \in [Task -> Nat] /\ Available \in Nat

(* No tasks take no slots.                                                 *)
LEMMA NoneFits == ASSUME SlotsGiven PROVE Fits({})
BY SumOfNone DEF SlotsGiven, Fits, SlotsUsed

(* The slots of a set of tasks are a number.                               *)
LEMMA SlotsAre == ASSUME SlotsGiven, NEW S \in SUBSET Task PROVE SlotsUsed(S) \in Nat
<1>1. IsFiniteSet(S) /\ \A x \in S : fn.slots[x] \in Nat
  BY FS_Subset DEF SlotsGiven
<1> QED BY <1>1, SumIsNat DEF SlotsUsed

(* A task adds its own slots.                                              *)
LEMMA SlotsWithout ==
    ASSUME SlotsGiven, NEW S \in SUBSET Task, NEW t \in S
    PROVE  SlotsUsed(S) = fn.slots[t] + SlotsUsed(S \ {t})
<1>1. IsFiniteSet(S) /\ \A x \in S : fn.slots[x] \in Int
  BY FS_Subset DEF SlotsGiven
<1> QED BY <1>1, SumRemove DEF SlotsUsed

(* One task takes its own slots.                                           *)
LEMMA OneFits ==
    ASSUME SlotsGiven, NEW t \in Task
    PROVE  SlotsUsed({t}) = fn.slots[t]
<1>1. SlotsUsed({t}) = fn.slots[t] + SlotsUsed({t} \ {t})
  BY SlotsWithout
<1>2. {t} \ {t} = {} /\ SlotsUsed({}) = 0 /\ fn.slots[t] \in Nat
  BY SumOfNone DEF SlotsUsed, SlotsGiven
<1> QED BY <1>1, <1>2

(* With fewer tasks, what fitted fits.                                     *)
LEMMA OneLessFits ==
    ASSUME SlotsGiven, NEW S \in SUBSET Task, Fits(S), NEW t
    PROVE  Fits(S \ {t})
<1>1. CASE t \in S
  <2>1. /\ SlotsUsed(S) = fn.slots[t] + SlotsUsed(S \ {t})
        /\ SlotsUsed(S) \in Nat /\ SlotsUsed(S \ {t}) \in Nat
        /\ fn.slots[t] \in Nat /\ Available \in Nat /\ SlotsUsed(S) <= Available
    BY <1>1, SlotsWithout, SlotsAre DEF SlotsGiven, Fits
  <2> QED BY <2>1 DEF Fits
<1>2. CASE t \notin S
  <2>1. S \ {t} = S
    BY <1>2
  <2> QED BY <2>1
<1> QED BY <1>1, <1>2

(* A task joins a batch if its slots are left.                             *)
LEMMA OneMoreFits ==
    ASSUME SlotsGiven, NEW S \in SUBSET Task, Fits(S), NEW t \in Task,
           SlotsUsed(S) + fn.slots[t] <= Available
    PROVE  Fits(S \cup {t})
<1>1. CASE t \in S
  <2>1. S \cup {t} = S
    BY <1>1
  <2> QED BY <2>1
<1>2. CASE t \notin S
  <2>1. SlotsUsed(S \cup {t}) = fn.slots[t] + SlotsUsed((S \cup {t}) \ {t})
    BY SlotsWithout
  <2>2. (S \cup {t}) \ {t} = S
    BY <1>2
  <2>3. SlotsUsed(S) \in Nat /\ fn.slots[t] \in Nat
    BY SlotsAre DEF SlotsGiven
  <2>4. SlotsUsed(S \cup {t}) = fn.slots[t] + SlotsUsed(S)
    BY <2>1, <2>2
  <2> QED BY <2>3, <2>4 DEF Fits
<1> QED BY <1>1, <1>2

-----------------------------------------------------------------------------
(* B holds the tasks of S in batches that fit.                             *)
Batched(B, S) ==
    /\ B \in Seq(SUBSET Task) /\ Len(B) >= 1
    /\ \A i \in 1..Len(B) : Fits(B[i])
    /\ \A x : x \in S <=> \E i \in 1..Len(B) : x \in B[i]

(* The batches follow each other in program order, and none is empty.      *)
InLine(B) ==
    /\ \A i \in 1..Len(B) : B[i] # {}
    /\ \A i, j \in 1..Len(B) : i < j => \A x \in B[i], y \in B[j] : x < y

(* The next tasks join the last batch or open a new one.                   *)
Joins(B, P, C) ==
    \/ C = Front(B) \o <<Last(B) \cup P>> /\ Fits(Last(B) \cup P)
    \/ C = Append(B, P) /\ B # <<{}>>

(* Before the first task there is one empty batch.                         *)
LEMMA FirstBatch ==
    ASSUME SlotsGiven
    PROVE  <<{}>> \in Seq(SUBSET Task) /\ Len(<<{}>>) = 1 /\ <<{}>>[1] = {} /\ Batched(<<{}>>, {})
<1> DEFINE B == <<{}>>
<1>1. B \in Seq(SUBSET Task) /\ Len(B) = 1 /\ B[1] = {}
  OBVIOUS
<1> HIDE DEF B
<1>2. \A i \in 1..Len(B) : i = 1
  BY <1>1
<1>3. /\ \A i \in 1..Len(B) : Fits(B[i])
      /\ \A x : x \in {} <=> \E i \in 1..Len(B) : x \in B[i]
  <2>1. Fits({})
    BY NoneFits
  <2> QED BY <1>1, <1>2, <2>1
<1>4. Batched(B, {})
  BY <1>1, <1>3 DEF Batched
<1> QED BY <1>1, <1>4 DEF B

(* Batches that fit still fit when tasks join them.                        *)
LEMMA JoinBatched ==
    ASSUME SlotsGiven, NEW B, NEW S, Batched(B, S), NEW P \in SUBSET Task, Fits(P),
           NEW C, Joins(B, P, C)
    PROVE  Batched(C, S \cup P)
<1>1. B \in Seq(SUBSET Task) /\ Len(B) >= 1 /\ Len(B) \in Nat /\ Last(B) = B[Len(B)] /\ Last(B) \in SUBSET Task
  BY LastTwo DEF Batched
<1>2. CASE C = Front(B) \o <<Last(B) \cup P>> /\ Fits(Last(B) \cup P)
  <2>1. /\ C \in Seq(SUBSET Task) /\ Len(C) = Len(B)
        /\ \A i \in 1..(Len(B) - 1) : C[i] = B[i]
        /\ C[Len(B)] = Last(B) \cup P
    <3>1. Last(B) \cup P \in SUBSET Task
      BY <1>1
    <3>2. C \in Seq(SUBSET Task) /\ Ends(B, Last(B) \cup P, C)
      BY <1>1, <1>2, <3>1, LastTwo
    <3> QED BY <3>2 DEF Ends
  <2>2. \A i \in 1..Len(B) : i \in 1..(Len(B) - 1) \/ i = Len(B)
    BY <1>1
  <2>3. \A i \in 1..Len(C) : Fits(C[i])
    BY <1>2, <2>1, <2>2 DEF Batched
  <2>4. ASSUME NEW x PROVE x \in S \cup P <=> \E i \in 1..Len(C) : x \in C[i]
    <3>1. x \in S <=> \E i \in 1..Len(B) : x \in B[i]
      BY DEF Batched
    <3>2. ASSUME x \in S \cup P PROVE \E i \in 1..Len(C) : x \in C[i]
      <4>1. CASE x \in P
        BY <1>1, <2>1, <4>1
      <4>2. CASE x \in S
        BY <1>1, <2>1, <2>2, <3>1, <4>2
      <4> QED BY <3>2, <4>1, <4>2
    <3>3. ASSUME NEW i \in 1..Len(C), x \in C[i] PROVE x \in S \cup P
      <4>1. CASE i \in 1..(Len(B) - 1)
        BY <2>1, <3>1, <3>3, <4>1
      <4>2. CASE i = Len(B)
        BY <1>1, <2>1, <3>1, <3>3, <4>2
      <4> QED BY <2>1, <2>2, <4>1, <4>2
    <3> QED BY <3>2, <3>3
  <2> QED BY <1>1, <2>1, <2>3, <2>4 DEF Batched
<1>3. CASE C = Append(B, P) /\ B # <<{}>>
  <2>1. /\ C \in Seq(SUBSET Task) /\ Len(C) = Len(B) + 1
        /\ \A i \in 1..Len(B) : C[i] = B[i]
        /\ C[Len(B) + 1] = P
    BY <1>1, <1>3, LastTwo
  <2>2. \A i \in 1..Len(C) : i \in 1..Len(B) \/ i = Len(B) + 1
    BY <1>1, <2>1
  <2>3. \A i \in 1..Len(C) : Fits(C[i])
    BY <2>1, <2>2 DEF Batched
  <2>4. Len(B) + 1 \in 1..Len(C) /\ \A i \in 1..Len(B) : i \in 1..Len(C)
    BY <1>1, <2>1
  <2>5. ASSUME NEW x PROVE x \in S \cup P <=> \E i \in 1..Len(C) : x \in C[i]
    BY <2>1, <2>2, <2>4 DEF Batched
  <2>6. Len(C) >= 1
    BY <1>1, <2>1
  <2> QED BY <2>1, <2>3, <2>5, <2>6 DEF Batched
<1> QED BY <1>2, <1>3 DEF Joins

(* Tasks that come after all others join the batches in line.              *)
LEMMA JoinInLine ==
    ASSUME SlotsGiven, NEW B, NEW S, Batched(B, S), B = <<{}>> \/ InLine(B),
           NEW P \in SUBSET Task, P # {}, \A x \in S, y \in P : x < y,
           NEW C, Joins(B, P, C)
    PROVE  InLine(C)
<1>1. B \in Seq(SUBSET Task) /\ Len(B) >= 1 /\ Len(B) \in Nat /\ Last(B) = B[Len(B)] /\ Last(B) \in SUBSET Task
  BY LastTwo DEF Batched
<1>0. \A i \in 1..Len(B) : \A x \in B[i], y \in P : x < y
  BY DEF Batched
<1>2. CASE C = Front(B) \o <<Last(B) \cup P>>
  <2>1. /\ Len(C) = Len(B)
        /\ \A i \in 1..(Len(B) - 1) : C[i] = B[i]
        /\ C[Len(B)] = Last(B) \cup P
    <3>1. Last(B) \cup P \in SUBSET Task
      BY <1>1
    <3>2. Ends(B, Last(B) \cup P, C)
      BY <1>1, <1>2, <3>1, LastTwo
    <3> QED BY <3>2 DEF Ends
  <2>2. \A i \in 1..Len(B) : i \in 1..(Len(B) - 1) \/ i = Len(B)
    BY <1>1
  <2>3. CASE B = <<{}>>
    <3>1. Len(B) = 1
      BY <2>3
    <3>2. \A i \in 1..Len(C) : i = 1 /\ C[i] # {}
      BY <2>1, <3>1
    <3>3. \A i, j \in 1..Len(C) : ~(i < j)
      BY <3>2
    <3> QED BY <3>2, <3>3 DEF InLine
  <2>4. CASE InLine(B)
    <3>1. \A i \in 1..Len(C) : C[i] # {}
      BY <2>1, <2>2, <2>4 DEF InLine
    <3>2. ASSUME NEW i \in 1..Len(C), NEW j \in 1..Len(C), i < j, NEW x \in C[i], NEW y \in C[j]
          PROVE  x < y
      <4>1. i \in 1..(Len(B) - 1) /\ C[i] = B[i] /\ x \in B[i] /\ i \in 1..Len(B)
        BY <1>1, <2>1, <3>2
      <4>2. CASE y \in P
        BY <1>0, <4>1, <4>2
      <4>3. CASE y \notin P
        <5>1. y \in B[j]
          BY <1>1, <2>1, <2>2, <3>2, <4>3
        <5> QED BY <2>1, <2>4, <3>2, <4>1, <5>1 DEF InLine
      <4> QED BY <4>2, <4>3
    <3> QED BY <3>1, <3>2 DEF InLine
  <2> QED BY <2>3, <2>4
<1>3. CASE C = Append(B, P) /\ B # <<{}>>
  <2>0. InLine(B)
    BY <1>3
  <2>1. /\ Len(C) = Len(B) + 1
        /\ \A i \in 1..Len(B) : C[i] = B[i]
        /\ C[Len(B) + 1] = P
    BY <1>1, <1>3, LastTwo
  <2>2. \A i \in 1..Len(C) : i \in 1..Len(B) \/ i = Len(B) + 1
    BY <1>1, <2>1
  <2>3. \A i \in 1..Len(C) : C[i] # {}
    BY <2>0, <2>1, <2>2 DEF InLine
  <2>4. ASSUME NEW i \in 1..Len(C), NEW j \in 1..Len(C), i < j, NEW x \in C[i], NEW y \in C[j]
        PROVE  x < y
    <3>1. i \in 1..Len(B) /\ x \in B[i]
      BY <1>1, <2>1, <2>4
    <3>2. CASE j \in 1..Len(B)
      BY <2>0, <2>1, <2>4, <3>1, <3>2 DEF InLine
    <3>3. CASE j = Len(B) + 1
      BY <1>0, <2>1, <2>4, <3>1, <3>3
    <3> QED BY <2>2, <3>2, <3>3
  <2> QED BY <2>3, <2>4 DEF InLine
<1> QED BY <1>2, <1>3 DEF Joins

-----------------------------------------------------------------------------
(* The batches of any number of tasks.                                     *)
Batches == {B \in Seq(SUBSET Task) : Len(B) >= 1}

(* createLegalVariantBatches takes the tasks one by one.                   *)
NextBatches(B, t) ==
    IF SlotsUsed(Last(B)) + fn.slots[t] <= Available
    THEN Front(B) \o <<Last(B) \cup {t}>>
    ELSE Append(B, {t})

(* Both ways of joining give batches.                                      *)
LEMMA NextIsBatches ==
    ASSUME NEW B \in Batches, NEW P \in SUBSET Task
    PROVE  Front(B) \o <<Last(B) \cup P>> \in Batches /\ Append(B, P) \in Batches
<1>1. B \in Seq(SUBSET Task) /\ Len(B) >= 1
  BY DEF Batches
<1>2. Len(B) \in Nat /\ Last(B) \cup P \in SUBSET Task
  BY <1>1, LastTwo
<1> DEFINE C == Front(B) \o <<Last(B) \cup P>>
           D == Append(B, P)
<1>3. C \in Seq(SUBSET Task) /\ Len(C) = Len(B)
  <2>1. Front(B) \o <<Last(B) \cup P>> \in Seq(SUBSET Task)
        /\ Ends(B, Last(B) \cup P, Front(B) \o <<Last(B) \cup P>>)
    BY <1>1, <1>2, LastTwo
  <2> QED BY <2>1 DEF Ends
<1>4. D \in Seq(SUBSET Task) /\ Len(D) = Len(B) + 1
  BY <1>1, LastTwo
<1> HIDE DEF C, D
<1>5. C \in Batches /\ D \in Batches
  BY <1>1, <1>2, <1>3, <1>4 DEF Batches
<1> QED BY <1>5 DEF C, D

(* The fold of createLegalVariantBatches is a run over the tasks.          *)
LEMMA LegalRun ==
    ASSUME SlotsGiven, Task \subseteq Int, NEW S \in SUBSET Task
    PROVE  /\ Cardinality(S) \in Nat
           /\ \E F : /\ F[0] = <<{}>> /\ F[Cardinality(S)] = LegalVariantBatches(S)
                     /\ \A k \in 1..Cardinality(S) : F[k] = NextBatches(F[k - 1], Ascending(S)[k])
<1> DEFINE n == Cardinality(S)
           s == Ascending(S)
           IsTable(g) == g = [I \in SUBSET (1..n) |-> IF I = {} THEN <<{}>>
                                                      ELSE NextBatches(g[I \ {Greatest(I)}], s[Greatest(I)])]
           table == CHOOSE g : IsTable(g)
           G == [x \in Batches \X (1..n) |-> NextBatches(x[1], s[x[2]])]
<1>1. n \in Nat /\ s \in [1..n -> S]
  <2>1. IsFiniteSet(S) /\ S \subseteq Int
    BY FS_Subset DEF SlotsGiven
  <2> QED BY <2>1, AscendingLists DEF Enumerates
<1>2. LegalVariantBatches(S) = table[1..n]
  BY <1>1 DEF LegalVariantBatches, NextBatches, FoldLeft, MapThenFoldSet, Greatest, Max
<1> HIDE DEF n, s
<1>3. <<{}>> \in Batches
  BY FirstBatch DEF Batches
<1>4. G \in [Batches \X (1..n) -> Batches]
  <2>1. ASSUME NEW B \in Batches, NEW k \in 1..n PROVE NextBatches(B, s[k]) \in Batches
    <3>1. {s[k]} \in SUBSET Task
      BY <1>1
    <3>2. Front(B) \o <<Last(B) \cup {s[k]}>> \in Batches /\ Append(B, {s[k]}) \in Batches
      BY <3>1, NextIsBatches
    <3> QED BY <3>2 DEF NextBatches
  <2> QED BY <2>1
<1>5. \A B \in Batches, k \in 1..n : G[<<B, k>>] = NextBatches(B, s[k])
  OBVIOUS
<1> HIDE DEF G
<1>6. \E g : IsTable(g)
  <2> DEFINE base == <<{}>>
  <2>0. base \in Batches
    BY <1>3
  <2> HIDE DEF base
  <2>4. \E g \in [SUBSET (1..n) -> Batches] : IsFold(g, n, base, G)
    <3> HIDE DEF table, IsTable
    <3> QED BY <1>1, <1>4, <2>0, FoldTable
  <2>1. PICK g \in [SUBSET (1..n) -> Batches] : \A I \in SUBSET (1..n) :
            g[I] = IF I = {} THEN <<{}>> ELSE G[<<g[I \ {Greatest(I)}], Greatest(I)>>]
    BY <2>4 DEF base, IsFold
  <2>2. ASSUME NEW I \in SUBSET (1..n), I # {}
        PROVE  g[I] = NextBatches(g[I \ {Greatest(I)}], s[Greatest(I)])
    <3>1. Greatest(I) \in 1..n /\ I \ {Greatest(I)} \in SUBSET (1..n)
      BY <1>1, <2>2, GreatestIndex
    <3> QED BY <1>5, <2>1, <2>2, <3>1
  <2>3. \A I \in SUBSET (1..n) : g[I] = IF I = {} THEN <<{}>>
                                        ELSE NextBatches(g[I \ {Greatest(I)}], s[Greatest(I)])
    BY <2>1, <2>2
  <2> QED BY <2>3
<1>7. IsTable(table)
  BY <1>6
<1> HIDE DEF table
<1>8. /\ table[{}] = <<{}>>
      /\ \A k \in 1..n : table[1..k] = NextBatches(table[1..(k - 1)], s[k])
  <2>1. table[{}] = <<{}>>
    BY <1>7
  <2>2. ASSUME NEW k \in 1..n PROVE table[1..k] = NextBatches(table[1..(k - 1)], s[k])
    <3>1. /\ 1..k \in SUBSET (1..n) /\ 1..k # {}
          /\ Greatest(1..k) = k /\ (1..k) \ {k} = 1..(k - 1)
      BY <1>1, FoldPrefixes
    <3> DEFINE I == 1..k
    <3>2. table[I] = NextBatches(table[I \ {Greatest(I)}], s[Greatest(I)])
      <4> HIDE DEF I
      <4>1. I \in SUBSET (1..n) /\ I # {}
        BY <3>1 DEF I
      <4> QED BY <1>7, <4>1
    <3> QED BY <3>1, <3>2
  <2> QED BY <2>1, <2>2
<1> DEFINE F == [k \in 0..n |-> table[1..k]]
<1>9. F[0] = <<{}>> /\ F[n] = table[1..n] /\ \A k \in 1..n : F[k] = NextBatches(F[k - 1], s[k])
  <2>1. 1..0 = {} /\ 0 \in 0..n /\ n \in 0..n /\ \A k \in 1..n : k \in 0..n /\ k - 1 \in 0..n
    BY <1>1
  <2> QED BY <1>8, <2>1
<1> HIDE DEF F
<1>10. \E H : H[0] = <<{}>> /\ H[n] = LegalVariantBatches(S) /\ \A k \in 1..n : H[k] = NextBatches(H[k - 1], s[k])
  BY <1>2, <1>9
<1> QED BY <1>1, <1>10 DEF n, s

-----------------------------------------------------------------------------
(* One round of createLegalVariantBatches lets one task join.              *)
LEMMA NextJoins ==
    ASSUME SlotsGiven, NEW B, NEW S, Batched(B, S), NEW t \in Task, fn.slots[t] <= Available
    PROVE  Joins(B, {t}, NextBatches(B, t))
<1>1. B \in Seq(SUBSET Task) /\ Len(B) >= 1 /\ Len(B) \in 1..Len(B) /\ Last(B) = B[Len(B)] /\ Last(B) \in SUBSET Task
  <2>1. B \in Seq(SUBSET Task) /\ Len(B) >= 1
    BY DEF Batched
  <2>2. Len(B) \in Nat /\ Last(B) = B[Len(B)] /\ Last(B) \in SUBSET Task
    <3>1. {} \in SUBSET Task
      OBVIOUS
    <3> QED BY <2>1, <3>1, LastTwo
  <2>3. Len(B) \in 1..Len(B)
    BY <2>1, <2>2
  <2> QED BY <2>1, <2>2, <2>3
<1>2. Fits(Last(B))
  BY <1>1 DEF Batched
<1>3. CASE SlotsUsed(Last(B)) + fn.slots[t] <= Available
  <2>1. Fits(Last(B) \cup {t})
    BY <1>1, <1>2, <1>3, OneMoreFits
  <2> QED BY <1>3, <2>1 DEF Joins, NextBatches
<1>4. CASE ~(SlotsUsed(Last(B)) + fn.slots[t] <= Available)
  <2>1. ASSUME B = <<{}>> PROVE FALSE
    <3>1. Last(B) = {}
      BY <1>1, <2>1, FirstBatch
    <3>2. SlotsUsed(Last(B)) = 0 /\ fn.slots[t] \in Nat
      BY <3>1, SumOfNone DEF SlotsUsed, SlotsGiven
    <3> QED BY <1>4, <3>2
  <2> QED BY <1>4, <2>1 DEF Joins, NextBatches
<1> QED BY <1>3, <1>4

(* createLegalVariantBatches: the batches hold the tasks, fit, and follow  *)
(* each other in program order.                                            *)
LEMMA LegalBatches ==
    ASSUME SlotsGiven, Task \subseteq Int, \A t \in Task : fn.slots[t] <= Available,
           NEW S \in SUBSET Task
    PROVE  /\ Batched(LegalVariantBatches(S), S)
           /\ LegalVariantBatches(S) = <<{}>> \/ InLine(LegalVariantBatches(S))
           /\ S # {} => InLine(LegalVariantBatches(S))
<1> DEFINE n == Cardinality(S)
           s == Ascending(S)
           T(k) == {s[j] : j \in 1..k}
<1>1. n \in Nat /\ s \in [1..n -> S] /\ (\A x \in S : \E i \in 1..n : s[i] = x)
      /\ \A i, j \in 1..n : i < j <=> s[i] < s[j]
  <2>1. IsFiniteSet(S) /\ S \subseteq Int
    BY FS_Subset DEF SlotsGiven
  <2> QED BY <2>1, AscendingLists DEF Enumerates
<1>2. PICK F : /\ F[0] = <<{}>> /\ F[n] = LegalVariantBatches(S)
               /\ \A k \in 1..n : F[k] = NextBatches(F[k - 1], s[k])
  BY LegalRun
<1> HIDE DEF n, s
<1> DEFINE Good == {k \in 0..n : /\ Batched(F[k], T(k))
                                 /\ IF k = 0 THEN F[k] = <<{}>> ELSE InLine(F[k])}
<1>3. 0 \in Good
  <2>1. T(0) = {} /\ 0 \in 0..n
    BY <1>1
  <2> HIDE DEF T
  <2> QED BY <1>2, <2>1, FirstBatch
<1>4. ASSUME NEW k \in 1..n, k - 1 \in Good PROVE k \in Good
  <2>1. /\ k - 1 \in 0..n /\ k \in 0..n /\ k # 0
        /\ \A j \in 1..k : j \in 1..(k - 1) \/ j = k
        /\ \A j \in 1..(k - 1) : j \in 1..k /\ j \in 1..n /\ j < k
        /\ k \in 1..k
    BY <1>1
  <2>2. Batched(F[k - 1], T(k - 1)) /\ (F[k - 1] = <<{}>> \/ InLine(F[k - 1]))
    BY <1>4
  <2>3. s[k] \in Task /\ {s[k]} \in SUBSET Task /\ {s[k]} # {}
    BY <1>1
  <2>4. Joins(F[k - 1], {s[k]}, F[k])
    BY <1>2, <2>2, <2>3, NextJoins
  <2>5. Fits({s[k]})
    BY <2>3, OneFits DEF Fits
  <2>6. T(k) = T(k - 1) \cup {s[k]}
    BY <2>1
  <2>7. \A x \in T(k - 1), y \in {s[k]} : x < y
    BY <1>1, <2>1
  <2> HIDE DEF T
  <2>8. Batched(F[k], T(k - 1) \cup {s[k]})
    BY <2>2, <2>3, <2>4, <2>5, JoinBatched
  <2>9. InLine(F[k])
    BY <2>2, <2>3, <2>4, <2>7, JoinInLine
  <2> QED BY <2>1, <2>6, <2>8, <2>9
<1>5. n \in Good
  <2> HIDE DEF Good
  <2>1. 0..n \subseteq Good
    BY <1>1, <1>3, <1>4, CountUp
  <2> QED BY <1>1, <2>1
<1>6. T(n) = S
  BY <1>1
<1>7. ASSUME S # {} PROVE n # 0
  <2>1. PICK x \in S : TRUE
    BY <1>7
  <2>2. PICK i \in 1..n : s[i] = x
    BY <1>1
  <2> QED BY <1>1, <2>2
<1> HIDE DEF T
<1> QED BY <1>2, <1>5, <1>6, <1>7

(* createProducerBatches joins the producers of the barriers.              *)
NextProducers(B, v) == JoinedBatch(B, info.prod[v])

(* The fold of createProducerBatches is a run over the barriers.           *)
LEMMA ProducersRun ==
    ASSUME SlotsGiven, NEW n \in Nat, NEW w, DOMAIN w = 1..n,
           \A i \in 1..n : info.prod[w[i]] \in SUBSET Task,
           ProducerBatches(w) # <<>>
    PROVE  /\ \E F : /\ F[0] = <<{}>> /\ F[n] = ProducerBatches(w)
                     /\ \A k \in 1..n : F[k] = NextProducers(F[k - 1], w[k])
           /\ \A i \in 2..n : ~OutOfOrder(Latest(info.prod[w[i - 1]]), First(info.prod[w[i]]))
<1> DEFINE IsTable(g) == g = [I \in SUBSET (1..n) |-> IF I = {} THEN <<{}>>
                                                      ELSE NextProducers(g[I \ {Greatest(I)}], w[Greatest(I)])]
           table == CHOOSE g : IsTable(g)
           G == [x \in Batches \X (1..n) |-> NextProducers(x[1], w[x[2]])]
           prod(i) == info.prod[w[i]]
           lastUser(i) == IF i = 1 THEN 0 ELSE Latest(prod(i - 1))
<1>0. /\ ~\E i \in DOMAIN w : OutOfOrder(lastUser(i), First(prod(i)))
      /\ ProducerBatches(w) = FoldLeft(LAMBDA batches, v : JoinedBatch(batches, info.prod[v]), <<{}>>, w)
  BY DEF ProducerBatches
<1>2. ProducerBatches(w) = table[1..n]
  BY <1>0 DEF NextProducers, FoldLeft, MapThenFoldSet, Greatest, Max
<1>11. ASSUME NEW i \in 2..n PROVE ~OutOfOrder(Latest(prod(i - 1)), First(prod(i)))
  <2>1. i \in 1..n /\ i # 1
    OBVIOUS
  <2> QED BY <1>0, <2>1
<1>3. <<{}>> \in Batches
  BY FirstBatch DEF Batches
<1>4. G \in [Batches \X (1..n) -> Batches]
  <2>1. ASSUME NEW B \in Batches, NEW k \in 1..n PROVE NextProducers(B, w[k]) \in Batches
    <3>2. Front(B) \o <<Last(B) \cup info.prod[w[k]]>> \in Batches /\ Append(B, info.prod[w[k]]) \in Batches
      BY NextIsBatches
    <3> QED BY <3>2 DEF NextProducers, JoinedBatch
  <2> QED BY <2>1
<1>5. \A B \in Batches, k \in 1..n : G[<<B, k>>] = NextProducers(B, w[k])
  OBVIOUS
<1> HIDE DEF G
<1>6. \E g : IsTable(g)
  <2> DEFINE base == <<{}>>
  <2>0. base \in Batches
    BY <1>3
  <2> HIDE DEF base
  <2>4. \E g \in [SUBSET (1..n) -> Batches] : IsFold(g, n, base, G)
    <3> HIDE DEF table, IsTable
    <3> QED BY <1>4, <2>0, FoldTable
  <2>1. PICK g \in [SUBSET (1..n) -> Batches] : \A I \in SUBSET (1..n) :
            g[I] = IF I = {} THEN <<{}>> ELSE G[<<g[I \ {Greatest(I)}], Greatest(I)>>]
    BY <2>4 DEF base, IsFold
  <2>2. ASSUME NEW I \in SUBSET (1..n), I # {}
        PROVE  g[I] = NextProducers(g[I \ {Greatest(I)}], w[Greatest(I)])
    <3>1. Greatest(I) \in 1..n /\ I \ {Greatest(I)} \in SUBSET (1..n)
      BY <2>2, GreatestIndex
    <3> QED BY <1>5, <2>1, <2>2, <3>1
  <2>3. \A I \in SUBSET (1..n) : g[I] = IF I = {} THEN <<{}>>
                                        ELSE NextProducers(g[I \ {Greatest(I)}], w[Greatest(I)])
    BY <2>1, <2>2
  <2> QED BY <2>3
<1>7. IsTable(table)
  BY <1>6
<1> HIDE DEF table
<1>8. /\ table[{}] = <<{}>>
      /\ \A k \in 1..n : table[1..k] = NextProducers(table[1..(k - 1)], w[k])
  <2>1. table[{}] = <<{}>>
    BY <1>7
  <2>2. ASSUME NEW k \in 1..n PROVE table[1..k] = NextProducers(table[1..(k - 1)], w[k])
    <3>1. /\ 1..k \in SUBSET (1..n) /\ 1..k # {}
          /\ Greatest(1..k) = k /\ (1..k) \ {k} = 1..(k - 1)
      BY FoldPrefixes
    <3> DEFINE I == 1..k
    <3>2. table[I] = NextProducers(table[I \ {Greatest(I)}], w[Greatest(I)])
      <4> HIDE DEF I
      <4>1. I \in SUBSET (1..n) /\ I # {}
        BY <3>1 DEF I
      <4> QED BY <1>7, <4>1
    <3> QED BY <3>1, <3>2
  <2> QED BY <2>1, <2>2
<1> DEFINE F == [k \in 0..n |-> table[1..k]]
<1>9. F[0] = <<{}>> /\ F[n] = table[1..n] /\ \A k \in 1..n : F[k] = NextProducers(F[k - 1], w[k])
  <2>1. 1..0 = {} /\ 0 \in 0..n /\ n \in 0..n /\ \A k \in 1..n : k \in 0..n /\ k - 1 \in 0..n
    OBVIOUS
  <2> QED BY <1>8, <2>1
<1> HIDE DEF F
<1>10. \E H : H[0] = <<{}>> /\ H[n] = ProducerBatches(w) /\ \A k \in 1..n : H[k] = NextProducers(H[k - 1], w[k])
  BY <1>2, <1>9
<1> QED BY <1>10, <1>11

-----------------------------------------------------------------------------
(* The first and the last task of a set.                                   *)
LEMMA Extremes ==
    ASSUME NEW n \in Nat, NEW S \in SUBSET Index(n), S # {}
    PROVE  /\ First(S) \in S /\ \A u \in S : First(S) <= u
           /\ Latest(S) \in S /\ \A u \in S : u <= Latest(S)
<1> DEFINE left == {n - 1 - x : x \in S}
<1>1. \A x \in S : x \in Nat /\ n - 1 - x \in Nat
  <2>1. \A x \in Index(n) : x \in Nat /\ n - 1 - x \in Nat
    BY DEF Index
  <2> QED BY <2>1
<1>2. \E t \in S : \A u \in S : t <= u
  BY <1>1, LeastNat
<1>3. \E t \in S : \A u \in S : u <= t
  <2>1. left \subseteq Nat /\ left # {}
    BY <1>1
  <2>2. PICK d \in left : \A e \in left : d <= e
    <3> HIDE DEF left
    <3> QED BY <2>1, LeastNat
  <2>3. PICK x \in S : d = n - 1 - x
    OBVIOUS
  <2>4. ASSUME NEW u \in S PROVE u <= x
    <3>1. n - 1 - x <= n - 1 - u
      BY <2>2, <2>3
    <3>2. x \in Nat /\ u \in Nat
      BY <1>1
    <3> QED BY <3>1, <3>2
  <2> QED BY <2>4
<1> QED BY <1>2, <1>3 DEF First, Latest

(* One round of createProducerBatches lets the producers of a barrier      *)
(* join.                                                                   *)
LEMMA JoinedJoins ==
    ASSUME SlotsGiven, NEW B, NEW S, Batched(B, S), NEW P \in SUBSET Task, Fits(P)
    PROVE  Joins(B, P, JoinedBatch(B, P))
<1>1. B \in Seq(SUBSET Task) /\ Len(B) >= 1
  BY DEF Batched
<1>2. Last(B) = B[Len(B)]
  BY <1>1, LastTwo
<1>3. CASE Fits(Last(B) \cup P)
  BY <1>3 DEF Joins, JoinedBatch
<1>4. CASE ~Fits(Last(B) \cup P)
  <2>1. ASSUME B = <<{}>> PROVE FALSE
    <3>1. Last(B) = {}
      BY <1>2, <2>1, FirstBatch
    <3>2. Last(B) \cup P = P
      BY <3>1
    <3> QED BY <1>4, <3>2
  <2> QED BY <1>4, <2>1 DEF Joins, JoinedBatch
<1> QED BY <1>3, <1>4

ProducersOf(w, k) == UNION {info.prod[w[i]] : i \in 1..k}

(* createProducerBatches: the batches hold the producers and fit.          *)
LEMMA ProducersBatched ==
    ASSUME SlotsGiven, NEW n \in Nat, NEW w, DOMAIN w = 1..n,
           \A i \in 1..n : info.prod[w[i]] \in SUBSET Task /\ Fits(info.prod[w[i]]),
           ProducerBatches(w) # <<>>
    PROVE  Batched(ProducerBatches(w), ProducersOf(w, n))
<1>2. PICK F : /\ F[0] = <<{}>> /\ F[n] = ProducerBatches(w)
               /\ \A k \in 1..n : F[k] = NextProducers(F[k - 1], w[k])
  BY ProducersRun
<1> DEFINE Good == {k \in 0..n : Batched(F[k], ProducersOf(w, k))}
<1>3. 0 \in Good
  <2>1. ProducersOf(w, 0) = {} /\ 0 \in 0..n
    BY DEF ProducersOf
  <2> QED BY <1>2, <2>1, FirstBatch
<1>4. ASSUME NEW k \in 1..n, k - 1 \in Good PROVE k \in Good
  <2>1. /\ k - 1 \in 0..n /\ k \in 0..n /\ k # 0
        /\ \A j \in 1..k : j \in 1..(k - 1) \/ j = k
        /\ \A j \in 1..(k - 1) : j \in 1..k
        /\ k \in 1..k
    OBVIOUS
  <2>2. Batched(F[k - 1], ProducersOf(w, k - 1))
    BY <1>4
  <2>3. info.prod[w[k]] \in SUBSET Task /\ Fits(info.prod[w[k]])
    OBVIOUS
  <2>4. Joins(F[k - 1], info.prod[w[k]], F[k])
    BY <1>2, <2>2, <2>3, JoinedJoins DEF NextProducers
  <2>5. ProducersOf(w, k) = ProducersOf(w, k - 1) \cup info.prod[w[k]]
    BY <2>1 DEF ProducersOf
  <2>6. Batched(F[k], ProducersOf(w, k - 1) \cup info.prod[w[k]])
    BY <2>2, <2>3, <2>4, JoinBatched
  <2> QED BY <2>1, <2>5, <2>6
<1>5. n \in Good
  <2> HIDE DEF Good
  <2>1. 0..n \subseteq Good
    BY <1>3, <1>4, CountUp
  <2> QED BY <2>1
<1> QED BY <1>2, <1>5

(* They follow each other if no barrier has the first task as a producer.  *)
LEMMA ProducersInLine ==
    ASSUME SlotsGiven, NEW N \in Nat, Task = Index(N), NEW n \in Nat \ {0}, NEW w, DOMAIN w = 1..n,
           \A i \in 1..n : /\ info.prod[w[i]] \in SUBSET Task /\ Fits(info.prod[w[i]])
                           /\ info.prod[w[i]] # {} /\ 0 \notin info.prod[w[i]],
           ProducerBatches(w) # <<>>
    PROVE  InLine(ProducerBatches(w))
<1>2. PICK F : /\ F[0] = <<{}>> /\ F[n] = ProducerBatches(w)
               /\ \A k \in 1..n : F[k] = NextProducers(F[k - 1], w[k])
  BY ProducersRun
<1> DEFINE late(k) == Latest(info.prod[w[k]])
           Good == {k \in 0..n : /\ Batched(F[k], ProducersOf(w, k))
                                 /\ IF k = 0 THEN F[k] = <<{}>>
                                    ELSE InLine(F[k]) /\ \A x \in ProducersOf(w, k) : x <= late(k)}
<1>1. ASSUME NEW i \in 1..n
      PROVE  /\ First(info.prod[w[i]]) \in Nat \ {0} /\ late(i) \in Nat
             /\ \A u \in info.prod[w[i]] : u \in Nat /\ First(info.prod[w[i]]) <= u /\ u <= late(i)
  <2>1. info.prod[w[i]] \in SUBSET Index(N) /\ info.prod[w[i]] # {} /\ 0 \notin info.prod[w[i]]
    OBVIOUS
  <2>2. \A x \in Index(N) : x \in Nat
    BY DEF Index
  <2> QED BY <2>1, <2>2, Extremes
<1>0. \A i \in 2..n : ~OutOfOrder(late(i - 1), First(info.prod[w[i]]))
  BY ProducersRun
<1>3. 0 \in Good
  <2>1. ProducersOf(w, 0) = {} /\ 0 \in 0..n
    BY DEF ProducersOf
  <2> QED BY <1>2, <2>1, FirstBatch
<1>4. ASSUME NEW k \in 1..n, k - 1 \in Good PROVE k \in Good
  <2>1. /\ k - 1 \in 0..n /\ k \in 0..n /\ k # 0
        /\ \A j \in 1..k : j \in 1..(k - 1) \/ j = k
        /\ \A j \in 1..(k - 1) : j \in 1..k /\ j \in 1..n
        /\ k \in 1..k
    OBVIOUS
  <2>2. Batched(F[k - 1], ProducersOf(w, k - 1)) /\ (F[k - 1] = <<{}>> \/ InLine(F[k - 1]))
    BY <1>4
  <2>3. info.prod[w[k]] \in SUBSET Task /\ Fits(info.prod[w[k]]) /\ info.prod[w[k]] # {}
    OBVIOUS
  <2>4. Joins(F[k - 1], info.prod[w[k]], F[k])
    BY <1>2, <2>2, <2>3, JoinedJoins DEF NextProducers
  <2>5. ProducersOf(w, k) = ProducersOf(w, k - 1) \cup info.prod[w[k]]
    BY <2>1 DEF ProducersOf
  <2>6. Batched(F[k], ProducersOf(w, k - 1) \cup info.prod[w[k]])
    BY <2>2, <2>3, <2>4, JoinBatched
  <2>10. \A x \in ProducersOf(w, k - 1) : x \in Nat
    <3>1. \A i \in 1..(k - 1) : \A u \in info.prod[w[i]] : u \in Nat
      BY <1>1, <2>1
    <3> QED BY <3>1 DEF ProducersOf
  <2>7. \A x \in ProducersOf(w, k - 1) : x < First(info.prod[w[k]])
    <3>1. CASE k = 1
      BY <3>1 DEF ProducersOf
    <3>2. CASE k # 1
      <4>1. k \in 2..n /\ k - 1 # 0 /\ k - 1 \in 1..n
        BY <3>2
      <4>2. late(k - 1) < First(info.prod[w[k]])
        <5>1. late(k - 1) \in Nat /\ First(info.prod[w[k]]) \in Nat \ {0}
          BY <1>1, <4>1
        <5>2. ~OutOfOrder(late(k - 1), First(info.prod[w[k]]))
          BY <1>0, <4>1
        <5> HIDE DEF late
        <5> QED BY <5>1, <5>2 DEF OutOfOrder
      <4>3. \A x \in ProducersOf(w, k - 1) : x <= late(k - 1)
        BY <1>4, <4>1
      <4>4. late(k - 1) \in Nat /\ First(info.prod[w[k]]) \in Nat
        BY <1>1, <4>1
      <4> HIDE DEF late
      <4> QED BY <2>10, <4>2, <4>3, <4>4
    <3> QED BY <3>1, <3>2
  <2>8. \A x \in ProducersOf(w, k - 1), y \in info.prod[w[k]] : x < y
    <3>1. \A y \in info.prod[w[k]] : y \in Nat /\ First(info.prod[w[k]]) <= y /\ First(info.prod[w[k]]) \in Nat
      BY <1>1
    <3> QED BY <2>7, <2>10, <3>1
  <2>9. InLine(F[k])
    BY <2>2, <2>3, <2>4, <2>8, JoinInLine
  <2>11. \A x \in ProducersOf(w, k) : x <= late(k)
    <3>1. ASSUME NEW x \in ProducersOf(w, k - 1) PROVE x <= late(k)
      <4>1. late(k) \in Nat /\ late(k) \in info.prod[w[k]]
        <5>1. info.prod[w[k]] \in SUBSET Index(N) /\ info.prod[w[k]] # {}
          BY <2>3
        <5> QED BY <1>1, <5>1, Extremes
      <4>2. x < late(k) /\ x \in Nat
        BY <2>8, <2>10, <4>1
      <4> QED BY <4>1, <4>2
    <3>2. \A x \in info.prod[w[k]] : x <= late(k)
      BY <1>1
    <3> QED BY <2>5, <3>1, <3>2
  <2> QED BY <2>1, <2>5, <2>6, <2>9, <2>11
<1>5. n \in Good
  <2> HIDE DEF Good
  <2>1. 0..n \subseteq Good
    BY <1>3, <1>4, CountUp
  <2> QED BY <2>1
<1> QED BY <1>2, <1>5

-----------------------------------------------------------------------------
(* x is still to be visited.                                               *)
Occurs(x, s) == \E i \in 1..Len(s) : s[i] = x

ListsAll(s, S) == s \in Seq(S) /\ \A x \in S : Occurs(x, s)

(* A visit takes the first element and leaves the others.                  *)
LEMMA HeadAndTail ==
    ASSUME NEW T, NEW s \in Seq(T), s # <<>>
    PROVE  /\ Head(s) \in T /\ Tail(s) \in Seq(T) /\ Len(s) \in Nat \ {0} /\ Len(Tail(s)) = Len(s) - 1
           /\ Head(s) = s[1] /\ \A i \in 1..Len(Tail(s)) : Tail(s)[i] = s[i + 1]
           /\ \A x : Occurs(x, s) => x = Head(s) \/ Occurs(x, Tail(s))
           /\ \A x : Occurs(x, Tail(s)) => x \in T /\ Occurs(x, s)
           /\ Occurs(Head(s), s)
<1>1. Len(s) \in Nat /\ Len(s) # 0
  OBVIOUS
<1>2. Head(s) = s[1] /\ Head(s) \in T /\ Tail(s) \in Seq(T) /\ Len(Tail(s)) = Len(s) - 1
  OBVIOUS
<1>3. \A i \in 1..(Len(s) - 1) : Tail(s)[i] = s[i + 1]
  OBVIOUS
<1>4. ASSUME NEW i \in 1..Len(s) PROVE s[i] = Head(s) \/ Occurs(s[i], Tail(s))
  <2>1. CASE i = 1
    BY <1>2, <2>1
  <2>2. CASE i # 1
    <3>1. i - 1 \in 1..(Len(s) - 1) /\ (i - 1) + 1 = i
      BY <1>1, <2>2
    <3>2. Tail(s)[i - 1] = s[i]
      <4>1. Tail(s)[i - 1] = s[(i - 1) + 1]
        BY <1>3, <3>1
      <4> QED BY <3>1, <4>1
    <3> QED BY <1>2, <3>1, <3>2 DEF Occurs
  <2> QED BY <2>1, <2>2
<1>5. ASSUME NEW i \in 1..(Len(s) - 1) PROVE s[i + 1] \in T /\ Occurs(s[i + 1], s)
  <2>1. i + 1 \in 1..Len(s)
    BY <1>1
  <2> QED BY <2>1 DEF Occurs
<1>6. 1 \in 1..Len(s)
  BY <1>1
<1> QED BY <1>1, <1>2, <1>3, <1>4, <1>5, <1>6 DEF Occurs

(* What occurs in either of two sequences occurs in both in a row.         *)
LEMMA OccursInBoth ==
    ASSUME NEW T, NEW u \in Seq(T), NEW v \in Seq(T)
    PROVE  /\ u \o v \in Seq(T)
           /\ \A x : Occurs(x, u) \/ Occurs(x, v) => Occurs(x, u \o v)
<1>1. /\ u \o v \in Seq(T) /\ Len(u \o v) = Len(u) + Len(v)
      /\ Len(u) \in Nat /\ Len(v) \in Nat
      /\ \A i \in 1..Len(u) : (u \o v)[i] = u[i]
      /\ \A i \in 1..Len(v) : (u \o v)[Len(u) + i] = v[i]
  BY Concatenated
<1> DEFINE c == u \o v
<1>2. /\ Len(c) = Len(u) + Len(v)
      /\ \A i \in 1..Len(u) : c[i] = u[i]
      /\ \A i \in 1..Len(v) : c[Len(u) + i] = v[i]
  BY <1>1
<1> HIDE DEF c
<1>3. \A i \in 1..Len(u) : i \in 1..Len(c)
  BY <1>1, <1>2
<1>4. \A i \in 1..Len(v) : Len(u) + i \in 1..Len(c)
  BY <1>1, <1>2
<1>5. \A x : Occurs(x, u) \/ Occurs(x, v) => Occurs(x, c)
  BY <1>2, <1>3, <1>4 DEF Occurs
<1> QED BY <1>1, <1>5 DEF c

(* New barriers in front of an old one.                                    *)
LEMMA InsertLists ==
    ASSUME NEW m \in Nat, NEW k \in Nat, NEW s, ListsAll(s, Index(m)), NEW at \in 1..Len(s),
           NEW c, c = SubSeq(s, 1, at - 1) \o [i \in 1..k |-> m + i - 1] \o SubSeq(s, at, Len(s))
    PROVE  ListsAll(c, Index(m + k))
<1> DEFINE I == Index(m + k)
           p == SubSeq(s, 1, at - 1)
           q == [i \in 1..k |-> m + i - 1]
           r == SubSeq(s, at, Len(s))
<1>1. /\ Index(m) \subseteq I /\ \A i \in 1..k : m + i - 1 \in I
      /\ \A x \in I : x \in Index(m) \/ \E i \in 1..k : x = m + i - 1
  <2>1. Index(m) \subseteq I /\ \A i \in 1..k : m + i - 1 \in I
    BY DEF Index
  <2>2. ASSUME NEW x \in I, x \notin Index(m) PROVE \E i \in 1..k : x = m + i - 1
    <3>1. x - m + 1 \in 1..k /\ x = m + (x - m + 1) - 1
      BY <2>2 DEF Index
    <3> QED BY <3>1
  <2> QED BY <2>1, <2>2
<1>2. s \in Seq(Index(m)) /\ Len(s) \in Nat /\ \A x \in Index(m) : Occurs(x, s)
  BY DEF ListsAll
<1>3. s \in Seq(I)
  BY <1>1, <1>2
<1> HIDE DEF I
<1>4. /\ p \in Seq(I) /\ Len(p) = at - 1 /\ \A i \in 1..(at - 1) : p[i] = s[i]
      /\ r \in Seq(I) /\ Len(r) = Len(s) - at + 1 /\ \A i \in 1..(Len(s) - at + 1) : r[i] = s[at + i - 1]
  BY <1>2, <1>3
<1>5. q \in Seq(I) /\ Len(q) = k /\ \A i \in 1..k : q[i] = m + i - 1
  BY <1>1
<1> HIDE DEF p, q, r
<1> DEFINE pq == p \o q
<1>6. pq \in Seq(I) /\ \A x : Occurs(x, p) \/ Occurs(x, q) => Occurs(x, pq)
  <2>1. p \in Seq(I) /\ q \in Seq(I)
    BY <1>4, <1>5
  <2> QED BY <2>1, OccursInBoth
<1>7. c = pq \o r
  BY DEF p, q, r
<1> HIDE DEF pq
<1>8. c \in Seq(I) /\ \A x : Occurs(x, pq) \/ Occurs(x, r) => Occurs(x, c)
  <2>1. r \in Seq(I)
    BY <1>4
  <2> QED BY <1>6, <1>7, <2>1, OccursInBoth
<1>9. \A x : Occurs(x, p) \/ Occurs(x, q) \/ Occurs(x, r) => Occurs(x, c)
  BY <1>6, <1>8
<1>10. ASSUME NEW i \in 1..Len(s) PROVE Occurs(s[i], p) \/ Occurs(s[i], r)
  <2>1. CASE i < at
    <3>1. i \in 1..(at - 1)
      BY <2>1
    <3> QED BY <1>4, <3>1 DEF Occurs
  <2>2. CASE i >= at
    <3>1. i - at + 1 \in 1..(Len(s) - at + 1) /\ at + (i - at + 1) - 1 = i
      BY <1>2, <2>2
    <3>2. r[i - at + 1] = s[i]
      <4>1. r[i - at + 1] = s[at + (i - at + 1) - 1]
        BY <1>4, <3>1
      <4> QED BY <3>1, <4>1
    <3> QED BY <1>4, <3>1, <3>2 DEF Occurs
  <2> QED BY <1>2, <2>1, <2>2
<1>11. ASSUME NEW i \in 1..k PROVE Occurs(m + i - 1, q)
  BY <1>5 DEF Occurs
<1>12. \A x \in I : Occurs(x, c)
  <2>1. \A x \in Index(m) : Occurs(x, p) \/ Occurs(x, r)
    BY <1>2, <1>10 DEF Occurs
  <2> QED BY <1>1, <1>9, <1>11, <2>1 DEF I
<1> QED BY <1>8, <1>12 DEF ListsAll, I

-----------------------------------------------------------------------------
(* New barriers instead of an old one.                                     *)
Substituted(n, b, v, links, c) ==
    /\ Agreeing(n, c) /\ c.num = b.num + Len(links) /\ c.num \in Nat
    /\ \A w \in Index(b.num) : w # v => c.prod[w] = b.prod[w] /\ c.cons[w] = b.cons[w]
    /\ c.prod[v] = {} /\ c.cons[v] = {}
    /\ \A w \in b.num..(c.num - 1) : /\ c.prod[w] = links[w - b.num + 1][1]
                                     /\ c.cons[w] = links[w - b.num + 1][2]

(* addNewBarrier for every batch and resetBarrier for the old barrier put  *)
(* the new barriers instead of it.                                         *)
LEMMA Substitution ==
    ASSUME NEW n, NEW b, Agreeing(n, b), NEW v \in Index(b.num), NEW links \in Links(n),
           NEW c, c = ResetBarrier(AddLinkedBarriers(b, links), v)
    PROVE  Substituted(n, b, v, links, c)
<1> DEFINE d == AddLinkedBarriers(b, links)
<1>1. /\ Agreeing(n, d)
      /\ d.num = b.num + Len(links) /\ d.num \in Nat
      /\ \A w \in Index(b.num) : d.prod[w] = b.prod[w] /\ d.cons[w] = b.cons[w]
      /\ \A w \in b.num..(d.num - 1) : /\ d.prod[w] = links[w - b.num + 1][1]
                                       /\ d.cons[w] = links[w - b.num + 1][2]
  <2>1. IsLinked(n, b, links, d)
    BY AddLinkedBarriersAgrees
  <2> HIDE DEF d
  <2>2. d.num = b.num + Len(links)
    BY <2>1 DEF IsLinked
  <2>3. b.num..(d.num - 1) = b.num..(b.num + Len(links) - 1)
    <3>1. b.num \in Nat /\ Len(links) \in Nat
      BY DEF Agreeing, Links
    <3> QED BY <2>2, <3>1
  <2> QED BY <2>1, <2>3 DEF IsLinked
<1>2. b.num \in Nat /\ Len(links) \in Nat
  BY DEF Agreeing, Links
<1> HIDE DEF d
<1>3. v \in Index(d.num) /\ \A w \in Index(b.num) : w \in Index(d.num)
  BY <1>1, <1>2 DEF Index
<1>4. /\ Agreeing(n, c) /\ c.num = d.num
      /\ c.prod = [d.prod EXCEPT ![v] = {}] /\ c.cons = [d.cons EXCEPT ![v] = {}]
  <2>1. c = ResetBarrier(d, v)
    BY DEF d
  <2>2. Agreeing(n, d) /\ v \in Index(d.num)
    BY <1>1, <1>3
  <2>3. IsReset(n, d, v, c)
    BY <2>1, <2>2, ResetBarrierAgrees
  <2> QED BY <2>3 DEF IsReset
<1>5. DOMAIN d.prod = Index(d.num) /\ DOMAIN d.cons = Index(d.num)
  BY <1>1 DEF Agreeing, Mirror
<1>6. \A w \in Index(d.num) : /\ c.prod[w] = IF w = v THEN {} ELSE d.prod[w]
                              /\ c.cons[w] = IF w = v THEN {} ELSE d.cons[w]
  BY <1>4, <1>5
<1>7. \A w \in b.num..(d.num - 1) : w \in Index(d.num) /\ w # v
  BY <1>1, <1>2 DEF Index
<1> QED BY <1>1, <1>3, <1>4, <1>6, <1>7 DEF Substituted

-----------------------------------------------------------------------------
(* Every barrier afterwards is the old one, another one from before, or one *)
(* of the new ones.                                                        *)
Accounted(b, v, links, c) ==
    /\ BarrierOf(b) \subseteq BarrierOf(c)
    /\ \A w \in BarrierOf(c) :
          \/ w = v /\ c.prod[w] = {} /\ c.cons[w] = {}
          \/ w \in BarrierOf(b) /\ w # v /\ c.prod[w] = b.prod[w] /\ c.cons[w] = b.cons[w]
          \/ \E i \in 1..Len(links) : /\ w = b.num + i - 1 /\ w \notin BarrierOf(b)
                                      /\ c.prod[w] = links[i][1] /\ c.cons[w] = links[i][2]
    /\ \A i \in 1..Len(links) : \E w \in BarrierOf(c) :
          w = b.num + i - 1 /\ c.prod[w] = links[i][1] /\ c.cons[w] = links[i][2]

(* The numbers of the old barriers and of the new ones.                    *)
LEMMA NewIndices ==
    ASSUME NEW m \in Nat, NEW k \in Nat
    PROVE  /\ Index(m) \subseteq Index(m + k)
           /\ \A w \in Index(m + k) : w \in Index(m) \/ w \in m..(m + k - 1)
           /\ \A w \in m..(m + k - 1) : /\ w \in Index(m + k) /\ w \notin Index(m)
                                        /\ w - m + 1 \in 1..k /\ w = m + (w - m + 1) - 1
           /\ \A i \in 1..k : m + i - 1 \in m..(m + k - 1) /\ m + i - 1 - m + 1 = i
BY DEF Index

(* Every barrier after a split is accounted for.                           *)
LEMMA SubstitutionAccounts ==
    ASSUME NEW n, NEW b, Agreeing(n, b), NEW v \in Index(b.num), NEW links \in Links(n),
           NEW c, Substituted(n, b, v, links, c)
    PROVE  Accounted(b, v, links, c)
<1>1. b.num \in Nat /\ Len(links) \in Nat /\ c.num = b.num + Len(links) /\ Agreeing(n, c)
  BY DEF Agreeing, Links, Substituted
<1>2. BarrierOf(b) = Index(b.num) /\ BarrierOf(c) = Index(b.num + Len(links))
  <2>1. BarrierOf(c) = Index(c.num)
    BY <1>1, Domains
  <2> QED BY <1>1, <2>1, Domains
<1>3. /\ Index(b.num) \subseteq BarrierOf(c)
      /\ \A w \in BarrierOf(c) : w \in Index(b.num) \/ w \in b.num..(c.num - 1)
      /\ \A w \in b.num..(c.num - 1) : /\ w \in BarrierOf(c) /\ w \notin Index(b.num)
                                       /\ w - b.num + 1 \in 1..Len(links) /\ w = b.num + (w - b.num + 1) - 1
      /\ \A i \in 1..Len(links) : b.num + i - 1 \in b.num..(c.num - 1) /\ b.num + i - 1 - b.num + 1 = i
  <2> DEFINE m == b.num
             k == Len(links)
  <2>1. m \in Nat /\ k \in Nat /\ c.num = m + k /\ BarrierOf(c) = Index(m + k)
    BY <1>1, <1>2
  <2> HIDE DEF m, k
  <2>2. /\ Index(m) \subseteq Index(m + k)
        /\ \A w \in Index(m + k) : w \in Index(m) \/ w \in m..(m + k - 1)
        /\ \A w \in m..(m + k - 1) : /\ w \in Index(m + k) /\ w \notin Index(m)
                                     /\ w - m + 1 \in 1..k /\ w = m + (w - m + 1) - 1
        /\ \A i \in 1..k : m + i - 1 \in m..(m + k - 1) /\ m + i - 1 - m + 1 = i
    BY <2>1, NewIndices
  <2> QED BY <2>1, <2>2 DEF m, k
<1>4. /\ \A w \in Index(b.num) : w # v => c.prod[w] = b.prod[w] /\ c.cons[w] = b.cons[w]
      /\ c.prod[v] = {} /\ c.cons[v] = {}
      /\ \A w \in b.num..(c.num - 1) : /\ c.prod[w] = links[w - b.num + 1][1]
                                       /\ c.cons[w] = links[w - b.num + 1][2]
  BY DEF Substituted
<1>5. ASSUME NEW w \in b.num..(c.num - 1)
      PROVE  \E i \in 1..Len(links) : /\ w = b.num + i - 1 /\ w \notin BarrierOf(b)
                                      /\ c.prod[w] = links[i][1] /\ c.cons[w] = links[i][2]
  BY <1>2, <1>3, <1>4
<1>6. ASSUME NEW i \in 1..Len(links)
      PROVE  \E w \in BarrierOf(c) : w = b.num + i - 1 /\ c.prod[w] = links[i][1] /\ c.cons[w] = links[i][2]
  <2> DEFINE w == b.num + i - 1
  <2>1. w \in b.num..(c.num - 1) /\ w - b.num + 1 = i
    BY <1>1
  <2> HIDE DEF w
  <2>2. w \in BarrierOf(c) /\ c.prod[w] = links[i][1] /\ c.cons[w] = links[i][2]
    <3>1. c.prod[w] = links[w - b.num + 1][1] /\ c.cons[w] = links[w - b.num + 1][2]
      BY <1>4, <2>1
    <3> QED BY <1>3, <2>1, <3>1
  <2> QED BY <2>2 DEF w
<1>7. ASSUME NEW w \in BarrierOf(c)
      PROVE  \/ w = v /\ c.prod[w] = {} /\ c.cons[w] = {}
             \/ w \in BarrierOf(b) /\ w # v /\ c.prod[w] = b.prod[w] /\ c.cons[w] = b.cons[w]
             \/ \E i \in 1..Len(links) : /\ w = b.num + i - 1 /\ w \notin BarrierOf(b)
                                         /\ c.prod[w] = links[i][1] /\ c.cons[w] = links[i][2]
  <2>1. CASE w \in Index(b.num)
    BY <1>2, <1>4, <2>1
  <2>2. CASE w \in b.num..(c.num - 1)
    BY <1>5, <2>2
  <2> QED BY <1>3, <2>1, <2>2
<1> QED BY <1>2, <1>3, <1>6, <1>7 DEF Accounted

-----------------------------------------------------------------------------
(* What the passes rely on.                                                *)
N == Cardinality(Task)
Stages == {"verify", "producers", "consumers", "oneWait", "done", "thrown"}

(* What is left to split is still to be visited; afterwards every barrier  *)
(* has the slots.  The barriers stand in the IR except while barriers are  *)
(* chained.                                                                *)
SplitAsFar(st, b, wk) ==
    /\ st = "producers" => \A v \in BarrierOf(b) : Fits(b.prod[v]) \/ Occurs(v, wk)
    /\ st = "consumers" => \A v \in BarrierOf(b) : Fits(b.prod[v]) /\ (Fits(b.cons[v]) \/ Occurs(v, wk))
    /\ st \in {"oneWait", "done"} => \A v \in BarrierOf(b) : Fits(b.prod[v]) /\ Fits(b.cons[v])

InOrder(st, b, wk, ord) ==
    /\ st \in {"verify", "producers", "consumers"} => ListsAll(ord, BarrierOf(b))
    /\ st \in {"producers", "consumers"} => wk \in Seq(BarrierOf(b))
    /\ st = "oneWait" => wk \in Seq(Task)

Legal(st, b, wk, ord) ==
    /\ Agreeing(N, b)
    /\ st \in Stages
    /\ st \notin {"verify", "thrown"} => \A t \in Task : fn.slots[t] <= Available
    /\ InOrder(st, b, wk, ord)
    /\ SplitAsFar(st, b, wk)

LegalInv == fn \in Functions /\ Legal(stage, info, walk, order)

(* What FunctionsAssumption gives for the function that was read.          *)
LEMMA FunctionFacts ==
    ASSUME fn \in Functions
    PROVE  /\ SlotsGiven /\ N \in Nat /\ Task = Index(N) /\ Task \subseteq Int
           /\ Agreeing(N, fn.maps) /\ Forward(fn.maps)
           /\ \A v \in BarrierOf(fn.maps) : fn.maps.cons[v] # {} => fn.maps.prod[v] # {}
<1>1. /\ BuiltMaps(fn.maps)
      /\ fn.slots \in [TaskOf(fn.maps) -> Nat]
      /\ fn.maxVariantCount \in Nat
      /\ \A v \in BarrierOf(fn.maps) :
            /\ fn.maps.cons[v] # {} => fn.maps.prod[v] # {}
            /\ \A t \in fn.maps.prod[v], u \in fn.maps.cons[v] : t < u
  BY FunctionsAssumption
<1>2. N \in Nat /\ Agreeing(N, fn.maps)
  BY <1>1, BuiltAgrees DEF N, Task
<1>3. Task = Index(N)
  BY <1>2, Domains DEF Task
<1>4. Task \subseteq Int
  BY <1>2, <1>3 DEF Index
<1>5. IsFiniteSet(Task)
  BY <1>2, <1>3, Ranges DEF Index
<1>6. Available \in Nat
  BY <1>1 DEF Available
<1>7. SlotsGiven
  BY <1>1, <1>5, <1>6 DEF SlotsGiven, Task
<1>8. Forward(fn.maps)
  BY <1>1 DEF Forward
<1> QED BY <1>1, <1>2, <1>3, <1>4, <1>7, <1>8

(* The function does not change.                                           *)
LEMMA SameFunction ==
    ASSUME fn' = fn, fn \in Functions, Legal(stage', info', walk', order')
    PROVE  LegalInv'
<1>1. N' = N /\ Task' = Task /\ Available' = Available
  BY DEF N, Task, Available
<1>2. \A S : Fits(S)' <=> Fits(S)
  BY <1>1 DEF Fits, SlotsUsed
<1>3. SplitAsFar(stage, info, walk)'
  BY <1>2 DEF Legal, SplitAsFar
<1>4. InOrder(stage, info, walk, order)'
  BY <1>1 DEF Legal, InOrder
<1>5. (stage \notin {"verify", "thrown"} => \A t \in Task : fn.slots[t] <= Available)'
  BY <1>1 DEF Legal
<1> QED BY <1>1, <1>3, <1>4, <1>5 DEF Legal, LegalInv

(* The passes start with the function as it was read.                      *)
LEMMA LegalInit == Init => LegalInv
<1> SUFFICES ASSUME Init PROVE LegalInv
  OBVIOUS
<1>1. fn \in Functions /\ stage = "verify" /\ info = fn.maps /\ order = Identity(fn.maps.num)
  BY DEF Init
<1>2. Agreeing(N, fn.maps)
  BY <1>1, FunctionFacts
<1>3. fn.maps.num \in Nat /\ BarrierOf(fn.maps) = Index(fn.maps.num)
  BY <1>2, Domains DEF Agreeing
<1>4. ListsAll(order, BarrierOf(info))
  <2> DEFINE m == fn.maps.num
             s == [i \in 1..m |-> i - 1]
  <2>1. m \in Nat /\ order = s /\ BarrierOf(info) = Index(m)
    BY <1>1, <1>3 DEF Identity
  <2> HIDE DEF m
  <2>2. s \in Seq(Index(m)) /\ Len(s) = m
    BY <2>1 DEF Index
  <2>3. ASSUME NEW x \in Index(m) PROVE x + 1 \in 1..m /\ s[x + 1] = x
    BY <2>1 DEF Index
  <2> QED BY <2>1, <2>2, <2>3 DEF ListsAll, Occurs
<1> QED BY <1>1, <1>2, <1>4 DEF LegalInv, Legal, Stages, InOrder, SplitAsFar

-----------------------------------------------------------------------------
(* linearizeLegalParallelProducers: one new barrier per batch.             *)
NextInChain(t, batches, i) == IF i = Len(batches) THEN {t} ELSE batches[i + 1]

ChainAdded(n, b, t, batches, c) ==
    /\ Agreeing(n, c) /\ BarrierOf(b) \subseteq BarrierOf(c)
    /\ \A w \in BarrierOf(b) : c.prod[w] = b.prod[w] /\ c.cons[w] = b.cons[w]
    /\ \A w \in BarrierOf(c) : w \in BarrierOf(b) \/
          \E i \in 1..Len(batches) : c.prod[w] = batches[i] /\ c.cons[w] = NextInChain(t, batches, i)
    /\ \A i \in 1..Len(batches) : \E w \in BarrierOf(c) :
          w \notin BarrierOf(b) /\ c.prod[w] = batches[i] /\ c.cons[w] = NextInChain(t, batches, i)

(* The chain has its new barriers, and the others are as they were.        *)
LEMMA ChainedFacts ==
    ASSUME NEW n, Agreeing(n, info), NEW t \in Index(n), NEW batches \in Seq(SUBSET Index(n)),
           NEW c, c = Chained(t, batches)
    PROVE  ChainAdded(n, info, t, batches, c)
<1> DEFINE k == Len(batches)
           next(i) == IF i = k THEN {t} ELSE batches[i + 1]
           links == [j \in 1..k |-> <<batches[k + 1 - j], next(k + 1 - j)>>]
           m == info.num
<1>1. k \in Nat /\ batches \in [1..k -> SUBSET Index(n)] /\ m \in Nat
  BY DEF Agreeing
<1>2. \A j \in 1..k : k + 1 - j \in 1..k /\ k + 1 - (k + 1 - j) = j
  BY <1>1
<1>3. ASSUME NEW i \in 1..k PROVE next(i) \in SUBSET Index(n)
  <2> HIDE DEF k
  <2>1. i = k \/ i + 1 \in 1..k
    BY <1>1
  <2> QED BY <1>1, <2>1
<1>4. c = AddLinkedBarriers(info, links)
  BY DEF Chained
<1>5. \A i \in 1..k : NextInChain(t, batches, i) = next(i)
  BY DEF NextInChain
<1> HIDE DEF k, next, m
<1>6. \A j \in 1..k : links[j] \in (SUBSET Index(n)) \X (SUBSET Index(n))
  BY <1>1, <1>2, <1>3
<1>7. links \in Links(n) /\ Len(links) = k
  <2>1. links \in [1..k -> (SUBSET Index(n)) \X (SUBSET Index(n))]
    BY <1>6
  <2> HIDE DEF links
  <2> QED BY <1>1, <2>1, TableIsSequence DEF Links
<1>8. \A j \in 1..k : links[j][1] = batches[k + 1 - j] /\ links[j][2] = next(k + 1 - j)
  OBVIOUS
<1> HIDE DEF links
<1>9. /\ Agreeing(n, c) /\ c.num = m + k
      /\ \A v \in Index(m) : c.prod[v] = info.prod[v] /\ c.cons[v] = info.cons[v]
      /\ \A v \in m..(m + k - 1) : /\ c.prod[v] = links[v - m + 1][1]
                                   /\ c.cons[v] = links[v - m + 1][2]
  <2>1. IsLinked(n, info, links, c)
    BY <1>4, <1>7, AddLinkedBarriersAgrees
  <2> QED BY <1>7, <2>1 DEF m, IsLinked
<1>10. BarrierOf(info) = Index(m) /\ BarrierOf(c) = Index(m + k)
  <2>1. BarrierOf(c) = Index(c.num)
    BY <1>9, Domains
  <2> QED BY <1>9, <2>1, Domains DEF m
<1>11. /\ Index(m) \subseteq Index(m + k)
       /\ \A w \in Index(m + k) : w \in Index(m) \/ w \in m..(m + k - 1)
       /\ \A w \in m..(m + k - 1) : /\ w \in Index(m + k) /\ w \notin Index(m)
                                    /\ w - m + 1 \in 1..k /\ w = m + (w - m + 1) - 1
  BY <1>1, NewIndices
<1>12. ASSUME NEW w \in m..(m + k - 1)
       PROVE  \E i \in 1..k : c.prod[w] = batches[i] /\ c.cons[w] = next(i)
  <2> DEFINE j == w - m + 1
  <2>1. j \in 1..k
    BY <1>11
  <2>2. c.prod[w] = links[j][1] /\ c.cons[w] = links[j][2]
    BY <1>9
  <2> HIDE DEF j
  <2> QED BY <1>2, <1>8, <2>1, <2>2
<1>13. ASSUME NEW i \in 1..k
       PROVE  \E w \in Index(m + k) : w \notin Index(m) /\ c.prod[w] = batches[i] /\ c.cons[w] = next(i)
  <2> DEFINE j == k + 1 - i
             w == m + j - 1
  <2>1. j \in 1..k /\ k + 1 - j = i
    BY <1>2
  <2>2. w \in m..(m + k - 1) /\ w - m + 1 = j
    <3> HIDE DEF j
    <3> QED BY <1>1, <2>1
  <2> HIDE DEF j, w
  <2>3. c.prod[w] = links[j][1] /\ c.cons[w] = links[j][2]
    <3>1. c.prod[w] = links[w - m + 1][1] /\ c.cons[w] = links[w - m + 1][2]
      BY <1>9, <2>2
    <3> QED BY <2>2, <3>1
  <2>4. c.prod[w] = batches[i] /\ c.cons[w] = next(i)
    <3>1. links[j][1] = batches[k + 1 - j] /\ links[j][2] = next(k + 1 - j)
      BY <1>8, <2>1
    <3> QED BY <2>1, <2>3, <3>1
  <2> QED BY <1>11, <2>2, <2>4
<1>14. \A w \in BarrierOf(c) : w \in BarrierOf(info) \/
          \E i \in 1..k : c.prod[w] = batches[i] /\ c.cons[w] = NextInChain(t, batches, i)
  BY <1>5, <1>10, <1>11, <1>12
<1>15. \A i \in 1..k : \E w \in BarrierOf(c) :
          w \notin BarrierOf(info) /\ c.prod[w] = batches[i] /\ c.cons[w] = NextInChain(t, batches, i)
  BY <1>5, <1>10, <1>13
<1> QED BY <1>9, <1>10, <1>11, <1>14, <1>15 DEF ChainAdded, k

(* unlinkTaskFromParallelBarriers.                                         *)
IsUnlinked(n, b, t, waits, c) ==
    /\ Agreeing(n, c) /\ BarrierOf(c) = BarrierOf(b)
    /\ \A v \in BarrierOf(b) :
          /\ c.prod[v] = IF v \in waits /\ b.cons[v] = {t} THEN {} ELSE b.prod[v]
          /\ c.cons[v] = IF v \in waits THEN b.cons[v] \ {t} ELSE b.cons[v]

(* The task waits for none of the barriers any longer.                     *)
LEMMA UnlinkedFacts ==
    ASSUME NEW n, NEW b, Agreeing(n, b), NEW t \in Index(n), NEW waits, waits \subseteq BarrierOf(b),
           NEW c, c = Unlinked(b, t, waits)
    PROVE  IsUnlinked(n, b, t, waits, c)
<1> DEFINE reset == {v \in waits : b.cons[v] = {t}}
           wait == [b.wait EXCEPT ![t] = @ \ waits]
           update == [u \in TaskOf(b) |-> b.update[u] \ reset]
           prod == [v \in BarrierOf(b) |-> IF v \in reset THEN {} ELSE b.prod[v]]
           cons == Leave(b.cons, waits, t)
<1>1. c = Maps(b.num, wait, update, prod, cons)
  BY DEF Unlinked
<1>2. TaskOf(b) = Index(n) /\ BarrierOf(b) = Index(b.num) /\ b.num \in Nat
  BY Domains DEF Agreeing
<1>3. Mirror(n, b.num, update, prod)
  <2>1. Mirror(n, b.num, b.update, b.prod)
    BY DEF Agreeing
  <2> HIDE DEF reset
  <2> QED BY <1>2, <2>1, SparedMirrors
<1>4. /\ b.wait \in [Index(n) -> SUBSET Index(b.num)]
      /\ b.cons \in [Index(b.num) -> SUBSET Index(n)]
      /\ \A u \in Index(n), v \in Index(b.num) : v \in b.wait[u] <=> u \in b.cons[v]
  BY DEF Agreeing, Mirror
<1>5. /\ cons \in [Index(b.num) -> SUBSET Index(n)]
      /\ \A v \in Index(b.num) : cons[v] = IF v \in waits THEN b.cons[v] \ {t} ELSE b.cons[v]
  BY <1>4 DEF Leave
<1>6. /\ wait \in [Index(n) -> SUBSET Index(b.num)]
      /\ \A u \in Index(n) : wait[u] = IF u = t THEN b.wait[u] \ waits ELSE b.wait[u]
  BY <1>4
<1> HIDE DEF wait, cons, update, reset
<1>7. Mirror(n, b.num, wait, cons)
  <2>1. ASSUME NEW u \in Index(n), NEW v \in Index(b.num) PROVE v \in wait[u] <=> u \in cons[v]
    BY <1>4, <1>5, <1>6
  <2> QED BY <1>5, <1>6, <2>1 DEF Mirror
<1>8. Agreeing(n, c)
  <2> HIDE DEF prod
  <2> QED BY <1>1, <1>2, <1>3, <1>7, Assemble
<1>9. c.num = b.num /\ c.prod = prod /\ c.cons = cons
  BY <1>1 DEF Maps
<1>10. BarrierOf(c) = BarrierOf(b)
  BY <1>9 DEF BarrierOf
<1>11. \A v \in BarrierOf(b) : v \in reset <=> v \in waits /\ b.cons[v] = {t}
  BY DEF reset
<1>12. \A v \in BarrierOf(b) :
          /\ c.prod[v] = IF v \in waits /\ b.cons[v] = {t} THEN {} ELSE b.prod[v]
          /\ c.cons[v] = IF v \in waits THEN b.cons[v] \ {t} ELSE b.cons[v]
  BY <1>2, <1>5, <1>9, <1>11
<1> QED BY <1>8, <1>10, <1>12 DEF IsUnlinked

-----------------------------------------------------------------------------
(* A split keeps the barriers listed, and what is still to be visited are  *)
(* barriers.                                                               *)
LEMMA SplitKeepsLists ==
    ASSUME NEW n, Agreeing(n, info), ListsAll(order, BarrierOf(info)),
           NEW v \in BarrierOf(info), NEW links \in Links(n), Replaced(v, links)
    PROVE  /\ Substituted(n, info, v, links, info') /\ Accounted(info, v, links, info')
           /\ ListsAll(order', BarrierOf(info'))
<1> DEFINE at == CHOOSE i \in DOMAIN order : order[i] = v
           k == Len(links)
           m == info.num
<1>1. /\ info' = ResetBarrier(AddLinkedBarriers(info, links), v)
      /\ order' = SubSeq(order, 1, at - 1) \o [i \in 1..k |-> m + i - 1] \o SubSeq(order, at, Len(order))
  BY DEF Replaced
<1>2. v \in Index(info.num) /\ m \in Nat /\ k \in Nat /\ BarrierOf(info) = Index(m)
  BY Domains DEF Agreeing, Links
<1>3. Substituted(n, info, v, links, info')
  BY <1>1, <1>2, Substitution
<1>4. Accounted(info, v, links, info')
  BY <1>2, <1>3, SubstitutionAccounts
<1>5. at \in 1..Len(order)
  <2>1. \E i \in 1..Len(order) : order[i] = v
    BY DEF ListsAll, Occurs
  <2>2. DOMAIN order = 1..Len(order)
    BY DEF ListsAll
  <2> QED BY <2>1, <2>2
<1> HIDE DEF at, k, m
<1>6. ListsAll(order', Index(m + k))
  BY <1>1, <1>2, <1>5, InsertLists
<1>7. BarrierOf(info') = Index(m + k)
  <2>1. Agreeing(n, info') /\ info'.num = m + k
    BY <1>3 DEF Substituted, m, k
  <2> QED BY <2>1, Domains
<1> QED BY <1>3, <1>4, <1>6, <1>7

(* The links of the new barriers are links of tasks.                       *)
LEMMA BatchLinks ==
    ASSUME NEW T, NEW B \in Seq(T), NEW x \in T,
           NEW links, links \in {[i \in DOMAIN B |-> <<B[i], x>>], [i \in DOMAIN B |-> <<x, B[i]>>]}
    PROVE  links \in Seq(T \X T) /\ Len(links) = Len(B)
<1> DEFINE k == Len(B)
<1>1. k \in Nat /\ DOMAIN B = 1..k /\ \A i \in 1..k : B[i] \in T
  OBVIOUS
<1> HIDE DEF k
<1>2. /\ [i \in 1..k |-> <<B[i], x>>] \in [1..k -> T \X T]
      /\ [i \in 1..k |-> <<x, B[i]>>] \in [1..k -> T \X T]
  BY <1>1
<1>3. links \in [1..k -> T \X T]
  BY <1>1, <1>2
<1>4. links \in Seq(T \X T) /\ Len(links) = k
  BY <1>1, <1>3, TableIsSequence
<1> QED BY <1>4 DEF k

(* splitBarrierProducers puts new barriers for batches of tasks.           *)
ProducersSplit(v, B, links) ==
    /\ ~Fits(info.prod[v]) /\ Batched(B, info.prod[v]) /\ InLine(B)
    /\ Len(links) = Len(B)
    /\ \A i \in 1..Len(B) : links[i][1] = B[i] /\ links[i][2] = info.cons[v]
    /\ Substituted(N, info, v, links, info') /\ Accounted(info, v, links, info')
    /\ ListsAll(order', BarrierOf(info'))

(* Every new barrier has a batch of the producers and all the consumers.   *)
LEMMA ProducersAreSplit ==
    ASSUME LegalInv, SplitBarrierProducers
    PROVE  /\ Head(walk) \in BarrierOf(info)
           /\ \/ Fits(info.prod[Head(walk)]) /\ info' = info /\ order' = order
              \/ \E B, links : ProducersSplit(Head(walk), B, links)
<1> DEFINE v == Head(walk)
           B == LegalVariantBatches(info.prod[v])
           links == [i \in DOMAIN B |-> <<B[i], info.cons[v]>>]
<1>0. SlotsGiven /\ N \in Nat /\ Task = Index(N) /\ Task \subseteq Int
  BY FunctionFacts DEF LegalInv
<1>1. /\ stage = "producers" /\ walk # <<>>
      /\ IF Fits(info.prod[v]) THEN UNCHANGED <<info, order>> ELSE Replaced(v, links)
  BY DEF SplitBarrierProducers
<1>2. /\ Agreeing(N, info) /\ \A t \in Task : fn.slots[t] <= Available
      /\ ListsAll(order, BarrierOf(info)) /\ walk \in Seq(BarrierOf(info))
  BY <1>1 DEF LegalInv, Legal, InOrder
<1>3. v \in BarrierOf(info)
  BY <1>1, <1>2, HeadAndTail
<1> HIDE DEF v
<1>4. CASE Fits(info.prod[v])
  BY <1>1, <1>3, <1>4 DEF v
<1>5. CASE ~Fits(info.prod[v])
  <2>1. info.prod[v] \in SUBSET Task /\ info.cons[v] \in SUBSET Task
    BY <1>0, <1>2, <1>3, Members DEF TwoSided
  <2>2. info.prod[v] # {}
    BY <1>0, <1>5, NoneFits
  <2>3. Batched(B, info.prod[v]) /\ InLine(B)
    BY <1>0, <1>2, <2>1, <2>2, LegalBatches
  <2>4. B \in Seq(SUBSET Task)
    BY <2>3 DEF Batched
  <2> HIDE DEF B
  <2>5. links \in Links(N) /\ Len(links) = Len(B)
    <3> DEFINE T == SUBSET Task
    <3>1. B \in Seq(T) /\ info.cons[v] \in T
      BY <2>1, <2>4
    <3> HIDE DEF T
    <3>2. links \in Seq(T \X T) /\ Len(links) = Len(B)
      BY <3>1, BatchLinks
    <3> QED BY <1>0, <3>2 DEF T, Links
  <2>6. \A i \in 1..Len(B) : links[i][1] = B[i] /\ links[i][2] = info.cons[v]
    BY <2>4
  <2> HIDE DEF links
  <2>7. /\ Substituted(N, info, v, links, info') /\ Accounted(info, v, links, info')
        /\ ListsAll(order', BarrierOf(info'))
    BY <1>1, <1>2, <1>3, <1>5, <2>5, SplitKeepsLists
  <2>8. ProducersSplit(v, B, links)
    BY <1>5, <2>3, <2>5, <2>6, <2>7 DEF ProducersSplit
  <2> QED BY <1>3, <2>8 DEF v
<1> QED BY <1>4, <1>5

(* A visit of splitBarrierProducers leaves producers that fit.             *)
LEMMA LegalProducers ==
    ASSUME LegalInv, SplitBarrierProducers
    PROVE  LegalInv'
<1> DEFINE v == Head(walk)
<1>0. SlotsGiven /\ fn \in Functions
  BY FunctionFacts DEF LegalInv
<1>1. /\ stage = "producers" /\ walk # <<>> /\ walk' = Tail(walk)
      /\ fn' = fn /\ stage' = "producers"
  BY DEF SplitBarrierProducers
<1>2. /\ Agreeing(N, info) /\ \A t \in Task : fn.slots[t] <= Available
      /\ ListsAll(order, BarrierOf(info)) /\ walk \in Seq(BarrierOf(info))
      /\ \A w \in BarrierOf(info) : Fits(info.prod[w]) \/ Occurs(w, walk)
  BY <1>1 DEF LegalInv, Legal, InOrder, SplitAsFar
<1>3. /\ v \in BarrierOf(info) /\ walk' \in Seq(BarrierOf(info))
      /\ \A x : Occurs(x, walk) => x = v \/ Occurs(x, walk')
  BY <1>1, <1>2, HeadAndTail
<1>4. \/ Fits(info.prod[v]) /\ info' = info /\ order' = order
      \/ \E B, links : ProducersSplit(v, B, links)
  BY ProducersAreSplit
<1> HIDE DEF v
<1>5. CASE Fits(info.prod[v]) /\ info' = info /\ order' = order
  <2>1. Legal(stage', info', walk', order')
    BY <1>1, <1>2, <1>3, <1>5 DEF Legal, InOrder, SplitAsFar, Stages
  <2> QED BY <1>0, <1>1, <2>1, SameFunction
<1>6. CASE \E B, links : ProducersSplit(v, B, links)
  <2>1. PICK B, links : ProducersSplit(v, B, links)
    BY <1>6
  <2>2. /\ \A i \in 1..Len(B) : Fits(B[i])
        /\ Len(links) = Len(B) /\ \A i \in 1..Len(B) : links[i][1] = B[i] /\ links[i][2] = info.cons[v]
        /\ Agreeing(N, info') /\ Accounted(info, v, links, info')
        /\ ListsAll(order', BarrierOf(info'))
    BY <2>1 DEF ProducersSplit, Batched, Substituted
  <2>3. ASSUME NEW w \in BarrierOf(info') PROVE Fits(info'.prod[w]) \/ Occurs(w, walk')
    <3>1. CASE w = v /\ info'.prod[w] = {}
      BY <1>0, <3>1, NoneFits
    <3>2. CASE w \in BarrierOf(info) /\ w # v /\ info'.prod[w] = info.prod[w]
      BY <1>2, <1>3, <3>2
    <3>3. CASE \E i \in 1..Len(links) : info'.prod[w] = links[i][1]
      BY <2>2, <3>3
    <3> QED BY <2>2, <3>1, <3>2, <3>3 DEF Accounted
  <2>4. walk' \in Seq(BarrierOf(info'))
    <3> DEFINE S == BarrierOf(info)
               R == BarrierOf(info')
    <3>1. walk' \in Seq(S) /\ S \subseteq R
      BY <1>3, <2>2 DEF Accounted
    <3> HIDE DEF S, R
    <3>2. walk' \in Seq(R)
      BY <3>1
    <3> QED BY <3>2 DEF R
  <2>5. Legal(stage', info', walk', order')
    BY <1>1, <1>2, <2>2, <2>3, <2>4 DEF Legal, InOrder, SplitAsFar, Stages
  <2> QED BY <1>0, <1>1, <2>5, SameFunction
<1> QED BY <1>4, <1>5, <1>6

(* splitBarrierConsumers puts new barriers for batches of tasks.           *)
ConsumersSplit(v, B, links) ==
    /\ ~Fits(info.cons[v]) /\ Batched(B, info.cons[v]) /\ InLine(B)
    /\ Len(links) = Len(B)
    /\ \A i \in 1..Len(B) : links[i][1] = info.prod[v] /\ links[i][2] = B[i]
    /\ Substituted(N, info, v, links, info') /\ Accounted(info, v, links, info')
    /\ ListsAll(order', BarrierOf(info'))

(* Every new barrier has all the producers and a batch of the consumers.   *)
LEMMA ConsumersAreSplit ==
    ASSUME LegalInv, SplitBarrierConsumers
    PROVE  /\ Head(walk) \in BarrierOf(info)
           /\ \/ Fits(info.cons[Head(walk)]) /\ info' = info /\ order' = order
              \/ \E B, links : ConsumersSplit(Head(walk), B, links)
<1> DEFINE v == Head(walk)
           B == LegalVariantBatches(info.cons[v])
           links == [i \in DOMAIN B |-> <<info.prod[v], B[i]>>]
<1>0. SlotsGiven /\ N \in Nat /\ Task = Index(N) /\ Task \subseteq Int
  BY FunctionFacts DEF LegalInv
<1>1. /\ stage = "consumers" /\ walk # <<>>
      /\ IF Fits(info.cons[v]) THEN UNCHANGED <<info, order>> ELSE Replaced(v, links)
  BY DEF SplitBarrierConsumers
<1>2. /\ Agreeing(N, info) /\ \A t \in Task : fn.slots[t] <= Available
      /\ ListsAll(order, BarrierOf(info)) /\ walk \in Seq(BarrierOf(info))
  BY <1>1 DEF LegalInv, Legal, InOrder
<1>3. v \in BarrierOf(info)
  BY <1>1, <1>2, HeadAndTail
<1> HIDE DEF v
<1>4. CASE Fits(info.cons[v])
  BY <1>1, <1>3, <1>4 DEF v
<1>5. CASE ~Fits(info.cons[v])
  <2>1. info.prod[v] \in SUBSET Task /\ info.cons[v] \in SUBSET Task
    BY <1>0, <1>2, <1>3, Members DEF TwoSided
  <2>2. info.cons[v] # {}
    BY <1>0, <1>5, NoneFits
  <2>3. Batched(B, info.cons[v]) /\ InLine(B)
    BY <1>0, <1>2, <2>1, <2>2, LegalBatches
  <2>4. B \in Seq(SUBSET Task)
    BY <2>3 DEF Batched
  <2> HIDE DEF B
  <2>5. links \in Links(N) /\ Len(links) = Len(B)
    <3> DEFINE T == SUBSET Task
    <3>1. B \in Seq(T) /\ info.prod[v] \in T
      BY <2>1, <2>4
    <3> HIDE DEF T
    <3>2. links \in Seq(T \X T) /\ Len(links) = Len(B)
      BY <3>1, BatchLinks
    <3> QED BY <1>0, <3>2 DEF T, Links
  <2>6. \A i \in 1..Len(B) : links[i][1] = info.prod[v] /\ links[i][2] = B[i]
    BY <2>4
  <2> HIDE DEF links
  <2>7. /\ Substituted(N, info, v, links, info') /\ Accounted(info, v, links, info')
        /\ ListsAll(order', BarrierOf(info'))
    BY <1>1, <1>2, <1>3, <1>5, <2>5, SplitKeepsLists
  <2>8. ConsumersSplit(v, B, links)
    BY <1>5, <2>3, <2>5, <2>6, <2>7 DEF ConsumersSplit
  <2> QED BY <1>3, <2>8 DEF v
<1> QED BY <1>4, <1>5

(* A visit of splitBarrierConsumers leaves consumers that fit, and         *)
(* producers that still do.                                                *)
LEMMA LegalConsumers ==
    ASSUME LegalInv, SplitBarrierConsumers
    PROVE  LegalInv'
<1> DEFINE v == Head(walk)
<1>0. SlotsGiven /\ fn \in Functions
  BY FunctionFacts DEF LegalInv
<1>1. /\ stage = "consumers" /\ walk # <<>> /\ walk' = Tail(walk)
      /\ fn' = fn /\ stage' = "consumers"
  BY DEF SplitBarrierConsumers
<1>2. /\ Agreeing(N, info) /\ \A t \in Task : fn.slots[t] <= Available
      /\ ListsAll(order, BarrierOf(info)) /\ walk \in Seq(BarrierOf(info))
      /\ \A w \in BarrierOf(info) : Fits(info.prod[w]) /\ (Fits(info.cons[w]) \/ Occurs(w, walk))
  BY <1>1 DEF LegalInv, Legal, InOrder, SplitAsFar
<1>3. /\ v \in BarrierOf(info) /\ walk' \in Seq(BarrierOf(info))
      /\ \A x : Occurs(x, walk) => x = v \/ Occurs(x, walk')
  BY <1>1, <1>2, HeadAndTail
<1>4. \/ Fits(info.cons[v]) /\ info' = info /\ order' = order
      \/ \E B, links : ConsumersSplit(v, B, links)
  BY ConsumersAreSplit
<1> HIDE DEF v
<1>5. CASE Fits(info.cons[v]) /\ info' = info /\ order' = order
  <2>1. Legal(stage', info', walk', order')
    BY <1>1, <1>2, <1>3, <1>5 DEF Legal, InOrder, SplitAsFar, Stages
  <2> QED BY <1>0, <1>1, <2>1, SameFunction
<1>6. CASE \E B, links : ConsumersSplit(v, B, links)
  <2>1. PICK B, links : ConsumersSplit(v, B, links)
    BY <1>6
  <2>2. /\ \A i \in 1..Len(B) : Fits(B[i])
        /\ Len(links) = Len(B) /\ \A i \in 1..Len(B) : links[i][1] = info.prod[v] /\ links[i][2] = B[i]
        /\ Agreeing(N, info') /\ Accounted(info, v, links, info')
        /\ ListsAll(order', BarrierOf(info'))
    BY <2>1 DEF ConsumersSplit, Batched, Substituted
  <2>3. ASSUME NEW w \in BarrierOf(info')
        PROVE  Fits(info'.prod[w]) /\ (Fits(info'.cons[w]) \/ Occurs(w, walk'))
    <3>1. CASE w = v /\ info'.prod[w] = {} /\ info'.cons[w] = {}
      BY <1>0, <3>1, NoneFits
    <3>2. CASE w \in BarrierOf(info) /\ w # v /\ info'.prod[w] = info.prod[w] /\ info'.cons[w] = info.cons[w]
      BY <1>2, <1>3, <3>2
    <3>3. CASE \E i \in 1..Len(links) : info'.prod[w] = links[i][1] /\ info'.cons[w] = links[i][2]
      BY <1>2, <1>3, <2>2, <3>3
    <3> QED BY <2>2, <3>1, <3>2, <3>3 DEF Accounted
  <2>4. walk' \in Seq(BarrierOf(info'))
    <3> DEFINE S == BarrierOf(info)
               R == BarrierOf(info')
    <3>1. walk' \in Seq(S) /\ S \subseteq R
      BY <1>3, <2>2 DEF Accounted
    <3> HIDE DEF S, R
    <3>2. walk' \in Seq(R)
      BY <3>1
    <3> QED BY <3>2 DEF R
  <2>5. Legal(stage', info', walk', order')
    BY <1>1, <1>2, <2>2, <2>3, <2>4 DEF Legal, InOrder, SplitAsFar, Stages
  <2> QED BY <1>0, <1>1, <2>5, SameFunction
<1> QED BY <1>4, <1>5, <1>6

-----------------------------------------------------------------------------
(* The orders of the wait barriers list them all.                          *)
ListedBy(w, S) ==
    /\ Cardinality(S) \in Nat /\ DOMAIN w = 1..Cardinality(S)
    /\ \A i \in 1..Cardinality(S) : w[i] \in S
    /\ \A x \in S : \E i \in 1..Cardinality(S) : w[i] = x

(* Each order of the wait barriers lists all of them.                      *)
LEMMA OrdersList ==
    ASSUME NEW S, IsFiniteSet(S), S \subseteq Int, NEW w \in Orders(S)
    PROVE  ListedBy(w, S)
<1> DEFINE asc == Ascending(S)
           n == Cardinality(S)
<1>1. n \in Nat /\ asc \in [1..n -> S] /\ \A x \in S : \E i \in 1..n : asc[i] = x
  BY AscendingLists DEF Enumerates
<1>2. PICK p \in Permutations(S) \cap Surjection(S, S) : w = [i \in DOMAIN asc |-> p[asc[i]]]
  BY DEF Orders
<1>3. p \in [S -> S] /\ \A x \in S : \E y \in S : p[y] = x
  BY <1>2 DEF Surjection
<1> HIDE DEF asc, n
<1>4. DOMAIN w = 1..n /\ \A i \in 1..n : w[i] = p[asc[i]]
  BY <1>1, <1>2
<1>5. \A i \in 1..n : w[i] \in S
  BY <1>1, <1>3, <1>4
<1>6. ASSUME NEW x \in S PROVE \E i \in 1..n : w[i] = x
  <2>1. PICK y \in S : p[y] = x
    BY <1>3
  <2>2. PICK i \in 1..n : asc[i] = y
    BY <1>1
  <2> QED BY <1>4, <2>1, <2>2
<1> QED BY <1>1, <1>4, <1>5, <1>6 DEF n, ListedBy

(* A task waits for finitely many barriers.                                *)
LEMMA WaitsFinite ==
    ASSUME NEW n \in Nat, NEW b, Agreeing(n, b), NEW t \in Index(n)
    PROVE  IsFiniteSet(b.wait[t]) /\ b.wait[t] \subseteq Int /\ b.wait[t] \subseteq BarrierOf(b)
<1>1. b.num \in Nat /\ BarrierOf(b) = 0..(b.num - 1) /\ b.wait[t] \subseteq BarrierOf(b)
  BY Members DEF Agreeing, TwoSided, BarrierOf
<1>2. IsFiniteSet(0..(b.num - 1)) /\ 0..(b.num - 1) \subseteq Int
  BY <1>1, Ranges
<1> QED BY <1>1, <1>2, FS_Subset

(* A set of tasks that fits is a single batch.                             *)
LEMMA OneBatch ==
    ASSUME SlotsGiven, NEW P \in SUBSET Task, Fits(P)
    PROVE  Batched(<<P>>, P) /\ (P # {} => InLine(<<P>>))
<1> DEFINE B == <<P>>
<1>1. B \in Seq(SUBSET Task) /\ Len(B) = 1 /\ B[1] = P
  OBVIOUS
<1> HIDE DEF B
<1>2. \A i \in 1..Len(B) : i = 1
  BY <1>1
<1>3. Batched(B, P)
  BY <1>1, <1>2 DEF Batched
<1>4. P # {} => InLine(B)
  BY <1>1, <1>2 DEF InLine
<1> QED BY <1>3, <1>4 DEF B

(* ensureTaskDrivenBySingleBarrier chains batches of all producers.        *)
LEMMA ChosenBatches ==
    ASSUME SlotsGiven, N \in Nat, Task = Index(N), Agreeing(N, info),
           \A u \in Task : fn.slots[u] <= Available,
           \A v \in BarrierOf(info) : Fits(info.prod[v]),
           NEW t \in Task, EnsureTaskDrivenBySingleBarrier(t)
    PROVE  \E B : /\ Batched(B, Parents(info, t))
                  /\ info' = Unlinked(Chained(t, B), t, info.wait[t])
                  /\ Fits(Parents(info, t)) /\ Parents(info, t) # {} => InLine(B)
                  /\ (/\ info.wait[t] # {}
                      /\ \A v \in info.wait[t] : info.prod[v] # {} /\ 0 \notin info.prod[v]) => InLine(B)
<1> DEFINE P == Parents(info, t)
           waits == info.wait[t]
           linearized == {IF ProducerBatches(w) # <<>> THEN ProducerBatches(w)
                          ELSE LegalVariantBatches(P) : w \in Orders(waits)}
           Safe == waits # {} /\ \A v \in waits : info.prod[v] # {} /\ 0 \notin info.prod[v]
<1>1. PICK B \in IF Fits(P) THEN {<<P>>} ELSE linearized :
          info' = Unlinked(Chained(t, B), t, waits)
  BY DEF EnsureTaskDrivenBySingleBarrier
<1>2. /\ IsFiniteSet(waits) /\ waits \subseteq Int /\ waits \subseteq BarrierOf(info)
      /\ \A v \in BarrierOf(info) : info.prod[v] \in SUBSET Task
      /\ Task \subseteq Int
  <2>1. Task \subseteq Int
    BY DEF Index
  <2> QED BY <2>1, WaitsFinite, Members DEF TwoSided
<1>3. /\ \A u : u \in P <=> \E v \in waits : u \in info.prod[v]
      /\ Safe => P # {}
  <2>1. \A u : u \in P <=> \E v \in waits : u \in info.prod[v]
    BY ChildMember
  <2> QED BY <2>1
<1>4. P \in SUBSET Task
  BY <1>2, <1>3
<1> HIDE DEF P
<1>5. CASE Fits(P)
  <2>1. B = <<P>>
    BY <1>1, <1>5
  <2>2. Batched(B, P) /\ (P # {} => InLine(B))
    BY <1>4, <1>5, <2>1, OneBatch
  <2> QED BY <1>1, <1>3, <2>2 DEF P
<1>6. CASE ~Fits(P)
  <2>1. PICK w \in Orders(waits) : B = IF ProducerBatches(w) # <<>> THEN ProducerBatches(w)
                                       ELSE LegalVariantBatches(P)
    BY <1>1, <1>6
  <2>2. CASE ProducerBatches(w) # <<>>
    <3> DEFINE n == Cardinality(waits)
    <3>1. /\ n \in Nat /\ DOMAIN w = 1..n
          /\ \A i \in 1..n : w[i] \in waits
          /\ \A x \in waits : \E i \in 1..n : w[i] = x
      <4>1. ListedBy(w, waits)
        <5>1. IsFiniteSet(waits) /\ waits \subseteq Int
          BY <1>2
        <5> HIDE DEF waits
        <5> QED BY <2>1, <5>1, OrdersList
      <4> QED BY <4>1 DEF ListedBy
    <3> HIDE DEF n, waits
    <3>2. \A i \in 1..n : info.prod[w[i]] \in SUBSET Task /\ Fits(info.prod[w[i]])
      BY <1>2, <3>1
    <3>3. Batched(ProducerBatches(w), ProducersOf(w, n))
      BY <2>2, <3>1, <3>2, ProducersBatched
    <3>4. ProducersOf(w, n) = P
      <4>1. \A u : u \in ProducersOf(w, n) <=> \E i \in 1..n : u \in info.prod[w[i]]
        BY DEF ProducersOf
      <4> QED BY <1>3, <3>1, <4>1
    <3>5. ASSUME Safe PROVE InLine(ProducerBatches(w))
      <4>1. n # 0
        BY <3>1, <3>5
      <4>2. \A i \in 1..n : info.prod[w[i]] # {} /\ 0 \notin info.prod[w[i]]
        BY <3>1, <3>5
      <4> QED BY <2>2, <3>1, <3>2, <4>1, <4>2, ProducersInLine
    <3>6. B = ProducerBatches(w) /\ info' = Unlinked(Chained(t, B), t, waits)
      BY <1>1, <2>1, <2>2 DEF waits
    <3>7. Batched(B, P) /\ (Safe => InLine(B)) /\ ~Fits(P)
      BY <1>6, <3>3, <3>4, <3>5, <3>6
    <3> QED BY <3>6, <3>7 DEF P, waits
  <2>3. CASE ~(ProducerBatches(w) # <<>>)
    <3>1. Batched(LegalVariantBatches(P), P) /\ (P # {} => InLine(LegalVariantBatches(P)))
      BY <1>2, <1>4, LegalBatches
    <3>2. B = LegalVariantBatches(P)
      BY <2>1, <2>3
    <3> QED BY <1>1, <1>3, <3>1, <3>2 DEF P
  <2> QED BY <2>2, <2>3
<1> QED BY <1>5, <1>6

(* What becomes of the barriers when a task is driven by one.              *)
Driven(t, B, c) ==
    /\ Agreeing(N, c) /\ BarrierOf(info) \subseteq BarrierOf(c)
    /\ \A v \in BarrierOf(info) :
          /\ c.prod[v] = IF v \in info.wait[t] /\ info.cons[v] = {t} THEN {} ELSE info.prod[v]
          /\ c.cons[v] = IF v \in info.wait[t] THEN info.cons[v] \ {t} ELSE info.cons[v]
    /\ \A v \in BarrierOf(c) : v \in BarrierOf(info) \/
          \E i \in 1..Len(B) : c.prod[v] = B[i] /\ c.cons[v] = NextInChain(t, B, i)
    /\ \A i \in 1..Len(B) : \E v \in BarrierOf(c) :
          c.prod[v] = B[i] /\ c.cons[v] = NextInChain(t, B, i)

(* ensureTaskDrivenBySingleBarrier unlinks the task and drives it by the   *)
(* end of a chain.                                                         *)
LEMMA DrivenFacts ==
    ASSUME N \in Nat, Task = Index(N), Agreeing(N, info), NEW t \in Task,
           NEW B \in Seq(SUBSET Task), NEW d, d = Unlinked(Chained(t, B), t, info.wait[t])
    PROVE  Driven(t, B, d)
<1> DEFINE c == Chained(t, B)
<1>1. ChainAdded(N, info, t, B, c)
  BY ChainedFacts
<1> HIDE DEF c
<1>2. /\ Agreeing(N, c) /\ BarrierOf(info) \subseteq BarrierOf(c)
      /\ \A w \in BarrierOf(info) : c.prod[w] = info.prod[w] /\ c.cons[w] = info.cons[w]
      /\ \A w \in BarrierOf(c) : w \in BarrierOf(info) \/
            \E i \in 1..Len(B) : c.prod[w] = B[i] /\ c.cons[w] = NextInChain(t, B, i)
      /\ \A i \in 1..Len(B) : \E w \in BarrierOf(c) :
            w \notin BarrierOf(info) /\ c.prod[w] = B[i] /\ c.cons[w] = NextInChain(t, B, i)
  BY <1>1 DEF ChainAdded
<1>3. info.wait[t] \subseteq BarrierOf(info)
  BY WaitsFinite
<1>4. IsUnlinked(N, c, t, info.wait[t], d)
  <2>1. info.wait[t] \subseteq BarrierOf(c) /\ d = Unlinked(c, t, info.wait[t])
    BY <1>2, <1>3 DEF c
  <2> QED BY <1>2, <2>1, UnlinkedFacts
<1>5. /\ Agreeing(N, d) /\ BarrierOf(d) = BarrierOf(c)
      /\ \A v \in BarrierOf(c) :
            /\ d.prod[v] = IF v \in info.wait[t] /\ c.cons[v] = {t} THEN {} ELSE c.prod[v]
            /\ d.cons[v] = IF v \in info.wait[t] THEN c.cons[v] \ {t} ELSE c.cons[v]
  BY <1>4 DEF IsUnlinked
<1>6. \A v \in BarrierOf(c) : v \notin BarrierOf(info) => d.prod[v] = c.prod[v] /\ d.cons[v] = c.cons[v]
  BY <1>3, <1>5
<1>7. \A v \in BarrierOf(info) :
          /\ d.prod[v] = IF v \in info.wait[t] /\ info.cons[v] = {t} THEN {} ELSE info.prod[v]
          /\ d.cons[v] = IF v \in info.wait[t] THEN info.cons[v] \ {t} ELSE info.cons[v]
  BY <1>2, <1>5
<1>8. \A v \in BarrierOf(d) : v \in BarrierOf(info) \/
          \E i \in 1..Len(B) : d.prod[v] = B[i] /\ d.cons[v] = NextInChain(t, B, i)
  BY <1>2, <1>5, <1>6
<1>9. \A i \in 1..Len(B) : \E v \in BarrierOf(d) : d.prod[v] = B[i] /\ d.cons[v] = NextInChain(t, B, i)
  <2>1. ASSUME NEW i \in 1..Len(B)
        PROVE  \E v \in BarrierOf(d) : d.prod[v] = B[i] /\ d.cons[v] = NextInChain(t, B, i)
    <3>1. PICK v \in BarrierOf(c) :
              v \notin BarrierOf(info) /\ c.prod[v] = B[i] /\ c.cons[v] = NextInChain(t, B, i)
      BY <1>2
    <3>2. v \in BarrierOf(d) /\ d.prod[v] = c.prod[v] /\ d.cons[v] = c.cons[v]
      BY <1>5, <1>6, <3>1
    <3> QED BY <3>1, <3>2
  <2> QED BY <2>1
<1> QED BY <1>2, <1>5, <1>7, <1>8, <1>9 DEF Driven

-----------------------------------------------------------------------------
(* Only a task without enough slots ends the pass at once.                 *)
LEMMA LegalVerify ==
    ASSUME LegalInv, Verify
    PROVE  LegalInv'
<1>1. /\ stage = "verify" /\ fn' = fn /\ info' = info /\ order' = order /\ fn \in Functions
      /\ IF \E t \in Task : fn.slots[t] > Available THEN stage' = "thrown"
         ELSE stage' = "producers" /\ walk' = order
  BY DEF Verify, LegalInv
<1>2. SlotsGiven
  BY FunctionFacts DEF LegalInv
<1>3. Agreeing(N, info) /\ ListsAll(order, BarrierOf(info))
  BY <1>1 DEF LegalInv, Legal, InOrder
<1>4. CASE \E t \in Task : fn.slots[t] > Available
  <2>1. Legal(stage', info', walk', order')
    BY <1>1, <1>3, <1>4 DEF Legal, InOrder, SplitAsFar, Stages
  <2> QED BY <1>1, <2>1, SameFunction
<1>5. CASE ~\E t \in Task : fn.slots[t] > Available
  <2>1. \A t \in Task : fn.slots[t] <= Available
    BY <1>2, <1>5 DEF SlotsGiven
  <2>2. order \in Seq(BarrierOf(info)) /\ \A v \in BarrierOf(info) : Occurs(v, order)
    BY <1>3 DEF ListsAll
  <2>3. Legal(stage', info', walk', order')
    BY <1>1, <1>3, <1>5, <2>1, <2>2 DEF Legal, InOrder, SplitAsFar, Stages
  <2> QED BY <1>1, <2>3, SameFunction
<1> QED BY <1>4, <1>5

(* Nothing is left to visit.                                               *)
LEMMA NothingOccurs == ASSUME NEW x PROVE ~Occurs(x, <<>>)
<1>1. 1..Len(<<>>) = {}
  OBVIOUS
<1> QED BY <1>1 DEF Occurs

(* When all producers are split, the consumers are visited in the same     *)
(* order.                                                                  *)
LEMMA LegalBetween ==
    ASSUME LegalInv, StartSplitOfConsumers
    PROVE  LegalInv'
<1>1. /\ stage = "producers" /\ walk = <<>> /\ stage' = "consumers" /\ walk' = order
      /\ fn' = fn /\ info' = info /\ order' = order /\ fn \in Functions
  BY DEF StartSplitOfConsumers, LegalInv
<1>2. /\ Agreeing(N, info) /\ \A t \in Task : fn.slots[t] <= Available
      /\ ListsAll(order, BarrierOf(info))
      /\ \A w \in BarrierOf(info) : Fits(info.prod[w]) \/ Occurs(w, walk)
  BY <1>1 DEF LegalInv, Legal, InOrder, SplitAsFar
<1>3. order \in Seq(BarrierOf(info)) /\ \A v \in BarrierOf(info) : Fits(info.prod[v]) /\ Occurs(v, order)
  BY <1>1, <1>2, NothingOccurs DEF ListsAll
<1>4. Legal(stage', info', walk', order')
  BY <1>1, <1>2, <1>3 DEF Legal, InOrder, SplitAsFar, Stages
<1> QED BY <1>1, <1>4, SameFunction

(* Under another number a barrier fits as before.                          *)
LEMMA RenamedFits ==
    ASSUME NEW b, NEW c, Renamed(N, b, c),
           \A v \in BarrierOf(b) : Fits(b.prod[v]) /\ Fits(b.cons[v])
    PROVE  \A v \in BarrierOf(c) : Fits(c.prod[v]) /\ Fits(c.cons[v])
BY DEF Renamed

(* The barriers of the IR as the next pass finds them.                     *)
LEMMA OrderRebuilds ==
    ASSUME NEW n, Agreeing(n, info), ListsAll(order, BarrierOf(info)), NEW c, c = Rebuilt(info, order)
    PROVE  Renamed(n, info, c) /\ \A t \in Index(n) : Children(c, t) = Children(info, t)
<1> DEFINE m == Len(order)
<1>1. m \in Nat /\ order \in [1..m -> BarrierOf(info)]
      /\ \A v \in BarrierOf(info) : \E i \in 1..m : order[i] = v
  BY DEF ListsAll, Occurs
<1> HIDE DEF m
<1> QED BY <1>1, RebuiltKeeps

(* The walk over the tasks visits them in program order.                   *)
LEMMA TasksInOrder ==
    ASSUME SlotsGiven, Task \subseteq Int
    PROVE  Ascending(Task) \in Seq(Task)
<1> DEFINE k == Cardinality(Task)
           s == Ascending(Task)
<1>1. k \in Nat /\ s \in [1..k -> Task]
  BY AscendingLists DEF Enumerates, SlotsGiven
<1> HIDE DEF k, s
<1>2. s \in Seq(Task)
  BY <1>1
<1> QED BY <1>2 DEF s

(* The second pass reads the IR that the first one leaves.                 *)
LEMMA LegalStartOneWait ==
    ASSUME LegalInv, StartOneWait
    PROVE  LegalInv'
<1>1. /\ stage = "consumers" /\ walk = <<>> /\ stage' = "oneWait" /\ walk' = Ascending(Task)
      /\ fn' = fn /\ info' = Rebuilt(info, order) /\ fn \in Functions
  BY DEF StartOneWait, LegalInv
<1>2. /\ Agreeing(N, info) /\ \A t \in Task : fn.slots[t] <= Available
      /\ ListsAll(order, BarrierOf(info))
      /\ \A w \in BarrierOf(info) : Fits(info.prod[w]) /\ (Fits(info.cons[w]) \/ Occurs(w, walk))
  BY <1>1 DEF LegalInv, Legal, InOrder, SplitAsFar
<1>3. \A w \in BarrierOf(info) : Fits(info.prod[w]) /\ Fits(info.cons[w])
  BY <1>1, <1>2, NothingOccurs
<1>4. Renamed(N, info, info')
  BY <1>1, <1>2, OrderRebuilds
<1>5. Agreeing(N, info') /\ \A v \in BarrierOf(info') : Fits(info'.prod[v]) /\ Fits(info'.cons[v])
  BY <1>3, <1>4, RenamedFits DEF Renamed
<1>6. walk' \in Seq(Task)
  BY <1>1, FunctionFacts, TasksInOrder DEF LegalInv
<1>7. Legal(stage', info', walk', order')
  BY <1>1, <1>2, <1>5, <1>6 DEF Legal, InOrder, SplitAsFar, Stages
<1> QED BY <1>1, <1>7, SameFunction

(* A chain of batches that fit, and barriers that lose tasks.              *)
LEMMA DrivenFits ==
    ASSUME SlotsGiven, \A u \in Task : fn.slots[u] <= Available, Task = Index(N), Agreeing(N, info),
           NEW t \in Task, NEW P, NEW B, Batched(B, P), NEW c, Driven(t, B, c),
           \A v \in BarrierOf(info) : Fits(info.prod[v]) /\ Fits(info.cons[v])
    PROVE  \A v \in BarrierOf(c) : Fits(c.prod[v]) /\ Fits(c.cons[v])
<1>1. Fits({t})
  BY OneFits DEF Fits
<1>2. \A i \in 1..Len(B) : Fits(B[i]) /\ Fits(NextInChain(t, B, i))
  <2>1. Len(B) \in Nat /\ \A i \in 1..Len(B) : i # Len(B) => i + 1 \in 1..Len(B)
    BY DEF Batched
  <2> QED BY <1>1, <2>1 DEF Batched, NextInChain
<1>3. ASSUME NEW v \in BarrierOf(info) PROVE Fits(c.prod[v]) /\ Fits(c.cons[v])
  <2>1. info.cons[v] \in SUBSET Task
    BY Members DEF TwoSided
  <2>2. Fits(info.cons[v] \ {t})
    BY <2>1, OneLessFits
  <2>3. Fits(c.prod[v])
    BY NoneFits DEF Driven
  <2>4. Fits(c.cons[v])
    BY <2>2 DEF Driven
  <2> QED BY <2>3, <2>4
<1>4. ASSUME NEW v \in BarrierOf(c), v \notin BarrierOf(info) PROVE Fits(c.prod[v]) /\ Fits(c.cons[v])
  BY <1>2, <1>4 DEF Driven
<1> QED BY <1>3, <1>4

(* Giving a task a single wait barrier leaves all barriers fitting.        *)
LEMMA LegalSatisfy ==
    ASSUME LegalInv, SatisfyOneWaitBarrier
    PROVE  LegalInv'
<1> DEFINE t == Head(walk)
<1>0. /\ SlotsGiven /\ N \in Nat /\ Task = Index(N) /\ Task \subseteq Int /\ fn \in Functions
  BY FunctionFacts DEF LegalInv
<1>1. /\ stage = "oneWait" /\ walk # <<>> /\ walk' = Tail(walk) /\ fn' = fn /\ stage' = "oneWait"
      /\ info' = info \/ EnsureTaskDrivenBySingleBarrier(t)
  BY DEF SatisfyOneWaitBarrier
<1>2. /\ Agreeing(N, info) /\ \A u \in Task : fn.slots[u] <= Available
      /\ walk \in Seq(Task)
      /\ \A w \in BarrierOf(info) : Fits(info.prod[w]) /\ Fits(info.cons[w])
  BY <1>1 DEF LegalInv, Legal, InOrder, SplitAsFar
<1>3. t \in Task /\ walk' \in Seq(Task)
  BY <1>1, <1>2, HeadAndTail
<1> HIDE DEF t
<1>4. CASE info' = info
  <2>1. Legal(stage', info', walk', order')
    BY <1>1, <1>2, <1>3, <1>4 DEF Legal, InOrder, SplitAsFar, Stages
  <2> QED BY <1>0, <1>1, <2>1, SameFunction
<1>5. CASE EnsureTaskDrivenBySingleBarrier(t)
  <2>1. PICK B : Batched(B, Parents(info, t)) /\ info' = Unlinked(Chained(t, B), t, info.wait[t])
    BY <1>0, <1>2, <1>3, <1>5, ChosenBatches
  <2>2. B \in Seq(SUBSET Task)
    BY <2>1 DEF Batched
  <2>3. Driven(t, B, info')
    BY <1>0, <1>2, <1>3, <2>1, <2>2, DrivenFacts
  <2>4. \A v \in BarrierOf(info') : Fits(info'.prod[v]) /\ Fits(info'.cons[v])
    BY <1>0, <1>2, <1>3, <2>1, <2>3, DrivenFits
  <2>5. Legal(stage', info', walk', order')
    BY <1>1, <1>2, <1>3, <2>3, <2>4 DEF Legal, InOrder, SplitAsFar, Stages, Driven
  <2> QED BY <1>0, <1>1, <2>5, SameFunction
<1> QED BY <1>1, <1>4, <1>5

(* The end of the second pass orders the barriers and rebuilds the IR.     *)
LEMMA OrderedRebuilds ==
    ASSUME NEW n \in Nat, NEW b, Agreeing(n, b), NEW c, c = Rebuilt(b, BarrierOrder(b))
    PROVE  Renamed(n, b, c) /\ \A t \in Index(n) : Children(c, t) = Children(b, t)
BY BarrierOrderLists, RebuiltKeeps

(* The end of the second pass leaves all barriers fitting.                 *)
LEMMA LegalFinish ==
    ASSUME LegalInv, FinishOneWait
    PROVE  LegalInv'
<1>1. /\ stage = "oneWait" /\ fn' = fn /\ stage' = "done" /\ fn \in Functions
      /\ info' = info \/ info' = Rebuilt(info, BarrierOrder(info))
  BY DEF FinishOneWait, LegalInv
<1>2. /\ Agreeing(N, info) /\ \A u \in Task : fn.slots[u] <= Available
      /\ \A w \in BarrierOf(info) : Fits(info.prod[w]) /\ Fits(info.cons[w])
  BY <1>1 DEF LegalInv, Legal, SplitAsFar
<1>3. N \in Nat
  BY FunctionFacts DEF LegalInv
<1>4. Agreeing(N, info') /\ \A v \in BarrierOf(info') : Fits(info'.prod[v]) /\ Fits(info'.cons[v])
  <2>1. CASE info' = info
    BY <1>2, <2>1
  <2>2. CASE info' = Rebuilt(info, BarrierOrder(info))
    <3>1. Renamed(N, info, info')
      BY <1>2, <1>3, <2>2, OrderedRebuilds
    <3> QED BY <1>2, <3>1, RenamedFits DEF Renamed
  <2> QED BY <1>1, <2>1, <2>2
<1>5. Legal(stage', info', walk', order')
  BY <1>1, <1>2, <1>4 DEF Legal, InOrder, SplitAsFar, Stages
<1> QED BY <1>1, <1>5, SameFunction

(* LegalInv is inductive: one case per step of the passes.                 *)
LEMMA LegalNext == LegalInv /\ [Next]_vars => LegalInv'
<1> SUFFICES ASSUME LegalInv, [Next]_vars PROVE LegalInv'
  OBVIOUS
<1>1. CASE UNCHANGED vars
  <2>1. fn' = fn /\ fn \in Functions /\ Legal(stage', info', walk', order')
    BY <1>1 DEF vars, LegalInv
  <2> QED BY <2>1, SameFunction
<1>2. CASE Next
  BY <1>1, <1>2, LegalVerify, LegalProducers, LegalBetween, LegalConsumers, LegalStartOneWait,
     LegalSatisfy, LegalFinish DEF Next, Returned
<1> QED BY <1>1, <1>2

(* Every barrier fits the slots from the end of the split on.              *)
THEOREM SlotsAreRespected == Spec => []SlotsRespected
<1>1. LegalInv => SlotsRespected
  BY DEF LegalInv, Legal, SplitAsFar, Fits, SlotsRespected
<1> QED BY <1>1, LegalInit, LegalNext, PTL DEF Spec

-----------------------------------------------------------------------------
(* FirstTaskAlone, of the tasks that are left to be driven by one barrier. *)
Alone(b, U) ==
    \A v, w \in BarrierOf(b) : \A u \in U :
        0 \in b.prod[v] /\ u \in b.cons[v] /\ u \in b.cons[w] => b.prod[w] = b.prod[v]

FirstFits(b) == \A v \in BarrierOf(b) : 0 \in b.prod[v] => Fits(b.prod[v])

(* A barrier that tasks wait for has producers.                            *)
Fed(b) == \A v \in BarrierOf(b) : b.cons[v] # {} => b.prod[v] # {}

Left(wk) == {u \in Task : Occurs(u, wk)}
Rising(wk) == \A i, j \in 1..Len(wk) : i < j => wk[i] < wk[j]

(* Splitting keeps the edges between the tasks, and chaining a path for    *)
(* every edge.                                                             *)
Kept(st, b, wk) ==
    /\ Forward(b) /\ Fed(b)
    /\ st \notin {"oneWait", "done"} => /\ \A t \in Task : Children(b, t) = Children(fn.maps, t)
                                        /\ Alone(b, Task) /\ FirstFits(b)
    /\ st \in {"oneWait", "done"} => \A t \in Task : RunsAfter(fn.maps)[t] \subseteq RunsAfter(b)[t]
    /\ st = "oneWait" => Alone(b, Left(wk)) /\ Rising(wk)

KeptInv == LegalInv /\ Kept(stage, info, walk)

(* Kept only looks at the function, the barriers and the walk.             *)
LEMMA SameKept ==
    ASSUME fn' = fn, LegalInv', Kept(stage', info', walk')
    PROVE  KeptInv'
<1>1. N' = N /\ Task' = Task /\ Available' = Available
  BY DEF N, Task, Available
<1>2. \A S : Fits(S)' <=> Fits(S)
  BY <1>1 DEF Fits, SlotsUsed
<1>3. FirstFits(info)' <=> FirstFits(info')
  BY <1>2 DEF FirstFits
<1>4. Left(walk)' = Left(walk')
  BY <1>1 DEF Left
<1>5. Kept(stage, info, walk)'
  BY <1>1, <1>3, <1>4 DEF Kept
<1> QED BY <1>5 DEF KeptInv

(* The function that was read keeps its own order.                         *)
LEMMA KeptInit ==
    ASSUME \A f \in Functions : FirstTaskAlone(f), Init
    PROVE  KeptInv
<1>1. fn \in Functions /\ stage = "verify" /\ info = fn.maps /\ LegalInv
  BY LegalInit DEF Init, LegalInv
<1>2. Forward(info) /\ Fed(info)
  BY <1>1, FunctionFacts DEF Fed
<1>3. FirstTaskAlone(fn)
  BY <1>1
<1>4. Alone(info, Task)
  BY <1>1, <1>3 DEF Alone, FirstTaskAlone
<1>5. FirstFits(info)
  BY <1>1, <1>3 DEF FirstFits, FirstTaskAlone, Fits, SlotsUsed, Available
<1>6. Kept(stage, info, walk)
  BY <1>1, <1>2, <1>4, <1>5 DEF Kept
<1> QED BY <1>1, <1>6 DEF KeptInv

(* Barriers that have the edges of the one they stand for.                 *)
LEMMA SplitEdges ==
    ASSUME NEW n, NEW b, Agreeing(n, b), NEW c, Agreeing(n, c), NEW v \in BarrierOf(b), NEW links,
           Accounted(b, v, links, c),
           \A x, u : x \in b.prod[v] /\ u \in b.cons[v] <=>
                \E i \in 1..Len(links) : x \in links[i][1] /\ u \in links[i][2]
    PROVE  \A t \in Index(n) : Children(c, t) = Children(b, t)
<1> TAKE t \in Index(n)
<1>1. ASSUME NEW u \in Children(b, t) PROVE u \in Children(c, t)
  <2>1. PICK w \in BarrierOf(b) : t \in b.prod[w] /\ u \in b.cons[w]
    BY <1>1, Edges
  <2>2. CASE w = v
    <3>1. PICK i \in 1..Len(links) : t \in links[i][1] /\ u \in links[i][2]
      BY <2>1, <2>2
    <3>2. PICK x \in BarrierOf(c) : c.prod[x] = links[i][1] /\ c.cons[x] = links[i][2]
      BY DEF Accounted
    <3> QED BY <3>1, <3>2, Edges
  <2>3. CASE w # v
    <3>1. w \in BarrierOf(c) /\ c.prod[w] = b.prod[w] /\ c.cons[w] = b.cons[w]
      BY <2>3 DEF Accounted
    <3> QED BY <2>1, <3>1, Edges
  <2> QED BY <2>2, <2>3
<1>2. ASSUME NEW u \in Children(c, t) PROVE u \in Children(b, t)
  <2>1. PICK w \in BarrierOf(c) : t \in c.prod[w] /\ u \in c.cons[w]
    BY <1>2, Edges
  <2>2. CASE w \in BarrierOf(b) /\ c.prod[w] = b.prod[w] /\ c.cons[w] = b.cons[w]
    BY <2>1, <2>2, Edges
  <2>3. CASE \E i \in 1..Len(links) : c.prod[w] = links[i][1] /\ c.cons[w] = links[i][2]
    <3>1. t \in b.prod[v] /\ u \in b.cons[v]
      BY <2>1, <2>3
    <3> QED BY <3>1, Edges
  <2> QED BY <2>1, <2>2, <2>3 DEF Accounted
<1> QED BY <1>1, <1>2

(* The new barriers lead forward where the old one did.                    *)
LEMMA SplitForward ==
    ASSUME NEW n, NEW b, Agreeing(n, b), Forward(b), NEW c, Agreeing(n, c),
           \A t \in Index(n) : Children(c, t) = Children(b, t)
    PROVE  Forward(c)
BY ForwardChildren

(* Splitting producers keeps every edge between tasks.                     *)
LEMMA KeptProducers ==
    ASSUME KeptInv, SplitBarrierProducers
    PROVE  KeptInv'
<1> DEFINE v == Head(walk)
<1>0. SlotsGiven /\ N \in Nat /\ Task = Index(N)
  BY FunctionFacts DEF LegalInv, KeptInv
<1>1. stage = "producers" /\ fn' = fn /\ stage' = "producers"
  BY DEF SplitBarrierProducers
<1>2. /\ Agreeing(N, info) /\ Forward(info) /\ Fed(info)
      /\ \A t \in Task : Children(info, t) = Children(fn.maps, t)
      /\ Alone(info, Task) /\ FirstFits(info)
  BY <1>1 DEF KeptInv, LegalInv, Legal, Kept
<1>3. LegalInv'
  BY LegalProducers DEF KeptInv
<1>4. /\ v \in BarrierOf(info)
      /\ \/ info' = info
         \/ \E B, links : ProducersSplit(v, B, links)
  BY ProducersAreSplit DEF KeptInv
<1> HIDE DEF v
<1>5. CASE info' = info
  <2>1. Kept(stage', info', walk')
    BY <1>1, <1>2, <1>5 DEF Kept
  <2> QED BY <1>1, <1>3, <2>1, SameKept
<1>6. CASE \E B, links : ProducersSplit(v, B, links)
  <2>1. PICK B, links : ProducersSplit(v, B, links)
    BY <1>6
  <2>2. /\ ~Fits(info.prod[v]) /\ \A i \in 1..Len(B) : B[i] # {}
        /\ \A x : x \in info.prod[v] <=> \E i \in 1..Len(B) : x \in B[i]
        /\ Len(links) = Len(B) /\ \A i \in 1..Len(B) : links[i][1] = B[i] /\ links[i][2] = info.cons[v]
        /\ Agreeing(N, info') /\ Accounted(info, v, links, info')
    BY <2>1 DEF ProducersSplit, Batched, InLine, Substituted
  <2>3. \A t \in Task : Children(info', t) = Children(info, t)
    BY <1>0, <1>2, <1>4, <2>2, SplitEdges
  <2>4. Forward(info')
    BY <1>0, <1>2, <2>2, <2>3, SplitForward
  <2>5. 0 \notin info.prod[v]
    BY <1>2, <1>4, <2>2 DEF FirstFits
  <2>6. ASSUME NEW w \in BarrierOf(info')
        PROVE  \/ info'.prod[w] = {} /\ info'.cons[w] = {}
               \/ /\ w \in BarrierOf(info) /\ w # v
                  /\ info'.prod[w] = info.prod[w] /\ info'.cons[w] = info.cons[w]
               \/ /\ info'.prod[w] # {} /\ 0 \notin info'.prod[w] /\ info'.cons[w] = info.cons[v]
    BY <2>2, <2>5 DEF Accounted
  <2>7. Fed(info') /\ FirstFits(info')
    BY <1>2, <2>6 DEF Fed, FirstFits
  <2>8. Alone(info', Task)
    <3>1. SUFFICES ASSUME NEW x \in BarrierOf(info'), NEW w \in BarrierOf(info'), NEW u \in Task,
                          0 \in info'.prod[x], u \in info'.cons[x], u \in info'.cons[w]
                   PROVE  info'.prod[w] = info'.prod[x]
      BY DEF Alone
    <3>2. x \in BarrierOf(info) /\ info'.prod[x] = info.prod[x] /\ info'.cons[x] = info.cons[x]
      BY <2>6, <3>1
    <3>3. u \notin info.cons[v]
      BY <1>2, <1>4, <2>5, <3>1, <3>2 DEF Alone
    <3>4. w \in BarrierOf(info) /\ info'.prod[w] = info.prod[w] /\ info'.cons[w] = info.cons[w]
      BY <2>6, <3>1, <3>3
    <3> QED BY <1>2, <3>1, <3>2, <3>4 DEF Alone
  <2>9. Kept(stage', info', walk')
    BY <1>1, <1>2, <2>3, <2>4, <2>7, <2>8 DEF Kept
  <2> QED BY <1>1, <1>3, <2>9, SameKept
<1> QED BY <1>4, <1>5, <1>6

(* Splitting consumers keeps every edge between tasks.                     *)
LEMMA KeptConsumers ==
    ASSUME KeptInv, SplitBarrierConsumers
    PROVE  KeptInv'
<1> DEFINE v == Head(walk)
<1>0. SlotsGiven /\ N \in Nat /\ Task = Index(N)
  BY FunctionFacts DEF LegalInv, KeptInv
<1>1. stage = "consumers" /\ fn' = fn /\ stage' = "consumers"
  BY DEF SplitBarrierConsumers
<1>2. /\ Agreeing(N, info) /\ Forward(info) /\ Fed(info)
      /\ \A t \in Task : Children(info, t) = Children(fn.maps, t)
      /\ Alone(info, Task) /\ FirstFits(info)
  BY <1>1 DEF KeptInv, LegalInv, Legal, Kept
<1>3. LegalInv'
  BY LegalConsumers DEF KeptInv
<1>4. /\ v \in BarrierOf(info)
      /\ \/ info' = info
         \/ \E B, links : ConsumersSplit(v, B, links)
  BY ConsumersAreSplit DEF KeptInv
<1> HIDE DEF v
<1>5. CASE info' = info
  <2>1. Kept(stage', info', walk')
    BY <1>1, <1>2, <1>5 DEF Kept
  <2> QED BY <1>1, <1>3, <2>1, SameKept
<1>6. CASE \E B, links : ConsumersSplit(v, B, links)
  <2>1. PICK B, links : ConsumersSplit(v, B, links)
    BY <1>6
  <2>2. /\ ~Fits(info.cons[v])
        /\ \A x : x \in info.cons[v] <=> \E i \in 1..Len(B) : x \in B[i]
        /\ Len(links) = Len(B) /\ \A i \in 1..Len(B) : links[i][1] = info.prod[v] /\ links[i][2] = B[i]
        /\ Agreeing(N, info') /\ Accounted(info, v, links, info')
    BY <2>1 DEF ConsumersSplit, Batched, Substituted
  <2>3. \A t \in Task : Children(info', t) = Children(info, t)
    <3>1. \A x, u : x \in info.prod[v] /\ u \in info.cons[v] <=>
                \E i \in 1..Len(links) : x \in links[i][1] /\ u \in links[i][2]
      BY <2>2
    <3> QED BY <1>0, <1>2, <1>4, <2>2, <3>1, SplitEdges
  <2>4. Forward(info')
    BY <1>0, <1>2, <2>2, <2>3, SplitForward
  <2>5. info.prod[v] # {}
    BY <1>0, <1>2, <1>4, <2>2, NoneFits DEF Fed
  <2>6. ASSUME NEW w \in BarrierOf(info')
        PROVE  \/ info'.prod[w] = {} /\ info'.cons[w] = {}
               \/ \E x \in BarrierOf(info) : /\ info'.prod[w] = info.prod[x]
                                             /\ info'.cons[w] \subseteq info.cons[x]
    BY <1>4, <2>2 DEF Accounted
  <2>7. Fed(info') /\ FirstFits(info')
    BY <1>2, <2>6 DEF Fed, FirstFits
  <2>8. Alone(info', Task)
    BY <1>2, <2>6 DEF Alone
  <2>9. Kept(stage', info', walk')
    BY <1>1, <1>2, <2>3, <2>4, <2>7, <2>8 DEF Kept
  <2> QED BY <1>1, <1>3, <2>9, SameKept
<1> QED BY <1>4, <1>5, <1>6

-----------------------------------------------------------------------------
(* Neither the check of the slots nor the change of the walk changes the   *)
(* barriers.                                                               *)
LEMMA KeptVerify ==
    ASSUME KeptInv, Verify \/ StartSplitOfConsumers
    PROVE  KeptInv'
<1>1. /\ stage \in {"verify", "producers"} /\ stage' \in {"thrown", "producers", "consumers"}
      /\ fn' = fn /\ info' = info
  BY DEF Verify, StartSplitOfConsumers
<1>2. LegalInv'
  BY LegalVerify, LegalBetween DEF KeptInv
<1>3. Kept(stage', info', walk')
  BY <1>1 DEF KeptInv, Kept
<1> QED BY <1>1, <1>2, <1>3, SameKept

(* Under other numbers the barriers lead forward as before.                *)
LEMMA RenamedKeeps ==
    ASSUME NEW n, NEW b, NEW c, Renamed(n, b, c)
    PROVE  /\ Fed(b) => Fed(c)
           /\ \A U : Alone(b, U) => Alone(c, U)
<1>1. \A w \in BarrierOf(c) : \E v \in BarrierOf(b) : c.prod[w] = b.prod[v] /\ c.cons[w] = b.cons[v]
  BY DEF Renamed
<1>2. Fed(b) => Fed(c)
  BY <1>1 DEF Fed
<1>3. \A U : Alone(b, U) => Alone(c, U)
  BY <1>1 DEF Alone
<1> QED BY <1>2, <1>3

(* Rebuilding the IR keeps every edge between tasks.                       *)
LEMMA KeptStartOneWait ==
    ASSUME KeptInv, StartOneWait
    PROVE  KeptInv'
<1>0. /\ SlotsGiven /\ N \in Nat /\ Task = Index(N) /\ Task \subseteq Int
      /\ Agreeing(N, fn.maps) /\ Forward(fn.maps)
  BY FunctionFacts DEF LegalInv, KeptInv
<1>1. /\ stage = "consumers" /\ stage' = "oneWait" /\ walk' = Ascending(Task)
      /\ fn' = fn /\ info' = Rebuilt(info, order)
  BY DEF StartOneWait
<1>2. /\ Agreeing(N, info) /\ ListsAll(order, BarrierOf(info)) /\ Forward(info) /\ Fed(info)
      /\ \A t \in Task : Children(info, t) = Children(fn.maps, t)
      /\ Alone(info, Task)
  BY <1>1 DEF KeptInv, LegalInv, Legal, InOrder, Kept
<1>3. Renamed(N, info, info') /\ \A t \in Task : Children(info', t) = Children(info, t)
  BY <1>0, <1>1, <1>2, OrderRebuilds
<1>4. Agreeing(N, info')
  BY <1>3 DEF Renamed
<1>5. Forward(info') /\ RunsAfter(info') = RunsAfter(fn.maps)
  <2>1. \A t \in Index(N) : Children(info', t) = Children(fn.maps, t)
    BY <1>0, <1>2, <1>3
  <2> QED BY <1>0, <1>4, <2>1, SameEdgesSameOrder
<1>6. Fed(info') /\ Alone(info', Task)
  BY <1>2, <1>3, RenamedKeeps
<1>7. Alone(info', Left(walk'))
  BY <1>6 DEF Alone, Left
<1>8. Rising(walk')
  <2> DEFINE k == Cardinality(Task)
             s == Ascending(Task)
  <2>1. k \in Nat /\ s \in [1..k -> Task] /\ \A i, j \in 1..k : i < j <=> s[i] < s[j]
    BY <1>0, AscendingLists DEF Enumerates, SlotsGiven
  <2> HIDE DEF k, s
  <2>2. Len(s) = k
    BY <2>1
  <2>3. Rising(s)
    BY <2>1, <2>2 DEF Rising
  <2> QED BY <1>1, <2>3 DEF s
<1>9. Kept(stage', info', walk')
  BY <1>1, <1>5, <1>6, <1>7, <1>8 DEF Kept
<1>10. LegalInv'
  BY LegalStartOneWait DEF KeptInv
<1> QED BY <1>1, <1>9, <1>10, SameKept

(* What is left of the walk comes later in the program.                    *)
LEMMA WalkRises ==
    ASSUME NEW T, NEW wk \in Seq(T), wk # <<>>, Rising(wk)
    PROVE  Rising(Tail(wk)) /\ \A u \in Left(Tail(wk)) : u \in Left(wk) /\ Head(wk) < u
<1> DEFINE h == Head(wk)
           r == Tail(wk)
<1>1. /\ Len(wk) \in Nat \ {0} /\ Len(r) = Len(wk) - 1 /\ h = wk[1]
      /\ \A i \in 1..Len(r) : r[i] = wk[i + 1]
      /\ \A x : Occurs(x, r) => Occurs(x, wk)
  BY HeadAndTail
<1> HIDE DEF h, r
<1>2. \A i \in 1..Len(r) : i + 1 \in 1..Len(wk) /\ 1 < i + 1 /\ 1 \in 1..Len(wk)
  BY <1>1
<1>3. \A i \in 1..Len(r) : h < r[i]
  BY <1>1, <1>2 DEF Rising
<1>4. Rising(r)
  <2> SUFFICES ASSUME NEW i \in 1..Len(r), NEW j \in 1..Len(r), i < j PROVE r[i] < r[j]
    BY DEF Rising
  <2>1. i + 1 < j + 1
    BY <1>1
  <2> QED BY <1>1, <1>2, <2>1 DEF Rising
<1>5. \A u \in Left(r) : u \in Left(wk) /\ h < u
  BY <1>1, <1>3 DEF Left, Occurs
<1> QED BY <1>4, <1>5 DEF h, r

(* ensureTaskDrivenBySingleBarrier: the batches follow each other, and the *)
(* task follows them all.                                                  *)
LEMMA DrivenInLine ==
    ASSUME KeptInv, stage = "oneWait", NEW t \in Left(walk), info.wait[t] # {},
           EnsureTaskDrivenBySingleBarrier(t)
    PROVE  \E B : /\ Batched(B, Parents(info, t)) /\ InLine(B)
                  /\ Driven(t, B, info')
<1>0. SlotsGiven /\ N \in Nat /\ Task = Index(N) /\ t \in Task
  BY FunctionFacts DEF LegalInv, KeptInv, Left
<1>1. /\ Agreeing(N, info) /\ \A u \in Task : fn.slots[u] <= Available
      /\ \A v \in BarrierOf(info) : Fits(info.prod[v])
      /\ Fed(info) /\ Alone(info, Left(walk))
  BY DEF KeptInv, LegalInv, Legal, SplitAsFar, Kept
<1>2. PICK B : /\ Batched(B, Parents(info, t))
               /\ info' = Unlinked(Chained(t, B), t, info.wait[t])
               /\ Fits(Parents(info, t)) /\ Parents(info, t) # {} => InLine(B)
               /\ (/\ info.wait[t] # {}
                   /\ \A v \in info.wait[t] : info.prod[v] # {} /\ 0 \notin info.prod[v]) => InLine(B)
  BY <1>0, <1>1, ChosenBatches
<1>3. Driven(t, B, info')
  BY <1>0, <1>1, <1>2, DrivenFacts DEF Batched
<1>4. \A v \in info.wait[t] : v \in BarrierOf(info) /\ t \in info.cons[v] /\ info.prod[v] # {}
  BY <1>0, <1>1, Members DEF TwoSided, Fed
<1>5. InLine(B)
  <2>1. CASE \A v \in info.wait[t] : 0 \notin info.prod[v]
    BY <1>2, <1>4, <2>1
  <2>2. CASE \E v \in info.wait[t] : 0 \in info.prod[v]
    <3>1. PICK v \in info.wait[t] : 0 \in info.prod[v]
      BY <2>2
    <3>2. \A w \in info.wait[t] : info.prod[w] = info.prod[v]
      BY <1>1, <1>4, <3>1 DEF Alone
    <3>3. Parents(info, t) = info.prod[v]
      <4>1. \A u : u \in Parents(info, t) <=> \E w \in info.wait[t] : u \in info.prod[w]
        BY ChildMember
      <4> QED BY <3>2, <4>1 DEF Parents
    <3> QED BY <1>1, <1>2, <1>4, <3>1, <3>3
  <2> QED BY <2>1, <2>2
<1> QED BY <1>2, <1>3, <1>5

(* All barriers of the chain lead forward.                                 *)
LEMMA DrivenForward ==
    ASSUME Task = Index(N), Task \subseteq Int, Agreeing(N, info), Forward(info), NEW t \in Task,
           NEW B, Batched(B, Parents(info, t)), InLine(B), NEW c, Driven(t, B, c)
    PROVE  Forward(c) /\ \A x \in Parents(info, t) : x < t
<1>1. \A x \in Parents(info, t) : x < t
  BY ChildMember, Members DEF TwoSided, Forward
<1>2. \A i \in 1..Len(B) : \A x \in B[i], u \in NextInChain(t, B, i) : x < u
  <2>1. Len(B) \in Nat /\ \A i \in 1..Len(B) : i # Len(B) => i + 1 \in 1..Len(B) /\ i < i + 1
    BY DEF Batched
  <2>2. \A i \in 1..Len(B) : \A x \in B[i] : x < t
    BY <1>1 DEF Batched
  <2> QED BY <2>1, <2>2 DEF NextInChain, InLine
<1>3. ASSUME NEW v \in BarrierOf(c), NEW x \in c.prod[v], NEW u \in c.cons[v] PROVE x < u
  <2>1. CASE v \in BarrierOf(info)
    <3>1. x \in info.prod[v] /\ u \in info.cons[v]
      <4>1. c.prod[v] \subseteq info.prod[v] /\ c.cons[v] \subseteq info.cons[v]
        BY <2>1 DEF Driven
      <4> QED BY <1>3, <4>1
    <3> QED BY <2>1, <3>1 DEF Forward
  <2>2. CASE v \notin BarrierOf(info)
    BY <1>2, <1>3, <2>2 DEF Driven
  <2> QED BY <2>1, <2>2
<1> QED BY <1>1, <1>3 DEF Forward

(* The chain takes every producer to the task.                             *)
LEMMA ChainReaches ==
    ASSUME N \in Nat, Task = Index(N), NEW t \in Task, NEW P, NEW B, Batched(B, P), InLine(B),
           NEW c, Driven(t, B, c), Forward(c)
    PROVE  \A x \in P : t \in RunsAfter(c)[x]
<1> DEFINE k == Len(B)
           Good == {j \in 0..k : j = 0 \/ \A x \in B[k + 1 - j] : t \in RunsAfter(c)[x]}
<1>1. /\ k \in Nat /\ \A i \in 1..k : B[i] \in SUBSET Task /\ B[i] # {}
      /\ \A x : x \in P <=> \E i \in 1..k : x \in B[i]
      /\ Agreeing(N, c)
  BY DEF Batched, InLine, Driven
<1>2. \A i \in 1..k : \A x \in B[i], u \in NextInChain(t, B, i) : u \in Children(c, x)
  <2> SUFFICES ASSUME NEW i \in 1..k, NEW x \in B[i], NEW u \in NextInChain(t, B, i)
               PROVE  u \in Children(c, x)
    OBVIOUS
  <2>1. PICK v \in BarrierOf(c) : c.prod[v] = B[i] /\ c.cons[v] = NextInChain(t, B, i)
    BY DEF Driven
  <2>2. x \in Index(N)
    BY <1>1
  <2> QED BY <1>1, <2>1, <2>2, Edges
<1>3. \A x \in Task : \A u : u \in RunsAfter(c)[x] <=>
            u \in Children(c, x) \/ \E s \in Children(c, x) : u \in RunsAfter(c)[s]
  BY <1>1, OrderFacts
<1>4. ASSUME NEW j \in 1..k, j - 1 \in Good PROVE j \in Good
  <2> DEFINE i == k + 1 - j
  <2>1. i \in 1..k /\ j \in 0..k
    BY <1>1
  <2>2. ASSUME NEW x \in B[i] PROVE t \in RunsAfter(c)[x]
    <3>1. x \in Task
      BY <1>1, <2>1
    <3>2. CASE j = 1
      <4>1. i = Len(B)
        BY <1>1, <3>2
      <4>2. t \in NextInChain(t, B, i)
        BY <4>1 DEF NextInChain
      <4> HIDE DEF i
      <4> QED BY <1>2, <1>3, <2>1, <2>2, <3>1, <4>2
    <3>3. CASE j # 1
      <4>1. i # Len(B) /\ i + 1 = k + 1 - (j - 1) /\ j - 1 # 0 /\ i + 1 \in 1..k
        BY <1>1, <3>3
      <4>2. \A y \in B[i + 1] : t \in RunsAfter(c)[y]
        <5>1. \A y \in B[k + 1 - (j - 1)] : t \in RunsAfter(c)[y]
          BY <1>4, <4>1
        <5> QED BY <4>1, <5>1
      <4>3. PICK y \in B[i + 1] : TRUE
        BY <1>1, <4>1
      <4>4. y \in NextInChain(t, B, i)
        BY <4>1, <4>3 DEF NextInChain
      <4> HIDE DEF i
      <4> QED BY <1>2, <1>3, <2>1, <2>2, <3>1, <4>2, <4>3, <4>4
    <3> QED BY <3>2, <3>3
  <2> QED BY <2>1, <2>2
<1>5. 0..k \subseteq Good
  <2>1. 0 \in Good
    BY <1>1
  <2> HIDE DEF Good
  <2> QED BY <1>1, <1>4, <2>1, CountUp
<1>6. ASSUME NEW x \in P PROVE t \in RunsAfter(c)[x]
  <2>1. PICK i \in 1..k : x \in B[i]
    BY <1>1, <1>6
  <2>2. k + 1 - i \in 0..k /\ k + 1 - i # 0 /\ k + 1 - (k + 1 - i) = i
    BY <1>1
  <2>3. \A y \in B[k + 1 - (k + 1 - i)] : t \in RunsAfter(c)[y]
    BY <1>5, <2>2
  <2> QED BY <2>1, <2>2, <2>3
<1> QED BY <1>6

(* Every edge that is unlinked has a path along the chain.                 *)
LEMMA DrivenKeepsEdges ==
    ASSUME N \in Nat, Task = Index(N), Agreeing(N, info), NEW t \in Task,
           NEW B, Batched(B, Parents(info, t)), InLine(B), NEW c, Driven(t, B, c), Forward(c)
    PROVE  \A x \in Task : Children(info, x) \subseteq RunsAfter(c)[x]
<1> SUFFICES ASSUME NEW x \in Task, NEW u \in Children(info, x) PROVE u \in RunsAfter(c)[x]
  OBVIOUS
<1>1. PICK v \in BarrierOf(info) : x \in info.prod[v] /\ u \in info.cons[v]
  BY Edges
<1>2. CASE v \in info.wait[t] /\ u = t
  <2>1. x \in Parents(info, t)
    BY <1>1, <1>2, ChildMember
  <2> QED BY <1>2, <2>1, ChainReaches
<1>3. CASE ~(v \in info.wait[t] /\ u = t)
  <2>1. v \in BarrierOf(c) /\ x \in c.prod[v] /\ u \in c.cons[v]
    <3>1. v \in info.wait[t] => info.cons[v] # {t}
      BY <1>1, <1>3
    <3> QED BY <1>1, <1>3, <3>1 DEF Driven
  <2>2. u \in Children(c, x)
    BY <2>1, Edges DEF Driven
  <2> QED BY <2>2, OrderFacts DEF Driven
<1> QED BY <1>2, <1>3

(* Giving a task a single wait barrier loses no order.                     *)
LEMMA KeptSatisfy ==
    ASSUME KeptInv, SatisfyOneWaitBarrier
    PROVE  KeptInv'
<1> DEFINE t == Head(walk)
<1>0. /\ SlotsGiven /\ N \in Nat /\ Task = Index(N) /\ Task \subseteq Int
      /\ Agreeing(N, fn.maps) /\ Forward(fn.maps)
  BY FunctionFacts DEF LegalInv, KeptInv
<1>1. /\ stage = "oneWait" /\ walk # <<>> /\ walk' = Tail(walk) /\ fn' = fn /\ stage' = "oneWait"
      /\ info' = info \/ (~(Cardinality(info.wait[t]) < 2) /\ EnsureTaskDrivenBySingleBarrier(t))
  BY DEF SatisfyOneWaitBarrier
<1>2. /\ Agreeing(N, info) /\ walk \in Seq(Task) /\ Forward(info) /\ Fed(info)
      /\ \A x \in Task : RunsAfter(fn.maps)[x] \subseteq RunsAfter(info)[x]
      /\ Alone(info, Left(walk)) /\ Rising(walk)
  BY <1>1 DEF KeptInv, LegalInv, Legal, InOrder, Kept
<1>3. LegalInv'
  BY LegalSatisfy DEF KeptInv
<1>4. /\ t \in Left(walk) /\ t \in Task
      /\ Rising(walk') /\ \A u \in Left(walk') : u \in Left(walk) /\ t < u
  BY <1>1, <1>2, HeadAndTail, WalkRises DEF Left
<1> HIDE DEF t
<1>5. CASE info' = info
  <2>1. Alone(info', Left(walk'))
    BY <1>2, <1>4, <1>5 DEF Alone
  <2>2. Kept(stage', info', walk')
    BY <1>1, <1>2, <1>4, <1>5, <2>1 DEF Kept
  <2> QED BY <1>1, <1>3, <2>2, SameKept
<1>6. CASE ~(Cardinality(info.wait[t]) < 2) /\ EnsureTaskDrivenBySingleBarrier(t)
  <2>1. info.wait[t] # {}
    BY <1>6, FS_EmptySet
  <2>2. PICK B : Batched(B, Parents(info, t)) /\ InLine(B) /\ Driven(t, B, info')
    BY <1>1, <1>4, <1>6, <2>1, DrivenInLine
  <2>3. Agreeing(N, info')
    BY <2>2 DEF Driven
  <2>4. Forward(info') /\ \A x \in Parents(info, t) : x < t
    BY <1>0, <1>2, <1>4, <2>2, DrivenForward
  <2>5. \A x \in Task : Children(info, x) \subseteq RunsAfter(info')[x]
    BY <1>0, <1>2, <1>4, <2>2, <2>4, DrivenKeepsEdges
  <2>6. \A x \in Task : RunsAfter(fn.maps)[x] \subseteq RunsAfter(info')[x]
    <3>1. \A x \in Index(N) : RunsAfter(info)[x] \subseteq RunsAfter(info')[x]
      BY <1>0, <1>2, <2>3, <2>4, <2>5, OrderGrows
    <3> QED BY <1>0, <1>2, <3>1
  <2>7. ASSUME NEW v \in BarrierOf(info')
        PROVE  \/ info'.prod[v] = {} /\ info'.cons[v] = {}
               \/ /\ v \in BarrierOf(info) /\ info'.prod[v] = info.prod[v]
                  /\ info'.cons[v] \subseteq info.cons[v]
               \/ /\ info'.prod[v] # {}
                  /\ \A u \in info'.cons[v] : u = t \/ u \in Parents(info, t)
    <3>1. CASE v \in BarrierOf(info)
      BY <3>1, <2>2 DEF Driven
    <3>2. CASE v \notin BarrierOf(info)
      <4>1. PICK i \in 1..Len(B) : info'.prod[v] = B[i] /\ info'.cons[v] = NextInChain(t, B, i)
        BY <2>2, <3>2 DEF Driven
      <4>2. Len(B) \in Nat /\ (i # Len(B) => i + 1 \in 1..Len(B))
        BY <2>2 DEF Batched
      <4>3. B[i] # {} /\ \A u \in NextInChain(t, B, i) : u = t \/ u \in Parents(info, t)
        BY <2>2, <4>2 DEF Batched, InLine, NextInChain
      <4> QED BY <4>1, <4>3
    <3> QED BY <3>1, <3>2
  <2>8. Fed(info')
    BY <1>2, <2>7 DEF Fed
  <2>9. Alone(info', Left(walk'))
    <3>1. ASSUME NEW v \in BarrierOf(info'), NEW u \in Left(walk'), u \in info'.cons[v]
          PROVE  v \in BarrierOf(info) /\ info'.prod[v] = info.prod[v] /\ u \in info.cons[v]
      <4>1. u \in Int /\ t \in Int /\ t < u /\ \A x \in Parents(info, t) : x < t
        BY <1>0, <1>4, <2>4 DEF Left
      <4>2. u # t /\ u \notin Parents(info, t)
        BY <4>1
      <4> QED BY <2>7, <3>1, <4>2
    <3> QED BY <1>2, <1>4, <3>1 DEF Alone
  <2>10. Kept(stage', info', walk')
    BY <1>1, <1>4, <2>4, <2>6, <2>8, <2>9 DEF Kept
  <2> QED BY <1>1, <1>3, <2>10, SameKept
<1> QED BY <1>1, <1>5, <1>6

(* Ordering the barriers loses no order.                                   *)
LEMMA KeptFinish ==
    ASSUME KeptInv, FinishOneWait
    PROVE  KeptInv'
<1>0. N \in Nat /\ Task = Index(N)
  BY FunctionFacts DEF LegalInv, KeptInv
<1>1. /\ stage = "oneWait" /\ fn' = fn /\ stage' = "done"
      /\ info' = info \/ info' = Rebuilt(info, BarrierOrder(info))
  BY DEF FinishOneWait
<1>2. /\ Agreeing(N, info) /\ Forward(info) /\ Fed(info)
      /\ \A t \in Task : RunsAfter(fn.maps)[t] \subseteq RunsAfter(info)[t]
  BY <1>1 DEF KeptInv, LegalInv, Legal, Kept
<1>3. LegalInv'
  BY LegalFinish DEF KeptInv
<1>4. Forward(info') /\ Fed(info') /\ RunsAfter(info') = RunsAfter(info)
  <2>1. CASE info' = Rebuilt(info, BarrierOrder(info))
    <3>1. Renamed(N, info, info') /\ \A t \in Index(N) : Children(info', t) = Children(info, t)
      BY <1>0, <1>2, <2>1, OrderedRebuilds
    <3>2. Agreeing(N, info')
      BY <3>1 DEF Renamed
    <3>3. Forward(info') /\ RunsAfter(info') = RunsAfter(info)
      BY <1>0, <1>2, <3>1, <3>2, SameEdgesSameOrder
    <3> QED BY <1>2, <3>1, <3>3, RenamedKeeps
  <2> QED BY <1>1, <1>2, <2>1
<1>5. Kept(stage', info', walk')
  BY <1>1, <1>2, <1>4 DEF Kept
<1> QED BY <1>1, <1>3, <1>5, SameKept

(* KeptInv is inductive: one case per step of the passes.                  *)
LEMMA KeptNext == KeptInv /\ [Next]_vars => KeptInv'
<1> SUFFICES ASSUME KeptInv, [Next]_vars PROVE KeptInv'
  OBVIOUS
<1>1. CASE UNCHANGED vars
  <2>1. LegalInv'
    BY LegalNext DEF KeptInv
  <2>2. fn' = fn /\ Kept(stage', info', walk')
    BY <1>1 DEF vars, KeptInv
  <2> QED BY <2>1, <2>2, SameKept
<1>2. CASE Next
  BY <1>1, <1>2, KeptVerify, KeptProducers, KeptConsumers, KeptStartOneWait,
     KeptSatisfy, KeptFinish DEF Next, Returned
<1> QED BY <1>1, <1>2

(* What the invariant says of the order of the tasks.                      *)
LEMMA KeptOrder == KeptInv => ConsumersFollowProducers /\ OrderKept
<1> SUFFICES ASSUME KeptInv PROVE ConsumersFollowProducers /\ OrderKept
  OBVIOUS
<1>0. N \in Nat /\ Task = Index(N) /\ Agreeing(N, fn.maps) /\ Forward(fn.maps)
  BY FunctionFacts DEF LegalInv, KeptInv
<1>1. ConsumersFollowProducers
  BY DEF KeptInv, Kept, Forward, ConsumersFollowProducers
<1>2. CASE stage \in {"oneWait", "done"}
  BY <1>1, <1>2 DEF KeptInv, Kept, OrderKept
<1>3. CASE stage \notin {"oneWait", "done"}
  <2>1. Agreeing(N, info) /\ \A t \in Task : Children(info, t) = Children(fn.maps, t)
    BY <1>3 DEF KeptInv, LegalInv, Legal, Kept
  <2>2. RunsAfter(info) = RunsAfter(fn.maps)
    BY <1>0, <2>1, SameEdgesSameOrder
  <2> QED BY <1>1, <1>3, <2>2 DEF OrderKept
<1> QED BY <1>2, <1>3

(* No task ever waits for a later one or for itself, in a function whose   *)
(* first task is met as FirstTaskAlone says: createProducerBatches excepts *)
(* that task from its order constraint.                                    *)
THEOREM ConsumersStayBehind ==
    (\A f \in Functions : FirstTaskAlone(f)) => (Spec => []ConsumersFollowProducers)
<1> SUFFICES ASSUME \A f \in Functions : FirstTaskAlone(f)
             PROVE  Spec => []ConsumersFollowProducers
  OBVIOUS
<1>1. Init => KeptInv
  BY KeptInit
<1> QED BY <1>1, KeptNext, KeptOrder, PTL DEF Spec

(* Splitting changes nothing about which task runs after which, and        *)
(* ensureTaskDrivenBySingleBarrier only adds to it, at every step of its   *)
(* walk, under the same condition on the first task.                       *)
THEOREM OrderIsKept ==
    (\A f \in Functions : FirstTaskAlone(f)) => (Spec => []OrderKept)
<1> SUFFICES ASSUME \A f \in Functions : FirstTaskAlone(f)
             PROVE  Spec => []OrderKept
  OBVIOUS
<1>1. Init => KeptInv
  BY KeptInit
<1> QED BY <1>1, KeptNext, KeptOrder, PTL DEF Spec
=============================================================================
