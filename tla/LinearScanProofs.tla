-------------------------- MODULE LinearScanProofs --------------------------
(***************************************************************************)
(* What the methods of the partitioner do to the gaps and to the addresses *)
(* they cover, for memories of any size; and the linear scan on top of it, *)
(* which accounts for every address of its memory, for every memory, every *)
(* set of live ranges and every list of requests.                          *)
(***************************************************************************)
EXTENDS LinearScan, SequenceTheorems, WellFoundedInduction, TLAPS

LEMMA InsertAtProperties ==
    ASSUME NEW T, NEW s \in Seq(T), NEW i \in 1..(Len(s) + 1), NEW e \in T
    PROVE  /\ InsertAt(s, i, e) \in Seq(T)
           /\ Len(InsertAt(s, i, e)) = Len(s) + 1
           /\ \A j \in 1..(Len(s) + 1) :
                InsertAt(s, i, e)[j] = IF j < i THEN s[j] ELSE IF j = i THEN e ELSE s[j - 1]
<1> DEFINE a == SubSeq(s, 1, i - 1)
           b == SubSeq(s, i, Len(s))
           c == a \o <<e>>
<1>0. Len(s) \in Nat /\ i \in Int /\ \A j \in 1..(Len(s) + 1) : j \in Int
  OBVIOUS
<1>1. a \in Seq(T) /\ Len(a) = i - 1 /\ \A j \in 1..(i - 1) : a[j] = s[j]
  OBVIOUS
<1>2. b \in Seq(T) /\ Len(b) = Len(s) - i + 1 /\ \A j \in 1..(Len(s) - i + 1) : b[j] = s[i + j - 1]
  OBVIOUS
<1>3. InsertAt(s, i, e) = c \o b
  BY DEF InsertAt
<1> HIDE DEF a, b
<1>4. c \in Seq(T) /\ Len(c) = i /\ \A j \in 1..i : c[j] = IF j < i THEN s[j] ELSE e
  BY <1>1
<1> HIDE DEF c
<1>5. c \o b \in Seq(T) /\ Len(c \o b) = Len(s) + 1
  <2>1. c \o b \in Seq(T) /\ Len(c \o b) = Len(c) + Len(b)
    BY <1>2, <1>4, ConcatProperties
  <2>2. Len(c) + Len(b) = Len(s) + 1
    BY <1>0, <1>2, <1>4
  <2> QED  BY <2>1, <2>2
<1>6. ASSUME NEW j \in 1..(Len(s) + 1)
      PROVE  (c \o b)[j] = IF j < i THEN s[j] ELSE IF j = i THEN e ELSE s[j - 1]
  <2>1. CASE j <= i
    <3>1. (c \o b)[j] = c[j]
      BY <1>2, <1>4, <2>1
    <3> QED  BY <3>1, <1>4, <2>1
  <2>2. CASE j > i
    <3>1. (c \o b)[j] = b[j - i]
      BY <1>2, <1>4, <2>2
    <3>2. j - i \in 1..(Len(s) - i + 1) /\ i + (j - i) - 1 = j - 1
      BY <2>2
    <3> QED  BY <3>1, <3>2, <1>2, <2>2
  <2>3. j <= i \/ j > i
    BY <1>0
  <2> QED  BY <2>1, <2>2, <2>3, Zenon
<1> QED
  BY <1>3, <1>5, <1>6

LEMMA RemoveAtProperties ==
    ASSUME NEW T, NEW s \in Seq(T), NEW i \in 1..Len(s)
    PROVE  /\ RemoveAt(s, i) \in Seq(T)
           /\ Len(RemoveAt(s, i)) = Len(s) - 1
           /\ \A j \in 1..(Len(s) - 1) : RemoveAt(s, i)[j] = IF j < i THEN s[j] ELSE s[j + 1]
<1> DEFINE a == SubSeq(s, 1, i - 1)
           b == SubSeq(s, i + 1, Len(s))
<1>0. Len(s) \in Nat /\ i \in Int /\ \A j \in 1..(Len(s) + 1) : j \in Int
  OBVIOUS
<1>1. a \in Seq(T) /\ Len(a) = i - 1 /\ \A j \in 1..(i - 1) : a[j] = s[j]
  OBVIOUS
<1>2. b \in Seq(T) /\ Len(b) = Len(s) - i /\ \A j \in 1..(Len(s) - i) : b[j] = s[i + j]
  OBVIOUS
<1>3. RemoveAt(s, i) = a \o b
  BY DEF RemoveAt
<1> HIDE DEF a, b
<1>4. a \o b \in Seq(T) /\ Len(a \o b) = Len(s) - 1
  <2>1. a \o b \in Seq(T) /\ Len(a \o b) = Len(a) + Len(b)
    BY <1>1, <1>2, ConcatProperties
  <2>2. Len(a) + Len(b) = Len(s) - 1
    BY <1>0, <1>1, <1>2
  <2> QED  BY <2>1, <2>2
<1>5. ASSUME NEW j \in 1..(Len(s) - 1)
      PROVE  (a \o b)[j] = IF j < i THEN s[j] ELSE s[j + 1]
  <2>1. CASE j < i
    <3>1. (a \o b)[j] = a[j]
      BY <1>1, <1>2, <2>1
    <3> QED  BY <3>1, <1>1, <2>1
  <2>2. CASE j >= i
    <3>1. (a \o b)[j] = b[j - i + 1]
      BY <1>1, <1>2, <2>2
    <3>2. j - i + 1 \in 1..(Len(s) - i) /\ i + (j - i + 1) = j + 1
      BY <1>0, <2>2
    <3>3. b[j - i + 1] = s[i + (j - i + 1)]
      BY <1>2, <3>2
    <3>4. ~(j < i)
      BY <1>0, <2>2
    <3> QED  BY <3>1, <3>2, <3>3, <3>4, Zenon
  <2>3. j < i \/ j >= i
    BY <1>0
  <2> QED  BY <2>1, <2>2, <2>3, Zenon
<1> QED
  BY <1>3, <1>4, <1>5

LEMMA MinimumExists ==
    ASSUME NEW T \in SUBSET Nat, T # {}
    PROVE  \E m \in T : \A k \in T : m <= k
<1> DEFINE R == OpToRel(<, Nat)
<1>1. IsWellFoundedOn(R, Nat)
  BY NatLessThanWellFounded
<1>2. \A k, m \in Nat : k < m => <<k, m>> \in R
  BY DEF OpToRel
<1> HIDE DEF R
<1>3. PICK m \in T : \A k \in T : <<k, m>> \notin R
  BY <1>1, WFMin
<1>4. ASSUME NEW k \in T PROVE m <= k
  <2>1. k \in Nat /\ m \in Nat
    OBVIOUS
  <2>2. ~(k < m)
    BY <2>1, <1>2, <1>3
  <2> QED  BY <2>1, <2>2
<1> QED  BY <1>4

LEMMA AlignedAbove ==
    ASSUME NEW val \in Nat, NEW alignment \in Nat \ {0}
    PROVE  alignValUp(val, alignment) \in Nat /\ alignValUp(val, alignment) >= val
BY DEF alignValUp

(* What a vector of gaps is: gaps of a memory of M bytes.                  *)
GapVectors(M) == Seq([begin : 0..M, end : 0..M])
Within(a, begin, end) == begin <= a /\ a < end

LEMMA GapVectorElements ==
    ASSUME NEW M \in Nat, NEW gvec \in GapVectors(M)
    PROVE  /\ Len(gvec) \in Nat /\ DOMAIN gvec = 1..Len(gvec)
           /\ \A i \in 1..Len(gvec) : gvec[i].begin \in 0..M /\ gvec[i].end \in 0..M
<1> DEFINE T == [begin : 0..M, end : 0..M]
<1>1. gvec \in Seq(T)
  BY DEF GapVectors
<1>2. ASSUME NEW e \in T PROVE e.begin \in 0..M /\ e.end \in 0..M
  OBVIOUS
<1> HIDE DEF T
<1>3. \A i \in 1..Len(gvec) : gvec[i] \in T
  BY <1>1
<1> QED  BY <1>1, <1>2, <1>3

LEMMA GapsApart ==
    ASSUME NEW M \in Nat, NEW gvec \in GapVectors(M), Separated(gvec),
           NEW i \in DOMAIN gvec, NEW j \in DOMAIN gvec, i # j,
           NEW a \in Int, Within(a, gvec[j].begin, gvec[j].end)
    PROVE  ~Within(a, gvec[i].begin, gvec[i].end)
<1>1. i \in 1..Len(gvec) /\ j \in 1..Len(gvec) /\ i \in Int /\ j \in Int
  BY GapVectorElements
<1>2. /\ gvec[i].begin \in Int /\ gvec[i].end \in Int
      /\ gvec[j].begin \in Int /\ gvec[j].end \in Int
  BY <1>1, GapVectorElements
<1>3. i < j \/ j < i
  BY <1>1
<1>4. gvec[i].end < gvec[j].begin \/ gvec[j].end < gvec[i].begin
  BY <1>3 DEF Separated
<1> QED  BY <1>2, <1>4 DEF Within

LEMMA RemoveGap ==
    ASSUME NEW M \in Nat, NEW gvec \in GapVectors(M), Separated(gvec), NEW i \in DOMAIN gvec
    PROVE  /\ RemoveAt(gvec, i) \in GapVectors(M)
           /\ Separated(RemoveAt(gvec, i))
           /\ \A a \in Int : Covered(RemoveAt(gvec, i), a)
                <=> Covered(gvec, a) /\ ~Within(a, gvec[i].begin, gvec[i].end)
<1> DEFINE new == RemoveAt(gvec, i)
           T == [begin : 0..M, end : 0..M]
           Old(j) == IF j < i THEN j ELSE j + 1
<1>1. gvec \in Seq(T) /\ i \in 1..Len(gvec) /\ Len(gvec) \in Nat
  BY DEF GapVectors
<1>2. /\ new \in Seq(T) /\ Len(new) = Len(gvec) - 1
      /\ \A j \in 1..(Len(gvec) - 1) : new[j] = gvec[Old(j)]
  <2>1. /\ new \in Seq(T) /\ Len(new) = Len(gvec) - 1
        /\ \A j \in 1..(Len(gvec) - 1) : new[j] = IF j < i THEN gvec[j] ELSE gvec[j + 1]
    BY <1>1, RemoveAtProperties
  <2> QED  BY <2>1, <1>1
<1>3. DOMAIN new = 1..(Len(gvec) - 1) /\ DOMAIN gvec = 1..Len(gvec)
  BY <1>1, <1>2
<1>4. \A j \in 1..Len(gvec) : gvec[j].begin \in Int /\ gvec[j].end \in Int
  BY GapVectorElements
<1>5. \A j \in DOMAIN new : Old(j) \in DOMAIN gvec /\ Old(j) # i
  BY <1>1, <1>3, SMTT(20)
<1>6. ASSUME NEW j \in DOMAIN new, NEW k \in DOMAIN new, j < k PROVE Old(j) < Old(k)
  <2>1. j \in Int /\ k \in Int /\ i \in Int
    BY <1>1, <1>3
  <2> QED  BY <2>1, <1>6
<1>7. \A k \in DOMAIN gvec : k # i => \E j \in DOMAIN new : Old(j) = k
  <2> SUFFICES ASSUME NEW k \in DOMAIN gvec, k # i PROVE \E j \in DOMAIN new : Old(j) = k
    OBVIOUS
  <2>1. CASE k < i  BY <1>1, <1>3, <2>1
  <2>2. CASE k > i
    <3>1. k - 1 \in DOMAIN new /\ Old(k - 1) = k
      BY <1>1, <1>3, <2>2
    <3> QED  BY <3>1
  <2> QED  BY <2>1, <2>2, <1>1, <1>3
<1> HIDE DEF new, Old
<1>8. Separated(new)
  BY <1>2, <1>3, <1>5, <1>6 DEF Separated
<1>9. ASSUME NEW a \in Int
      PROVE  Covered(new, a) <=> Covered(gvec, a) /\ ~Within(a, gvec[i].begin, gvec[i].end)
  <2>1. ASSUME NEW j \in DOMAIN new, new[j].begin <= a, a < new[j].end
        PROVE  Covered(gvec, a) /\ ~Within(a, gvec[i].begin, gvec[i].end)
    <3>1. Old(j) \in DOMAIN gvec /\ Old(j) # i /\ new[j] = gvec[Old(j)]
      BY <1>2, <1>3, <1>5
    <3>2. Within(a, gvec[Old(j)].begin, gvec[Old(j)].end)
      BY <3>1, <2>1 DEF Within
    <3>3. Covered(gvec, a)
      BY <3>1, <3>2 DEF Covered, Within
    <3> QED  BY <3>1, <3>2, <3>3, GapsApart
  <2>2. ASSUME NEW k \in DOMAIN gvec, gvec[k].begin <= a, a < gvec[k].end,
               ~Within(a, gvec[i].begin, gvec[i].end)
        PROVE  Covered(new, a)
    <3>1. k # i
      BY <2>2 DEF Within
    <3>2. PICK j \in DOMAIN new : Old(j) = k
      BY <3>1, <1>7
    <3> QED  BY <3>2, <2>2, <1>2, <1>3 DEF Covered
  <2> QED  BY <2>1, <2>2 DEF Covered
<1>10. new \in GapVectors(M)
  BY <1>2 DEF GapVectors
<1> QED  BY <1>8, <1>9, <1>10 DEF new

LEMMA ReplaceGap ==
    ASSUME NEW M \in Nat, NEW gvec \in GapVectors(M), Separated(gvec), NEW i \in DOMAIN gvec,
           NEW b \in 0..M, NEW e \in 0..M, b < e,
           \A j \in DOMAIN gvec : /\ j < i => gvec[j].end < b
                                  /\ j > i => e < gvec[j].begin
    PROVE  /\ ReplaceAt(gvec, i, Gap(b, e)) \in GapVectors(M)
           /\ Separated(ReplaceAt(gvec, i, Gap(b, e)))
           /\ \A a \in Int : Covered(ReplaceAt(gvec, i, Gap(b, e)), a)
                <=> \/ Covered(gvec, a) /\ ~Within(a, gvec[i].begin, gvec[i].end)
                    \/ Within(a, b, e)
<1> DEFINE new == ReplaceAt(gvec, i, Gap(b, e))
           T == [begin : 0..M, end : 0..M]
<1>1. gvec \in Seq(T) /\ i \in 1..Len(gvec) /\ Len(gvec) \in Nat
  BY DEF GapVectors
<1>2. Gap(b, e) \in T /\ Gap(b, e).begin = b /\ Gap(b, e).end = e
  BY DEF Gap
<1>3. /\ new \in Seq(T) /\ Len(new) = Len(gvec)
      /\ \A j \in 1..Len(gvec) : new[j] = IF j = i THEN Gap(b, e) ELSE gvec[j]
  <2> HIDE DEF T
  <2> DEFINE g == Gap(b, e)
  <2>1. g \in T
    BY <1>2
  <2> HIDE DEF g
  <2>3. gvec \in Seq(T)
    BY <1>1
  <2>4. i \in 1..Len(gvec)
    BY <1>1
  <2>2. /\ ReplaceAt(gvec, i, g) \in Seq(T) /\ Len(ReplaceAt(gvec, i, g)) = Len(gvec)
        /\ \A j \in 1..Len(gvec) : ReplaceAt(gvec, i, g)[j] = IF j = i THEN g ELSE gvec[j]
    BY <2>1, <2>3, <2>4 DEF ReplaceAt
  <2> QED  BY <2>2 DEF g
<1>4. DOMAIN new = 1..Len(gvec) /\ DOMAIN gvec = 1..Len(gvec)
  BY <1>1, <1>3
<1>5. \A j \in 1..Len(gvec) : gvec[j].begin \in Int /\ gvec[j].end \in Int
  BY GapVectorElements
<1> HIDE DEF new
<1>8. new[i].begin = b /\ new[i].end = e /\ i \in DOMAIN new
  BY <1>1, <1>2, <1>3, <1>4
<1>6. Separated(new)
  <2>1. \A j \in DOMAIN new : new[j].begin < new[j].end
    BY <1>2, <1>3, <1>4 DEF Separated
  <2>2. ASSUME NEW j \in DOMAIN new, NEW k \in DOMAIN new, j < k
        PROVE  new[j].end < new[k].begin
    <3>1. CASE j = i
      <4>1. k \in DOMAIN gvec /\ k > i /\ new[k] = gvec[k]
        BY <3>1, <2>2, <1>1, <1>3, <1>4
      <4> QED  BY <3>1, <4>1, <1>8
    <3>2. CASE k = i
      <4>1. j \in DOMAIN gvec /\ j < i /\ new[j] = gvec[j]
        BY <3>2, <2>2, <1>1, <1>3, <1>4
      <4> QED  BY <3>2, <4>1, <1>8
    <3>3. CASE j # i /\ k # i  BY <3>3, <2>2, <1>3, <1>4 DEF Separated
    <3> QED  BY <3>1, <3>2, <3>3
  <2> QED  BY <2>1, <2>2 DEF Separated
<1>7. ASSUME NEW a \in Int
      PROVE  Covered(new, a)
                <=> \/ Covered(gvec, a) /\ ~Within(a, gvec[i].begin, gvec[i].end)
                    \/ Within(a, b, e)
  <2>1. ASSUME NEW j \in DOMAIN new, new[j].begin <= a, a < new[j].end, j # i
        PROVE  Covered(gvec, a) /\ ~Within(a, gvec[i].begin, gvec[i].end)
    <3>1. new[j] = gvec[j]
      BY <2>1, <1>3, <1>4
    <3>2. j \in DOMAIN gvec /\ Within(a, gvec[j].begin, gvec[j].end)
      BY <2>1, <3>1, <1>4 DEF Within
    <3>3. Covered(gvec, a)
      BY <3>2 DEF Covered, Within
    <3> QED  BY <2>1, <3>2, <3>3, GapsApart
  <2>3. ASSUME NEW k \in DOMAIN gvec, gvec[k].begin <= a, a < gvec[k].end,
               ~Within(a, gvec[i].begin, gvec[i].end)
        PROVE  Covered(new, a)
    <3>1. k # i /\ k \in DOMAIN new
      BY <2>3, <1>4 DEF Within
    <3> QED  BY <3>1, <2>3, <1>3, <1>4 DEF Covered
  <2> QED  BY <2>1, <2>3, <1>8 DEF Covered, Within
<1>9. new \in GapVectors(M)
  BY <1>3 DEF GapVectors
<1> QED  BY <1>6, <1>7, <1>9 DEF new

LEMMA InsertGap ==
    ASSUME NEW M \in Nat, NEW gvec \in GapVectors(M), Separated(gvec), NEW i \in 1..(Len(gvec) + 1),
           NEW b \in 0..M, NEW e \in 0..M, b < e,
           \A j \in DOMAIN gvec : /\ j < i => gvec[j].end < b
                                  /\ j >= i => e < gvec[j].begin
    PROVE  /\ InsertAt(gvec, i, Gap(b, e)) \in GapVectors(M)
           /\ Separated(InsertAt(gvec, i, Gap(b, e)))
           /\ \A a \in Int : Covered(InsertAt(gvec, i, Gap(b, e)), a)
                <=> Covered(gvec, a) \/ Within(a, b, e)
<1> DEFINE new == InsertAt(gvec, i, Gap(b, e))
           T == [begin : 0..M, end : 0..M]
           Old(j) == IF j < i THEN j ELSE j - 1
<1>1. gvec \in Seq(T) /\ i \in 1..(Len(gvec) + 1) /\ Len(gvec) \in Nat
  BY DEF GapVectors
<1>2. Gap(b, e) \in T /\ Gap(b, e).begin = b /\ Gap(b, e).end = e
  BY DEF Gap
<1>3. /\ new \in Seq(T) /\ Len(new) = Len(gvec) + 1
      /\ \A j \in 1..(Len(gvec) + 1) : new[j] = IF j < i THEN gvec[j] ELSE IF j = i THEN Gap(b, e) ELSE gvec[j - 1]
  <2> HIDE DEF T
  <2> DEFINE g == Gap(b, e)
  <2>1. g \in T
    BY <1>2
  <2> HIDE DEF g
  <2>2. /\ InsertAt(gvec, i, g) \in Seq(T) /\ Len(InsertAt(gvec, i, g)) = Len(gvec) + 1
        /\ \A j \in 1..(Len(gvec) + 1) :
             InsertAt(gvec, i, g)[j] = IF j < i THEN gvec[j] ELSE IF j = i THEN g ELSE gvec[j - 1]
    <3> HIDE DEF new, Old
    <3>1. gvec \in Seq(T) /\ i \in 1..(Len(gvec) + 1)
      BY <1>1
    <3>2. InsertAt(gvec, i, g) \in Seq(T)
      BY <3>1, <2>1, InsertAtProperties
    <3>3. Len(InsertAt(gvec, i, g)) = Len(gvec) + 1
      BY <3>1, <2>1, InsertAtProperties
    <3>4. ASSUME NEW j \in 1..(Len(gvec) + 1)
          PROVE  InsertAt(gvec, i, g)[j] = IF j < i THEN gvec[j] ELSE IF j = i THEN g ELSE gvec[j - 1]
      BY <3>1, <2>1, InsertAtProperties
    <3> QED  BY <3>2, <3>3, <3>4
  <2> QED  BY <2>2 DEF g
<1>4. DOMAIN new = 1..(Len(gvec) + 1) /\ DOMAIN gvec = 1..Len(gvec)
  BY <1>1, <1>3
<1>5. /\ i \in DOMAIN new /\ new[i].begin = b /\ new[i].end = e
      /\ \A j \in DOMAIN new : j # i => Old(j) \in DOMAIN gvec /\ new[j] = gvec[Old(j)]
  <2>1. i \in DOMAIN new /\ new[i] = Gap(b, e)
    BY <1>1, <1>3, <1>4
  <2>2. ASSUME NEW j \in DOMAIN new, j # i
        PROVE  Old(j) \in DOMAIN gvec /\ new[j] = gvec[Old(j)]
    <3>1. CASE j < i  BY <3>1, <1>1, <1>3, <1>4
    <3>2. CASE j > i
      <4>1. j - 1 \in 1..Len(gvec) /\ ~(j < i) /\ j # i
        BY <3>2, <1>1, <1>4
      <4> QED  BY <4>1, <1>3, <1>4
    <3>3. j < i \/ j > i
      BY <2>2, <1>1, <1>4
    <3> QED  BY <3>1, <3>2, <3>3
  <2> QED  BY <2>1, <2>2, <1>2
<1>6. /\ \A j, k \in DOMAIN new : j < k /\ j # i /\ k # i => Old(j) < Old(k)
      /\ \A j \in DOMAIN new : j < i => Old(j) < i
      /\ \A j \in DOMAIN new : j > i => Old(j) >= i
  BY <1>1, <1>4
<1>7. \A k \in DOMAIN gvec : \E j \in DOMAIN new : j # i /\ Old(j) = k
  <2> SUFFICES ASSUME NEW k \in DOMAIN gvec PROVE \E j \in DOMAIN new : j # i /\ Old(j) = k
    OBVIOUS
  <2>1. CASE k < i
    <3>1. k \in DOMAIN new /\ k # i /\ Old(k) = k
      BY <1>1, <1>4, <2>1
    <3> QED  BY <3>1
  <2>2. CASE k >= i
    <3>1. k + 1 \in DOMAIN new /\ k + 1 # i /\ Old(k + 1) = k
      BY <1>1, <1>4, <2>2
    <3> QED  BY <3>1
  <2> QED  BY <2>1, <2>2, <1>1, <1>4
<1> HIDE DEF new, Old
<1>8. Separated(new)
  <2>1. \A j \in DOMAIN new : new[j].begin < new[j].end
    BY <1>5 DEF Separated
  <2>2. ASSUME NEW j \in DOMAIN new, NEW k \in DOMAIN new, j < k
        PROVE  new[j].end < new[k].begin
    <3>1. CASE j = i  BY <3>1, <2>2, <1>1, <1>4, <1>5, <1>6
    <3>2. CASE k = i  BY <3>2, <2>2, <1>1, <1>4, <1>5, <1>6
    <3>3. CASE j # i /\ k # i  BY <3>3, <2>2, <1>5, <1>6 DEF Separated
    <3> QED  BY <3>1, <3>2, <3>3
  <2> QED  BY <2>1, <2>2 DEF Separated
<1>9. ASSUME NEW a \in Int
      PROVE  Covered(new, a) <=> Covered(gvec, a) \/ Within(a, b, e)
  <2>1. ASSUME NEW k \in DOMAIN gvec, gvec[k].begin <= a, a < gvec[k].end
        PROVE  Covered(new, a)
    <3>1. PICK j \in DOMAIN new : j # i /\ Old(j) = k
      BY <1>7
    <3> QED  BY <3>1, <2>1, <1>5 DEF Covered
  <2>2. ASSUME NEW j \in DOMAIN new, new[j].begin <= a, a < new[j].end, j # i
        PROVE  Covered(gvec, a)
    BY <2>2, <1>5 DEF Covered
  <2> QED  BY <2>1, <2>2, <1>5 DEF Covered, Within
<1>10. new \in GapVectors(M)
  BY <1>3 DEF GapVectors
<1> QED  BY <1>8, <1>9, <1>10 DEF new


(* An allocation at a place that a gap has room for takes exactly its      *)
(* block away from the free memory.                                        *)
LEMMA UseGapProperties ==
    ASSUME NEW M \in Nat, NEW gvec \in GapVectors(M), Separated(gvec), NEW pos \in DOMAIN gvec,
           NEW addr \in Nat, NEW size \in Nat \ {0},
           gvec[pos].begin <= addr, addr + size <= gvec[pos].end
    PROVE  /\ useGap(gvec, pos, addr, size) \in GapVectors(M)
           /\ Separated(useGap(gvec, pos, addr, size))
           /\ \A a \in Int : Covered(useGap(gvec, pos, addr, size), a)
                <=> Covered(gvec, a) /\ ~Within(a, addr, addr + size)
<1> DEFINE new == useGap(gvec, pos, addr, size)
           begin == gvec[pos].begin
           end == gvec[pos].end
           Goal(v) == /\ v \in GapVectors(M) /\ Separated(v)
                      /\ \A a \in Int : Covered(v, a)
                            <=> Covered(gvec, a) /\ ~Within(a, addr, addr + size)
<1>1. /\ Len(gvec) \in Nat /\ DOMAIN gvec = 1..Len(gvec) /\ pos \in 1..Len(gvec)
      /\ begin \in 0..M /\ end \in 0..M /\ begin < end
      /\ \A j \in DOMAIN gvec : gvec[j].begin \in Int /\ gvec[j].end \in Int
      /\ addr \in 0..M /\ addr + size \in 0..M
  BY GapVectorElements DEF Separated
<1>2. \A a \in Int : Within(a, begin, end) => Covered(gvec, a)
  BY DEF Covered, Within
<1>3. \A j \in DOMAIN gvec : /\ j < pos => gvec[j].end < begin
                             /\ j > pos => end < gvec[j].begin
  BY <1>1 DEF Separated
<1> HIDE DEF begin, end
<1>4. CASE addr = begin /\ addr + size = end
  <2>1. new = RemoveAt(gvec, pos)
    BY <1>4 DEF useGap, begin, end
  <2>2. \A a \in Int : Covered(new, a) <=> Covered(gvec, a) /\ ~Within(a, begin, end)
    BY <2>1, RemoveGap DEF begin, end
  <2>3. new \in GapVectors(M) /\ Separated(new)
    BY <2>1, RemoveGap
  <2> HIDE DEF new
  <2>4. Goal(new)
    BY <2>2, <2>3, <1>4
  <2> QED  BY <2>4 DEF new
<1>5. CASE addr > begin /\ addr + size = end
  <2>1. new = ReplaceAt(gvec, pos, Gap(begin, addr))
    BY <1>5, <1>1 DEF useGap, begin, end
  <2>2. \A j \in DOMAIN gvec : /\ j < pos => gvec[j].end < begin
                               /\ j > pos => addr < gvec[j].begin
    BY <1>1, <1>3, <1>5
  <2>3. new \in GapVectors(M) /\ Separated(new)
    BY <2>1, <2>2, <1>1, <1>5, ReplaceGap
  <2>4. \A a \in Int : Covered(new, a)
            <=> (Covered(gvec, a) /\ ~Within(a, begin, end)) \/ Within(a, begin, addr)
    <3>1. \A a \in Int : Covered(ReplaceAt(gvec, pos, Gap(begin, addr)), a)
            <=> (Covered(gvec, a) /\ ~Within(a, begin, end)) \/ Within(a, begin, addr)
      BY <2>2, <1>1, <1>5, ReplaceGap DEF begin, end
    <3> HIDE DEF new
    <3> QED  BY <2>1, <3>1
  <2> HIDE DEF new
  <2>5. Goal(new)
    BY <2>3, <2>4, <1>1, <1>2, <1>5 DEF Within
  <2> QED  BY <2>5 DEF new
<1>6. CASE addr = begin /\ addr + size < end
  <2>1. new = ReplaceAt(gvec, pos, Gap(addr + size, end))
    BY <1>6, <1>1 DEF useGap, begin, end
  <2>2. \A j \in DOMAIN gvec : /\ j < pos => gvec[j].end < addr + size
                               /\ j > pos => end < gvec[j].begin
    BY <1>1, <1>3, <1>6
  <2>3. new \in GapVectors(M) /\ Separated(new)
    BY <2>1, <2>2, <1>1, <1>6, ReplaceGap
  <2> HIDE DEF new
  <2>4. \A a \in Int : Covered(new, a)
            <=> (Covered(gvec, a) /\ ~Within(a, begin, end)) \/ Within(a, addr + size, end)
    <3>1. \A a \in Int : Covered(ReplaceAt(gvec, pos, Gap(addr + size, end)), a)
            <=> (Covered(gvec, a) /\ ~Within(a, begin, end)) \/ Within(a, addr + size, end)
      BY <2>2, <1>1, <1>6, ReplaceGap DEF begin, end
    <3> QED  BY <2>1, <3>1
  <2>5. Goal(new)
    BY <2>3, <2>4, <1>1, <1>2, <1>6 DEF Within
  <2> QED  BY <2>5 DEF new
<1>7. CASE addr > begin /\ addr + size < end
  <2> DEFINE mid == ReplaceAt(gvec, pos, Gap(addr + size, end))
  <2>1. new = InsertAt(mid, pos, Gap(begin, addr))
    BY <1>7, <1>1 DEF useGap, begin, end
  <2>2. \A j \in DOMAIN gvec : /\ j < pos => gvec[j].end < addr + size
                               /\ j > pos => end < gvec[j].begin
    BY <1>1, <1>3, <1>7
  <2>3. mid \in GapVectors(M) /\ Separated(mid)
    BY <2>2, <1>1, <1>7, ReplaceGap
  <2>4. \A a \in Int : Covered(mid, a)
            <=> (Covered(gvec, a) /\ ~Within(a, begin, end)) \/ Within(a, addr + size, end)
    BY <2>2, <1>1, <1>7, ReplaceGap DEF begin, end
  <2>5. /\ Len(mid) = Len(gvec) /\ DOMAIN mid = DOMAIN gvec
        /\ mid[pos] = Gap(addr + size, end)
        /\ \A j \in DOMAIN gvec : j # pos => mid[j] = gvec[j]
    <3>1. gvec \in Seq([begin : 0..M, end : 0..M])
      BY DEF GapVectors
    <3> QED  BY <3>1, <1>1 DEF ReplaceAt
  <2> HIDE DEF mid
  <2>6. \A j \in DOMAIN mid : /\ j < pos => mid[j].end < begin
                              /\ j >= pos => addr < mid[j].begin
    <3>1. addr < mid[pos].begin
      BY <2>5, <1>1 DEF Gap
    <3>2. ASSUME NEW j \in DOMAIN mid, j # pos
          PROVE  /\ j < pos => mid[j].end < begin
                 /\ j >= pos => addr < mid[j].begin
      <4>1. mid[j] = gvec[j] /\ j \in DOMAIN gvec
        BY <3>2, <2>5
      <4>2. j \in Int /\ pos \in Int /\ gvec[j].begin \in Int /\ begin \in Int /\ end \in Int
        BY <4>1, <1>1
      <4>3. j < pos => gvec[j].end < begin
        BY <4>1, <1>3
      <4>4. j > pos => addr < gvec[j].begin
        <5>1. addr < end /\ addr \in Int
          BY <1>1, <1>7
        <5>2. j > pos => end < gvec[j].begin
          BY <4>1, <1>3
        <5> QED  BY <4>2, <5>1, <5>2
      <4> QED  BY <3>2, <4>1, <4>2, <4>3, <4>4
    <3>3. pos \in Int
      BY <1>1
    <3> QED  BY <3>1, <3>2, <3>3
  <2> HIDE DEF new
  <2>10. /\ pos \in 1..(Len(mid) + 1) /\ begin \in 0..M /\ addr \in 0..M /\ begin < addr
    BY <2>5, <1>1, <1>7
  <2>11. LET v == InsertAt(mid, pos, Gap(begin, addr))
         IN  /\ v \in GapVectors(M) /\ Separated(v)
             /\ \A a \in Int : Covered(v, a) <=> Covered(mid, a) \/ Within(a, begin, addr)
    BY <2>3, <2>6, <2>10, InsertGap
  <2>7. new \in GapVectors(M) /\ Separated(new)
    BY <2>1, <2>11
  <2>8. \A a \in Int : Covered(new, a) <=> Covered(mid, a) \/ Within(a, begin, addr)
    BY <2>1, <2>11
  <2>9. Goal(new)
    BY <2>4, <2>7, <2>8, <1>1, <1>2, <1>7 DEF Within
  <2> QED  BY <2>9 DEF new
<1> QED  BY <1>1, <1>4, <1>5, <1>6, <1>7 DEF begin, end


(* Giving back a block that has no free address makes exactly its block    *)
(* free, and leaves no two gaps that touch.                                *)
LEMMA FreeProperties ==
    ASSUME NEW M \in Nat, NEW gvec \in GapVectors(M), Separated(gvec),
           NEW addr \in Nat, NEW size \in Nat \ {0}, addr + size <= M,
           \A a \in Int : Within(a, addr, addr + size) => ~Covered(gvec, a)
    PROVE  /\ free(gvec, addr, size) \in GapVectors(M)
           /\ Separated(free(gvec, addr, size))
           /\ \A a \in Int : Covered(free(gvec, addr, size), a)
                <=> Covered(gvec, a) \/ Within(a, addr, addr + size)
<1> DEFINE new == free(gvec, addr, size)
           end == addr + size
           n == Len(gvec)
           Goal(v) == /\ v \in GapVectors(M) /\ Separated(v)
                      /\ \A a \in Int : Covered(v, a) <=> Covered(gvec, a) \/ Within(a, addr, end)
           between == {i \in 1..(n - 1) : gvec[i].end <= addr /\ end <= gvec[i + 1].begin}
<1>1. /\ n \in Nat /\ DOMAIN gvec = 1..n
      /\ \A j \in 1..n : gvec[j].begin \in 0..M /\ gvec[j].end \in 0..M
      /\ addr \in 0..M /\ end \in 0..M /\ addr < end
  BY GapVectorElements
<1>2. \A j \in 1..n : gvec[j].begin < gvec[j].end
  BY <1>1 DEF Separated
<1>3. \A j, k \in 1..n : j < k => gvec[j].end < gvec[k].begin
  BY <1>1 DEF Separated
<1>4. ASSUME NEW j \in 1..n PROVE gvec[j].end <= addr \/ end <= gvec[j].begin
  <2>1. CASE gvec[j].begin <= addr
    <3>1. ~Covered(gvec, addr)
      BY <1>1 DEF Within
    <3> QED  BY <2>1, <3>1, <1>1 DEF Covered
  <2>2. CASE addr < gvec[j].begin
    <3>1. Covered(gvec, gvec[j].begin)
      BY <1>1, <1>2 DEF Covered
    <3> QED  BY <2>2, <3>1, <1>1 DEF Within
  <2> QED  BY <2>1, <2>2, <1>1
<1>5. \A j \in 1..n : \A a \in Int : Within(a, gvec[j].begin, gvec[j].end) => Covered(gvec, a)
  BY <1>1 DEF Covered, Within
<1> HIDE DEF end
<1>6. CASE n = 0
  <2>1. new = <<Gap(addr, end)>>
    BY <1>6 DEF free, end
  <2>2. new \in Seq([begin : 0..M, end : 0..M]) /\ DOMAIN new = {1} /\ new[1] = Gap(addr, end)
    BY <2>1, <1>1 DEF Gap
  <2> HIDE DEF new
  <2>3. new[1].begin = addr /\ new[1].end = end
    BY <2>2 DEF Gap
  <2>4. Goal(new)
    BY <2>2, <2>3, <1>1, <1>6 DEF GapVectors, Separated, Covered, Within
  <2> QED  BY <2>4 DEF new, end
<1>7. ASSUME n > 0, NEW i \in 1..(n + 1),
             \A j \in 1..n : /\ j < i => gvec[j].end < addr
                             /\ j >= i => end < gvec[j].begin
      PROVE  Goal(InsertAt(gvec, i, Gap(addr, end)))
  BY <1>1, <1>7, InsertGap
<1>8. ASSUME n > 0, NEW i \in 1..n, end = gvec[i].begin,
             \A j \in 1..n : j < i => gvec[j].end < addr
      PROVE  Goal(ReplaceAt(gvec, i, Gap(addr, gvec[i].end)))
  <2>1. \A j \in DOMAIN gvec : j > i => gvec[i].end < gvec[j].begin
    BY <1>1, <1>3
  <2>2. addr \in 0..M /\ gvec[i].end \in 0..M /\ addr < gvec[i].end
    BY <1>1, <1>2, <1>8
  <2> DEFINE v == ReplaceAt(gvec, i, Gap(addr, gvec[i].end))
  <2>3. v \in GapVectors(M) /\ Separated(v)
    BY <1>1, <1>8, <2>1, <2>2, ReplaceGap
  <2>4. \A a \in Int : Covered(v, a)
            <=> \/ Covered(gvec, a) /\ ~Within(a, gvec[i].begin, gvec[i].end)
                \/ Within(a, addr, gvec[i].end)
    BY <1>1, <1>8, <2>1, <2>2, ReplaceGap
  <2> HIDE DEF v
  <2>5. ASSUME NEW a \in Int PROVE Covered(v, a) <=> Covered(gvec, a) \/ Within(a, addr, end)
    BY <2>4, <1>1, <1>2, <1>5, <1>8 DEF Within
  <2> QED  BY <2>3, <2>5 DEF v
<1>9. ASSUME n > 0, NEW i \in 1..n, addr = gvec[i].end,
             \A j \in 1..n : j > i => end < gvec[j].begin
      PROVE  Goal(ReplaceAt(gvec, i, Gap(gvec[i].begin, end)))
  <2>1. \A j \in DOMAIN gvec : j < i => gvec[j].end < gvec[i].begin
    BY <1>1, <1>3
  <2>2. end \in 0..M /\ gvec[i].begin \in 0..M /\ gvec[i].begin < end
    BY <1>1, <1>2, <1>9
  <2> DEFINE v == ReplaceAt(gvec, i, Gap(gvec[i].begin, end))
  <2>3. v \in GapVectors(M) /\ Separated(v)
    BY <1>1, <1>9, <2>1, <2>2, ReplaceGap
  <2>4. \A a \in Int : Covered(v, a)
            <=> \/ Covered(gvec, a) /\ ~Within(a, gvec[i].begin, gvec[i].end)
                \/ Within(a, gvec[i].begin, end)
    BY <1>1, <1>9, <2>1, <2>2, ReplaceGap
  <2> HIDE DEF v
  <2>5. ASSUME NEW a \in Int PROVE Covered(v, a) <=> Covered(gvec, a) \/ Within(a, addr, end)
    <3>1. /\ addr \in Int /\ end \in Int /\ gvec[i].begin \in Int
          /\ gvec[i].begin < addr /\ addr < end /\ gvec[i].end = addr
      BY <1>1, <1>2, <1>9
    <3>2. Within(a, gvec[i].begin, end) <=> Within(a, gvec[i].begin, addr) \/ Within(a, addr, end)
      BY <2>5, <3>1 DEF Within
    <3>3. Within(a, gvec[i].begin, addr) => Covered(gvec, a)
      BY <1>5, <1>9, <3>1
    <3> QED  BY <2>4, <2>5, <3>1, <3>2, <3>3
  <2> QED  BY <2>3, <2>5 DEF v
<1>10. ASSUME NEW i \in 1..(n - 1), addr = gvec[i].end, end = gvec[i + 1].begin
       PROVE  Goal(ReplaceAt(RemoveAt(gvec, i + 1), i, Gap(gvec[i].begin, gvec[i + 1].end)))
  <2> DEFINE mid == RemoveAt(gvec, i + 1)
             left == gvec[i].begin
             right == gvec[i + 1].end
             v == ReplaceAt(mid, i, Gap(left, right))
  <2>1. i \in 1..n /\ i + 1 \in 1..n
    BY <1>1
  <2>2. left \in 0..M /\ right \in 0..M /\ left < addr /\ end < right
    BY <2>1, <1>1, <1>2, <1>10
  <2>3. /\ mid \in GapVectors(M) /\ Separated(mid)
        /\ \A a \in Int : Covered(mid, a) <=> Covered(gvec, a) /\ ~Within(a, end, right)
    BY <2>1, <1>1, <1>10, RemoveGap
  <2>4. /\ Len(mid) = n - 1
        /\ \A j \in 1..(n - 1) : mid[j] = IF j < i + 1 THEN gvec[j] ELSE gvec[j + 1]
    <3>1. gvec \in Seq([begin : 0..M, end : 0..M])
      BY DEF GapVectors
    <3> QED  BY <2>1, <3>1, RemoveAtProperties
  <2>5. DOMAIN mid = 1..(n - 1)
    BY <2>3, <2>4, GapVectorElements
  <2>6. mid[i] = gvec[i] /\ i \in DOMAIN mid
    BY <2>4, <2>5, <1>1
  <2>7. ASSUME NEW j \in DOMAIN mid
        PROVE  /\ j < i => mid[j].end < left
               /\ j > i => right < mid[j].begin
    <3>1. CASE j < i
      <4>1. mid[j] = gvec[j] /\ j \in 1..n
        BY <3>1, <2>4, <2>5, <1>1
      <4> QED  BY <4>1, <3>1, <1>1, <1>3
    <3>2. CASE j > i
      <4>1. mid[j] = gvec[j + 1] /\ j + 1 \in 1..n /\ i + 1 < j + 1
        BY <3>2, <2>4, <2>5, <1>1
      <4>2. right < gvec[j + 1].begin
        BY <4>1, <2>1, <1>3
      <4>3. ~(j < i)
        BY <3>2, <2>5, <1>1
      <4> QED  BY <4>1, <4>2, <4>3
    <3> QED  BY <3>1, <3>2
  <2> HIDE DEF mid
  <2>8. \A a \in Int : Within(a, left, addr) => Covered(gvec, a)
    BY <2>1, <1>5, <1>10
  <2>9. left < right
    BY <2>2, <1>1
  <2>10. mid[i].begin = left /\ mid[i].end = addr
    BY <2>6, <1>10
  <2>14. \A a \in Int : Within(a, end, right) => Covered(gvec, a)
    BY <2>1, <1>5, <1>10
  <2> HIDE DEF left, right
  <2>11. v \in GapVectors(M) /\ Separated(v)
    BY <2>2, <2>3, <2>6, <2>7, <2>9, ReplaceGap
  <2>12. \A a \in Int : Covered(v, a)
            <=> (Covered(mid, a) /\ ~Within(a, left, addr)) \/ Within(a, left, right)
    BY <2>2, <2>3, <2>6, <2>7, <2>9, <2>10, ReplaceGap
  <2> HIDE DEF v
  <2>13. ASSUME NEW a \in Int PROVE Covered(v, a) <=> Covered(gvec, a) \/ Within(a, addr, end)
    BY <2>2, <2>3, <2>8, <2>12, <2>14, <1>1 DEF Within
  <2> QED  BY <2>11, <2>13 DEF v, mid, left, right
<1>11. ASSUME n > 0, NEW i \in between, NEW j \in between PROVE i = j
  <2>0. \A k \in 1..n : gvec[k].begin \in Int /\ gvec[k].end \in Int
    <3> HIDE DEF between, n, new, end
    <3>1. \A x \in 0..M : x \in Int
      OBVIOUS
    <3> QED  BY <3>1, <1>1, Zenon
  <2>1. \A k, l \in between : ~(k < l)
    <3> SUFFICES ASSUME NEW k \in between, NEW l \in between, k < l PROVE FALSE
      OBVIOUS
    <3>1. k + 1 \in 1..n /\ l \in 1..n /\ k + 1 <= l
      <4>1. k \in 1..(n - 1) /\ l \in 1..(n - 1)
        OBVIOUS
      <4> HIDE DEF between
      <4> QED  BY <4>1, <1>1
    <3>2. gvec[k + 1].end <= gvec[l].end
      <4>1. CASE k + 1 = l  BY <4>1, <3>1, <1>1
      <4>2. CASE k + 1 < l
        <5>1. gvec[k + 1].end < gvec[l].begin /\ gvec[l].begin < gvec[l].end
          BY <4>2, <3>1, <1>2, <1>3
        <5>2. gvec[k + 1].end \in Int /\ gvec[l].begin \in Int /\ gvec[l].end \in Int
          BY <3>1, <2>0, Zenon
        <5>3. \A x, y, z \in Int : x < y /\ y < z => x <= z
          OBVIOUS
        <5> QED  BY <5>1, <5>2, <5>3, Zenon
      <4> QED  BY <4>1, <4>2, <3>1
    <3>3. gvec[k + 1].begin < gvec[k + 1].end
      BY <3>1, <1>2
    <3> QED  BY <3>1, <3>2, <3>3, <1>1, SMTT(20)
  <2> QED  BY <2>1, <1>1
<1>12. CASE n > 0 /\ end = gvec[1].begin
  <2>1. new = ReplaceAt(gvec, 1, Gap(addr, gvec[1].end))
    BY <1>12, <1>1 DEF free, end
  <2>2. Goal(ReplaceAt(gvec, 1, Gap(addr, gvec[1].end)))
    BY <1>1, <1>8, <1>12
  <2> QED  BY <2>1, <2>2 DEF end
<1>13. CASE n > 0 /\ end < gvec[1].begin
  <2>1. new = InsertAt(gvec, 1, Gap(addr, end))
    <3>1. n # 0 /\ end # gvec[1].begin /\ ~(end > gvec[1].begin)
      BY <1>13, <1>1
    <3> QED  BY <3>1, <1>13, Zenon DEF free, end
  <2>2. \A j \in 1..n : end < gvec[j].begin
    BY <1>1, <1>2, <1>3, <1>13
  <2>4. 1 \in 1..(n + 1) /\ \A j \in 1..n : ~(j < 1)
    BY <1>1
  <2>3. Goal(InsertAt(gvec, 1, Gap(addr, end)))
    BY <1>7, <1>13, <2>2, <2>4
  <2> QED  BY <2>1, <2>3 DEF end
<1>14. CASE n > 0 /\ end > gvec[1].begin /\ between # {}
  <2> DEFINE i == CHOOSE i \in between : \A j \in between : i <= j
  <2>1. i \in between
    <3>1. PICK k \in between : TRUE
      BY <1>14
    <3>2. k <= k
      OBVIOUS
    <3>3. \A j \in between : k <= j
      BY <3>1, <3>2, <1>11, <1>14
    <3> QED  BY <3>3
  <2>2. new = Filled(gvec, i, addr, end)
    <3>1. n # 0 /\ end # gvec[1].begin /\ ~(end < gvec[1].begin)
      BY <1>14, <1>1
    <3> QED  BY <3>1, <1>14, Zenon DEF free, end
  <2> HIDE DEF i, new
  <2>3. /\ i \in 1..(n - 1) /\ i \in 1..n /\ i + 1 \in 1..n /\ i + 1 \in 1..(n + 1)
        /\ gvec[i].end <= addr /\ end <= gvec[i + 1].begin
    BY <2>1, <1>1
  <2>4. \A j \in 1..n : /\ j < i => gvec[j].end < gvec[i].end
                        /\ j > i + 1 => gvec[i + 1].begin < gvec[j].begin
    BY <2>3, <1>1, <1>2, <1>3, SMTT(20)
  <2>5. CASE addr = gvec[i].end /\ end = gvec[i + 1].begin
    <3>1. new = ReplaceAt(RemoveAt(gvec, i + 1), i, Gap(gvec[i].begin, gvec[i + 1].end))
      BY <2>2, <2>5 DEF Filled
    <3> QED  BY <3>1, <2>3, <2>5, <1>10 DEF new, end
  <2>6. CASE addr = gvec[i].end /\ end # gvec[i + 1].begin
    <3>1. new = ReplaceAt(gvec, i, Gap(gvec[i].begin, end))
      BY <2>2, <2>6 DEF Filled
    <3>2. \A j \in 1..n : j > i => end < gvec[j].begin
      <4>1. end < gvec[i + 1].begin
        BY <2>3, <2>6, <1>1
      <4>2. \A j \in 1..n : j > i => j = i + 1 \/ j > i + 1
        BY <2>3, <1>1
      <4>3. \A j \in 1..n : j > i + 1 => end < gvec[j].begin
        BY <4>1, <2>3, <2>4, <1>1
      <4> QED  BY <4>1, <4>2, <4>3
    <3> QED  BY <3>1, <3>2, <2>3, <2>6, <1>1, <1>9, <1>14 DEF new, end
  <2>7. CASE addr # gvec[i].end /\ end = gvec[i + 1].begin
    <3>1. new = ReplaceAt(gvec, i + 1, Gap(addr, gvec[i + 1].end))
      BY <2>2, <2>7 DEF Filled
    <3>2. \A j \in 1..n : j < i + 1 => gvec[j].end < addr
      <4>1. gvec[i].end < addr
        BY <2>3, <2>7, <1>1
      <4>2. \A j \in 1..n : j < i + 1 => j = i \/ j < i
        BY <2>3, <1>1
      <4>3. \A j \in 1..n : j < i => gvec[j].end < addr
        BY <4>1, <2>3, <2>4, <1>1
      <4> QED  BY <4>1, <4>2, <4>3
    <3> QED  BY <3>1, <3>2, <2>3, <2>7, <1>1, <1>8, <1>14 DEF new, end
  <2>8. CASE addr # gvec[i].end /\ end # gvec[i + 1].begin
    <3>1. new = InsertAt(gvec, i + 1, Gap(addr, end))
      BY <2>2, <2>8 DEF Filled
    <3>2. \A j \in 1..n : /\ j < i + 1 => gvec[j].end < addr
                          /\ j >= i + 1 => end < gvec[j].begin
      <4>1. gvec[i].end < addr /\ end < gvec[i + 1].begin
        BY <2>3, <2>8, <1>1
      <4>2. \A j \in 1..n : j < i + 1 => j = i \/ j < i
        BY <2>3, <1>1
      <4>3. \A j \in 1..n : j >= i + 1 => j = i + 1 \/ j > i + 1
        BY <2>3, <1>1
      <4>4. \A j \in 1..n : j < i => gvec[j].end < addr
        BY <4>1, <2>3, <2>4, <1>1
      <4>5. \A j \in 1..n : j > i + 1 => end < gvec[j].begin
        BY <4>1, <2>3, <2>4, <1>1
      <4> QED  BY <4>1, <4>2, <4>3, <4>4, <4>5
    <3> QED  BY <3>1, <3>2, <2>3, <1>7, <1>14 DEF new, end
  <2> QED  BY <2>5, <2>6, <2>7, <2>8
<1>15. CASE n > 0 /\ end > gvec[1].begin /\ between = {}
  <2>1. gvec[n].end <= addr
    <3> SUFFICES ASSUME ~(gvec[n].end <= addr) PROVE FALSE
      OBVIOUS
    <3> DEFINE after == {k \in 1..n : end <= gvec[k].begin}
    <3>1. n \in after
      BY <1>1, <1>4, <1>15
    <3>2. after \in SUBSET Nat /\ after # {}
      BY <3>1
    <3>3. PICK m \in after : \A k \in after : m <= k
      <4> HIDE DEF after
      <4> QED  BY <3>2, MinimumExists
    <3>4. m \in 1..n /\ m # 1 /\ end <= gvec[m].begin
      BY <1>1, <1>15
    <3>5. m - 1 \in 1..n /\ m - 1 \in 1..(n - 1) /\ (m - 1) + 1 = m
      BY <3>4, <1>1
    <3>6. m - 1 \notin after
      BY <3>3, <3>4
    <3>7. gvec[m - 1].end <= addr
      BY <3>5, <3>6, <1>4
    <3>8. m - 1 \in between
      BY <3>4, <3>5, <3>7
    <3> QED  BY <3>8, <1>15
  <2>2. n \in 1..n /\ n + 1 \in 1..(n + 1) /\ gvec[n].begin < end
    BY <2>1, <1>1, <1>2, <1>15
  <2>3. \A j \in 1..n : j < n => gvec[j].end < gvec[n].end
    BY <2>2, <1>1, <1>2, <1>3
  <2>4. CASE addr = gvec[n].end
    <3>1. new = ReplaceAt(gvec, n, Gap(gvec[n].begin, end))
      BY <1>1, <1>15, <2>2, <2>4 DEF free, end
    <3>2. Goal(ReplaceAt(gvec, n, Gap(gvec[n].begin, end)))
      BY <2>2, <2>4, <1>1, <1>9, <1>15
    <3> QED  BY <3>1, <3>2 DEF end
  <2>5. CASE addr # gvec[n].end
    <3>1. new = InsertAt(gvec, n + 1, Gap(addr, end))
      BY <1>1, <1>15, <2>2, <2>5 DEF free, end
    <3>2. \A j \in 1..n : j < n + 1 /\ gvec[j].end < addr
      BY <2>1, <2>2, <2>3, <2>5, <1>1, SMTT(20)
    <3>3. Goal(InsertAt(gvec, n + 1, Gap(addr, end)))
      BY <2>2, <3>2, <1>1, <1>7, <1>15
    <3> QED  BY <3>1, <3>3 DEF end
  <2> QED  BY <2>4, <2>5
<1>16. n = 0 \/ n > 0
  BY <1>1
<1>17. n > 0 => end = gvec[1].begin \/ end < gvec[1].begin \/ end > gvec[1].begin
  BY <1>1
<1> QED  BY <1>6, <1>12, <1>13, <1>14, <1>15, <1>16, <1>17 DEF end

(* An address that the search in a gap returns lies in that gap, with room *)
(* for the whole allocation.                                               *)
LEMMA AddrFromGapFits ==
    ASSUME NEW begin \in Nat, NEW end \in Nat, NEW g, g.begin = begin, g.end = end,
           NEW size \in Nat \ {0}, NEW alignment \in Nat \ {0}, NEW dir,
           getAddrFromGap(g, size, alignment, dir) # InvalidAddress
    PROVE  LET addr == getAddrFromGap(g, size, alignment, dir)
           IN  addr \in Nat /\ begin <= addr /\ addr + size <= end
<1> DEFINE addr == getAddrFromGap(g, size, alignment, dir)
           first == alignValUp(begin, alignment)
           last == alignValUp(end - size, alignment)
<1>1. first \in Nat /\ first >= begin
  BY AlignedAbove
<1>2. end - size >= 0 => last \in Nat /\ last >= end - size
  BY AlignedAbove
<1> HIDE DEF first, last
<1>3. CASE dir = "Up"
  <2>1. addr = IF end - begin < size \/ first + size > end THEN InvalidAddress ELSE first
    BY <1>3 DEF getAddrFromGap, GapSize, first
  <2> QED  BY <2>1, <1>1
<1>4. CASE dir # "Up"
  <2>1. ~(end - begin < size)
    BY <1>4 DEF getAddrFromGap, GapSize
  <2>2. last \in Nat /\ last >= end - size
    BY <1>2, <2>1
  <2>3. CASE last + size <= end
    <3>1. addr = last
      BY <1>4, <2>1, <2>3 DEF getAddrFromGap, GapSize, last
    <3> QED  BY <3>1, <2>1, <2>2, <2>3
  <2>4. CASE ~(last + size <= end)
    <3>1. addr = IF begin + alignment > last \/ last - alignment + size > end
                 THEN InvalidAddress ELSE last - alignment
      BY <1>4, <2>1, <2>4 DEF getAddrFromGap, GapSize, last
    <3> QED  BY <3>1, <2>2
  <2> QED  BY <2>3, <2>4
<1> QED  BY <1>3, <1>4

(* A block whose addresses are all free lies in one gap: gaps never touch. *)
LEMMA FreeBlockInOneGap ==
    ASSUME NEW M \in Nat, NEW gvec \in GapVectors(M), Separated(gvec),
           NEW addr \in Nat, NEW size \in Nat \ {0},
           \A a \in Int : Within(a, addr, addr + size) => Covered(gvec, a)
    PROVE  IsFree(gvec, addr, size)
<1>1. Covered(gvec, addr)
  BY DEF Within
<1>2. PICK i \in DOMAIN gvec : gvec[i].begin <= addr /\ addr < gvec[i].end
  BY <1>1 DEF Covered
<1>3. gvec[i].begin \in Int /\ gvec[i].end \in Int
  BY GapVectorElements
<1>4. addr + size <= gvec[i].end
  <2> SUFFICES ASSUME gvec[i].end < addr + size PROVE FALSE
    BY <1>3
  <2>1. Covered(gvec, gvec[i].end)
    BY <1>2, <1>3 DEF Within
  <2>2. PICK j \in DOMAIN gvec : gvec[j].begin <= gvec[i].end /\ gvec[i].end < gvec[j].end
    BY <2>1 DEF Covered
  <2>3. i \in Int /\ j \in Int /\ gvec[j].begin \in Int /\ gvec[j].end \in Int
    BY GapVectorElements
  <2>4. CASE i < j
    <3>1. gvec[i].end < gvec[j].begin
      BY <2>4 DEF Separated
    <3> QED  BY <3>1, <2>2, <2>3, <1>3
  <2>5. CASE j < i
    <3>1. gvec[j].end < gvec[i].begin
      BY <2>5 DEF Separated
    <3> QED  BY <3>1, <2>2, <2>3, <1>2, <1>3
  <2>6. CASE i = j
    BY <2>6, <2>2, <1>3
  <2> QED  BY <2>3, <2>4, <2>5, <2>6
<1> QED  BY <1>2, <1>4 DEF IsFree

(* allocFixed at a place that is free takes exactly that block away.       *)
LEMMA AllocFixedProperties ==
    ASSUME NEW M \in Nat, NEW gvec \in GapVectors(M), Separated(gvec),
           NEW addr \in Nat, NEW size \in Nat \ {0}, IsFree(gvec, addr, size)
    PROVE  /\ allocFixed(gvec, addr, size) \in GapVectors(M)
           /\ Separated(allocFixed(gvec, addr, size))
           /\ \A a \in Int : Covered(allocFixed(gvec, addr, size), a)
                <=> Covered(gvec, a) /\ ~Within(a, addr, addr + size)
<1> DEFINE pos == GapAround(gvec, addr, size)
<1>1. pos \in DOMAIN gvec /\ gvec[pos].begin <= addr /\ addr + size <= gvec[pos].end
  BY DEF IsFree, GapAround
<1>2. allocFixed(gvec, addr, size) = useGap(gvec, pos, addr, size)
  BY DEF allocFixed
<1> HIDE DEF pos
<1> QED  BY <1>1, <1>2, UseGapProperties

LEMMA MultipleHasNoRest ==
    ASSUME NEW k \in Int, NEW y \in Nat \ {0}
    PROVE  (k * y) % y = 0
OBVIOUS

LEMMA DivisionWithRest ==
    ASSUME NEW x \in Int, NEW y \in Nat \ {0}
    PROVE  /\ x \div y \in Int /\ x % y \in 0..(y - 1)
           /\ x = (x \div y) * y + (x % y)
OBVIOUS

(* Rounding up finds the first multiple of the alignment.                  *)
LEMMA FirstAligned ==
    ASSUME NEW val \in Nat, NEW alignment \in Nat \ {0},
           NEW r, r = alignValUp(val, alignment)
    PROVE  /\ r \in Nat /\ val <= r /\ r % alignment = 0
           /\ \A a \in Int : a % alignment = 0 /\ val <= a => r <= a
           /\ \A a \in Int : a % alignment = 0 /\ a < r => a <= r - alignment
           /\ r - alignment \in Int /\ r - alignment < val /\ (r - alignment) % alignment = 0
<1> DEFINE n == val + alignment - 1
           q == n \div alignment
<1>1. n \in Nat /\ q \in Int
  OBVIOUS
<1>2. r = q * alignment
  BY DEF alignValUp
<1>3. n = q * alignment + (n % alignment) /\ n % alignment \in 0..(alignment - 1)
  <2> HIDE DEF n
  <2>1. n \in Int
    BY <1>1
  <2> QED  BY <2>1, DivisionWithRest, Zenon
<1>4. r \in Int /\ r <= n /\ n < r + alignment
  BY <1>1, <1>2, <1>3
<1>5. r % alignment = 0
  BY <1>1, <1>2
<1>6. (r - alignment) % alignment = 0
  <2>1. r - alignment = (q - 1) * alignment
    BY <1>1, <1>2
  <2>2. ((q - 1) * alignment) % alignment = 0
    <3>1. q - 1 \in Int
      BY <1>1
    <3> HIDE DEF q
    <3> QED  BY <3>1, MultipleHasNoRest
  <2> QED  BY <2>1, <2>2
<1>7. ASSUME NEW a \in Int, a % alignment = 0, a < r PROVE a <= r - alignment
  <2> DEFINE m == a \div alignment
  <2>1. m \in Int /\ a = m * alignment
    BY <1>7
  <2>2. m < q
    BY <2>1, <1>1, <1>2, <1>7
  <2>3. m * alignment <= (q - 1) * alignment
    BY <2>1, <2>2, <1>1
  <2>4. (q - 1) * alignment = r - alignment
    BY <1>1, <1>2
  <2> QED  BY <2>1, <2>3, <2>4
<1> HIDE DEF q
<1>8. ASSUME NEW a \in Int, a % alignment = 0, val <= a PROVE r <= a
  BY <1>4, <1>7, <1>8
<1> QED  BY <1>4, <1>5, <1>6, <1>7, <1>8

(* The search in one gap finds an aligned place if there is one, going up  *)
(* and going down.                                                         *)
LEMMA AddrFromGapComplete ==
    ASSUME NEW begin \in Nat, NEW end \in Nat, NEW g, g.begin = begin, g.end = end,
           NEW size \in Nat \ {0}, NEW alignment \in Nat \ {0}, NEW dir,
           NEW a \in Int, a % alignment = 0, begin <= a, a + size <= end
    PROVE  getAddrFromGap(g, size, alignment, dir) # InvalidAddress
<1> DEFINE addr == getAddrFromGap(g, size, alignment, dir)
           first == alignValUp(begin, alignment)
           last == alignValUp(end - size, alignment)
<1>1. first \in Nat /\ first <= a
  BY FirstAligned
<1>2. end - size \in Nat /\ ~(end - begin < size)
  OBVIOUS
<1>3. /\ last \in Nat /\ end - size <= last /\ last - alignment < end - size
      /\ a < last => a <= last - alignment
  BY <1>2, FirstAligned
<1> HIDE DEF first, last
<1>4. CASE dir = "Up"
  <2>1. addr = IF end - begin < size \/ first + size > end THEN InvalidAddress ELSE first
    BY <1>4 DEF getAddrFromGap, GapSize, first
  <2> QED  BY <2>1, <1>1 DEF InvalidAddress
<1>5. CASE dir # "Up" /\ last + size <= end
  <2>1. addr = last
    BY <1>2, <1>5 DEF getAddrFromGap, GapSize, last
  <2> QED  BY <2>1, <1>3 DEF InvalidAddress
<1>6. CASE dir # "Up" /\ ~(last + size <= end)
  <2>1. addr = IF begin + alignment > last \/ last - alignment + size > end
               THEN InvalidAddress ELSE last - alignment
    BY <1>2, <1>6 DEF getAddrFromGap, GapSize, last
  <2>2. a <= last - alignment
    BY <1>3, <1>6
  <2> QED  BY <2>1, <2>2, <1>3 DEF InvalidAddress
<1> QED  BY <1>4, <1>5, <1>6

(* The address that is found is aligned.                                   *)
LEMMA AddrFromGapAligned ==
    ASSUME NEW begin \in Nat, NEW end \in Nat, NEW g, g.begin = begin, g.end = end,
           NEW size \in Nat \ {0}, NEW alignment \in Nat \ {0}, NEW dir,
           getAddrFromGap(g, size, alignment, dir) # InvalidAddress
    PROVE  getAddrFromGap(g, size, alignment, dir) % alignment = 0
<1> DEFINE addr == getAddrFromGap(g, size, alignment, dir)
           first == alignValUp(begin, alignment)
           last == alignValUp(end - size, alignment)
<1>1. first % alignment = 0
  BY FirstAligned
<1>2. CASE dir = "Up"
  <2>1. addr = first
    BY <1>2 DEF getAddrFromGap, GapSize
  <2> QED  BY <2>1, <1>1
<1>3. CASE dir # "Up"
  <2>1. ~(end - begin < size)
    BY <1>3 DEF getAddrFromGap, GapSize
  <2>2. end - size \in Nat
    BY <2>1, AddrFromGapFits
  <2>3. last % alignment = 0 /\ (last - alignment) % alignment = 0
    <3>1. ASSUME NEW v \in Nat, v = end - size
          PROVE  alignValUp(v, alignment) % alignment = 0
                 /\ (alignValUp(v, alignment) - alignment) % alignment = 0
      BY FirstAligned
    <3> QED  BY <2>2, <3>1
  <2>4. addr \in {last, last - alignment}
    BY <1>3 DEF getAddrFromGap, GapSize
  <2> QED  BY <2>3, <2>4
<1> QED  BY <1>2, <1>3

LEMMA MaximumExists ==
    ASSUME NEW N \in Nat, NEW T \in SUBSET (1..N), T # {}
    PROVE  \E m \in T : \A k \in T : k <= m
<1> DEFINE S == {N - k : k \in T}
<1>1. S \in SUBSET Nat /\ S # {}
  <2>1. \A k \in T : k \in 1..N /\ N - k \in Nat
    OBVIOUS
  <2> QED  BY <2>1
<1>2. PICK n \in S : \A k \in S : n <= k
  <2> HIDE DEF S
  <2> QED  BY <1>1, MinimumExists
<1>3. PICK m \in T : n = N - m
  OBVIOUS
<1>4. ASSUME NEW k \in T PROVE k <= m
  <2>1. N - k \in S
    OBVIOUS
  <2>2. N - m <= N - k /\ k \in Int /\ m \in Int
    <3>1. n <= N - k
      BY <2>1, <1>2
    <3>2. k \in 1..N /\ m \in 1..N
      OBVIOUS
    <3> QED  BY <3>1, <3>2, <1>3
  <2> QED  BY <2>2
<1> QED  BY <1>4

(* chooseMinimalGap finds a gap if an allocation fits in one of them.      *)
LEMMA MinimalGapExists ==
    ASSUME NEW M \in Nat, NEW gvec \in GapVectors(M), Separated(gvec),
           NEW size, NEW alignment, NEW dir, NEW i \in DOMAIN gvec,
           getAddrFromGap(gvec[i], size, alignment, dir) # InvalidAddress
    PROVE  chooseMinimalGap(gvec, size, alignment, dir) # {}
<1> DEFINE suitable == {k \in DOMAIN gvec :
                            getAddrFromGap(gvec[k], size, alignment, dir) # InvalidAddress}
           final == IF dir = "Up" THEN Len(gvec) ELSE 1
           preferred == IF suitable \subseteq {final} THEN suitable ELSE suitable \ {final}
           Better(k, j) ==
                \/ GapSize(gvec[k]) < GapSize(gvec[j])
                \/ /\ GapSize(gvec[k]) = GapSize(gvec[j])
                   /\ IF dir = "Up" THEN k < j ELSE k > j
<1>1. chooseMinimalGap(gvec, size, alignment, dir)
        = {k \in preferred : \A j \in preferred \ {k} : Better(k, j)}
  BY DEF chooseMinimalGap
<1>2. preferred \subseteq DOMAIN gvec /\ preferred # {}
  <2>1. i \in suitable
    OBVIOUS
  <2> HIDE DEF final
  <2> QED  BY <2>1
<1> HIDE DEF suitable, final, preferred
<1>3. /\ Len(gvec) \in Nat /\ DOMAIN gvec = 1..Len(gvec)
      /\ \A k \in preferred : GapSize(gvec[k]) \in Nat
  <2>1. \A k \in 1..Len(gvec) : gvec[k].begin \in Int /\ gvec[k].end \in Int
    BY GapVectorElements
  <2>2. \A k \in DOMAIN gvec : gvec[k].begin < gvec[k].end
    BY DEF Separated
  <2> QED  BY <2>1, <2>2, <1>2, GapVectorElements DEF GapSize
<1> DEFINE Sizes == {GapSize(gvec[k]) : k \in preferred}
<1>4. Sizes \in SUBSET Nat /\ Sizes # {}
  BY <1>2, <1>3
<1>5. PICK s \in Sizes : \A t \in Sizes : s <= t
  <2> HIDE DEF Sizes
  <2> QED  BY <1>4, MinimumExists
<1> DEFINE Smallest == {k \in preferred : GapSize(gvec[k]) = s}
<1>6. Smallest \in SUBSET (1..Len(gvec)) /\ Smallest \in SUBSET Nat /\ Smallest # {}
  BY <1>2, <1>3, <1>5
<1>7. \A k \in preferred : GapSize(gvec[k]) \in Nat /\ s <= GapSize(gvec[k]) /\ s \in Nat
  BY <1>3, <1>4, <1>5
<1>8. \A k \in preferred \ Smallest : s < GapSize(gvec[k])
  BY <1>7
<1>9. \E m \in Smallest : \A k \in Smallest \ {m} : IF dir = "Up" THEN m < k ELSE m > k
  <2> HIDE DEF Smallest
  <2>1. \A k \in Smallest : k \in Int
    BY <1>6
  <2>2. CASE dir = "Up"
    <3>1. PICK m \in Smallest : \A k \in Smallest : m <= k
      BY <1>6, MinimumExists
    <3>2. \A k \in Smallest \ {m} : m < k
      BY <3>1, <2>1
    <3> QED  BY <3>2, <2>2
  <2>3. CASE dir # "Up"
    <3>1. PICK m \in Smallest : \A k \in Smallest : k <= m
      BY <1>6, <1>3, MaximumExists
    <3>2. \A k \in Smallest \ {m} : m > k
      BY <3>1, <2>1
    <3> QED  BY <3>2, <2>3
  <2> QED  BY <2>2, <2>3
<1>10. PICK m \in Smallest : \A k \in Smallest \ {m} : IF dir = "Up" THEN m < k ELSE m > k
  BY <1>9
<1>11. \A k \in preferred \ {m} : Better(m, k)
  <2> SUFFICES ASSUME NEW k \in preferred \ {m} PROVE Better(m, k)
    OBVIOUS
  <2>1. GapSize(gvec[m]) = s
    OBVIOUS
  <2>2. CASE k \in Smallest
    BY <2>1, <2>2, <1>10
  <2>3. CASE k \notin Smallest
    BY <2>1, <2>3, <1>8
  <2> QED  BY <2>2, <2>3
<1> QED  BY <1>1, <1>11
-----------------------------------------------------------------------------
(* The covered addresses determine a vector of gaps that never touch.      *)

LEMMA SameStart ==
    ASSUME NEW M \in Nat, NEW G \in GapVectors(M), Separated(G), NEW H \in GapVectors(M),
           NEW m \in 1..Len(G), \A i \in 1..(m - 1) : G[i] = H[i],
           \A a \in Int : Covered(G, a) => Covered(H, a), Separated(H)
    PROVE  m \in 1..Len(H) /\ H[m].begin <= G[m].begin
<1>1. /\ Len(G) \in Nat /\ Len(H) \in Nat /\ DOMAIN G = 1..Len(G) /\ DOMAIN H = 1..Len(H)
      /\ \A i \in 1..Len(G) : G[i].begin \in Int /\ G[i].end \in Int
      /\ \A i \in 1..Len(H) : H[i].begin \in Int /\ H[i].end \in Int
  BY GapVectorElements
<1>2. G[m].begin < G[m].end
  BY <1>1 DEF Separated
<1>3. Covered(H, G[m].begin)
  <2>1. Covered(G, G[m].begin) /\ G[m].begin \in Int
    BY <1>1, <1>2 DEF Covered
  <2> QED  BY <2>1
<1>4. PICK j \in 1..Len(H) : H[j].begin <= G[m].begin /\ G[m].begin < H[j].end
  BY <1>1, <1>3 DEF Covered
<1>5. ~(j < m)
  <2> SUFFICES ASSUME j < m PROVE FALSE
    OBVIOUS
  <2>1. j \in 1..(m - 1) /\ j \in 1..Len(G)
    BY <1>1
  <2>2. G[j].end < G[m].begin /\ G[j] = H[j]
    BY <2>1, <1>1 DEF Separated
  <2> QED  BY <2>1, <2>2, <1>1, <1>4
<1>6. CASE j = m
  BY <1>4, <1>6
<1>7. CASE m < j
  <2>1. m \in 1..Len(H)
    BY <1>1, <1>7
  <2>2. H[m].begin < H[m].end /\ H[m].end < H[j].begin
    BY <2>1, <1>1, <1>7 DEF Separated
  <2> QED  BY <2>1, <2>2, <1>1, <1>4
<1> QED  BY <1>1, <1>5, <1>6, <1>7

LEMMA SameEnd ==
    ASSUME NEW M \in Nat, NEW G \in GapVectors(M), Separated(G), NEW H \in GapVectors(M),
           NEW m \in 1..Len(G), m \in 1..Len(H), G[m].begin = H[m].begin,
           \A a \in Int : Covered(H, a) => Covered(G, a)
    PROVE  H[m].end <= G[m].end
<1>1. /\ Len(G) \in Nat /\ DOMAIN G = 1..Len(G) /\ DOMAIN H = 1..Len(H) /\ Len(H) \in Nat
      /\ \A i \in 1..Len(G) : G[i].begin \in Int /\ G[i].end \in Int
      /\ \A i \in 1..Len(H) : H[i].begin \in Int /\ H[i].end \in Int
  BY GapVectorElements
<1> SUFFICES ASSUME G[m].end < H[m].end PROVE FALSE
  BY <1>1
<1>2. G[m].begin < G[m].end
  BY <1>1 DEF Separated
<1>3. Covered(G, G[m].end)
  <2>1. G[m].end \in Int /\ H[m].begin <= G[m].end /\ m \in DOMAIN H
    BY <1>1, <1>2
  <2>2. Covered(H, G[m].end)
    BY <2>1 DEF Covered
  <2> QED  BY <2>1, <2>2
<1>4. PICK j \in 1..Len(G) : G[j].begin <= G[m].end /\ G[m].end < G[j].end
  BY <1>1, <1>3 DEF Covered
<1>5. G[j].begin < G[j].end
  BY <1>1 DEF Separated
<1>6. CASE j < m
  <2>1. G[j].end < G[m].begin
    BY <1>1, <1>6 DEF Separated
  <2> QED  BY <2>1, <1>1, <1>2, <1>4
<1>7. CASE m < j
  <2>1. G[m].end < G[j].begin
    BY <1>1, <1>7 DEF Separated
  <2> QED  BY <2>1, <1>1, <1>4
<1>8. CASE j = m
  BY <1>1, <1>4, <1>8
<1> QED  BY <1>1, <1>6, <1>7, <1>8

LEMMA SameGaps ==
    ASSUME NEW M \in Nat, NEW G \in GapVectors(M), Separated(G),
           NEW H \in GapVectors(M), Separated(H),
           \A a \in Int : Covered(G, a) <=> Covered(H, a)
    PROVE  G = H
<1>1. /\ Len(G) \in Nat /\ Len(H) \in Nat /\ DOMAIN G = 1..Len(G) /\ DOMAIN H = 1..Len(H)
      /\ G \in Seq([begin : 0..M, end : 0..M]) /\ H \in Seq([begin : 0..M, end : 0..M])
      /\ \A i \in 1..Len(G) : G[i].begin \in Int /\ G[i].end \in Int
      /\ \A i \in 1..Len(H) : H[i].begin \in Int /\ H[i].end \in Int
  <2>1. G \in Seq([begin : 0..M, end : 0..M]) /\ H \in Seq([begin : 0..M, end : 0..M])
    BY DEF GapVectors
  <2> QED  BY <2>1, GapVectorElements
<1> DEFINE Differ == {i \in Nat : \/ i \in 1..Len(G) /\ (i \in 1..Len(H) => G[i] # H[i])
                                  \/ i \in 1..Len(H) /\ (i \in 1..Len(G) => G[i] # H[i])}
<1>2. ASSUME Differ # {} PROVE FALSE
  <2>1. PICK m \in Differ : \A k \in Differ : m <= k
    <3>1. Differ \in SUBSET Nat
      OBVIOUS
    <3> HIDE DEF Differ
    <3> QED  BY <1>2, <3>1, MinimumExists
  <2>2. m \in Nat /\ m >= 1 /\ (m \in 1..Len(G) \/ m \in 1..Len(H))
    BY <1>1
  <2>3. \A i \in 1..(m - 1) : G[i] = H[i] /\ H[i] = G[i]
    <3> SUFFICES ASSUME NEW i \in 1..(m - 1) PROVE G[i] = H[i]
      OBVIOUS
    <3>1. i \in Nat /\ i < m
      BY <2>2
    <3>2. i \notin Differ
      BY <3>1, <2>1, <2>2
    <3>3. i \in 1..Len(G) \/ i \in 1..Len(H)
      BY <1>1, <2>2, <3>1
    <3> QED  BY <3>1, <3>2, <3>3
  <2>4. m \in 1..Len(G) => m \in 1..Len(H) /\ H[m].begin <= G[m].begin
    BY <2>3, SameStart
  <2>5. m \in 1..Len(H) => m \in 1..Len(G) /\ G[m].begin <= H[m].begin
    BY <2>3, SameStart
  <2>6. m \in 1..Len(G) /\ m \in 1..Len(H) /\ G[m].begin = H[m].begin
    BY <2>2, <2>4, <2>5, <1>1
  <2>7. H[m].end <= G[m].end /\ G[m].end <= H[m].end
    BY <2>6, SameEnd
  <2>8. G[m].end = H[m].end
    BY <2>6, <2>7, <1>1, SMTT(20)
  <2>9. G[m] \in [begin : 0..M, end : 0..M] /\ H[m] \in [begin : 0..M, end : 0..M]
    <3>1. \A T, s : s \in Seq(T) /\ m \in 1..Len(s) => s[m] \in T
      OBVIOUS
    <3> QED  BY <1>1, <2>6, <3>1
  <2>10. G[m] = H[m]
    BY <2>6, <2>8, <2>9
  <2> QED  BY <2>6, <2>10
<1>3. Differ = {}
  BY <1>2
<1>4. \A i \in Nat : i \in 1..Len(G) <=> i \in 1..Len(H)
  BY <1>3
<1>5. \A i \in 1..Len(G) : G[i] = H[i]
  BY <1>1, <1>3, SMTT(20)
<1>6. Len(G) = Len(H)
  <2>1. \A a, b \in Nat : (\A i \in Nat : i \in 1..a <=> i \in 1..b) => a = b
    <3> SUFFICES ASSUME NEW a \in Nat, NEW b \in Nat, \A i \in Nat : i \in 1..a <=> i \in 1..b
                 PROVE  a = b
      OBVIOUS
    <3>1. a >= 1 => a <= b
      OBVIOUS
    <3>2. b >= 1 => b <= a
      OBVIOUS
    <3> QED  BY <3>1, <3>2
  <2> HIDE DEF Differ
  <2> QED  BY <1>1, <1>4, <2>1
<1> HIDE DEF Differ
<1> QED  BY <1>1, <1>5, <1>6, SeqEqual


-----------------------------------------------------------------------------
(* The memory without the calls: P maps every range that holds memory to   *)
(* its address, L is the set of the other blocks in use.                   *)

Fit(addr, size) == addr \in Nat /\ addr + size <= TotalSize
ApartFrom(addr, size, b) == ~intersects(addr, size, b.addr, b.size)

Blocks(P) == {Block(P[r], Size[r]) : r \in DOMAIN P}
Taken(P, L, a) ==
    \/ \E b \in L : Within(a, b.addr, b.addr + b.size)
    \/ \E r \in DOMAIN P : Within(a, P[r], P[r] + Size[r])

WellPlaced(P, L) ==
    /\ DOMAIN P \subseteq LiveRange
    /\ \A r \in DOMAIN P : Fit(P[r], Size[r])
    /\ \A b \in L : b.size \in Nat \ {0} /\ Fit(b.addr, b.size)
    /\ \A r, s \in DOMAIN P : r # s => ~intersects(P[r], Size[r], P[s], Size[s])
    /\ \A r \in DOMAIN P, b \in L : ApartFrom(P[r], Size[r], b)

Accounted(G, P, L) ==
    \A a \in 0..(TotalSize - 1) : Covered(G, a) <=> ~Taken(P, L, a)

Consistent(G, P, L) ==
    /\ G \in GapVectors(TotalSize) /\ Separated(G)
    /\ WellPlaced(P, L)
    /\ Accounted(G, P, L)

FreeBlock(G, addr, size) == \A a \in Int : Within(a, addr, addr + size) => Covered(G, a)

LEMMA SizePositive == \A r \in LiveRange : Size[r] \in Nat \ {0} /\ Alignment[r] \in Nat \ {0}
BY RangeAssumption

(* Two blocks without a common address do not intersect.                   *)
LEMMA NoCommonAddress ==
    ASSUME NEW a1 \in Nat, NEW s1 \in Nat \ {0}, NEW a2 \in Nat, NEW s2 \in Nat \ {0},
           \A a \in Int : ~(Within(a, a1, a1 + s1) /\ Within(a, a2, a2 + s2))
    PROVE  ~intersects(a1, s1, a2, s2)
<1>1. ~(Within(a1, a1, a1 + s1) /\ Within(a1, a2, a2 + s2))
  OBVIOUS
<1>2. ~(Within(a2, a1, a1 + s1) /\ Within(a2, a2, a2 + s2))
  OBVIOUS
<1> QED  BY <1>1, <1>2 DEF Within, intersects

(* Addresses outside of the memory are in no gap.                          *)
LEMMA CoveredInside ==
    ASSUME NEW G \in GapVectors(TotalSize), NEW a \in Int, Covered(G, a)
    PROVE  a \in 0..(TotalSize - 1)
<1>1. TotalSize \in Nat
  BY TotalSizeAssumption
<1>2. PICK i \in DOMAIN G : G[i].begin <= a /\ a < G[i].end
  BY DEF Covered
<1>3. G[i].begin \in 0..TotalSize /\ G[i].end \in 0..TotalSize
  BY <1>1, GapVectorElements
<1> QED  BY <1>1, <1>2, <1>3

(* A range takes a free block.                                             *)
LEMMA Take ==
    ASSUME NEW G, NEW G2, NEW P, NEW L, Consistent(G, P, L),
           NEW r \in LiveRange, r \notin DOMAIN P, NEW addr, Fit(addr, Size[r]),
           FreeBlock(G, addr, Size[r]),
           G2 \in GapVectors(TotalSize), Separated(G2),
           \A a \in Int : Covered(G2, a) <=> Covered(G, a) /\ ~Within(a, addr, addr + Size[r]),
           NEW P2, P2 = [s \in DOMAIN P \cup {r} |-> IF s = r THEN addr ELSE P[s]]
    PROVE  Consistent(G2, P2, L)
<1>1. /\ addr \in Nat /\ Size[r] \in Nat \ {0} /\ TotalSize \in Nat /\ addr + Size[r] <= TotalSize
      /\ \A s \in DOMAIN P : P[s] \in Nat /\ Size[s] \in Nat \ {0} /\ s \in LiveRange
      /\ \A b \in L : b.addr \in Nat /\ b.size \in Nat \ {0}
  BY SizePositive, TotalSizeAssumption DEF Consistent, WellPlaced, Fit
<1>2. /\ DOMAIN P2 = DOMAIN P \cup {r} /\ P2[r] = addr
      /\ \A s \in DOMAIN P : P2[s] = P[s] /\ s # r
  OBVIOUS
<1>3. \A a \in Int : Within(a, addr, addr + Size[r]) => ~Taken(P, L, a)
  <2> SUFFICES ASSUME NEW a \in Int, Within(a, addr, addr + Size[r]) PROVE ~Taken(P, L, a)
    OBVIOUS
  <2>1. a \in 0..(TotalSize - 1) /\ Covered(G, a)
    BY <1>1 DEF Within, FreeBlock
  <2> QED  BY <2>1 DEF Consistent, Accounted
<1>4. \A s \in DOMAIN P : ~intersects(addr, Size[r], P[s], Size[s])
  <2> SUFFICES ASSUME NEW s \in DOMAIN P PROVE ~intersects(addr, Size[r], P[s], Size[s])
    OBVIOUS
  <2>1. \A a \in Int : ~(Within(a, addr, addr + Size[r]) /\ Within(a, P[s], P[s] + Size[s]))
    BY <1>3 DEF Taken
  <2> QED  BY <2>1, <1>1, NoCommonAddress
<1>5. \A b \in L : ApartFrom(addr, Size[r], b)
  <2> SUFFICES ASSUME NEW b \in L PROVE ApartFrom(addr, Size[r], b)
    OBVIOUS
  <2>1. \A a \in Int : ~(Within(a, addr, addr + Size[r]) /\ Within(a, b.addr, b.addr + b.size))
    BY <1>3 DEF Taken
  <2> QED  BY <2>1, <1>1, NoCommonAddress DEF ApartFrom
<1>6. WellPlaced(P2, L)
  <2>1. \A s \in DOMAIN P : ~intersects(P[s], Size[s], addr, Size[r])
    BY <1>1, <1>4 DEF intersects
  <2>2. DOMAIN P2 \subseteq LiveRange
    BY <1>1, <1>2
  <2>3. \A s \in DOMAIN P2 : Fit(P2[s], Size[s])
    BY <1>2 DEF Consistent, WellPlaced
  <2>4. \A s, t \in DOMAIN P2 : s # t => ~intersects(P2[s], Size[s], P2[t], Size[t])
    BY <1>2, <1>4, <2>1 DEF Consistent, WellPlaced
  <2>5. \A s \in DOMAIN P2, b \in L : ApartFrom(P2[s], Size[s], b)
    BY <1>2, <1>5 DEF Consistent, WellPlaced
  <2>6. \A b \in L : b.size \in Nat \ {0} /\ Fit(b.addr, b.size)
    BY DEF Consistent, WellPlaced
  <2> QED  BY <2>2, <2>3, <2>4, <2>5, <2>6 DEF WellPlaced
<1>7. Accounted(G2, P2, L)
  <2> SUFFICES ASSUME NEW a \in 0..(TotalSize - 1) PROVE Covered(G2, a) <=> ~Taken(P2, L, a)
    BY DEF Accounted
  <2>1. Taken(P2, L, a) <=> Taken(P, L, a) \/ Within(a, addr, addr + Size[r])
    BY <1>2 DEF Taken
  <2>2. Covered(G, a) <=> ~Taken(P, L, a)
    BY DEF Consistent, Accounted
  <2> QED  BY <2>1, <2>2, <1>1
<1> QED  BY <1>6, <1>7 DEF Consistent

(* A range gives its block back.                                           *)
LEMMA Give ==
    ASSUME NEW G, NEW P, NEW L, Consistent(G, P, L), NEW r \in DOMAIN P,
           NEW P2, P2 = [s \in DOMAIN P \ {r} |-> P[s]]
    PROVE  /\ Consistent(free(G, P[r], Size[r]), P2, L)
           /\ FreeBlock(free(G, P[r], Size[r]), P[r], Size[r])
           /\ \A a \in Int : Covered(G, a) => Covered(free(G, P[r], Size[r]), a)
<1> DEFINE G2 == free(G, P[r], Size[r])
           addr == P[r]
<1>1. /\ addr \in Nat /\ Size[r] \in Nat \ {0} /\ TotalSize \in Nat /\ addr + Size[r] <= TotalSize
      /\ \A s \in DOMAIN P : P[s] \in Nat /\ Size[s] \in Nat \ {0} /\ s \in LiveRange
      /\ \A b \in L : b.addr \in Nat /\ b.size \in Nat \ {0}
  BY SizePositive, TotalSizeAssumption DEF Consistent, WellPlaced, Fit
<1>2. DOMAIN P2 = DOMAIN P \ {r} /\ \A s \in DOMAIN P2 : P2[s] = P[s] /\ s # r
  OBVIOUS
<1>3. \A a \in Int : Within(a, addr, addr + Size[r]) => ~Covered(G, a)
  <2> SUFFICES ASSUME NEW a \in Int, Within(a, addr, addr + Size[r]) PROVE ~Covered(G, a)
    OBVIOUS
  <2>1. a \in 0..(TotalSize - 1) /\ Taken(P, L, a)
    BY <1>1 DEF Within, Taken
  <2> QED  BY <2>1 DEF Consistent, Accounted
<1>4. /\ G2 \in GapVectors(TotalSize) /\ Separated(G2)
      /\ \A a \in Int : Covered(G2, a) <=> Covered(G, a) \/ Within(a, addr, addr + Size[r])
  BY <1>1, <1>3, FreeProperties DEF Consistent
<1>5. WellPlaced(P2, L)
  BY <1>2 DEF Consistent, WellPlaced
<1>6. ASSUME NEW a \in Int, Within(a, addr, addr + Size[r]) PROVE ~Taken(P2, L, a)
  <2>1. ASSUME NEW s \in DOMAIN P2, Within(a, P2[s], P2[s] + Size[s]) PROVE FALSE
    <3>1. ~intersects(P[r], Size[r], P[s], Size[s])
      BY <1>2 DEF Consistent, WellPlaced
    <3> QED  BY <3>1, <2>1, <1>1, <1>2, <1>6 DEF intersects, Within
  <2>2. ASSUME NEW b \in L, Within(a, b.addr, b.addr + b.size) PROVE FALSE
    <3>1. ~intersects(P[r], Size[r], b.addr, b.size)
      BY DEF Consistent, WellPlaced, ApartFrom
    <3> QED  BY <3>1, <2>2, <1>1, <1>6 DEF intersects, Within
  <2> QED  BY <2>1, <2>2 DEF Taken
<1>7. Accounted(G2, P2, L)
  <2> SUFFICES ASSUME NEW a \in 0..(TotalSize - 1) PROVE Covered(G2, a) <=> ~Taken(P2, L, a)
    BY DEF Accounted
  <2>1. Taken(P, L, a) <=> Taken(P2, L, a) \/ Within(a, addr, addr + Size[r])
    BY <1>2 DEF Taken
  <2>2. Covered(G, a) <=> ~Taken(P, L, a)
    BY DEF Consistent, Accounted
  <2>3. a \in Int
    BY <1>1
  <2> QED  BY <2>1, <2>2, <2>3, <1>4, <1>6
<1>8. FreeBlock(G2, P[r], Size[r])
  BY <1>4 DEF FreeBlock
<1> QED  BY <1>4, <1>5, <1>7, <1>8 DEF Consistent

(* Nobody will free the block of a range any more.                         *)
LEMMA Lose ==
    ASSUME NEW G, NEW P, NEW L, Consistent(G, P, L), NEW r \in DOMAIN P,
           NEW P2, P2 = [s \in DOMAIN P \ {r} |-> P[s]],
           NEW L2, L2 = L \cup {Block(P[r], Size[r])}
    PROVE  Consistent(G, P2, L2)
<1>1. Block(P[r], Size[r]).addr = P[r] /\ Block(P[r], Size[r]).size = Size[r]
  BY DEF Block
<1>2. DOMAIN P2 = DOMAIN P \ {r} /\ \A s \in DOMAIN P2 : P2[s] = P[s] /\ s # r
  OBVIOUS
<1>3. Size[r] \in Nat \ {0}
  BY SizePositive DEF Consistent, WellPlaced
<1>4. WellPlaced(P2, L2)
  <2>1. \A s \in DOMAIN P2 : ApartFrom(P2[s], Size[s], Block(P[r], Size[r]))
    BY <1>1, <1>2 DEF Consistent, WellPlaced, ApartFrom
  <2> QED  BY <2>1, <1>1, <1>2, <1>3 DEF Consistent, WellPlaced
<1>5. \A a : Taken(P, L, a) <=> Taken(P2, L2, a)
  BY <1>1, <1>2 DEF Taken
<1> QED  BY <1>4, <1>5 DEF Consistent, Accounted
-----------------------------------------------------------------------------
(* The inductive invariant.                                                *)

Places == [r \in Holding |-> Where(r)]
Sunk == ReservedBlocks \cup lost

(* A range waits, is a spill candidate, is placed or is live: one of these *)
(* at most; and the stages of a call find it in the state they need.       *)
CallInOrder ==
    /\ \A i, j \in DOMAIN todo : i # j => todo[i] # todo[j]
    /\ \A i \in DOMAIN todo : todo[i] \notin live \cup Placed \cup candidates
    /\ candidates \cap (live \cup Placed) = {}
    /\ Placed \cap live = {}
    /\ stage \in {"idle", "freeNonAlive"} => Placed = {}
    /\ stage \notin {"place", "spill", "assert"} => candidates = {}
    /\ stage = "spill" =>
        /\ todo # <<>> /\ New \in LiveRange
        /\ newRangeAddr \in Nat /\ newRangeAddr + Size[New] <= TotalSize

CandidateAt(c) == address[c] \in Nat /\ address[c] + Size[c] <= TotalSize

(* The memory of the candidates is free, except for what the new range has *)
(* taken of it; a fixed range finds its memory free.                       *)
CandidatesFree ==
    /\ \A c \in candidates : CandidateAt(c)
    /\ \A c, d \in candidates : c # d => ~intersects(address[c], Size[c], address[d], Size[d])
    /\ stage = "place" => \A c \in candidates : FreeBlock(gaps, address[c], Size[c])
    /\ stage = "spill" => \A c \in candidates :
            ~Conflicts(c) => FreeBlock(gaps, address[c], Size[c])
    /\ stage = "spill" /\ isFixedAlloc(New) => FreeBlock(gaps, newRangeAddr, Size[New])

LSInv == LSTypeOK /\ Consistent(gaps, Places, Sunk) /\ CallInOrder /\ CandidatesFree

(* What a step does to the abstract memory.                                *)
MemoryStep == InUse' = InUse \/ Map!Take \/ Map!GiveBack

LEMMA SamePlaces ==
    ASSUME Holding' = Holding, \A r \in Holding : Where(r)' = Where(r), lost' = lost
    PROVE  Places' = Places /\ MemoryStep
<1>1. Places' = Places
  BY DEF Places
<1>2. {Block(Where(r), Size[r]) : r \in Holding}' = {Block(Where(r), Size[r]) : r \in Holding}
  OBVIOUS
<1>3. InUse' = InUse
  BY <1>2 DEF InUse
<1> QED  BY <1>1, <1>3 DEF MemoryStep

LEMMA TailOfTodo ==
    ASSUME LSInv, todo # <<>>
    PROVE  /\ New \in LiveRange /\ New = todo[1] /\ Tail(todo) \in Seq(LiveRange)
           /\ New \notin live \cup Placed \cup candidates
           /\ DOMAIN Tail(todo) = 1..(Len(todo) - 1) /\ DOMAIN todo = 1..Len(todo) /\ Len(todo) \in Nat
           /\ \A i \in DOMAIN Tail(todo) : /\ Tail(todo)[i] = todo[i + 1] /\ i + 1 \in DOMAIN todo
                                           /\ Tail(todo)[i] # New
           /\ \A i, j \in DOMAIN Tail(todo) : i # j => Tail(todo)[i] # Tail(todo)[j]
<1>1. todo \in Seq(LiveRange)
  BY DEF LSInv, LSTypeOK
<1>2. /\ New \in LiveRange /\ New = todo[1] /\ Tail(todo) \in Seq(LiveRange)
      /\ DOMAIN Tail(todo) = 1..(Len(todo) - 1) /\ DOMAIN todo = 1..Len(todo)
      /\ Len(todo) \in Nat /\ 1 \in DOMAIN todo
  BY <1>1 DEF New
<1>3. \A i \in DOMAIN Tail(todo) : Tail(todo)[i] = todo[i + 1] /\ i + 1 \in DOMAIN todo /\ i + 1 # 1
  BY <1>1, <1>2
<1>4. New \notin live \cup Placed \cup candidates
  BY <1>2 DEF LSInv, CallInOrder
<1>5. \A i, j \in DOMAIN Tail(todo) : i # j => i + 1 # j + 1
  BY <1>2
<1> QED  BY <1>2, <1>3, <1>4, <1>5 DEF LSInv, CallInOrder

(* The actions that neither give memory to a range nor take it away.       *)
Quiet ==
    \/ markAsDead \/ freeNonAlive \/ NonAliveFreed \/ alloc \/ AssertionFails \/ GiveUp
    \/ SpillCandidate \/ ReturnFailed \/ canAlloc \/ TrialOver \/ ReturnCanAlloc \/ Stopped

LEMMA QuietSteps ==
    ASSUME LSInv, Quiet
    PROVE  LSInv' /\ MemoryStep
<1> USE DEF Quiet
<1>1. /\ LSTypeOK /\ Consistent(gaps, Places, Sunk) /\ CallInOrder /\ CandidatesFree
  BY DEF LSInv
<1>2. /\ gaps' = gaps /\ live' = live /\ address' = address /\ lost' = lost
      /\ placed' = placed \/ (placed' = Nowhere /\ Placed = {})
  BY DEF markAsDead, freeNonAlive, NonAliveFreed, alloc, AssertionFails, GiveUp, SpillCandidate,
         ReturnFailed, canAlloc, TrialOver, ReturnCanAlloc, Stopped, callVars, vars, EndCall
<1>3. Placed' = Placed /\ \A r \in Placed : placed'[r] = placed[r]
  BY <1>2 DEF Placed, Nowhere
<1>4. CASE SpillCandidate
  <2>1. /\ stage = "spill" /\ stage' = stage /\ todo' = todo /\ newRangeAddr' = newRangeAddr
        /\ candidates' \subseteq candidates /\ placed' = placed
        /\ UNCHANGED <<allowSpills, direction, gapsBefore>> /\ alive' \subseteq LiveRange
    BY <1>1, <1>4 DEF SpillCandidate, LSTypeOK
  <2>2. Holding' = Holding /\ \A r \in Holding : Where(r)' = Where(r)
    BY <2>1, <1>2 DEF Holding, Where, Placed, New
  <2>3. Consistent(gaps, Places, Sunk)' /\ MemoryStep
    BY <2>2, <1>1, <1>2, SamePlaces DEF Sunk
  <2>4. LSTypeOK'
    BY <2>1, <1>1, <1>2 DEF LSTypeOK
  <2>5. CallInOrder'
    BY <2>1, <1>1, <1>2, <1>3 DEF CallInOrder, New
  <2>6. CandidatesFree'
    BY <2>1, <1>1, <1>2 DEF CandidatesFree, CandidateAt, Conflicts, New
  <2> QED  BY <2>3, <2>4, <2>5, <2>6 DEF LSInv
<1>5. CASE ~SpillCandidate
  <2>1. /\ stage # "spill" /\ stage' # "spill"
        /\ stage' \in {"place", "assert"} \/ candidates' = {}
        /\ stage' \in {"idle", "freeNonAlive", "place", "rollback", "trial", "dealloc", "throw", "assert"}
    BY <1>1, <1>5 DEF markAsDead, freeNonAlive, NonAliveFreed, alloc, AssertionFails, GiveUp,
         ReturnFailed, canAlloc, TrialOver, ReturnCanAlloc, Stopped, callVars, vars, EndCall,
         LSTypeOK, CallInOrder
  <2>2. Holding' = Holding /\ \A r \in Holding : Where(r)' = Where(r)
    BY <2>1, <1>2, <1>3 DEF Holding, Where
  <2>3. Consistent(gaps, Places, Sunk)' /\ MemoryStep
    BY <2>2, <1>1, <1>2, SamePlaces DEF Sunk
  <2>4. /\ placed' \in [LiveRange -> 0..TotalSize \cup {InvalidAddress}]
        /\ newRangeAddr' \in 0..TotalSize \cup {InvalidAddress}
        /\ allowSpills' \in BOOLEAN /\ direction' \in {"Up", "Down"}
        /\ candidates' = candidates \/ candidates' = {}
        /\ gapsBefore' \in {gaps, gapsBefore, <<>>}
    BY <1>1, <1>5 DEF markAsDead, freeNonAlive, NonAliveFreed, alloc, AssertionFails, GiveUp,
         ReturnFailed, canAlloc, TrialOver, ReturnCanAlloc, Stopped, callVars, vars, EndCall,
         LSTypeOK, Nowhere
  <2>5. alive' \subseteq LiveRange
    <3>1. CASE alloc
      <4>1. PICK batch \in Batches : alive' = alive \cup {batch[i] : i \in DOMAIN batch}
        BY <3>1 DEF alloc
      <4>2. \A i \in DOMAIN batch : batch[i] \in LiveRange
        BY BatchesAssumption
      <4> QED  BY <4>1, <4>2, <1>1 DEF LSTypeOK
    <3>2. CASE ~alloc
      BY <3>2, <1>1, <1>5 DEF markAsDead, freeNonAlive, NonAliveFreed, AssertionFails, GiveUp,
         ReturnFailed, canAlloc, TrialOver, ReturnCanAlloc, Stopped, callVars, vars, EndCall, LSTypeOK
    <3> QED  BY <3>1, <3>2
  <2>6. /\ todo' \in Seq(LiveRange)
        /\ \A i, j \in DOMAIN todo' : i # j => todo'[i] # todo'[j]
        /\ \A i \in DOMAIN todo' : todo'[i] \notin live' \cup Placed' \cup candidates'
    <3>1. CASE alloc \/ canAlloc
      <4>1. PICK batch \in Batches : todo' = batch /\ \A i \in DOMAIN batch : batch[i] \notin live
        BY <3>1 DEF alloc, canAlloc
      <4>2. stage = "idle" /\ candidates' = candidates
        BY <3>1 DEF alloc, canAlloc
      <4>3. Placed' = {} /\ candidates' = {}
        BY <4>2, <1>1, <1>3 DEF CallInOrder
      <4> QED  BY <4>1, <4>3, <1>2, BatchesAssumption
    <3>2. CASE ~(alloc \/ canAlloc)
      <4>1. todo' = todo \/ todo' = <<>>
        BY <3>2, <1>5 DEF markAsDead, freeNonAlive, NonAliveFreed, AssertionFails, GiveUp,
             ReturnFailed, TrialOver, ReturnCanAlloc, Stopped, callVars, vars, EndCall
      <4>2. CASE todo' = todo
        BY <4>2, <2>4, <1>1, <1>2, <1>3 DEF LSTypeOK, CallInOrder
      <4>3. CASE todo' = <<>>
        BY <4>3
      <4> QED  BY <4>1, <4>2, <4>3
    <3> QED  BY <3>1, <3>2
  <2>7. LSTypeOK'
    <3>1. gapsBefore' \in Seq([begin : 0..TotalSize, end : 0..TotalSize])
      <4> DEFINE T == Seq([begin : 0..TotalSize, end : 0..TotalSize])
      <4>1. gaps \in T /\ gapsBefore \in T /\ <<>> \in T
        BY <1>1 DEF LSTypeOK
      <4> HIDE DEF T
      <4>2. gapsBefore' \in T
        BY <4>1, <2>4
      <4> QED  BY <4>2 DEF T
    <3> QED  BY <2>1, <2>4, <2>5, <2>6, <3>1, <1>1, <1>2 DEF LSTypeOK
  <2>8. CallInOrder'
    <3>1. stage' \in {"idle", "freeNonAlive"} => Placed' = {}
      BY <1>1, <1>3, <1>5 DEF markAsDead, freeNonAlive, NonAliveFreed, alloc, AssertionFails, GiveUp,
         ReturnFailed, canAlloc, TrialOver, ReturnCanAlloc, Stopped, callVars, vars, CallInOrder
    <3> QED  BY <2>1, <2>4, <2>6, <3>1, <1>1, <1>2, <1>3 DEF CallInOrder
  <2>9. CandidatesFree'
    <3>1. stage' = "place" => (stage = "place" \/ candidates' = {})
      BY <1>1, <1>5 DEF markAsDead, freeNonAlive, NonAliveFreed, alloc, AssertionFails, GiveUp,
         ReturnFailed, canAlloc, TrialOver, ReturnCanAlloc, Stopped, callVars, vars, CallInOrder, EndCall
    <3> QED  BY <2>1, <2>4, <3>1, <1>1, <1>2 DEF CandidatesFree, CandidateAt
  <2> QED  BY <2>3, <2>7, <2>8, <2>9 DEF LSInv
<1> QED  BY <1>4, <1>5

LEMMA GiveStep ==
    ASSUME LSInv, NEW r \in Holding, gaps' = free(gaps, Where(r), Size[r]),
           Holding' = Holding \ {r}, \A s \in Holding \ {r} : Where(s)' = Where(s), lost' = lost
    PROVE  /\ Consistent(gaps, Places, Sunk)'
           /\ FreeBlock(gaps', Where(r), Size[r])
           /\ \A a \in Int : Covered(gaps, a) => Covered(gaps', a)
           /\ MemoryStep
<1>1. DOMAIN Places = Holding /\ Places[r] = Where(r)
  BY DEF Places
<1>2. Places' = [s \in DOMAIN Places \ {r} |-> Places[s]]
  BY DEF Places
<1>3. Sunk' = Sunk
  BY DEF Sunk
<1>4. Consistent(gaps, Places, Sunk)
  BY DEF LSInv
<1>6. MemoryStep
  <2> DEFINE b == Block(Where(r), Size[r])
  <2>1. b.addr = Where(r) /\ b.size = Size[r]
    BY DEF Block
  <2>2. Size[r] \in Nat \ {0} /\ Where(r) \in Nat
    BY <1>1, <1>4, SizePositive DEF Consistent, WellPlaced, Fit
  <2>3. b \notin Sunk
    <3> SUFFICES ASSUME b \in Sunk PROVE FALSE
      OBVIOUS
    <3>1. ApartFrom(Where(r), Size[r], b)
      BY <1>1, <1>4 DEF Consistent, WellPlaced
    <3> QED  BY <3>1, <2>1, <2>2 DEF ApartFrom, intersects
  <2>4. \A s \in Holding \ {r} : Block(Where(s), Size[s]) # b
    <3> SUFFICES ASSUME NEW s \in Holding \ {r}, Block(Where(s), Size[s]) = b PROVE FALSE
      OBVIOUS
    <3>1. Block(Where(s), Size[s]).addr = Where(s) /\ Block(Where(s), Size[s]).size = Size[s]
      BY DEF Block
    <3>2. Where(s) = Where(r) /\ Size[s] = Size[r]
      BY <3>1, <2>1
    <3>3. ~intersects(Where(s), Size[s], Where(r), Size[r])
      BY <1>4 DEF Consistent, WellPlaced, Places
    <3> QED  BY <3>2, <3>3, <2>2 DEF intersects
  <2> HIDE DEF b
  <2>5. {Block(Where(s), Size[s]) : s \in Holding}' = {Block(Where(s), Size[s]) : s \in Holding \ {r}}
    OBVIOUS
  <2>6. {Block(Where(s), Size[s]) : s \in Holding}
            = {Block(Where(s), Size[s]) : s \in Holding \ {r}} \cup {b}
    BY DEF b
  <2>7. b \in InUse \ ReservedBlocks
    BY <2>3, <2>6 DEF InUse, Sunk
  <2>8. InUse' = InUse \ {b}
    BY <2>3, <2>4, <2>5, <2>6 DEF InUse, Sunk
  <2> QED  BY <2>7, <2>8 DEF MemoryStep, Map!GiveBack
<1> HIDE DEF Places
<1>5. /\ Consistent(free(gaps, Places[r], Size[r]), Places', Sunk)
      /\ FreeBlock(free(gaps, Places[r], Size[r]), Places[r], Size[r])
      /\ \A a \in Int : Covered(gaps, a) => Covered(free(gaps, Places[r], Size[r]), a)
  BY <1>1, <1>2, <1>4, Give
<1> QED  BY <1>1, <1>3, <1>5, <1>6

LEMMA TakeStep ==
    ASSUME LSInv, NEW r \in LiveRange, r \notin Holding, NEW addr, Fit(addr, Size[r]),
           FreeBlock(gaps, addr, Size[r]),
           gaps' \in GapVectors(TotalSize), Separated(gaps'),
           \A a \in Int : Covered(gaps', a) <=> Covered(gaps, a) /\ ~Within(a, addr, addr + Size[r]),
           Holding' = Holding \cup {r}, Where(r)' = addr,
           \A s \in Holding : Where(s)' = Where(s), lost' = lost
    PROVE  Consistent(gaps, Places, Sunk)' /\ MemoryStep
<1>1. DOMAIN Places = Holding
  BY DEF Places
<1>2. Places' = [s \in DOMAIN Places \cup {r} |-> IF s = r THEN addr ELSE Places[s]]
  BY DEF Places
<1>3. Sunk' = Sunk
  BY DEF Sunk
<1>4. Consistent(gaps, Places, Sunk)
  BY DEF LSInv
<1> HIDE DEF Places
<1>5. Consistent(gaps', Places', Sunk)
  BY <1>1, <1>2, <1>4, Take
<1>6. MemoryStep
  <2> DEFINE b == Block(addr, Size[r])
  <2>1. b = [addr |-> addr, size |-> Size[r]] /\ b.addr = addr /\ b.size = Size[r]
    BY DEF Block
  <2>2. /\ Size[r] \in Nat \ {0} /\ addr \in Nat /\ addr + Size[r] <= TotalSize /\ TotalSize \in Nat
    BY SizePositive, TotalSizeAssumption DEF Fit
  <2>3. DOMAIN Places' = Holding \cup {r} /\ Places'[r] = addr /\ \A s \in Holding : Places'[s] = Places[s]
    BY <1>1, <1>2
  <2>4. \A s \in Holding : ~intersects(addr, Size[r], Places[s], Size[s])
    BY <2>3, <1>5 DEF Consistent, WellPlaced
  <2>5. \A c \in Sunk : ~intersects(addr, Size[r], c.addr, c.size)
    BY <2>3, <1>5 DEF Consistent, WellPlaced, ApartFrom
  <2>6. /\ \A s \in Holding : Places[s] \in Nat /\ Size[s] \in Nat /\ Places[s] = Where(s)
        /\ \A c \in Sunk : c.addr \in Nat /\ c.size \in Nat
    <3>1. \A s \in Holding : Places[s] = Where(s)
      BY DEF Places
    <3> QED  BY <3>1, <1>1, <1>4, SizePositive DEF Consistent, WellPlaced, Fit
  <2>7. ASSUME NEW c \in InUse PROVE Map!Apart(b, c)
    <3>1. CASE c \in Sunk
      BY <3>1, <2>1, <2>2, <2>5, <2>6 DEF Map!Apart, intersects
    <3>2. CASE c \notin Sunk
      <4>1. PICK s \in Holding : c = Block(Where(s), Size[s])
        BY <3>2 DEF InUse, Sunk
      <4>2. c.addr = Where(s) /\ c.size = Size[s]
        BY <4>1 DEF Block
      <4> QED  BY <4>2, <2>1, <2>2, <2>4, <2>6 DEF Map!Apart, intersects
    <3> QED  BY <3>1, <3>2
  <2>8. InUse' = InUse \cup {b}
    <3>1. {Block(Where(s), Size[s]) : s \in Holding}'
            = {Block(Where(s), Size[s]) : s \in Holding} \cup {b}
      OBVIOUS
    <3> QED  BY <3>1 DEF InUse
  <2>9. Map!Fits(b, InUse)
    BY <2>1, <2>2, <2>7 DEF Map!Fits
  <2>10. addr \in 0..TotalSize /\ Size[r] \in 0..TotalSize
    BY <2>2
  <2> HIDE DEF b
  <2> QED  BY <2>1, <2>8, <2>9, <2>10 DEF MemoryStep, Map!Take
<1> QED  BY <1>3, <1>5, <1>6

(* The ranges that hold memory, apart from one in its place but waiting.   *)
LEMMA HoldingUnlessSpill ==
    ASSUME LSInv
    PROVE  /\ Holding \subseteq LiveRange /\ live \cup Placed \subseteq Holding
           /\ \A r \in live : Where(r) = address[r]
           /\ \A r \in Placed : Where(r) = placed[r] /\ r \notin live
           /\ stage # "spill" => Holding = live \cup Placed
           /\ stage = "spill" => Holding = live \cup Placed \cup
                                    (IF isFixedAlloc(New) THEN {} ELSE {New})
           /\ stage = "spill" /\ ~isFixedAlloc(New) => Where(New) = newRangeAddr
           /\ \A r \in Holding : Where(r) \in Nat /\ Where(r) + Size[r] <= TotalSize
<1>1. live \subseteq LiveRange /\ Placed \subseteq LiveRange /\ Placed \cap live = {}
  BY DEF LSInv, LSTypeOK, CallInOrder, Placed
<1>2. /\ Holding \subseteq LiveRange /\ live \cup Placed \subseteq Holding
      /\ stage # "spill" => Holding = live \cup Placed
  BY <1>1 DEF Holding
<1>3. /\ \A r \in live : Where(r) = address[r]
      /\ \A r \in Placed : Where(r) = placed[r] /\ r \notin live
  BY <1>1 DEF Where
<1>4. stage = "spill" => /\ New \in LiveRange /\ New \notin live \cup Placed
  BY TailOfTodo DEF LSInv, CallInOrder
<1>5. stage = "spill" => Holding = live \cup Placed \cup (IF isFixedAlloc(New) THEN {} ELSE {New})
  BY <1>4 DEF Holding
<1>6. stage = "spill" => Where(New) = newRangeAddr
  BY <1>4 DEF Where
<1>7. DOMAIN Places = Holding /\ \A r \in Holding : Places[r] = Where(r)
  BY DEF Places
<1>8. \A r \in Holding : Where(r) \in Nat /\ Where(r) + Size[r] <= TotalSize
  BY <1>7 DEF LSInv, Consistent, WellPlaced, Fit
<1> QED  BY <1>2, <1>3, <1>5, <1>6, <1>8

LEMMA StepFreeLiveRange ==
    ASSUME LSInv, freeLiveRange
    PROVE  LSInv' /\ MemoryStep
<1>1. PICK r \in live \ alive : gaps' = free(gaps, address[r], Size[r]) /\ live' = live \ {r}
  BY DEF freeLiveRange
<1>2. /\ stage = "freeNonAlive" /\ stage' = stage /\ placed' = placed /\ address' = address
      /\ todo' = todo /\ candidates' = candidates /\ newRangeAddr' = newRangeAddr /\ lost' = lost
      /\ UNCHANGED <<alive, allowSpills, direction, gapsBefore>>
  BY DEF freeLiveRange, callVars
<1>3. Placed' = Placed /\ Placed = {} /\ candidates = {}
  BY <1>2 DEF Placed, LSInv, CallInOrder
<1>4. Holding = live /\ Holding' = live \ {r} /\ Where(r) = address[r]
  BY <1>1, <1>2, <1>3, HoldingUnlessSpill DEF Holding
<1>5. \A s \in live \ {r} : Where(s)' = Where(s)
  BY <1>1, <1>2, <1>4 DEF Where
<1>6. Consistent(gaps, Places, Sunk)' /\ MemoryStep
  BY <1>1, <1>2, <1>4, <1>5, GiveStep
<1>7. LSTypeOK'
  BY <1>1, <1>2, <1>6 DEF LSInv, LSTypeOK, Consistent, GapVectors
<1>8. CallInOrder'
  BY <1>1, <1>2, <1>3 DEF LSInv, CallInOrder
<1>9. CandidatesFree'
  BY <1>2, <1>3 DEF CandidatesFree
<1> QED  BY <1>6, <1>7, <1>8, <1>9 DEF LSInv

LEMMA StepGetSpillCandidate ==
    ASSUME LSInv, getSpillCandidate
    PROVE  LSInv' /\ MemoryStep
<1>1. PICK r \in live : /\ gaps' = free(gaps, address[r], Size[r]) /\ live' = live \ {r}
                        /\ candidates' = candidates \cup {r}
  BY DEF getSpillCandidate
<1>2. /\ stage = "place" /\ stage' = stage /\ placed' = placed /\ address' = address
      /\ todo' = todo /\ newRangeAddr' = newRangeAddr /\ lost' = lost
      /\ UNCHANGED <<alive, allowSpills, direction, gapsBefore>>
  BY DEF getSpillCandidate
<1>3. Placed' = Placed /\ r \notin Placed /\ r \in LiveRange /\ r \notin candidates
  BY <1>2 DEF Placed, LSInv, CallInOrder, LSTypeOK
<1>4. Holding = live \cup Placed /\ Holding' = Holding \ {r} /\ Where(r) = address[r]
  BY <1>1, <1>2, <1>3, HoldingUnlessSpill DEF Holding
<1>5. \A s \in Holding \ {r} : Where(s)' = Where(s)
  BY <1>1, <1>2, <1>3, <1>4 DEF Where
<1>6. /\ Consistent(gaps, Places, Sunk)' /\ MemoryStep
      /\ FreeBlock(gaps', address[r], Size[r])
      /\ \A a \in Int : Covered(gaps, a) => Covered(gaps', a)
  BY <1>1, <1>2, <1>4, <1>5, GiveStep
<1>7. LSTypeOK'
  BY <1>1, <1>2, <1>3, <1>6 DEF LSInv, LSTypeOK, Consistent, GapVectors
<1>8. CallInOrder'
  BY <1>1, <1>2, <1>3 DEF LSInv, CallInOrder
<1>9. CandidatesFree'
  <2>1. \A c \in candidates : FreeBlock(gaps, address[c], Size[c]) /\ CandidateAt(c) /\ c # r
    BY <1>2, <1>3 DEF LSInv, CandidatesFree
  <2>2. CandidateAt(r)
    BY <1>4, HoldingUnlessSpill DEF CandidateAt
  <2>3. \A c \in candidates : ~intersects(address[c], Size[c], address[r], Size[r])
    <3> SUFFICES ASSUME NEW c \in candidates
                 PROVE  ~intersects(address[c], Size[c], address[r], Size[r])
      OBVIOUS
    <3>1. /\ address[c] \in Nat /\ Size[c] \in Nat \ {0} /\ address[c] + Size[c] <= TotalSize
          /\ address[r] \in Nat /\ Size[r] \in Nat \ {0} /\ address[r] + Size[r] <= TotalSize
      BY <2>1, <2>2, <1>3, SizePositive DEF CandidateAt, LSInv, LSTypeOK
    <3>2. ASSUME NEW a \in Int, Within(a, address[c], address[c] + Size[c]),
                 Within(a, address[r], address[r] + Size[r])
          PROVE  FALSE
      <4>1. Covered(gaps, a)
        BY <2>1, <3>2 DEF FreeBlock
      <4>2. a \in 0..(TotalSize - 1)
        BY <3>1, <3>2, TotalSizeAssumption DEF Within
      <4>3. DOMAIN Places = Holding /\ Places[r] = address[r] /\ r \in Holding
        BY <1>4 DEF Places
      <4>4. Taken(Places, Sunk, a)
        BY <4>3, <3>2 DEF Taken
      <4> QED  BY <4>1, <4>2, <4>4 DEF LSInv, Consistent, Accounted
    <3> QED  BY <3>1, <3>2, NoCommonAddress
  <2>4. \A c \in candidates : ~intersects(address[r], Size[r], address[c], Size[c])
    <3> SUFFICES ASSUME NEW c \in candidates
                 PROVE  ~intersects(address[r], Size[r], address[c], Size[c])
      OBVIOUS
    <3>1. /\ address[c] \in Nat /\ Size[c] \in Nat \ {0}
          /\ address[r] \in Nat /\ Size[r] \in Nat \ {0}
      BY <2>1, <2>2, <1>3, SizePositive DEF CandidateAt, LSInv, LSTypeOK
    <3> QED  BY <3>1, <2>3 DEF intersects
  <2>5. \A c \in candidates' : FreeBlock(gaps', address[c], Size[c])
    BY <2>1, <1>1, <1>6 DEF FreeBlock
  <2>6. \A c \in candidates' : CandidateAt(c)'
    BY <2>1, <2>2, <1>1, <1>2 DEF CandidateAt
  <2>7. \A c, d \in candidates' : c # d => ~intersects(address[c], Size[c], address[d], Size[d])
    BY <2>3, <2>4, <1>1 DEF LSInv, CandidatesFree
  <2> QED  BY <2>5, <2>6, <2>7, <1>2 DEF CandidatesFree
<1> QED  BY <1>6, <1>7, <1>8, <1>9 DEF LSInv

(* What a plain search finds: a free block, and gaps without it.           *)
LEMMA PlainAllocation ==
    ASSUME LSInv, NEW r \in LiveRange, NEW pos \in PlainGap(r), NEW addr,
           addr = getAddrFromGap(gaps[pos], Size[r], Alignment[r], direction)
    PROVE  /\ Fit(addr, Size[r]) /\ FreeBlock(gaps, addr, Size[r])
           /\ useGap(gaps, pos, addr, Size[r]) \in GapVectors(TotalSize)
           /\ Separated(useGap(gaps, pos, addr, Size[r]))
           /\ \A a \in Int : Covered(useGap(gaps, pos, addr, Size[r]), a)
                <=> Covered(gaps, a) /\ ~Within(a, addr, addr + Size[r])
<1>1. TotalSize \in Nat /\ Size[r] \in Nat \ {0} /\ Alignment[r] \in Nat \ {0}
  BY TotalSizeAssumption, SizePositive
<1>2. gaps \in GapVectors(TotalSize) /\ Separated(gaps)
  BY DEF LSInv, Consistent
<1>3. pos \in DOMAIN gaps /\ addr # InvalidAddress
  BY DEF PlainGap, chooseMinimalGap
<1>4. gaps[pos].begin \in 0..TotalSize /\ gaps[pos].end \in 0..TotalSize
  BY <1>1, <1>2, <1>3, GapVectorElements
<1>5. addr \in Nat /\ gaps[pos].begin <= addr /\ addr + Size[r] <= gaps[pos].end
  BY <1>1, <1>3, <1>4, AddrFromGapFits
<1>6. FreeBlock(gaps, addr, Size[r])
  BY <1>1, <1>3, <1>4, <1>5 DEF FreeBlock, Within, Covered
<1> QED  BY <1>1, <1>2, <1>3, <1>4, <1>5, <1>6, UseGapProperties DEF Fit

(* The same for an allocation at an address whose memory is free.          *)
LEMMA FixedAllocation ==
    ASSUME LSInv, NEW r \in LiveRange, NEW addr \in Nat, FreeBlock(gaps, addr, Size[r])
    PROVE  /\ allocFixed(gaps, addr, Size[r]) \in GapVectors(TotalSize)
           /\ Separated(allocFixed(gaps, addr, Size[r]))
           /\ \A a \in Int : Covered(allocFixed(gaps, addr, Size[r]), a)
                <=> Covered(gaps, a) /\ ~Within(a, addr, addr + Size[r])
<1>1. TotalSize \in Nat /\ Size[r] \in Nat \ {0}
  BY TotalSizeAssumption, SizePositive
<1>2. gaps \in GapVectors(TotalSize) /\ Separated(gaps)
  BY DEF LSInv, Consistent
<1>3. IsFree(gaps, addr, Size[r])
  BY <1>1, <1>2, FreeBlockInOneGap DEF FreeBlock
<1> QED  BY <1>1, <1>2, <1>3, AllocFixedProperties

LEMMA StepFindPlace ==
    ASSUME LSInv, FindPlace
    PROVE  LSInv' /\ MemoryStep
<1>1. /\ stage = "place" /\ todo # <<>> /\ stage' = "spill"
      /\ UNCHANGED <<live, alive, address, todo, placed, allowSpills, direction, candidates, gapsBefore, lost>>
  BY DEF FindPlace
<1>2. /\ New \in LiveRange /\ New \notin live \cup Placed \cup candidates /\ New' = New
      /\ Placed' = Placed /\ Holding = live \cup Placed /\ New \notin Holding
  BY <1>1, TailOfTodo, HoldingUnlessSpill DEF New, Placed
<1>3. \A c \in candidates : /\ FreeBlock(gaps, address[c], Size[c]) /\ CandidateAt(c)
                            /\ c \in LiveRange
  BY <1>1 DEF LSInv, CandidatesFree, LSTypeOK
<1>4. \A s \in Holding : Where(s)' = Where(s)
  BY <1>1, <1>2 DEF Where
<1>5. TotalSize \in Nat /\ Size[New] \in Nat \ {0}
  BY <1>2, TotalSizeAssumption, SizePositive
<1>6. CASE isFixedAlloc(New)
  <2>1. gaps' = gaps /\ newRangeAddr' = FixedAddress[New] /\ IsFree(gaps, FixedAddress[New], Size[New])
    BY <1>6 DEF FindPlace
  <2>2. newRangeAddr' \in Nat /\ newRangeAddr' + Size[New] <= TotalSize
    <3>1. FixedAddress[New] \in Nat
      BY <1>2, <1>6, RangeAssumption DEF isFixedAlloc
    <3> QED  BY <3>1, <2>1, <1>2, <1>6, FixedAssumption
  <2>3. FreeBlock(gaps, newRangeAddr', Size[New])
    <3>1. PICK i \in DOMAIN gaps : gaps[i].begin <= newRangeAddr' /\ newRangeAddr' + Size[New] <= gaps[i].end
      BY <2>1 DEF IsFree
    <3>2. gaps[i].begin \in Int /\ gaps[i].end \in Int
      BY <1>5, GapVectorElements DEF LSInv, Consistent
    <3> QED  BY <3>1, <3>2, <2>2, <1>5 DEF FreeBlock, Within, Covered
  <2>4. Holding' = Holding
    BY <1>1, <1>2, <1>6 DEF Holding, isFixedAlloc
  <2>5. Consistent(gaps, Places, Sunk)' /\ MemoryStep
    BY <2>1, <2>4, <1>1, <1>4, SamePlaces DEF LSInv, Sunk
  <2>6. LSTypeOK'
    BY <2>1, <2>2, <1>1, <1>5 DEF LSInv, LSTypeOK
  <2>7. CallInOrder'
    BY <2>2, <1>1, <1>2 DEF LSInv, CallInOrder
  <2>8. CandidatesFree'
    BY <2>1, <2>3, <1>1, <1>2, <1>3 DEF LSInv, CandidatesFree, CandidateAt
  <2> QED  BY <2>5, <2>6, <2>7, <2>8 DEF LSInv
<1>7. CASE ~isFixedAlloc(New)
  <2>1. PICK pos \in PlainGap(New) :
            /\ newRangeAddr' = getAddrFromGap(gaps[pos], Size[New], Alignment[New], direction)
            /\ gaps' = useGap(gaps, pos, newRangeAddr', Size[New])
    BY <1>7 DEF FindPlace
  <2> DEFINE addr == newRangeAddr'
  <2>2. /\ Fit(addr, Size[New]) /\ FreeBlock(gaps, addr, Size[New])
        /\ gaps' \in GapVectors(TotalSize) /\ Separated(gaps')
        /\ \A a \in Int : Covered(gaps', a) <=> Covered(gaps, a) /\ ~Within(a, addr, addr + Size[New])
    BY <2>1, <1>2, PlainAllocation
  <2>3. Holding' = Holding \cup {New} /\ Where(New)' = addr
    BY <1>1, <1>2, <1>7 DEF Holding, Where, isFixedAlloc
  <2>4. Consistent(gaps, Places, Sunk)' /\ MemoryStep
    BY <2>2, <2>3, <1>1, <1>2, <1>4, TakeStep
  <2>5. addr \in Nat /\ addr + Size[New] <= TotalSize
    BY <2>2 DEF Fit
  <2>6. LSTypeOK'
    BY <2>2, <2>5, <1>1, <1>5 DEF LSInv, LSTypeOK, GapVectors
  <2>7. CallInOrder'
    BY <2>5, <1>1, <1>2 DEF LSInv, CallInOrder
  <2>8. ASSUME NEW c \in candidates', ~Conflicts(c)' PROVE FreeBlock(gaps', address'[c], Size[c])
    <3>1. address'[c] = address[c] /\ address[c] \in Nat /\ Size[c] \in Nat \ {0} /\ c \in candidates
      BY <1>1, <1>3, SizePositive DEF CandidateAt
    <3>2. ~intersects(address[c], Size[c], addr, Size[New])
      BY <2>8, <3>1, <1>2 DEF Conflicts
    <3>3. FreeBlock(gaps, address[c], Size[c])
      BY <3>1, <1>3
    <3> QED  BY <3>1, <3>2, <3>3, <2>2, <2>5, <1>5 DEF FreeBlock, Within, intersects
  <2>9. CandidatesFree'
    <3>1. ~isFixedAlloc(New)'
      BY <1>2, <1>7 DEF isFixedAlloc
    <3>2. \A c \in candidates' : CandidateAt(c)'
      BY <1>1, <1>3 DEF CandidateAt
    <3> QED  BY <3>1, <3>2, <2>8, <1>1 DEF LSInv, CandidatesFree
  <2> QED  BY <2>4, <2>6, <2>7, <2>9 DEF LSInv
<1> QED  BY <1>6, <1>7

LEMMA StepKeepCandidate ==
    ASSUME LSInv, KeepCandidate
    PROVE  LSInv' /\ MemoryStep
<1>1. PICK c \in candidates : /\ ~Conflicts(c) /\ gaps' = allocFixed(gaps, address[c], Size[c])
                              /\ live' = live \cup {c} /\ candidates' = candidates \ {c}
  BY DEF KeepCandidate
<1>2. /\ stage = "spill" /\ stage' = "spill" /\ New' = New
      /\ UNCHANGED <<alive, address, todo, placed, allowSpills, direction, newRangeAddr, gapsBefore, lost>>
  BY DEF KeepCandidate, New
<1>3. /\ todo # <<>> /\ New \in LiveRange /\ newRangeAddr \in Nat /\ New \notin candidates
      /\ newRangeAddr + Size[New] <= TotalSize
      /\ Placed' = Placed /\ c \in LiveRange /\ c \notin live /\ c \notin Placed
      /\ Size[New] \in Nat \ {0} /\ Size[c] \in Nat \ {0}
  BY <1>2, TailOfTodo, SizePositive DEF LSInv, CallInOrder, Placed, LSTypeOK
<1>4. /\ CandidateAt(c) /\ FreeBlock(gaps, address[c], Size[c]) /\ address[c] \in Nat
      /\ Fit(address[c], Size[c])
  BY <1>1, <1>2 DEF LSInv, CandidatesFree, CandidateAt, Fit
<1>5. /\ gaps' \in GapVectors(TotalSize) /\ Separated(gaps')
      /\ \A a \in Int : Covered(gaps', a) <=> Covered(gaps, a) /\ ~Within(a, address[c], address[c] + Size[c])
  BY <1>1, <1>3, <1>4, FixedAllocation
<1>6. Holding' = Holding \cup {c} /\ c \notin Holding /\ Where(c)' = address[c]
  BY <1>1, <1>2, <1>3 DEF Holding, Where, isFixedAlloc
<1>7. \A s \in Holding : Where(s)' = Where(s)
  BY <1>1, <1>2, <1>3, <1>6 DEF Where
<1>8. Consistent(gaps, Places, Sunk)' /\ MemoryStep
  BY <1>2, <1>3, <1>4, <1>5, <1>6, <1>7, TakeStep
<1>9. LSTypeOK'
  BY <1>1, <1>2, <1>3, <1>5 DEF LSInv, LSTypeOK, GapVectors
<1>10. CallInOrder'
  BY <1>1, <1>2, <1>3 DEF LSInv, CallInOrder
<1>11. ASSUME NEW d \in candidates', ~Conflicts(d)' PROVE FreeBlock(gaps', address'[d], Size[d])
  <2>1. d \in candidates /\ d # c /\ address'[d] = address[d] /\ ~Conflicts(d)
    BY <1>1, <1>2, <1>11 DEF Conflicts
  <2>2. ~intersects(address[c], Size[c], address[d], Size[d]) /\ FreeBlock(gaps, address[d], Size[d])
    BY <2>1, <1>2 DEF LSInv, CandidatesFree
  <2>3. address[d] \in Nat /\ Size[d] \in Nat \ {0}
    BY <2>1, SizePositive DEF LSInv, CandidatesFree, CandidateAt, LSTypeOK
  <2> QED  BY <2>1, <2>2, <2>3, <1>3, <1>4, <1>5 DEF FreeBlock, Within, intersects
<1>12. isFixedAlloc(New)' => FreeBlock(gaps', newRangeAddr', Size[New'])
  <2> SUFFICES ASSUME isFixedAlloc(New)' PROVE FreeBlock(gaps', newRangeAddr', Size[New'])
    OBVIOUS
  <2>1. isFixedAlloc(New) /\ newRangeAddr' = newRangeAddr
    BY <1>2 DEF isFixedAlloc
  <2>2. FreeBlock(gaps, newRangeAddr, Size[New])
    BY <2>1, <1>2 DEF LSInv, CandidatesFree
  <2>3. ~intersects(address[c], Size[c], newRangeAddr, Size[New])
    BY <1>1 DEF Conflicts
  <2> QED  BY <2>1, <2>2, <2>3, <1>2, <1>3, <1>4, <1>5 DEF FreeBlock, Within, intersects
<1>13. CandidatesFree'
  <2>1. \A d \in candidates' : CandidateAt(d)'
    BY <1>1, <1>2 DEF LSInv, CandidatesFree, CandidateAt
  <2> QED  BY <2>1, <1>1, <1>2, <1>11, <1>12 DEF LSInv, CandidatesFree
<1> QED  BY <1>8, <1>9, <1>10, <1>13 DEF LSInv

LEMMA StepRefuseSpill ==
    ASSUME LSInv, RefuseSpill
    PROVE  LSInv' /\ MemoryStep
<1>1. /\ stage = "spill" /\ stage' = "rollback" /\ candidates' = {}
      /\ lost' = IF isFixedAlloc(New) THEN lost
                 ELSE lost \cup {[addr |-> newRangeAddr, size |-> Size[New]]}
      /\ UNCHANGED <<gaps, live, alive, address, todo, placed, allowSpills, direction, newRangeAddr, gapsBefore>>
  BY DEF RefuseSpill
<1>2. /\ todo # <<>> /\ New \in LiveRange /\ Placed' = Placed /\ New \notin live \cup Placed
      /\ newRangeAddr \in Nat /\ newRangeAddr + Size[New] <= TotalSize
      /\ Size[New] \in Nat \ {0} /\ TotalSize \in Nat
  BY <1>1, TailOfTodo, SizePositive, TotalSizeAssumption DEF LSInv, CallInOrder, Placed
<1>3. Holding' = live \cup Placed
  BY <1>1, <1>2, HoldingUnlessSpill DEF Holding
<1>4. \A s \in live \cup Placed : Where(s)' = Where(s)
  BY <1>1, <1>2 DEF Where
<1>5. Consistent(gaps, Places, Sunk)' /\ MemoryStep
  <2>1. CASE isFixedAlloc(New)
    <3>1. Holding' = Holding /\ lost' = lost
      BY <2>1, <1>1, <1>3, HoldingUnlessSpill
    <3> QED  BY <3>1, <1>1, <1>3, <1>4, SamePlaces DEF LSInv, Sunk
  <2>2. CASE ~isFixedAlloc(New)
    <3>1. Holding = live \cup Placed \cup {New} /\ Where(New) = newRangeAddr
      BY <2>2, <1>1, HoldingUnlessSpill
    <3>2. DOMAIN Places = Holding /\ Places[New] = newRangeAddr /\ New \in DOMAIN Places
      BY <3>1 DEF Places
    <3>3. Places' = [s \in DOMAIN Places \ {New} |-> Places[s]]
      BY <3>1, <1>2, <1>3, <1>4 DEF Places
    <3>4. Sunk' = Sunk \cup {Block(Places[New], Size[New])}
      BY <3>2, <2>2, <1>1 DEF Sunk, Block
    <3>5. Consistent(gaps, Places, Sunk)
      BY DEF LSInv
    <3> HIDE DEF Places, Sunk
    <3>6. Consistent(gaps, Places', Sunk')
      BY <3>2, <3>3, <3>4, <3>5, Lose
    <3>7. MemoryStep
      <4>1. Sunk' = Sunk \cup {Block(Where(New), Size[New])}
        BY <3>1, <3>2, <3>4
      <4>2. {Block(Where(s), Size[s]) : s \in Holding}'
                = {Block(Where(s), Size[s]) : s \in live \cup Placed}
        BY <1>3, <1>4
      <4>3. {Block(Where(s), Size[s]) : s \in Holding}
                = {Block(Where(s), Size[s]) : s \in live \cup Placed} \cup {Block(Where(New), Size[New])}
        BY <3>1
      <4>4. InUse' = InUse
        BY <4>1, <4>2, <4>3 DEF InUse, Sunk
      <4> QED  BY <4>4 DEF MemoryStep
    <3> QED  BY <3>6, <3>7, <1>1
  <2> QED  BY <2>1, <2>2
<1>6. LSTypeOK'
  <2>1. lost' \subseteq [addr : 0..TotalSize, size : 1..TotalSize]
    BY <1>1, <1>2 DEF LSInv, LSTypeOK
  <2> QED  BY <2>1, <1>1 DEF LSInv, LSTypeOK
<1>7. CallInOrder'
  BY <1>1, <1>2 DEF LSInv, CallInOrder
<1>8. CandidatesFree'
  BY <1>1 DEF CandidatesFree
<1> QED  BY <1>5, <1>6, <1>7, <1>8 DEF LSInv

LEMMA StepRangePlaced ==
    ASSUME LSInv, RangePlaced
    PROVE  LSInv' /\ MemoryStep
<1>1. /\ stage = "spill" /\ stage' = "place" /\ candidates = {}
      /\ gaps' = IF isFixedAlloc(New) THEN allocFixed(gaps, newRangeAddr, Size[New]) ELSE gaps
      /\ placed' = [placed EXCEPT ![New] = newRangeAddr] /\ todo' = Tail(todo)
      /\ UNCHANGED <<live, alive, address, allowSpills, direction, candidates, newRangeAddr, gapsBefore, lost>>
  BY DEF RangePlaced
<1>2. /\ todo # <<>> /\ New \in LiveRange /\ New \notin live \cup Placed
      /\ newRangeAddr \in Nat /\ newRangeAddr + Size[New] <= TotalSize
      /\ Size[New] \in Nat \ {0} /\ TotalSize \in Nat
      /\ placed \in [LiveRange -> 0..TotalSize \cup {InvalidAddress}]
  BY <1>1, TailOfTodo, SizePositive, TotalSizeAssumption DEF LSInv, CallInOrder, LSTypeOK
<1>3. Placed' = Placed \cup {New} /\ placed'[New] = newRangeAddr /\ \A s \in Placed : placed'[s] = placed[s]
  BY <1>1, <1>2 DEF Placed, InvalidAddress
<1>4. Holding' = live \cup Placed \cup {New}
  BY <1>1, <1>2, <1>3 DEF Holding
<1>11. PICK n \in LiveRange : n = New
  BY <1>2
<1>5. Where(n)' = newRangeAddr /\ \A s \in live \cup Placed : Where(s)' = Where(s)
  BY <1>1, <1>2, <1>3, <1>11 DEF Where
<1>6. Consistent(gaps, Places, Sunk)' /\ MemoryStep
  <2>1. CASE isFixedAlloc(New)
    <3>1. FreeBlock(gaps, newRangeAddr, Size[New])
      BY <2>1, <1>1 DEF LSInv, CandidatesFree
    <3>2. /\ gaps' \in GapVectors(TotalSize) /\ Separated(gaps')
          /\ \A a \in Int : Covered(gaps', a)
                <=> Covered(gaps, a) /\ ~Within(a, newRangeAddr, newRangeAddr + Size[New])
      BY <3>1, <2>1, <1>1, <1>2, FixedAllocation
    <3>3. Holding = live \cup Placed /\ New \notin Holding
      BY <2>1, <1>1, <1>2, HoldingUnlessSpill
    <3>4. Holding' = Holding \cup {n} /\ n \notin Holding /\ Fit(newRangeAddr, Size[n])
      BY <3>3, <1>2, <1>4, <1>11 DEF Fit
    <3> QED  BY <3>1, <3>2, <3>3, <3>4, <1>1, <1>5, <1>11, TakeStep
  <2>2. CASE ~isFixedAlloc(New)
    <3>1. Holding = live \cup Placed \cup {New} /\ Where(New) = newRangeAddr
      BY <2>2, <1>1, HoldingUnlessSpill
    <3>2. Holding' = Holding /\ \A s \in Holding : Where(s)' = Where(s)
      <4>1. Where(n) = newRangeAddr
        BY <3>1, <1>11
      <4> QED  BY <3>1, <4>1, <1>4, <1>5, <1>11
    <3> QED  BY <3>2, <2>2, <1>1, SamePlaces DEF LSInv, Sunk
  <2> QED  BY <2>1, <2>2
<1>7. todo' \in Seq(LiveRange) /\ placed' \in [LiveRange -> 0..TotalSize \cup {InvalidAddress}]
  <2>1. newRangeAddr \in 0..TotalSize
    BY <1>2
  <2> QED  BY <2>1, <1>1, <1>2, TailOfTodo
<1>8. LSTypeOK'
  BY <1>1, <1>6, <1>7 DEF LSInv, LSTypeOK, Consistent, GapVectors
<1>9. CallInOrder'
  <2>1. \A i, j \in DOMAIN todo' : i # j => todo'[i] # todo'[j]
    BY <1>1, <1>2, TailOfTodo
  <2>2. \A i \in DOMAIN todo' : todo'[i] \notin live' \cup Placed' \cup candidates'
    <3>1. \A i \in DOMAIN todo' : \E j \in DOMAIN todo : todo'[i] = todo[j] /\ todo'[i] # New
      BY <1>1, <1>2, TailOfTodo
    <3> QED  BY <3>1, <1>1, <1>3 DEF LSInv, CallInOrder
  <2> QED  BY <2>1, <2>2, <1>1, <1>2, <1>3 DEF LSInv, CallInOrder
<1>10. CandidatesFree'
  BY <1>1 DEF CandidatesFree
<1> QED  BY <1>6, <1>8, <1>9, <1>10 DEF LSInv

LEMMA StepReturnAllocated ==
    ASSUME LSInv, ReturnAllocated
    PROVE  LSInv' /\ MemoryStep
<1>1. /\ stage = "place" /\ todo = <<>> /\ stage' = "idle"
      /\ address' = [r \in LiveRange |-> IF r \in Placed THEN placed[r] ELSE address[r]]
      /\ live' = live \cup Placed /\ todo' = <<>> /\ candidates' = {} /\ gapsBefore' = <<>>
      /\ placed' = Nowhere /\ newRangeAddr' = InvalidAddress
      /\ allowSpills' = FALSE /\ direction' = "Up"
      /\ UNCHANGED <<gaps, alive, lost>>
  BY DEF ReturnAllocated, EndCall
<1>2. Placed' = {}
  BY <1>1 DEF Placed, Nowhere
<1>3. Holding = live \cup Placed /\ Placed \subseteq LiveRange
  BY <1>1, HoldingUnlessSpill DEF Placed
<1>4. Holding' = Holding
  BY <1>1, <1>2, <1>3 DEF Holding
<1>5. ASSUME NEW s \in Holding PROVE Where(s)' = Where(s)
  <2>1. Where(s)' = address'[s] /\ s \in LiveRange
    BY <1>1, <1>3, HoldingUnlessSpill DEF Where
  <2>2. CASE s \in Placed
    <3>1. Where(s) = placed[s] /\ address'[s] = placed[s]
      BY <2>1, <2>2, <1>1, HoldingUnlessSpill
    <3> QED  BY <2>1, <3>1
  <2>3. CASE s \notin Placed
    <3>1. Where(s) = address[s] /\ address'[s] = address[s]
      BY <2>1, <2>3, <1>1, <1>3, HoldingUnlessSpill
    <3> QED  BY <2>1, <3>1
  <2> QED  BY <2>2, <2>3
<1>6. Consistent(gaps, Places, Sunk)' /\ MemoryStep
  BY <1>1, <1>4, <1>5, SamePlaces DEF LSInv, Sunk
<1>10. address' \in [LiveRange -> 0..TotalSize \cup {InvalidAddress}]
  <2>1. /\ address \in [LiveRange -> 0..TotalSize \cup {InvalidAddress}]
        /\ placed \in [LiveRange -> 0..TotalSize \cup {InvalidAddress}]
    BY DEF LSInv, LSTypeOK
  <2> QED  BY <2>1, <1>1
<1>11. /\ placed' \in [LiveRange -> 0..TotalSize \cup {InvalidAddress}]
       /\ todo' \in Seq(LiveRange)
       /\ gapsBefore' \in Seq([begin : 0..TotalSize, end : 0..TotalSize])
  BY <1>1 DEF Nowhere
<1>7. LSTypeOK'
  BY <1>1, <1>3, <1>10, <1>11 DEF LSInv, LSTypeOK
<1>8. CallInOrder'
  BY <1>1, <1>2 DEF LSInv, CallInOrder
<1>9. CandidatesFree'
  BY <1>1 DEF CandidatesFree
<1> QED  BY <1>6, <1>7, <1>8, <1>9 DEF LSInv

LEMMA StepRelease ==
    ASSUME LSInv, Release
    PROVE  LSInv' /\ MemoryStep
<1>1. PICK r \in Placed : /\ gaps' = free(gaps, placed[r], Size[r])
                          /\ placed' = [placed EXCEPT ![r] = InvalidAddress]
  BY DEF Release
<1>2. /\ stage \in {"rollback", "dealloc"} /\ stage' = stage
      /\ UNCHANGED <<live, alive, address, todo, allowSpills, direction, candidates, newRangeAddr, gapsBefore, lost>>
  BY DEF Release
<1>3. /\ placed \in [LiveRange -> 0..TotalSize \cup {InvalidAddress}] /\ r \in LiveRange
      /\ candidates = {} /\ r \notin live
  BY <1>2 DEF LSInv, LSTypeOK, CallInOrder, Placed
<1>4. Placed' = Placed \ {r} /\ \A s \in Placed \ {r} : placed'[s] = placed[s]
  BY <1>1, <1>3 DEF Placed
<1>5. Holding = live \cup Placed /\ Holding' = Holding \ {r} /\ Where(r) = placed[r]
  BY <1>2, <1>3, <1>4, HoldingUnlessSpill DEF Holding
<1>6. \A s \in Holding \ {r} : Where(s)' = Where(s)
  BY <1>2, <1>4, <1>5 DEF Where
<1>7. Consistent(gaps, Places, Sunk)' /\ MemoryStep
  BY <1>1, <1>2, <1>5, <1>6, GiveStep
<1>8. placed' \in [LiveRange -> 0..TotalSize \cup {InvalidAddress}]
  BY <1>1, <1>3
<1>9. LSTypeOK'
  BY <1>2, <1>7, <1>8 DEF LSInv, LSTypeOK, Consistent, GapVectors
<1>10. CallInOrder'
  BY <1>2, <1>4 DEF LSInv, CallInOrder
<1>11. CandidatesFree'
  BY <1>2, <1>3 DEF CandidatesFree
<1> QED  BY <1>7, <1>9, <1>10, <1>11 DEF LSInv

LEMMA StepTryRange ==
    ASSUME LSInv, TryRange
    PROVE  LSInv' /\ MemoryStep
<1>1. PICK pos \in PlainGap(New) :
        LET addr == getAddrFromGap(gaps[pos], Size[New], Alignment[New], direction)
        IN  gaps' = useGap(gaps, pos, addr, Size[New]) /\ placed' = [placed EXCEPT ![New] = addr]
  BY DEF TryRange
<1> DEFINE addr == getAddrFromGap(gaps[pos], Size[New], Alignment[New], direction)
<1>2. /\ stage = "trial" /\ stage' \in {"trial", "dealloc"} /\ todo # <<>> /\ todo' = Tail(todo)
      /\ UNCHANGED <<live, alive, address, allowSpills, direction, candidates, newRangeAddr, gapsBefore, lost>>
  BY DEF TryRange
<1>3. /\ New \in LiveRange /\ New \notin live \cup Placed /\ candidates = {}
      /\ placed \in [LiveRange -> 0..TotalSize \cup {InvalidAddress}]
      /\ Size[New] \in Nat \ {0} /\ TotalSize \in Nat
  BY <1>2, TailOfTodo, SizePositive, TotalSizeAssumption DEF LSInv, CallInOrder, LSTypeOK
<1>4. /\ Fit(addr, Size[New]) /\ FreeBlock(gaps, addr, Size[New])
      /\ useGap(gaps, pos, addr, Size[New]) \in GapVectors(TotalSize)
      /\ Separated(useGap(gaps, pos, addr, Size[New]))
      /\ \A a \in Int : Covered(useGap(gaps, pos, addr, Size[New]), a)
            <=> Covered(gaps, a) /\ ~Within(a, addr, addr + Size[New])
  BY <1>3, PlainAllocation
<1>5. gaps' = useGap(gaps, pos, addr, Size[New]) /\ placed' = [placed EXCEPT ![New] = addr]
  BY <1>1
<1> HIDE DEF addr
<1>6. addr \in 0..TotalSize /\ addr # InvalidAddress
  BY <1>3, <1>4 DEF Fit, InvalidAddress
<1>7. Placed' = Placed \cup {New} /\ placed'[New] = addr /\ \A s \in Placed : placed'[s] = placed[s]
  BY <1>3, <1>5, <1>6 DEF Placed
<1>8. Holding = live \cup Placed /\ Holding' = Holding \cup {New} /\ New \notin Holding
  BY <1>2, <1>3, <1>7, HoldingUnlessSpill DEF Holding
<1>15. PICK n \in LiveRange : n = New
  BY <1>3
<1>9. Where(n)' = addr /\ \A s \in Holding : Where(s)' = Where(s)
  BY <1>2, <1>3, <1>7, <1>8, <1>15 DEF Where
<1>16. Holding' = Holding \cup {n} /\ n \notin Holding /\ Fit(addr, Size[n])
  BY <1>4, <1>8, <1>15
<1>10. Consistent(gaps, Places, Sunk)' /\ MemoryStep
  BY <1>2, <1>4, <1>5, <1>9, <1>15, <1>16, TakeStep
<1>11. todo' \in Seq(LiveRange) /\ placed' \in [LiveRange -> 0..TotalSize \cup {InvalidAddress}]
  BY <1>2, <1>3, <1>5, <1>6, TailOfTodo
<1>12. LSTypeOK'
  BY <1>2, <1>10, <1>11 DEF LSInv, LSTypeOK, Consistent, GapVectors
<1>13. CallInOrder'
  <2>1. \A i, j \in DOMAIN todo' : i # j => todo'[i] # todo'[j]
    BY <1>2, TailOfTodo
  <2>2. \A i \in DOMAIN todo' : todo'[i] \notin live' \cup Placed' \cup candidates'
    <3>1. \A i \in DOMAIN todo' : \E j \in DOMAIN todo : todo'[i] = todo[j] /\ todo'[i] # New
      BY <1>2, TailOfTodo
    <3> QED  BY <3>1, <1>2, <1>7 DEF LSInv, CallInOrder
  <2> QED  BY <2>1, <2>2, <1>2, <1>3, <1>7 DEF LSInv, CallInOrder
<1>14. CandidatesFree'
  BY <1>2, <1>3 DEF CandidatesFree
<1> QED  BY <1>10, <1>12, <1>13, <1>14 DEF LSInv

LEMMA Initially ==
    ASSUME LSInit
    PROVE  LSInv /\ Map!Init
<1>1. /\ live = {} /\ alive = {} /\ lost = {} /\ address = Nowhere /\ stage = "idle"
      /\ todo = <<>> /\ candidates = {} /\ placed = Nowhere
      /\ allowSpills = FALSE /\ direction = "Up" /\ newRangeAddr = InvalidAddress
      /\ gapsBefore = <<>>
      /\ gaps = IF ReservedSize = 0 THEN <<Gap(0, TotalSize)>>
                ELSE allocFixed(<<Gap(0, TotalSize)>>, 0, ReservedSize)
  BY DEF LSInit
<1>2. TotalSize \in Nat \ {0} /\ ReservedSize \in 0..TotalSize
  BY TotalSizeAssumption
<1>3. Placed = {} /\ Holding = {}
  BY <1>1 DEF Placed, Nowhere, Holding
<1> DEFINE G == <<Gap(0, TotalSize)>>
<1>4. /\ G \in GapVectors(TotalSize) /\ DOMAIN G = {1}
      /\ G[1].begin = 0 /\ G[1].end = TotalSize
  BY <1>2 DEF Gap, GapVectors
<1> HIDE DEF G
<1>5. Separated(G) /\ \A a \in Int : Covered(G, a) <=> Within(a, 0, TotalSize)
  BY <1>2, <1>4 DEF Separated, Covered, Within
<1>6. DOMAIN Places = {} /\ Sunk = ReservedBlocks
  BY <1>1, <1>3 DEF Places, Sunk
<1>7. Consistent(gaps, Places, Sunk)
  <2>1. CASE ReservedSize = 0
    <3>1. gaps = G /\ Sunk = {}
      BY <2>1, <1>1, <1>6 DEF G, ReservedBlocks
    <3>2. \A a \in 0..(TotalSize - 1) : Covered(gaps, a) /\ ~Taken(Places, Sunk, a)
      BY <3>1, <1>2, <1>5, <1>6 DEF Taken, Within
    <3> HIDE DEF Places
    <3> QED  BY <3>1, <3>2, <1>4, <1>5, <1>6 DEF Consistent, WellPlaced, Accounted
  <2>2. CASE ReservedSize # 0
    <3>1. gaps = allocFixed(G, 0, ReservedSize) /\ Sunk = {Block(0, ReservedSize)}
      BY <2>2, <1>1, <1>6 DEF G, ReservedBlocks
    <3>2. IsFree(G, 0, ReservedSize)
      BY <1>2, <1>4 DEF IsFree
    <3>3. /\ gaps \in GapVectors(TotalSize) /\ Separated(gaps)
          /\ \A a \in Int : Covered(gaps, a) <=> Covered(G, a) /\ ~Within(a, 0, 0 + ReservedSize)
      BY <3>1, <3>2, <2>2, <1>2, <1>4, <1>5, AllocFixedProperties
    <3>4. Block(0, ReservedSize).addr = 0 /\ Block(0, ReservedSize).size = ReservedSize
      BY DEF Block
    <3>5. \A a \in 0..(TotalSize - 1) : Covered(gaps, a) <=> ~Taken(Places, Sunk, a)
      BY <3>1, <3>3, <3>4, <1>2, <1>5, <1>6 DEF Taken, Within
    <3> HIDE DEF Places
    <3>6. WellPlaced(Places, Sunk)
      BY <3>1, <3>4, <2>2, <1>2, <1>6 DEF WellPlaced, Fit
    <3> QED  BY <3>3, <3>5, <3>6 DEF Consistent, Accounted
  <2> QED  BY <2>1, <2>2
<1>8. LSTypeOK
  <2>1. /\ placed \in [LiveRange -> 0..TotalSize \cup {InvalidAddress}]
        /\ address \in [LiveRange -> 0..TotalSize \cup {InvalidAddress}]
    BY <1>1 DEF Nowhere
  <2>2. /\ todo \in Seq(LiveRange)
        /\ gapsBefore \in Seq([begin : 0..TotalSize, end : 0..TotalSize])
    BY <1>1
  <2>3. gaps \in Seq([begin : 0..TotalSize, end : 0..TotalSize])
    BY <1>7 DEF Consistent, GapVectors
  <2> QED  BY <2>1, <2>2, <2>3, <1>1 DEF LSTypeOK
<1>9. CallInOrder
  BY <1>1, <1>3 DEF CallInOrder
<1>10. CandidatesFree
  BY <1>1 DEF CandidatesFree
<1>11. Map!Init
  BY <1>1, <1>3 DEF Map!Init, InUse
<1> QED  BY <1>7, <1>8, <1>9, <1>10, <1>11 DEF LSInv

LEMMA StutterStep ==
    ASSUME LSInv, UNCHANGED vars
    PROVE  LSInv' /\ MemoryStep
<1>2. /\ gaps' = gaps /\ live' = live /\ alive' = alive /\ address' = address /\ stage' = stage
      /\ todo' = todo /\ placed' = placed /\ allowSpills' = allowSpills /\ direction' = direction
      /\ candidates' = candidates /\ newRangeAddr' = newRangeAddr /\ gapsBefore' = gapsBefore
      /\ lost' = lost
  BY DEF vars, callVars
<1>3. Holding' = Holding /\ \A r \in Holding : Where(r)' = Where(r)
  BY <1>2 DEF Holding, Where, Placed, New
<1>4. Consistent(gaps, Places, Sunk)' /\ MemoryStep
  BY <1>2, <1>3, SamePlaces DEF LSInv, Sunk
<1>5. LSTypeOK' /\ CallInOrder' /\ CandidatesFree'
  BY <1>2 DEF LSInv, LSTypeOK, CallInOrder, CandidatesFree, CandidateAt, Conflicts, Placed, New
<1> QED  BY <1>4, <1>5 DEF LSInv

(* Every step of the linear scan keeps the invariant and is a step of the  *)
(* abstract memory.                                                        *)
LEMMA EveryStep ==
    ASSUME LSInv, [LSNext]_vars
    PROVE  LSInv' /\ MemoryStep
<1>1. CASE Quiet  BY <1>1, QuietSteps
<1>2. CASE freeLiveRange  BY <1>2, StepFreeLiveRange
<1>3. CASE FindPlace  BY <1>3, StepFindPlace
<1>4. CASE getSpillCandidate  BY <1>4, StepGetSpillCandidate
<1>5. CASE KeepCandidate  BY <1>5, StepKeepCandidate
<1>6. CASE RefuseSpill  BY <1>6, StepRefuseSpill
<1>7. CASE RangePlaced  BY <1>7, StepRangePlaced
<1>8. CASE ReturnAllocated  BY <1>8, StepReturnAllocated
<1>9. CASE Release  BY <1>9, StepRelease
<1>10. CASE TryRange  BY <1>10, StepTryRange
<1>11. CASE UNCHANGED vars  BY <1>11, StutterStep
<1> QED
  BY <1>1, <1>2, <1>3, <1>4, <1>5, <1>6, <1>7, <1>8, <1>9, <1>10, <1>11 DEF LSNext, Quiet

LEMMA InvariantHolds == LSSpec => []LSInv
<1>1. LSInit => LSInv
  BY Initially
<1>2. LSInv /\ [LSNext]_vars => LSInv'
  BY EveryStep
<1> QED  BY <1>1, <1>2, PTL DEF LSSpec

-----------------------------------------------------------------------------
(* What the search finds depends on the gaps only, which are in order.     *)
LEMMA SearchFindsPlaces ==
    ASSUME LSInv
    PROVE  SearchComplete
<1>1. /\ gaps \in GapVectors(TotalSize) /\ Separated(gaps) /\ TotalSize \in Nat
      /\ DOMAIN gaps = 1..Len(gaps) /\ Len(gaps) \in Nat
  BY TotalSizeAssumption, GapVectorElements DEF LSInv, Consistent
<1>2. \A i \in DOMAIN gaps : gaps[i].begin \in Nat /\ gaps[i].end \in Nat
  BY <1>1, GapVectorElements
<1> SUFFICES ASSUME NEW r \in LiveRange, NEW dir \in {"Up", "Down"}
    PROVE
        LET found == chooseMinimalGap(gaps, Size[r], Alignment[r], dir)
            Place(a, i) == /\ a % Alignment[r] = 0
                           /\ gaps[i].begin <= a /\ a + Size[r] <= gaps[i].end
        IN  IF found = {}
            THEN ~\E i \in DOMAIN gaps, a \in 0..TotalSize : Place(a, i)
            ELSE \A pos \in found :
                    Place(getAddrFromGap(gaps[pos], Size[r], Alignment[r], dir), pos)
  BY DEF SearchComplete
<1> DEFINE found == chooseMinimalGap(gaps, Size[r], Alignment[r], dir)
           Addr(i) == getAddrFromGap(gaps[i], Size[r], Alignment[r], dir)
<1>3. Size[r] \in Nat \ {0} /\ Alignment[r] \in Nat \ {0}
  BY SizePositive
<1>4. ASSUME NEW i \in DOMAIN gaps, NEW a \in 0..TotalSize, a % Alignment[r] = 0,
             gaps[i].begin <= a, a + Size[r] <= gaps[i].end
      PROVE  found # {}
  <2>1. a \in Int
    BY <1>1
  <2>2. Addr(i) # InvalidAddress
    BY <1>2, <1>3, <1>4, <2>1, AddrFromGapComplete
  <2> QED  BY <2>2, <1>1, MinimalGapExists
<1>5. ASSUME NEW pos \in found
      PROVE  /\ Addr(pos) % Alignment[r] = 0
             /\ gaps[pos].begin <= Addr(pos) /\ Addr(pos) + Size[r] <= gaps[pos].end
  <2>1. pos \in DOMAIN gaps /\ Addr(pos) # InvalidAddress
    BY DEF chooseMinimalGap
  <2>2. gaps[pos].begin \in Nat /\ gaps[pos].end \in Nat
    BY <2>1, <1>2
  <2>3. Addr(pos) % Alignment[r] = 0
    BY <2>1, <2>2, <1>3, AddrFromGapAligned
  <2>4. gaps[pos].begin <= Addr(pos) /\ Addr(pos) + Size[r] <= gaps[pos].end
    BY <2>1, <2>2, <1>3, AddrFromGapFits
  <2> QED  BY <2>3, <2>4
<1> HIDE DEF found, Addr
<1> QED  BY <1>4, <1>5 DEF found, Addr

-----------------------------------------------------------------------------
(* The gaps at the start of a call that does not spill are those of the    *)
(* ranges that are live throughout the call.                               *)

LivePlaces == [r \in live |-> address[r]]

CallStages == {"place", "spill", "rollback", "trial", "dealloc"}

GapsRemembered ==
    /\ stage \in {"idle", "freeNonAlive", "trial", "dealloc"} => ~allowSpills
    /\ stage # "throw"
    /\ stage \in CallStages /\ ~allowSpills =>
            candidates = {} /\ Consistent(gapsBefore, LivePlaces, Sunk)

LEMMA PlacesOfLive ==
    ASSUME LSInv, stage # "spill", Placed = {}
    PROVE  Places = LivePlaces
<1>1. Holding = live /\ \A r \in live : Where(r) = address[r]
  BY HoldingUnlessSpill
<1> QED  BY <1>1 DEF Places, LivePlaces

(* All ranges the call had placed are released: the gaps cover what they   *)
(* covered at its start, and there is only one such vector of gaps.        *)
LEMMA GapsRestored ==
    ASSUME LSInv, GapsRemembered, stage \in {"rollback", "dealloc"}, Placed = {},
           stage = "rollback" => ~allowSpills
    PROVE  gaps = gapsBefore
<1>1. Consistent(gaps, LivePlaces, Sunk)
  BY PlacesOfLive DEF LSInv
<1>2. Consistent(gapsBefore, LivePlaces, Sunk)
  BY DEF GapsRemembered, CallStages
<1>3. /\ gaps \in GapVectors(TotalSize) /\ Separated(gaps)
      /\ gapsBefore \in GapVectors(TotalSize) /\ Separated(gapsBefore) /\ TotalSize \in Nat
  BY <1>1, <1>2, TotalSizeAssumption DEF Consistent
<1>4. \A a \in 0..(TotalSize - 1) : Covered(gaps, a) <=> Covered(gapsBefore, a)
  BY <1>1, <1>2 DEF Consistent, Accounted
<1>5. ASSUME NEW a \in Int PROVE Covered(gaps, a) <=> Covered(gapsBefore, a)
  BY <1>3, <1>4, CoveredInside
<1> QED  BY <1>3, <1>5, SameGaps

LEMMA GapsRememberedInitially ==
    ASSUME LSInit
    PROVE  GapsRemembered
BY DEF LSInit, GapsRemembered, CallStages

LEMMA NextRemembersGaps ==
    ASSUME LSInv, GapsRemembered, [LSNext]_vars
    PROVE  GapsRemembered'
<1>1. CASE alloc \/ canAlloc
  <2>1. /\ stage = "idle" /\ stage' \in {"place", "trial"} /\ gapsBefore' = gaps
        /\ stage' = "trial" => allowSpills' = allowSpills
        /\ UNCHANGED <<live, address, candidates, lost>>
    BY <1>1 DEF alloc, canAlloc
  <2>2. Placed = {} /\ candidates = {}
    BY <2>1 DEF LSInv, CallInOrder
  <2>3. Consistent(gaps, LivePlaces, Sunk)
    BY <2>1, <2>2, PlacesOfLive DEF LSInv
  <2>4. Consistent(gapsBefore, LivePlaces, Sunk)'
    BY <2>1, <2>3 DEF LivePlaces, Sunk
  <2> QED  BY <2>1, <2>2, <2>4 DEF GapsRemembered, CallStages
<1>2. CASE markAsDead \/ freeNonAlive \/ freeLiveRange \/ NonAliveFreed
  <2>1. stage' \in {"idle", "freeNonAlive"} /\ allowSpills' = allowSpills
        /\ stage \in {"idle", "freeNonAlive"}
    BY <1>2 DEF markAsDead, freeNonAlive, freeLiveRange, NonAliveFreed, callVars
  <2> QED  BY <2>1 DEF GapsRemembered, CallStages
<1>3. CASE AssertionFails
  BY <1>3 DEF AssertionFails, GapsRemembered, CallStages
<1>4. CASE ReturnAllocated \/ ReturnFailed
  BY <1>4 DEF ReturnAllocated, ReturnFailed, EndCall, GapsRemembered, CallStages
<1>5. CASE ReturnCanAlloc
  <2>1. gaps = gapsBefore
    BY <1>5, GapsRestored DEF ReturnCanAlloc
  <2> QED  BY <1>5, <2>1 DEF ReturnCanAlloc, EndCall, GapsRemembered, CallStages
<1>6. CASE FindPlace \/ GiveUp \/ RangePlaced \/ Release \/ TryRange \/ TrialOver
  <2>1. /\ UNCHANGED <<live, address, lost, gapsBefore, allowSpills>>
        /\ candidates' \in {candidates, {}}
        /\ stage \in CallStages /\ stage' \in CallStages
        /\ stage' \in {"trial", "dealloc"} => stage \in {"trial", "dealloc"}
    BY <1>6 DEF FindPlace, GiveUp, RangePlaced, Release, TryRange, TrialOver, callVars, CallStages
  <2>2. LivePlaces' = LivePlaces /\ Sunk' = Sunk
    BY <2>1 DEF LivePlaces, Sunk
  <2>3. ~allowSpills => Consistent(gapsBefore, LivePlaces, Sunk)'
    BY <2>1, <2>2 DEF GapsRemembered
  <2> QED  BY <2>1, <2>3 DEF GapsRemembered, CallStages
<1>7. CASE getSpillCandidate \/ KeepCandidate \/ SpillCandidate \/ RefuseSpill
  <2>1. /\ allowSpills' = allowSpills /\ stage' \in {"place", "spill", "rollback"}
        /\ stage \in CallStages /\ (allowSpills \/ candidates # {})
    BY <1>7 DEF getSpillCandidate, KeepCandidate, SpillCandidate, RefuseSpill, CallStages
  <2>2. allowSpills
    BY <2>1 DEF GapsRemembered
  <2> QED  BY <2>1, <2>2 DEF GapsRemembered, CallStages
<1>8. CASE Stopped \/ UNCHANGED vars
  <2>1. UNCHANGED vars
    BY <1>8 DEF Stopped
  <2>2. LivePlaces' = LivePlaces /\ Sunk' = Sunk
    BY <2>1 DEF vars, LivePlaces, Sunk
  <2> QED  BY <2>1, <2>2 DEF GapsRemembered, vars, callVars
<1> QED  BY <1>1, <1>2, <1>3, <1>4, <1>5, <1>6, <1>7, <1>8 DEF LSNext

-----------------------------------------------------------------------------
(* The ranges an alloc has placed come first in its list, the fixed ones   *)
(* at their fixed addresses.                                               *)

PlacedFirst(batch, k) ==
    /\ FixedFirst(batch)
    /\ Len(todo) = Len(batch) - k
    /\ \A i \in DOMAIN todo : todo[i] = batch[k + i]
    /\ Placed \subseteq {batch[i] : i \in 1..k}
    /\ \A r \in Placed : isFixedAlloc(r) => placed[r] = FixedAddress[r]

FixedInPlace ==
    /\ stage \in {"place", "spill"} =>
            \E batch \in Batches : \E k \in 0..Len(batch) : PlacedFirst(batch, k)
    /\ stage = "spill" /\ isFixedAlloc(New) => newRangeAddr = FixedAddress[New]
    /\ stage = "assert" => lost # {}

(* If no memory is lost, what is not live and not a fixed range of the     *)
(* list is free.                                                           *)
LEMMA FixedPlaceIsFree ==
    ASSUME LSInv, FixedInPlace, stage = "place", todo # <<>>,
           isFixedAlloc(New), ConflictFree(New), lost = {}
    PROVE  IsFree(gaps, FixedAddress[New], Size[New])
<1>1. PICK batch \in Batches : \E k \in 0..Len(batch) : PlacedFirst(batch, k)
  BY DEF FixedInPlace
<1>2. PICK k \in 0..Len(batch) : PlacedFirst(batch, k)
  BY <1>1
<1>3. /\ New \in LiveRange /\ New = todo[1] /\ New \notin live \cup Placed
      /\ DOMAIN todo = 1..Len(todo) /\ Len(todo) \in Nat /\ 1 \in DOMAIN todo
  <2>1. todo \in Seq(LiveRange)
    BY DEF LSInv, LSTypeOK
  <2> QED  BY <2>1, TailOfTodo
<1>4. batch \in Seq(LiveRange) /\ Len(batch) \in Nat /\ DOMAIN batch = 1..Len(batch)
  BY BatchesAssumption
<1>5. k + 1 \in DOMAIN batch /\ New = batch[k + 1] /\ k \in Nat
  BY <1>2, <1>3, <1>4 DEF PlacedFirst
<1> DEFINE addr == FixedAddress[New]
           size == Size[New]
<1>6. /\ addr \in Nat /\ size \in Nat \ {0} /\ ReservedSize <= addr /\ addr + size <= TotalSize
      /\ ReservedSize \in Nat /\ TotalSize \in Nat
  BY <1>3, RangeAssumption, FixedAssumption, TotalSizeAssumption DEF isFixedAlloc, InvalidAddress
<1>7. ASSUME NEW r \in Placed PROVE ~intersects(addr, size, placed[r], Size[r])
  <2>1. PICK i \in 1..k : r = batch[i]
    BY <1>2 DEF PlacedFirst
  <2>2. i \in DOMAIN batch /\ i < k + 1 /\ i # k + 1
    BY <1>4, <1>5
  <2>3. isFixedAlloc(batch[k + 1])
    BY <1>5
  <2>4. isFixedAlloc(r)
    BY <2>1, <2>2, <2>3, <1>2, <1>5 DEF PlacedFirst, FixedFirst
  <2>5. placed[r] = FixedAddress[r]
    BY <2>4, <1>2 DEF PlacedFirst
  <2>6. ~intersects(FixedAddress[batch[k + 1]], Size[batch[k + 1]], FixedAddress[batch[i]], Size[batch[i]])
    BY <2>1, <2>2, <2>3, <2>4, <1>5, BatchesAssumption
  <2> QED  BY <2>1, <2>5, <2>6, <1>5
<1>8. ASSUME NEW r \in live PROVE ~intersects(addr, size, address[r], Size[r])
  BY DEF ConflictFree
<1>9. /\ DOMAIN Places = live \cup Placed
      /\ \A r \in live : Places[r] = address[r]
      /\ \A r \in Placed : Places[r] = placed[r]
  BY HoldingUnlessSpill DEF Places, LSInv, CallInOrder
<1>10. \A r \in DOMAIN Places : ~intersects(addr, size, Places[r], Size[r]) /\ Places[r] \in Nat /\ Size[r] \in Nat
  <2>1. \A r \in DOMAIN Places : Fit(Places[r], Size[r]) /\ r \in LiveRange
    BY DEF LSInv, Consistent, WellPlaced
  <2> QED  BY <2>1, <1>7, <1>8, <1>9, SizePositive DEF Fit
<1>11. \A b \in Sunk : b.addr = 0 /\ b.size = ReservedSize
  BY DEF Sunk, ReservedBlocks, Block
<1> HIDE DEF addr, size
<1>12. ASSUME NEW a \in Int, Within(a, addr, addr + size) PROVE Covered(gaps, a)
  <2>1. a \in 0..(TotalSize - 1) /\ ReservedSize <= a
    BY <1>6, <1>12 DEF Within
  <2>2. \A b \in Sunk : ~Within(a, b.addr, b.addr + b.size)
    BY <2>1, <1>6, <1>11 DEF Within
  <2>3. \A r \in DOMAIN Places : ~Within(a, Places[r], Places[r] + Size[r])
    BY <1>6, <1>10, <1>12 DEF Within, intersects
  <2>4. ~Taken(Places, Sunk, a)
    BY <2>2, <2>3 DEF Taken
  <2> QED  BY <2>1, <2>4 DEF LSInv, Consistent, Accounted
<1>13. gaps \in GapVectors(TotalSize) /\ Separated(gaps)
  BY DEF LSInv, Consistent
<1>14. IsFree(gaps, addr, size)
  BY <1>6, <1>12, <1>13, FreeBlockInOneGap
<1> QED  BY <1>14 DEF addr, size

LEMMA FixedInPlaceInitially ==
    ASSUME LSInit
    PROVE  FixedInPlace
BY DEF LSInit, FixedInPlace

LEMMA NextKeepsFixedInPlace ==
    ASSUME LSInv, FixedInPlace, [LSNext]_vars
    PROVE  FixedInPlace'
<1>1. CASE alloc
  <2>1. PICK batch \in Batches : FixedFirst(batch) /\ todo' = batch
    BY <1>1 DEF alloc
  <2>2. stage = "idle" /\ stage' = "place" /\ placed' = placed
    BY <1>1 DEF alloc
  <2>3. Placed' = {}
    BY <2>2 DEF LSInv, CallInOrder, Placed
  <2>4. Len(batch) \in Nat /\ DOMAIN batch = 1..Len(batch)
    BY BatchesAssumption
  <2>5. PlacedFirst(batch, 0)'
    BY <2>1, <2>3, <2>4 DEF PlacedFirst
  <2> QED  BY <2>2, <2>4, <2>5 DEF FixedInPlace
<1>2. CASE FindPlace
  <2>1. /\ stage = "place" /\ stage' = "spill" /\ todo' = todo /\ placed' = placed
        /\ isFixedAlloc(New) => newRangeAddr' = FixedAddress[New]
    BY <1>2 DEF FindPlace
  <2>2. New' = New /\ Placed' = Placed
    BY <2>1 DEF New, Placed
  <2>3. \A batch, k : PlacedFirst(batch, k)' <=> PlacedFirst(batch, k)
    BY <2>1, <2>2 DEF PlacedFirst
  <2> QED  BY <2>1, <2>2, <2>3 DEF FixedInPlace
<1>3. CASE AssertionFails
  <2>1. lost # {} /\ stage' = "assert" /\ lost' = lost
    BY <1>3, FixedPlaceIsFree DEF AssertionFails
  <2> QED  BY <2>1 DEF FixedInPlace
<1>4. CASE getSpillCandidate \/ KeepCandidate \/ SpillCandidate
  <2>1. UNCHANGED <<stage, todo, placed, newRangeAddr, lost>>
    BY <1>4 DEF getSpillCandidate, KeepCandidate, SpillCandidate
  <2>2. New' = New /\ Placed' = Placed
    BY <2>1 DEF New, Placed
  <2>3. \A batch, k : PlacedFirst(batch, k)' <=> PlacedFirst(batch, k)
    BY <2>1, <2>2 DEF PlacedFirst
  <2> QED  BY <2>1, <2>2, <2>3 DEF FixedInPlace
<1>5. CASE RangePlaced
  <2>1. /\ stage = "spill" /\ stage' = "place" /\ todo' = Tail(todo)
        /\ placed' = [placed EXCEPT ![New] = newRangeAddr]
    BY <1>5 DEF RangePlaced
  <2>2. PICK batch \in Batches : \E k \in 0..Len(batch) : PlacedFirst(batch, k)
    BY <2>1 DEF FixedInPlace
  <2>3. PICK k \in 0..Len(batch) : PlacedFirst(batch, k)
    BY <2>2
  <2>4. todo \in Seq(LiveRange) /\ todo # <<>>
    BY <2>1 DEF LSInv, LSTypeOK, CallInOrder
  <2>5. /\ New \in LiveRange /\ New = todo[1] /\ Len(todo) \in Nat
        /\ DOMAIN Tail(todo) = 1..(Len(todo) - 1) /\ DOMAIN todo = 1..Len(todo)
        /\ \A i \in DOMAIN Tail(todo) : Tail(todo)[i] = todo[i + 1] /\ i + 1 \in DOMAIN todo
    BY <2>4, TailOfTodo
  <2>6. Len(Tail(todo)) = Len(todo) - 1 /\ 1 \in DOMAIN todo
    BY <2>4
  <2>7. Len(batch) \in Nat /\ Len(todo) = Len(batch) - k /\ k \in Nat
    BY <2>3, BatchesAssumption DEF PlacedFirst
  <2>8. k + 1 \in 0..Len(batch) /\ New = batch[k + 1]
    BY <2>3, <2>5, <2>6, <2>7 DEF PlacedFirst
  <2>9. \A i \in DOMAIN Tail(todo) : Tail(todo)[i] = batch[(k + 1) + i]
    <3> SUFFICES ASSUME NEW i \in DOMAIN Tail(todo) PROVE Tail(todo)[i] = batch[(k + 1) + i]
      OBVIOUS
    <3>1. todo[i + 1] = batch[k + (i + 1)]
      BY <2>3, <2>5 DEF PlacedFirst
    <3>2. i \in Int /\ k + (i + 1) = (k + 1) + i
      BY <2>5, <2>7
    <3> QED  BY <3>1, <3>2, <2>5
  <2>10. /\ placed \in [LiveRange -> 0..TotalSize \cup {InvalidAddress}]
         /\ \A r \in LiveRange : placed'[r] = IF r = New THEN newRangeAddr ELSE placed[r]
    BY <2>1, <2>5 DEF LSInv, LSTypeOK
  <2>11. Placed' \subseteq Placed \cup {New}
    BY <2>10 DEF Placed
  <2>12. Placed' \subseteq {batch[i] : i \in 1..(k + 1)}
    <3>1. 1..k \subseteq 1..(k + 1) /\ k + 1 \in 1..(k + 1)
      BY <2>7
    <3> QED  BY <3>1, <2>3, <2>8, <2>11 DEF PlacedFirst
  <2>13. ASSUME NEW r \in Placed', isFixedAlloc(r) PROVE placed'[r] = FixedAddress[r]
    <3>1. r \in LiveRange
      BY DEF Placed
    <3>2. CASE r = New
      BY <3>1, <3>2, <2>1, <2>10, <2>13 DEF FixedInPlace
    <3>3. CASE r # New
      BY <3>1, <3>3, <2>3, <2>10, <2>11, <2>13 DEF PlacedFirst
    <3> QED  BY <3>2, <3>3
  <2>14. PlacedFirst(batch, k + 1)'
    <3>1. FixedFirst(batch)
      BY <2>3 DEF PlacedFirst
    <3>2. Len(todo') = Len(batch) - (k + 1)
      BY <2>1, <2>6, <2>7
    <3> QED  BY <3>1, <3>2, <2>1, <2>9, <2>12, <2>13 DEF PlacedFirst
  <2> QED  BY <2>1, <2>8, <2>14 DEF FixedInPlace
<1>6. CASE \/ markAsDead \/ freeNonAlive \/ freeLiveRange \/ NonAliveFreed \/ GiveUp
           \/ RefuseSpill \/ ReturnAllocated \/ Release \/ ReturnFailed \/ canAlloc
           \/ TryRange \/ TrialOver \/ ReturnCanAlloc
  <2>1. stage' \notin {"place", "spill", "assert"}
    BY <1>6 DEF markAsDead, freeNonAlive, freeLiveRange, NonAliveFreed, GiveUp, RefuseSpill,
        ReturnAllocated, Release, ReturnFailed, canAlloc, TryRange, TrialOver, ReturnCanAlloc
  <2> QED  BY <2>1 DEF FixedInPlace
<1>7. CASE Stopped \/ UNCHANGED vars
  <2>1. UNCHANGED vars
    BY <1>7 DEF Stopped
  <2>2. New' = New /\ Placed' = Placed
    BY <2>1 DEF vars, callVars, New, Placed
  <2>3. \A batch, k : PlacedFirst(batch, k)' <=> PlacedFirst(batch, k)
    BY <2>1, <2>2 DEF PlacedFirst, vars, callVars
  <2> QED  BY <2>1, <2>2, <2>3 DEF FixedInPlace, vars, callVars
<1> QED  BY <1>1, <1>2, <1>3, <1>4, <1>5, <1>6, <1>7 DEF LSNext

-----------------------------------------------------------------------------
(* Every variable of the scan stays in its range: addresses and gaps never *)
(* leave the memory.                                                       *)
THEOREM TypesCorrect == LSSpec => []LSTypeOK
<1>1. LSInv => LSTypeOK
  BY DEF LSInv
<1> QED  BY <1>1, InvariantHolds, PTL

(* Partitioner::free joins a block with the gaps it touches, so that gaps  *)
(* stay in ascending order and never touch.                                *)
THEOREM GapsStaySeparated == LSSpec => []GapsSeparated
<1>1. LSInv => GapsSeparated
  BY DEF LSInv, Consistent, GapsSeparated
<1> QED  BY <1>1, InvariantHolds, PTL

(* No address is lost or handed out twice by alloc, canAlloc, freeNonAlive *)
(* and their rollbacks: it is in a gap or in a block somebody holds.       *)
THEOREM EveryAddressAccounted == LSSpec => []MemoryAccounted
<1>1. ASSUME LSInv PROVE MemoryAccounted
  <2> SUFFICES ASSUME NEW a \in 0..(TotalSize - 1)
               PROVE  Covered(gaps, a) <=> ~\E b \in InUse : b.addr <= a /\ a < b.addr + b.size
    BY DEF MemoryAccounted
  <2>1. Covered(gaps, a) <=> ~Taken(Places, Sunk, a)
    BY <1>1 DEF LSInv, Consistent, Accounted
  <2>2. DOMAIN Places = Holding /\ \A r \in Holding : Places[r] = Where(r)
    BY DEF Places
  <2> HIDE DEF Places
  <2>3. ASSUME NEW r \in Holding PROVE Block(Where(r), Size[r]).addr = Where(r) /\ Block(Where(r), Size[r]).size = Size[r]
    BY DEF Block
  <2>4. ASSUME Taken(Places, Sunk, a) PROVE \E b \in InUse : b.addr <= a /\ a < b.addr + b.size
    <3>1. CASE \E b \in Sunk : Within(a, b.addr, b.addr + b.size)
      BY <3>1 DEF Sunk, InUse, Within
    <3>2. CASE \E r \in Holding : Within(a, Where(r), Where(r) + Size[r])
      <4>1. PICK r \in Holding : Within(a, Where(r), Where(r) + Size[r])
        BY <3>2
      <4>2. Block(Where(r), Size[r]) \in InUse
        BY DEF InUse
      <4> QED  BY <4>1, <4>2, <2>3 DEF Within
    <3> QED  BY <2>2, <2>4, <3>1, <3>2 DEF Taken
  <2>5. ASSUME NEW b \in InUse, b.addr <= a, a < b.addr + b.size PROVE Taken(Places, Sunk, a)
    <3>1. CASE b \in Sunk
      BY <3>1, <2>5 DEF Taken, Within
    <3>2. CASE b \notin Sunk
      <4>1. PICK r \in Holding : b = Block(Where(r), Size[r])
        BY <3>2 DEF InUse, Sunk
      <4> QED  BY <4>1, <2>2, <2>3, <2>5 DEF Taken, Within
    <3> QED  BY <3>1, <3>2
  <2> QED  BY <2>1, <2>4, <2>5
<1> QED  BY <1>1, InvariantHolds, PTL

(* alloc with spills, its rollback and canAlloc never give memory to a     *)
(* range that another live or placed range holds.                          *)
THEOREM RangesStayApart == LSSpec => []RangesApart
<1>1. LSInv => RangesApart
  BY DEF LSInv, Consistent, WellPlaced, Places, RangesApart
<1> QED  BY <1>1, InvariantHolds, PTL

(* The calls of the linear scan are those of an allocator of one memory:   *)
(* each step takes one block that was free, gives one back whole, or       *)
(* changes nothing.                                                        *)
THEOREM ImplementsMemoryMap == LSSpec => AllocatesOneMemory
<1>1. LSInit => Map!Init
  BY Initially
<1>2. LSInv /\ [LSNext]_vars => [Map!Take \/ Map!GiveBack]_InUse
  BY EveryStep DEF MemoryStep
<1> QED  BY <1>1, <1>2, InvariantHolds, PTL DEF LSSpec, AllocatesOneMemory, Map!Spec

(* Partitioner::chooseMinimalGap with getAddrFromGap overlooks no aligned  *)
(* place in either direction, and what it finds is free and aligned: alloc *)
(* spills and fails only when memory is short.                             *)
THEOREM SearchIsComplete == LSSpec => []SearchComplete
<1> QED  BY SearchFindsPlaces, InvariantHolds, PTL

(* canAlloc never throws "Error new gaps created": it and an alloc that    *)
(* fails without spilling leave the vector of gaps as they found it.       *)
THEOREM TrialsLeaveNoTrace == LSSpec => []TrialLeavesNoTrace
<1>1. LSInit => GapsRemembered
  BY GapsRememberedInitially
<1>2. LSInv /\ GapsRemembered /\ [LSNext]_vars => GapsRemembered'
  BY NextRemembersGaps
<1>3. ASSUME LSInv, GapsRemembered PROVE TrialLeavesNoTrace
  <2>1. stage # "throw"
    BY <1>3 DEF GapsRemembered
  <2> QED  BY <1>3, <2>1, GapsRestored DEF TrialLeavesNoTrace
<1> QED  BY <1>1, <1>2, <1>3, InvariantHolds, PTL DEF LSSpec

(* alloc asks allocFixed only for memory that is free, as allocFixed       *)
(* asserts, as long as no handler has refused a spill.                     *)
THEOREM FixedPlacesAreFree == LSSpec => []AssertionsHold
<1>1. LSInit => FixedInPlace
  BY FixedInPlaceInitially
<1>2. LSInv /\ FixedInPlace /\ [LSNext]_vars => FixedInPlace'
  BY NextKeepsFixedInPlace
<1>3. FixedInPlace => AssertionsHold
  BY DEF FixedInPlace, AssertionsHold
<1> QED  BY <1>1, <1>2, <1>3, InvariantHolds, PTL DEF LSSpec
=============================================================================
