---------------------------- MODULE BucketsProofs ----------------------------
(***************************************************************************)
(* What inserting into a bucket and searching the buckets do, for any      *)
(* width of addresses, k_value and bucket limit: the lemmas about Buckets  *)
(* that the proofs about the state machines cite.                          *)
(***************************************************************************)
EXTENDS Buckets, SequenceTheorems, FiniteSetTheorems, WellFoundedInduction, TLAPS

\* A contact leaves its place and the others keep their order: each comes from
\* an index of the old bucket, at, that grows with the index in the new one.
LEMMA EvictFacts ==
    ASSUME NEW S, NEW bucket \in Seq(S), IsInjective(bucket), NEW n \in S
    PROVE  LET others == RemoveFirst(bucket, n) IN
           /\ others \in Seq(S)
           /\ IF n \in ToSet(bucket) THEN Len(others) = Len(bucket) - 1
              ELSE others = bucket
           /\ ToSet(others) = ToSet(bucket) \ {n}
           /\ \E at \in [DOMAIN others -> DOMAIN bucket] :
                 /\ \A i \in DOMAIN others : others[i] = bucket[at[i]]
                 /\ \A i, j \in DOMAIN others : i < j => at[i] < at[j]
<1> DEFINE others == RemoveFirst(bucket, n)
<1>0. /\ DOMAIN bucket = 1 .. Len(bucket) /\ Len(bucket) \in Nat
      /\ \A i \in 1 .. Len(bucket) : bucket[i] \in S
      /\ \A i, j \in 1 .. Len(bucket) : bucket[i] = bucket[j] => i = j
      /\ ToSet(bucket) = {bucket[i] : i \in 1 .. Len(bucket)}
  BY DEF IsInjective, ToSet
<1>1. CASE n \notin ToSet(bucket)
  <2>1. ~ \E i \in 1 .. Len(bucket) : bucket[i] = n
    BY <1>0, <1>1
  <2>2. others = bucket
    BY <2>1 DEF RemoveFirst
  <2>3. [i \in DOMAIN bucket |-> i] \in [DOMAIN bucket -> DOMAIN bucket]
    OBVIOUS
  <2>4. \E at \in [DOMAIN bucket -> DOMAIN bucket] :
            /\ \A i \in DOMAIN bucket : bucket[i] = bucket[at[i]]
            /\ \A i, j \in DOMAIN bucket : i < j => at[i] < at[j]
    <3> WITNESS [i \in DOMAIN bucket |-> i] \in [DOMAIN bucket -> DOMAIN bucket]
    <3> QED
      OBVIOUS
  <2> QED
    BY <2>2, <2>4, <1>1
<1>2. CASE n \in ToSet(bucket)
  <2>1. PICK p \in 1 .. Len(bucket) : bucket[p] = n
    BY <1>0, <1>2
  <2>2. {i \in 1 .. Len(bucket) : bucket[i] = n} = {p}
    BY <1>0, <2>1
  <2>3. Min({p}) = p
    BY DEF Min
  <2>4. SelectInSeq(bucket, LAMBDA v : v = n) = p
    BY <2>2, <2>3 DEF SelectInSeq
  <2>5. others = SubSeq(bucket, 1, p - 1) \o SubSeq(bucket, p + 1, Len(bucket))
    BY <2>1, <2>4 DEF RemoveFirst, RemoveAt
  <2> HIDE DEF others
  <2>6. /\ others \in Seq(S) /\ Len(others) = Len(bucket) - 1
        /\ \A i \in 1 .. Len(others) :
              others[i] = IF i < p THEN bucket[i] ELSE bucket[i + 1]
    <3> DEFINE front == SubSeq(bucket, 1, p - 1)
               back == SubSeq(bucket, p + 1, Len(bucket))
    <3>1. /\ front \in Seq(S) /\ Len(front) = p - 1
          /\ \A i \in 1 .. p - 1 : front[i] = bucket[i]
      BY <2>1, <1>0
    <3>2. /\ back \in Seq(S) /\ Len(back) = Len(bucket) - p
          /\ \A i \in 1 .. Len(bucket) - p : back[i] = bucket[p + i]
      <4> DEFINE m == p + 1
                 k == Len(bucket)
      <4>1. m \in Int /\ k \in Int /\ \A i \in m .. k : bucket[i] \in S
        BY <2>1, <1>0
      <4>2. back = SubSeq(bucket, m, k)
        OBVIOUS
      <4>3. k - m + 1 = k - p /\ (IF m <= k THEN k - m + 1 ELSE 0) = k - p
        <5>1. k \in Nat /\ p \in Nat /\ p <= k
          BY <2>1, <1>0
        <5> HIDE DEF k
        <5> QED
          BY <5>1
      <4>4. \A i \in 1 .. k - p : m + i - 1 = p + i
        BY <2>1, <1>0
      <4> HIDE DEF m, k, back
      <4>5. /\ back \in Seq(S)
            /\ Len(back) = IF m <= k THEN k - m + 1 ELSE 0
            /\ \A i \in 1 .. k - m + 1 : back[i] = bucket[m + i - 1]
        BY <4>1, <4>2, SubSeqProperties
      <4>6. /\ back \in Seq(S) /\ Len(back) = k - p
            /\ \A i \in 1 .. k - p : back[i] = bucket[p + i]
        BY <4>3, <4>4, <4>5
      <4> QED
        BY <4>6 DEF k
    <3>3. others = front \o back
      BY <2>5
    <3> HIDE DEF front, back
    <3>4. others \in Seq(S) /\ Len(others) = Len(bucket) - 1
      <4>1. others \in Seq(S) /\ Len(others) = Len(front) + Len(back)
        BY <3>1, <3>2, <3>3, ConcatProperties
      <4>2. (p - 1) + (Len(bucket) - p) = Len(bucket) - 1
        BY <2>1, <1>0
      <4> QED
        BY <3>1, <3>2, <4>1, <4>2
    <3>5. ASSUME NEW i \in 1 .. Len(others)
          PROVE  others[i] = IF i < p THEN bucket[i] ELSE bucket[i + 1]
      <4>1. CASE i < p
        BY <4>1, <3>1, <3>2, <3>3, <2>1
      <4>2. CASE i >= p
        <5>1. i - (p - 1) \in 1 .. Len(bucket) - p
          BY <4>2, <3>4, <2>1, <1>0
        <5>2. others[i] = back[i - (p - 1)]
          BY <4>2, <5>1, <3>1, <3>2, <3>3, <3>4, <2>1, <1>0
        <5>3. back[i - (p - 1)] = bucket[p + (i - (p - 1))]
          BY <5>1, <3>2
        <5>4. p + (i - (p - 1)) = i + 1
          BY <2>1, <3>4
        <5> QED
          BY <4>2, <5>2, <5>3, <5>4
      <4> QED
        BY <4>1, <4>2, <2>1
    <3> QED
      BY <3>4, <3>5
  <2>7. DOMAIN others = 1 .. Len(bucket) - 1
    BY <2>6
  <2> DEFINE at == [i \in DOMAIN others |-> IF i < p THEN i ELSE i + 1]
  <2>8. at \in [DOMAIN others -> DOMAIN bucket]
    BY <1>0, <2>1, <2>7
  <2>9. /\ \A i \in DOMAIN others : others[i] = bucket[at[i]]
        /\ \A i, j \in DOMAIN others : i < j => at[i] < at[j]
    BY <1>0, <2>1, <2>6, <2>7
  <2>10. ToSet(others) = ToSet(bucket) \ {n}
    <3>1. ASSUME NEW i \in 1 .. Len(bucket), i # p
          PROVE  \E j \in DOMAIN others : others[j] = bucket[i]
      <4>1. CASE i < p
        BY <4>1, <2>1, <2>6, <2>7, <1>0
      <4>2. CASE i > p
        <5>1. i - 1 \in DOMAIN others /\ others[i - 1] = bucket[i]
          BY <4>2, <2>1, <2>6, <2>7, <1>0
        <5> QED
          BY <5>1
      <4> QED
        BY <3>1, <4>1, <4>2, <2>1
    <3>2. ASSUME NEW i \in DOMAIN others
          PROVE  \E j \in 1 .. Len(bucket) : j # p /\ others[i] = bucket[j]
      BY <2>1, <2>6, <2>7, <1>0
    <3> QED
      BY <3>1, <3>2, <1>0, <2>1 DEF ToSet
  <2>11. \E f \in [DOMAIN others -> DOMAIN bucket] :
             /\ \A i \in DOMAIN others : others[i] = bucket[f[i]]
             /\ \A i, j \in DOMAIN others : i < j => f[i] < f[j]
    <3> HIDE DEF at
    <3> QED
      BY <2>8, <2>9
  <2> QED
    BY <1>2, <2>6, <2>10, <2>11 DEF others
<1> QED
  BY <1>1, <1>2

\* What inserting n makes of a bucket: n is last, what is before it comes from the
\* old bucket in the old order, and what is missing came before all that and left
\* a full bucket.
Placed(bucket, n, new) ==
    /\ new # <<>> /\ new[Len(new)] = n
    /\ \E at \in [1 .. Len(new) - 1 -> DOMAIN bucket] :
          /\ \A i \in 1 .. Len(new) - 1 : new[i] = bucket[at[i]] /\ new[i] # n
          /\ \A i, j \in 1 .. Len(new) - 1 : i < j => at[i] < at[j]
          /\ \A m \in ToSet(bucket) \ ToSet(new) :
                /\ MaxEntries > 0 /\ Len(new) = MaxEntries
                /\ \E l \in DOMAIN bucket :
                      m = bucket[l] /\ \A i \in 1 .. Len(new) - 1 : l < at[i]
    /\ MaxEntries > 0 /\ Len(bucket) <= MaxEntries => Len(new) <= MaxEntries
    /\ MaxEntries > 0 /\ Len(bucket) = MaxEntries => Len(new) = MaxEntries

LEMMA InsertFacts ==
    ASSUME NEW S, NEW bucket \in Seq(S), IsInjective(bucket), NEW n \in S
    PROVE  InsertInto(bucket, n) \in Seq(S) /\ Placed(bucket, n, InsertInto(bucket, n))
<1> DEFINE others == RemoveFirst(bucket, n)
           room == IF Len(others) = MaxEntries /\ others # <<>> THEN Tail(others)
                   ELSE others
           new == Append(room, n)
<1>1. InsertInto(bucket, n) = new
  BY DEF InsertInto
<1>2. /\ others \in Seq(S)
      /\ IF n \in ToSet(bucket) THEN Len(others) = Len(bucket) - 1
         ELSE others = bucket
      /\ ToSet(others) = ToSet(bucket) \ {n}
  BY EvictFacts
<1>3. PICK from \in [DOMAIN others -> DOMAIN bucket] :
         /\ \A i \in DOMAIN others : others[i] = bucket[from[i]]
         /\ \A i, j \in DOMAIN others : i < j => from[i] < from[j]
  BY EvictFacts
<1>4. /\ DOMAIN bucket = 1 .. Len(bucket) /\ Len(bucket) \in Nat
      /\ DOMAIN others = 1 .. Len(others) /\ Len(others) \in Nat
  BY <1>2
<1> HIDE DEF others
<1>5. \A i \in 1 .. Len(others) : others[i] # n
  BY <1>2, <1>4 DEF ToSet
<1>6. CASE Len(others) = MaxEntries /\ others # <<>>
  <2>1. /\ room \in Seq(S) /\ Len(room) = Len(others) - 1
        /\ \A i \in 1 .. Len(others) - 1 : room[i] = others[i + 1]
    BY <1>2, <1>6, HeadTailProperties
  <2>2. Len(others) > 0
    <3>1. Len(others) # 0
      BY <1>2, <1>6
    <3> QED
      BY <3>1, <1>4
  <2> HIDE DEF room
  <2>3. /\ new \in Seq(S) /\ Len(new) = Len(others)
        /\ \A i \in 1 .. Len(others) - 1 : new[i] = others[i + 1]
        /\ new[Len(others)] = n
    BY <2>1, <2>2, <1>4, AppendProperties
  <2> DEFINE at == [i \in 1 .. Len(new) - 1 |-> from[i + 1]]
  <2> HIDE DEF new
  <2>4. \A i \in 1 .. Len(new) - 1 : i + 1 \in DOMAIN others
    BY <2>3, <1>4
  <2>5. at \in [1 .. Len(new) - 1 -> DOMAIN bucket]
    BY <2>4, <1>3
  <2>6. \A i \in 1 .. Len(new) - 1 : new[i] = bucket[at[i]] /\ new[i] # n
    BY <2>3, <2>4, <1>3, <1>4, <1>5
  <2>7. \A i, j \in 1 .. Len(new) - 1 : i < j => at[i] < at[j]
    <3>1. ASSUME NEW i \in 1 .. Len(new) - 1, NEW j \in 1 .. Len(new) - 1, i < j
          PROVE  from[i + 1] < from[j + 1]
      <4>1. i + 1 < j + 1
        BY <3>1, <2>3, <1>4
      <4> QED
        BY <4>1, <2>4, <1>3
    <3> QED
      BY <3>1
  <2>8. \A i \in 1 .. Len(new) - 1 : from[1] < at[i]
    <3>1. ASSUME NEW i \in 1 .. Len(new) - 1
          PROVE  from[1] < from[i + 1]
      <4>1. 1 \in DOMAIN others /\ i + 1 \in DOMAIN others /\ 1 < i + 1
        BY <2>2, <2>3, <2>4, <1>4
      <4> QED
        BY <4>1, <1>3
    <3> QED
      BY <3>1
  <2>9. ASSUME NEW m \in ToSet(bucket) \ ToSet(new)
        PROVE  m = others[1]
    <3>1. ToSet(new) = {new[i] : i \in 1 .. Len(others)}
      BY <2>3 DEF ToSet
    <3>2. m # n
      BY <3>1, <2>2, <2>3, <1>4
    <3>3. PICK i \in 1 .. Len(others) : m = others[i]
      BY <3>2, <1>2, <1>4 DEF ToSet
    <3>4. ASSUME i > 1
          PROVE  FALSE
      <4>1. i - 1 \in 1 .. Len(others) - 1 /\ i - 1 \in 1 .. Len(others)
            /\ (i - 1) + 1 = i
        BY <3>4, <3>3, <1>4
      <4>2. new[i - 1] = others[i]
        BY <4>1, <2>3
      <4> QED
        BY <4>1, <4>2, <3>1, <3>3
    <3> QED
      BY <3>3, <3>4, <1>4
  <2>10. from[1] \in DOMAIN bucket /\ others[1] = bucket[from[1]]
    BY <2>2, <1>3, <1>4
  <2>11. \A m \in ToSet(bucket) \ ToSet(new) :
            /\ MaxEntries > 0 /\ Len(new) = MaxEntries
            /\ \E l \in DOMAIN bucket :
                  m = bucket[l] /\ \A i \in 1 .. Len(new) - 1 : l < at[i]
    <3>1. MaxEntries > 0 /\ Len(new) = MaxEntries
      BY <1>6, <2>2, <2>3
    <3> QED
      BY <3>1, <2>8, <2>9, <2>10
  <2>12. /\ new # <<>> /\ new[Len(new)] = n
         /\ MaxEntries > 0 /\ Len(bucket) <= MaxEntries => Len(new) <= MaxEntries
         /\ MaxEntries > 0 /\ Len(bucket) = MaxEntries => Len(new) = MaxEntries
    BY <1>4, <1>6, <2>2, <2>3
  <2> HIDE DEF at
  <2>13. \E f \in [1 .. Len(new) - 1 -> DOMAIN bucket] :
            /\ \A i \in 1 .. Len(new) - 1 : new[i] = bucket[f[i]] /\ new[i] # n
            /\ \A i, j \in 1 .. Len(new) - 1 : i < j => f[i] < f[j]
            /\ \A m \in ToSet(bucket) \ ToSet(new) :
                  /\ MaxEntries > 0 /\ Len(new) = MaxEntries
                  /\ \E l \in DOMAIN bucket :
                        m = bucket[l] /\ \A i \in 1 .. Len(new) - 1 : l < f[i]
    BY <2>5, <2>6, <2>7, <2>11
  <2> QED
    BY <1>1, <2>3, <2>12, <2>13 DEF Placed
<1>7. CASE ~ (Len(others) = MaxEntries /\ others # <<>>)
  <2>1. room = others
    BY <1>7
  <2> HIDE DEF room
  <2>2. /\ new \in Seq(S) /\ Len(new) = Len(others) + 1
        /\ \A i \in 1 .. Len(others) : new[i] = others[i]
        /\ new[Len(others) + 1] = n
    BY <2>1, <1>2, AppendProperties
  <2>3. Len(new) - 1 = Len(others)
    BY <2>2, <1>4
  <2>4. /\ from \in [1 .. Len(new) - 1 -> DOMAIN bucket]
        /\ \A i \in 1 .. Len(new) - 1 : new[i] = bucket[from[i]] /\ new[i] # n
        /\ \A i, j \in 1 .. Len(new) - 1 : i < j => from[i] < from[j]
    BY <2>2, <2>3, <1>3, <1>4, <1>5
  <2>5. ToSet(bucket) \subseteq ToSet(new)
    <3>1. ToSet(new) = {new[i] : i \in 1 .. Len(others) + 1}
      BY <2>2 DEF ToSet
    <3>2. n \in ToSet(new)
      BY <3>1, <2>2, <1>4
    <3>3. ToSet(others) \subseteq ToSet(new)
      BY <3>1, <2>2, <1>4 DEF ToSet
    <3> QED
      BY <3>2, <3>3, <1>2
  <2>6. new # <<>> /\ new[Len(new)] = n
    BY <2>2, <1>4
  <2>7. MaxEntries > 0 /\ Len(bucket) <= MaxEntries => Len(new) <= MaxEntries
    <3>1. CASE n \in ToSet(bucket)
      BY <3>1, <2>2, <1>2, <1>4
    <3>2. CASE n \notin ToSet(bucket)
      <4>1. others = bucket
        BY <3>2, <1>2
      <4>2. MaxEntries > 0 /\ Len(bucket) = MaxEntries => others # <<>>
        BY <4>1
      <4>3. MaxEntries > 0 => Len(others) # MaxEntries
        BY <4>1, <4>2, <1>7
      <4>4. Len(new) = Len(bucket) + 1
        BY <4>1, <2>2
      <4>5. MaxEntries > 0 => Len(bucket) # MaxEntries
        BY <4>1, <4>3
      <4>6. Len(bucket) \in Nat
        BY <1>4
      <4> HIDE DEF new
      <4>7. ASSUME MaxEntries > 0, Len(bucket) <= MaxEntries
            PROVE  Len(new) <= MaxEntries
        <5>1. Len(bucket) < MaxEntries
          BY <4>5, <4>6, <4>7, BucketsAssumption
        <5> QED
          BY <4>4, <4>6, <5>1, BucketsAssumption
      <4> QED
        BY <4>7
    <3> QED
      BY <3>1, <3>2
  <2>8. MaxEntries > 0 /\ Len(bucket) = MaxEntries => Len(new) = MaxEntries
    <3>1. CASE n \in ToSet(bucket)
      BY <3>1, <2>2, <1>2, <1>4
    <3>2. CASE n \notin ToSet(bucket)
      <4>1. others = bucket
        BY <3>2, <1>2
      <4>2. MaxEntries > 0 /\ Len(bucket) = MaxEntries => others # <<>>
        BY <4>1
      <4> QED
        BY <4>1, <4>2, <1>7
    <3> QED
      BY <3>1, <3>2
  <2> HIDE DEF new
  <2> QED
    BY <1>1, <2>2, <2>4, <2>5, <2>6, <2>7, <2>8 DEF Placed
<1> QED
  BY <1>6, <1>7

----------------------------------------------------------------------------
(* Distances *)

\* A non-empty set of naturals has a smallest element.
LEMMA SmallestOf ==
    ASSUME NEW T \in SUBSET Nat, T # {}
    PROVE  \E x \in T : \A y \in T : x <= y
<1> DEFINE less == OpToRel(<, Nat)
<1>1. \A x, y \in Nat : <<y, x>> \in less <=> y < x
  BY DEF OpToRel
<1>2. IsWellFoundedOn(less, Nat)
  BY NatLessThanWellFounded
<1> HIDE DEF less
<1>3. PICK x \in T : \A y \in T : ~ (<<y, x>> \in less)
  BY <1>2, WFMin
<1>4. \A y \in T : ~ (y < x)
  BY <1>1, <1>3, Zenon
<1> QED
  BY <1>4

\* A non-empty set of bits has a highest one.
LEMMA HighestOf ==
    ASSUME NEW T \in SUBSET (0 .. Bits - 1), T # {}
    PROVE  Max(T) \in T /\ \A y \in T : y <= Max(T)
<1> DEFINE D == {Bits - x : x \in T}
<1>1. Bits \in Nat
  BY BucketsAssumption
<1>2. D \in SUBSET Nat /\ D # {}
  BY <1>1
<1>3. PICK d \in D : \A e \in D : d <= e
  <2> HIDE DEF D
  <2> QED
    BY <1>2, SmallestOf
<1>4. PICK x \in T : d = Bits - x
  OBVIOUS
<1>5. \A y \in T : x >= y
  BY <1>1, <1>3, <1>4
<1>6. Max(T) \in T /\ \A y \in T : Max(T) >= y
  BY <1>5 DEF Max
<1>7. T \subseteq Int
  BY <1>1
<1> QED
  BY <1>6, <1>7

\* p is the highest bit in which a and b differ.
Top(a, b, p) ==
    /\ p \in 0 .. Bits - 1
    /\ ~ (p \in a <=> p \in b)
    /\ \A x \in 0 .. Bits - 1 : x > p => (x \in a <=> x \in b)

LEMMA TopFacts ==
    ASSUME NEW a \in Address, NEW b \in Address, a # b
    PROVE  /\ Top(a, b, Max(SymDiff(a, b)))
           /\ \A p : Top(a, b, p) => p = Max(SymDiff(a, b))
<1> DEFINE T == SymDiff(a, b)
<1>1. T \in SUBSET (0 .. Bits - 1) /\ T # {}
  BY DEF SymDiff, Address
<1>2. \A x \in 0 .. Bits - 1 : x \in T <=> ~ (x \in a <=> x \in b)
  BY DEF SymDiff
<1>3. Bits \in Nat
  BY BucketsAssumption
<1> HIDE DEF T
<1>4. Max(T) \in T /\ \A y \in T : y <= Max(T)
  BY <1>1, HighestOf
<1> DEFINE h == Max(T)
<1>5. h \in T /\ h \in 0 .. Bits - 1 /\ \A x \in 0 .. Bits - 1 : x \in T => x <= h
  BY <1>1, <1>4
<1> HIDE DEF h
<1>6. Top(a, b, h)
  <2>1. \A x \in 0 .. Bits - 1 : x > h => x \notin T
    BY <1>3, <1>5
  <2> QED
    BY <1>2, <1>5, <2>1, Zenon DEF Top
<1>7. ASSUME NEW p, Top(a, b, p) PROVE p = h
  <2>1. p \in 0 .. Bits - 1 /\ p \in T /\ \A x \in 0 .. Bits - 1 : x > p => x \notin T
    BY <1>2, <1>7, Zenon DEF Top
  <2>2. p <= h /\ ~ (h > p)
    BY <1>5, <2>1
  <2> QED
    BY <1>3, <1>5, <2>1, <2>2
<1> QED
  BY <1>6, <1>7 DEF T, h

\* A number is less than another if the other has the highest bit that differs.
LEMMA LessByTop ==
    ASSUME NEW a \in Address, NEW b \in Address
    PROVE  Less(a, b) <=> \E p \in 0 .. Bits - 1 : Top(a, b, p) /\ p \in b
<1>1. CASE a = b
  BY <1>1 DEF Less, Top
<1>2. CASE a # b
  <2>1. Top(a, b, Max(SymDiff(a, b))) /\ Max(SymDiff(a, b)) \in 0 .. Bits - 1
    BY <1>2, TopFacts DEF Top
  <2> QED
    BY <1>2, <2>1, TopFacts DEF Less
<1> QED
  BY <1>1, <1>2

\* Addresses, as numbers, are ordered.
LEMMA LessIsOrder ==
    /\ \A a \in Address : ~ Less(a, a)
    /\ \A a, b \in Address : a # b => Less(a, b) \/ Less(b, a)
    /\ \A a, b, c \in Address : Less(a, b) /\ Less(b, c) => Less(a, c)
<1>1. \A a \in Address : ~ Less(a, a)
  BY DEF Less
<1>2. ASSUME NEW a \in Address, NEW b \in Address, a # b
      PROVE  Less(a, b) \/ Less(b, a)
  <2>1. PICK p : Top(a, b, p)
    BY <1>2, TopFacts
  <2>2. Top(b, a, p) /\ p \in 0 .. Bits - 1
    BY <2>1 DEF Top
  <2>3. p \in a \/ p \in b
    BY <2>1 DEF Top
  <2> QED
    BY <2>1, <2>2, <2>3, LessByTop
<1>3. ASSUME NEW a \in Address, NEW b \in Address, NEW c \in Address,
             Less(a, b), Less(b, c)
      PROVE  Less(a, c)
  <2>1. PICK p \in 0 .. Bits - 1 : Top(a, b, p) /\ p \in b
    BY <1>3, LessByTop
  <2>2. PICK q \in 0 .. Bits - 1 : Top(b, c, q) /\ q \in c
    BY <1>3, LessByTop
  <2>3. Bits \in Nat
    BY BucketsAssumption
  <2>4. CASE p < q
    <3>1. Top(a, c, q)
      BY <2>1, <2>2, <2>3, <2>4 DEF Top
    <3> QED
      BY <2>2, <3>1, LessByTop
  <2>5. CASE q < p
    <3>1. Top(a, c, p) /\ p \in c
      BY <2>1, <2>2, <2>3, <2>5 DEF Top
    <3> QED
      BY <3>1, LessByTop
  <2>6. CASE p = q
    BY <2>1, <2>2, <2>6 DEF Top
  <2> QED
    BY <2>3, <2>4, <2>5, <2>6
<1> QED
  BY <1>1, <1>2, <1>3

\* And so are addresses by their distance to a target: no two are as far from it.
LEMMA CloserIsOrder ==
    ASSUME NEW t \in Address
    PROVE  /\ \A m \in Address : ~ Closer(m, m, t)
           /\ \A m, n \in Address : m # n => Closer(m, n, t) \/ Closer(n, m, t)
           /\ \A l, m, n \in Address : Closer(l, m, t) /\ Closer(m, n, t) => Closer(l, n, t)
<1>1. \A m \in Address : distance(m, t) \in Address
  BY DEF distance, SymDiff, Address
<1>2. \A m, n \in Address : distance(m, t) = distance(n, t) => m = n
  BY DEF distance, SymDiff, Address
<1> QED
  BY <1>1, <1>2, LessIsOrder DEF Closer

\* Nothing is closer to an address than itself.
LEMMA ClosestToItself ==
    ASSUME NEW t \in Address, NEW m \in Address
    PROVE  ~ Closer(m, t, t)
<1>1. distance(t, t) = {}
  BY DEF distance, SymDiff
<1>2. distance(m, t) \in Address /\ {} \in Address
  BY DEF distance, SymDiff, Address
<1>3. ~ Less(distance(m, t), {})
  BY <1>2, LessByTop
<1> QED
  BY <1>1, <1>3 DEF Closer

----------------------------------------------------------------------------
(* Sorting by distance *)

\* There are finitely many addresses, so every set of them can be counted.
LEMMA AddressesFinite ==
    ASSUME NEW S \in SUBSET Address
    PROVE  IsFiniteSet(S) /\ Cardinality(S) \in Nat
<1>1. IsFiniteSet(Address)
  <2>1. 0 \in Int /\ Bits - 1 \in Int
    BY BucketsAssumption
  <2>2. IsFiniteSet(0 .. Bits - 1)
    BY <2>1, FS_Interval
  <2> QED
    BY <2>2, FS_SUBSET DEF Address
<1>2. IsFiniteSet(S)
  BY <1>1, FS_Subset
<1> QED
  BY <1>2, FS_CardinalityType

\* The rank of a node counts the closer ones, so it orders the nodes by distance.
LEMMA RankOrders ==
    ASSUME NEW S \in SUBSET Address, NEW t \in Address
    PROVE  /\ \A n \in Address : Rank(n, S, t) \in Nat
           /\ \A n \in S : Rank(n, S, t) < Cardinality(S)
           /\ \A m \in S, n \in Address : Closer(m, n, t) => Rank(m, S, t) < Rank(n, S, t)
           /\ \A m, n \in S : Rank(m, S, t) < Rank(n, S, t) => Closer(m, n, t)
           /\ \A m, n \in S : Rank(m, S, t) = Rank(n, S, t) => m = n
<1> DEFINE below(n) == {m \in S : Closer(m, n, t)}
<1>1. IsFiniteSet(S) /\ Cardinality(S) \in Nat
  BY AddressesFinite
<1>2. ASSUME NEW n
      PROVE  /\ Rank(n, S, t) = Cardinality(below(n))
             /\ IsFiniteSet(below(n)) /\ Cardinality(below(n)) \in Nat
             /\ below(n) \in SUBSET S
  <2>1. below(n) \in SUBSET Address
    OBVIOUS
  <2>2. IsFiniteSet(below(n)) /\ Cardinality(below(n)) \in Nat
    BY <2>1, AddressesFinite
  <2> QED
    BY <2>2 DEF Rank
<1>3. ASSUME NEW n \in S
      PROVE  Rank(n, S, t) < Cardinality(S)
  <2>1. n \notin below(n)
    BY CloserIsOrder
  <2>2. below(n) # S
    BY <2>1
  <2>3. below(n) \in SUBSET S /\ Cardinality(below(n)) \in Nat /\ Rank(n, S, t) = Cardinality(below(n))
    BY <1>2
  <2> HIDE DEF below
  <2>4. /\ Cardinality(below(n)) <= Cardinality(S)
        /\ Cardinality(S) = Cardinality(below(n)) => S = below(n)
    BY <1>1, <2>3, FS_Subset
  <2> QED
    BY <1>1, <2>2, <2>3, <2>4
<1>4. ASSUME NEW m \in S, NEW n \in Address, Closer(m, n, t)
      PROVE  Rank(m, S, t) < Rank(n, S, t)
  <2>1. m \in below(n) /\ m \notin below(m)
    BY <1>4, CloserIsOrder
  <2>2. below(m) \in SUBSET below(n)
    BY <1>4, CloserIsOrder
  <2>3. below(m) # below(n)
    BY <2>1
  <2>4. /\ IsFiniteSet(below(n)) /\ Cardinality(below(n)) \in Nat
        /\ Rank(n, S, t) = Cardinality(below(n))
        /\ Cardinality(below(m)) \in Nat
        /\ Rank(m, S, t) = Cardinality(below(m))
    BY <1>2
  <2> HIDE DEF below
  <2>5. /\ Cardinality(below(m)) <= Cardinality(below(n))
        /\ Cardinality(below(n)) = Cardinality(below(m)) => below(n) = below(m)
    BY <2>2, <2>4, FS_Subset
  <2> QED
    BY <2>3, <2>4, <2>5
<1>5. \A n \in Address : Rank(n, S, t) \in Nat
  BY <1>2
<1> HIDE DEF below
<1>6. ASSUME NEW m \in S, NEW n \in S, Rank(m, S, t) < Rank(n, S, t)
      PROVE  Closer(m, n, t)
  <2>1. Rank(m, S, t) \in Nat /\ Rank(n, S, t) \in Nat
    BY <1>5
  <2>2. m # n /\ ~ Closer(n, m, t)
    BY <1>4, <1>6, <2>1
  <2> QED
    BY <2>2, CloserIsOrder
<1>7. ASSUME NEW m \in S, NEW n \in S, Rank(m, S, t) = Rank(n, S, t)
      PROVE  m = n
  <2>1. Rank(m, S, t) \in Nat /\ Rank(n, S, t) \in Nat
    BY <1>5
  <2>2. ~ Closer(m, n, t) /\ ~ Closer(n, m, t)
    BY <1>4, <1>7, <2>1
  <2> QED
    BY <2>2, CloserIsOrder
<1> QED
  BY <1>3, <1>4, <1>5, <1>6, <1>7

\* Every place in the order is taken, so Sorted lists each node once, closest first.
LEMMA SortedFacts ==
    ASSUME NEW S \in SUBSET Address, NEW t \in Address
    PROVE  /\ Sorted(S, t) \in [1 .. Cardinality(S) -> S]
           /\ \A i \in 1 .. Cardinality(S) : Rank(Sorted(S, t)[i], S, t) = i - 1
           /\ \A n \in S : /\ Rank(n, S, t) + 1 \in 1 .. Cardinality(S)
                           /\ Sorted(S, t)[Rank(n, S, t) + 1] = n
<1> DEFINE c == Cardinality(S)
           rank == [n \in S |-> Rank(n, S, t)]
<1>1. IsFiniteSet(S) /\ c \in Nat
  BY AddressesFinite
<1>2. \A n \in S : Rank(n, S, t) \in 0 .. c - 1
  BY <1>1, RankOrders
<1>3. \A m, n \in S : Rank(m, S, t) = Rank(n, S, t) => m = n
  BY RankOrders
<1>4. ASSUME NEW i \in 0 .. c - 1
      PROVE  \E n \in S : Rank(n, S, t) = i
  <2>1. rank \in Injection(S, 0 .. c - 1)
    BY <1>2, <1>3 DEF Injection, IsInjective
  <2>2. IsFiniteSet(0 .. c - 1) /\ Cardinality(0 .. c - 1) = c
    <3>1. 0 \in Int /\ c - 1 \in Int
      BY <1>1
    <3> HIDE DEF c
    <3>2. /\ IsFiniteSet(0 .. c - 1)
          /\ Cardinality(0 .. c - 1) = IF 0 > c - 1 THEN 0 ELSE (c - 1) - 0 + 1
      BY <3>1, FS_Interval
    <3> QED
      BY <1>1, <3>2
  <2> HIDE DEF rank
  <2>3. rank \in Surjection(S, 0 .. c - 1)
    BY <2>1, <2>2, FS_Injection
  <2>4. PICK n \in S : rank[n] = i
    BY <2>3 DEF Surjection
  <2> QED
    BY <2>4 DEF rank
<1> HIDE DEF c
<1>5. ASSUME NEW i \in 1 .. c
      PROVE  /\ (CHOOSE n \in S : Rank(n, S, t) = i - 1) \in S
             /\ Rank(CHOOSE n \in S : Rank(n, S, t) = i - 1, S, t) = i - 1
  <2>1. i - 1 \in 0 .. c - 1
    BY <1>1
  <2> QED
    BY <1>4, <2>1
<1>6. Sorted(S, t) = [i \in 1 .. c |-> CHOOSE n \in S : Rank(n, S, t) = i - 1]
  BY DEF Sorted, c
<1>7. /\ Sorted(S, t) \in [1 .. c -> S]
      /\ \A i \in 1 .. c : Rank(Sorted(S, t)[i], S, t) = i - 1
  BY <1>5, <1>6
<1>8. ASSUME NEW n \in S
      PROVE  Rank(n, S, t) + 1 \in 1 .. c /\ Sorted(S, t)[Rank(n, S, t) + 1] = n
  <2>1. Rank(n, S, t) + 1 \in 1 .. c /\ (Rank(n, S, t) + 1) - 1 = Rank(n, S, t)
    BY <1>1, <1>2
  <2>2. /\ Sorted(S, t)[Rank(n, S, t) + 1] \in S
        /\ Rank(Sorted(S, t)[Rank(n, S, t) + 1], S, t) = Rank(n, S, t)
    BY <1>7, <2>1
  <2> QED
    BY <1>3, <2>1, <2>2
<1> QED
  BY <1>7, <1>8 DEF c

\* What a search returns of the nodes it found: the k_value closest, in order.
LEMMA ResultFacts ==
    ASSUME NEW S \in SUBSET Address, NEW t \in Address
    PROVE  LET k == Min({KValue, Cardinality(S)})
               result == SubSeq(Sorted(S, t), 1, k)
           IN /\ k \in Nat /\ k <= KValue /\ k <= Cardinality(S)
              /\ k = KValue \/ k = Cardinality(S)
              /\ result \in Seq(S) /\ Len(result) = k /\ DOMAIN result = 1 .. k
              /\ \A i \in 1 .. k : result[i] \in S /\ Rank(result[i], S, t) = i - 1
              /\ \A i, j \in 1 .. k : i < j => Closer(result[i], result[j], t)
              /\ ToSet(result) = Closest(S, t)
<1> DEFINE c == Cardinality(S)
           k == Min({KValue, c})
           all == Sorted(S, t)
           result == SubSeq(all, 1, k)
<1>1. c \in Nat /\ KValue \in Nat
  BY AddressesFinite, BucketsAssumption
<1>2. k \in {KValue, c} /\ k <= KValue /\ k <= c
  <2>1. \E x \in {KValue, c} : \A y \in {KValue, c} : x =< y
    BY <1>1
  <2> HIDE DEF c
  <2>2. k \in {KValue, c} /\ \A y \in {KValue, c} : k =< y
    BY <2>1 DEF Min
  <2> QED
    BY <2>2
<1>3. /\ all \in [1 .. c -> S]
      /\ \A i \in 1 .. c : Rank(all[i], S, t) = i - 1
      /\ \A n \in S : Rank(n, S, t) + 1 \in 1 .. c /\ all[Rank(n, S, t) + 1] = n
  BY SortedFacts
<1>4. k \in Nat
  BY <1>1, <1>2
<1> HIDE DEF k, c, all
<1>5. all \in Seq(S)
  BY <1>1, <1>3
<1>6. /\ result \in Seq(S) /\ Len(result) = k /\ DOMAIN result = 1 .. k
      /\ \A i \in 1 .. k : result[i] = all[i]
  <2>1. 1 .. k \subseteq 1 .. c
    BY <1>1, <1>2, <1>4
  <2> QED
    BY <1>1, <1>2, <1>3, <1>4, <1>5, <2>1, SubSeqProperties
<1> HIDE DEF result
<1>7. \A i \in 1 .. k : i \in 1 .. c
  BY <1>1, <1>2, <1>4
<1>8. \A i \in 1 .. k : result[i] \in S /\ Rank(result[i], S, t) = i - 1
  BY <1>3, <1>6, <1>7
<1>9. ASSUME NEW i \in 1 .. k, NEW j \in 1 .. k, i < j
      PROVE  Closer(result[i], result[j], t)
  <2>1. Rank(result[i], S, t) < Rank(result[j], S, t)
    BY <1>4, <1>8, <1>9
  <2> QED
    BY <2>1, <1>8, RankOrders
<1>10. ToSet(result) = Closest(S, t)
  <2>1. ToSet(result) = {result[i] : i \in 1 .. k}
    BY <1>6 DEF ToSet
  <2>2. ASSUME NEW i \in 1 .. k
        PROVE  result[i] \in Closest(S, t)
    <3>1. Rank(result[i], S, t) < KValue
      BY <1>1, <1>2, <1>4, <1>8
    <3> QED
      BY <3>1, <1>8 DEF Closest
  <2>3. ASSUME NEW n \in Closest(S, t)
        PROVE  \E i \in 1 .. k : result[i] = n
    <3>1. n \in S /\ Rank(n, S, t) < KValue /\ Rank(n, S, t) \in Nat
      BY RankOrders DEF Closest
    <3>2. Rank(n, S, t) + 1 \in 1 .. c
      BY <3>1, <1>3
    <3>3. Rank(n, S, t) + 1 \in 1 .. k
      BY <3>1, <3>2, <1>1, <1>2, <1>4
    <3> QED
      BY <3>1, <3>3, <1>3, <1>6
  <2> QED
    BY <2>1, <2>2, <2>3
<1> QED
  BY <1>1, <1>2, <1>4, <1>6, <1>8, <1>9, <1>10 DEF k, c, result, all

\* Among more nodes a node can only rank lower.
LEMMA RankGrows ==
    ASSUME NEW S \in SUBSET Address, NEW T \in SUBSET S, NEW t \in Address, NEW n
    PROVE  Rank(n, T, t) <= Rank(n, S, t)
<1> DEFINE below(U) == {m \in U : Closer(m, n, t)}
<1>1. below(S) \in SUBSET Address /\ below(T) \in SUBSET below(S)
  OBVIOUS
<1>2. Rank(n, T, t) = Cardinality(below(T)) /\ Rank(n, S, t) = Cardinality(below(S))
  BY DEF Rank
<1> HIDE DEF below
<1>3. IsFiniteSet(below(S))
  BY <1>1, AddressesFinite
<1> QED
  BY <1>1, <1>2, <1>3, FS_Subset

----------------------------------------------------------------------------
(* Searching *)

\* Every address but the node's own has a bucket.
LEMMA IndexFacts ==
    ASSUME NEW self \in Address, NEW n \in Address, n # self
    PROVE  LET highest == Max(distance(self, n)) IN
           /\ highest \in 0 .. Bits - 1 /\ highest \in distance(self, n)
           /\ \A x \in distance(self, n) : x <= highest
           /\ get_bucket_index(self, n) \in Bucket
           /\ get_bucket_index(self, n) = IF highest = 0 THEN 0 ELSE highest - 1
<1> DEFINE T == distance(self, n)
           h == Max(T)
<1>1. T \in SUBSET (0 .. Bits - 1) /\ T # {}
  BY DEF distance, SymDiff, Address
<1>2. get_bucket_index(self, n) = IF h = 0 THEN 0 ELSE h - 1
  BY DEF get_bucket_index
<1> HIDE DEF T
<1>3. h \in T /\ \A x \in T : x <= h
  BY <1>1, HighestOf
<1> HIDE DEF h
<1>4. h \in 0 .. Bits - 1
  BY <1>1, <1>3
<1>5. get_bucket_index(self, n) \in Bucket
  BY <1>2, <1>4, BucketsAssumption DEF Bucket
<1> QED
  BY <1>2, <1>3, <1>4, <1>5 DEF T, h

\* A contact in a higher bucket is farther from the node.
LEMMA HigherIsFarther ==
    ASSUME NEW self \in Address, NEW m \in Address, NEW n \in Address,
           m # self, n # self,
           get_bucket_index(self, n) < get_bucket_index(self, m)
    PROVE  Closer(n, m, self)
<1> DEFINE dm == distance(self, m)
           dn == distance(self, n)
           hm == Max(dm)
           hn == Max(dn)
<1>1. /\ dm \in Address /\ dn \in Address
      /\ distance(m, self) = dm /\ distance(n, self) = dn
  BY DEF distance, SymDiff, Address
<1>2. /\ hm \in 0 .. Bits - 1 /\ hm \in dm /\ \A x \in dm : x <= hm
      /\ get_bucket_index(self, m) = IF hm = 0 THEN 0 ELSE hm - 1
  BY IndexFacts
<1>3. /\ hn \in 0 .. Bits - 1 /\ \A x \in dn : x <= hn
      /\ get_bucket_index(self, n) = IF hn = 0 THEN 0 ELSE hn - 1
  BY IndexFacts
<1> HIDE DEF dm, dn, hm, hn
<1>4. hn < hm
  BY <1>2, <1>3
<1>5. hm \notin dn
  BY <1>2, <1>3, <1>4
<1>6. \A x \in 0 .. Bits - 1 : x > hm => x \notin dm /\ x \notin dn
  BY <1>2, <1>3, <1>4
<1>7. Top(dn, dm, hm)
  BY <1>2, <1>5, <1>6, Zenon DEF Top
<1>8. Less(dn, dm)
  BY <1>1, <1>2, <1>7, LessByTop
<1> QED
  BY <1>1, <1>8 DEF Closer

\* How far a bucket is from the one a search starts with.
Gap(self, x, target) ==
    IF target = self THEN x
    ELSE IF x < get_bucket_index(self, target) THEN get_bucket_index(self, target) - x
         ELSE x - get_bucket_index(self, target)

LEMMA BeforeByGap ==
    ASSUME NEW self \in Address, NEW target \in Address
    PROVE  /\ \A b \in Bucket : Gap(self, b, target) \in Nat
           /\ \A b, c \in Bucket :
                 Before(self, c, b, target) <=>
                     \/ Gap(self, c, target) < Gap(self, b, target)
                     \/ Gap(self, c, target) = Gap(self, b, target) /\ c < b
<1>1. Bits \in Nat
  BY BucketsAssumption
<1>2. CASE target = self
  BY <1>1, <1>2 DEF Gap, Before, Bucket
<1>3. CASE target # self
  <2> DEFINE t == get_bucket_index(self, target)
  <2>1. t \in Bucket
    BY <1>3, IndexFacts
  <2>2. \A x \in Bucket : Gap(self, x, target) = IF x < t THEN t - x ELSE x - t
    BY <1>3 DEF Gap
  <2>3. \A b, c \in Bucket :
           Before(self, c, b, target) <=>
               \/ Gap(self, c, target) < Gap(self, b, target)
               \/ Gap(self, c, target) = Gap(self, b, target) /\ c < b
    BY <1>3 DEF Gap, Before
  <2> HIDE DEF t
  <2>4. \A x \in Bucket : Gap(self, x, target) \in Nat
    BY <1>1, <2>1, <2>2 DEF Bucket
  <2> QED
    BY <2>3, <2>4
<1> QED
  BY <1>2, <1>3

\* Buckets are looked at one after the other: any set of them has a first one.
LEMMA FirstOf ==
    ASSUME NEW self \in Address, NEW target \in Address,
           NEW T \in SUBSET Bucket, T # {}
    PROVE  \E b \in T : \A c \in T : c = b \/ ~ Before(self, c, b, target)
<1> DEFINE gaps == {Gap(self, x, target) : x \in T}
<1>1. T \in SUBSET Nat
  BY BucketsAssumption DEF Bucket
<1>2. gaps \in SUBSET Nat /\ gaps # {}
  BY BeforeByGap
<1>3. PICK g \in gaps : \A y \in gaps : g <= y
  <2> HIDE DEF gaps
  <2> QED
    BY <1>2, SmallestOf
<1> DEFINE nearest == {x \in T : Gap(self, x, target) = g}
<1>4. nearest \in SUBSET Nat /\ nearest # {}
  BY <1>1
<1>5. PICK b \in nearest : \A y \in nearest : b <= y
  <2> HIDE DEF nearest
  <2> QED
    BY <1>4, SmallestOf
<1>6. b \in T /\ Gap(self, b, target) = g /\ g \in Nat
  BY <1>2
<1>7. ASSUME NEW c \in T, Before(self, c, b, target)
      PROVE  FALSE
  <2>1. /\ Gap(self, c, target) \in Nat /\ g <= Gap(self, c, target)
        /\ b \in Nat /\ c \in Nat
    BY <1>1, <1>3, <1>6, BeforeByGap
  <2>2. Gap(self, c, target) = g /\ c < b
    BY <1>6, <1>7, <2>1, BeforeByGap
  <2>3. b <= c
    BY <1>5, <2>2
  <2> QED
    BY <2>1, <2>2, <2>3
<1> QED
  BY <1>6, <1>7

\* Which bucket comes first is a strict total order.
LEMMA BeforeIsOrder ==
    ASSUME NEW self \in Address, NEW target \in Address
    PROVE  /\ \A b, c \in Bucket :
                 b # c => Before(self, b, c, target) \/ Before(self, c, b, target)
           /\ \A b, c, d \in Bucket :
                 Before(self, b, c, target) /\ Before(self, c, d, target)
                     => Before(self, b, d, target)
<1>1. \A b \in Bucket : b \in Int
  BY BucketsAssumption DEF Bucket
<1>2. ASSUME NEW b \in Bucket, NEW c \in Bucket, b # c
      PROVE  Before(self, b, c, target) \/ Before(self, c, b, target)
  <2>1. Gap(self, b, target) \in Nat /\ Gap(self, c, target) \in Nat
    BY BeforeByGap
  <2> QED
    BY <1>1, <1>2, <2>1, BeforeByGap
<1>3. ASSUME NEW b \in Bucket, NEW c \in Bucket, NEW d \in Bucket,
             Before(self, b, c, target), Before(self, c, d, target)
      PROVE  Before(self, b, d, target)
  <2>1. /\ Gap(self, b, target) \in Nat /\ Gap(self, c, target) \in Nat
        /\ Gap(self, d, target) \in Nat
    BY BeforeByGap
  <2> QED
    BY <1>1, <1>3, <2>1, BeforeByGap
<1> QED
  BY <1>2, <1>3

\* Every contact is an address other than the node's, in the bucket of its distance.
WellFiled(self, table) ==
    \A b \in Bucket : \A n \in ToSet(table[b]) :
        n \in Address /\ n # self /\ get_bucket_index(self, n) = b

LEMMA FiledFacts ==
    ASSUME NEW self, NEW table, WellFiled(self, table)
    PROVE  Contacts(table) \in SUBSET (Address \ {self})
<1>1. Contacts(table) = UNION {ToSet(table[b]) : b \in Bucket}
  BY DEF Contacts
<1> QED
  BY <1>1 DEF WellFiled

\* The buckets a search goes through, and what it finds there.
Through(self, table, target, initial) == {b \in Bucket : Visited(self, table, b, target, initial)}

Found(self, table, target, initial) ==
    Collected(table, Through(self, table, target, initial), initial)

\* A search looks at a beginning of the order of buckets; it stops early only
\* when it has found k_value nodes.
LEMMA SearchFacts ==
    ASSUME NEW self \in Address, NEW table, WellFiled(self, table),
           NEW target \in Address, NEW initial \in SUBSET Address
    PROVE  LET through == Through(self, table, target, initial)
               found == Found(self, table, target, initial)
           IN /\ found \in SUBSET Address
              /\ initial \subseteq found /\ found \subseteq Contacts(table) \cup initial
              /\ \A b \in through : ToSet(table[b]) \subseteq found
              /\ \A n \in found \ initial : \E b \in through : n \in ToSet(table[b])
              /\ found = Contacts(table) \cup initial \/ Cardinality(found) >= KValue
              /\ \A b \in through : \A c \in Bucket :
                    Before(self, c, b, target) => c \in through
<1> DEFINE through == Through(self, table, target, initial)
           found == Found(self, table, target, initial)
           kept(C) == Collected(table, C, initial)
<1>1. /\ Contacts(table) = UNION {ToSet(table[b]) : b \in Bucket}
      /\ Contacts(table) \in SUBSET Address
      /\ KValue \in Nat
  BY FiledFacts, BucketsAssumption DEF Contacts
<1>2. \A C : kept(C) = initial \cup (UNION {ToSet(table[c]) : c \in C})
  BY DEF Collected
<1>3. found = kept(through) /\ through \subseteq Bucket
  BY DEF Found, Through
<1> HIDE DEF kept, found
<1>4. \A C \in SUBSET Bucket :
         /\ initial \subseteq kept(C) /\ kept(C) \subseteq Contacts(table) \cup initial
         /\ kept(C) \in SUBSET Address
         /\ \A b \in C : ToSet(table[b]) \subseteq kept(C)
         /\ \A n \in kept(C) \ initial : \E b \in C : n \in ToSet(table[b])
         /\ \A D \in SUBSET C : kept(D) \subseteq kept(C)
  BY <1>1, <1>2
<1>5. \A C \in SUBSET Bucket : \A D \in SUBSET C :
         /\ Cardinality(kept(C)) \in Nat /\ Cardinality(kept(D)) \in Nat
         /\ Cardinality(kept(D)) <= Cardinality(kept(C))
  <2>1. ASSUME NEW C \in SUBSET Bucket, NEW D \in SUBSET C
        PROVE  /\ Cardinality(kept(C)) \in Nat /\ Cardinality(kept(D)) \in Nat
               /\ Cardinality(kept(D)) <= Cardinality(kept(C))
    <3>1. kept(C) \in SUBSET Address /\ kept(D) \in SUBSET Address /\ kept(D) \in SUBSET kept(C)
      BY <1>4
    <3>2. IsFiniteSet(kept(C)) /\ Cardinality(kept(C)) \in Nat /\ Cardinality(kept(D)) \in Nat
      BY <3>1, AddressesFinite
    <3> QED
      BY <3>1, <3>2, FS_Subset
  <2> QED
    BY <2>1
<1>6. \A b \in Bucket :
         /\ Earlier(self, b, target) = {c \in Bucket : Before(self, c, b, target)}
         /\ b \in through <=>
               \/ Earlier(self, b, target) = {}
               \/ Cardinality(kept(Earlier(self, b, target))) < KValue
  BY DEF Through, Visited, Earlier, kept
<1> HIDE DEF through
<1>7. ASSUME NEW b \in through, NEW c \in Bucket, Before(self, c, b, target)
      PROVE  c \in through
  <2> DEFINE eb == Earlier(self, b, target)
             ec == Earlier(self, c, target)
  <2>1. b \in Bucket
    BY <1>3
  <2>2. ec \in SUBSET eb /\ eb \in SUBSET Bucket /\ c \in eb
    BY <1>6, <1>7, <2>1, BeforeIsOrder
  <2>3. Cardinality(kept(eb)) < KValue
    BY <1>6, <2>1, <2>2
  <2>4. /\ Cardinality(kept(eb)) \in Nat /\ Cardinality(kept(ec)) \in Nat
        /\ Cardinality(kept(ec)) <= Cardinality(kept(eb))
    <3> HIDE DEF eb, ec
    <3> QED
      BY <2>2, <1>5
  <2>5. Cardinality(kept(ec)) < KValue
    BY <1>1, <2>3, <2>4
  <2> QED
    BY <1>6, <2>5
<1>8. found = Contacts(table) \cup initial \/ Cardinality(found) >= KValue
  <2>1. CASE through = Bucket
    BY <2>1, <1>1, <1>2, <1>3
  <2>2. CASE through # Bucket
    <3> DEFINE T == Bucket \ through
    <3>1. T \in SUBSET Bucket /\ T # {}
      BY <2>2, <1>3
    <3>2. PICK b \in T : \A c \in T : c = b \/ ~ Before(self, c, b, target)
      <4> HIDE DEF T
      <4> QED
        BY <3>1, FirstOf
    <3> DEFINE eb == Earlier(self, b, target)
    <3>3. ~ Before(self, b, b, target)
      BY BeforeByGap, BucketsAssumption DEF Bucket
    <3>4. eb \in SUBSET through
      BY <3>2, <3>3, <1>6
    <3>5. ~ (Cardinality(kept(eb)) < KValue)
      BY <1>6
    <3>6. /\ Cardinality(kept(eb)) \in Nat /\ Cardinality(found) \in Nat
          /\ Cardinality(kept(eb)) <= Cardinality(found)
      <4> HIDE DEF eb
      <4> QED
        BY <3>4, <1>3, <1>5
    <3> QED
      BY <3>5, <3>6, <1>1
  <2> QED
    BY <2>1, <2>2
<1>9. found \in SUBSET Address /\ initial \subseteq found /\ found \subseteq Contacts(table) \cup initial
      /\ (\A b \in through : ToSet(table[b]) \subseteq found)
      /\ \A n \in found \ initial : \E b \in through : n \in ToSet(table[b])
  BY <1>3, <1>4
<1> QED
  BY <1>7, <1>8, <1>9 DEF through, found

\* A search returns the k_value closest of what it found.
LEMMA SearchReturns ==
    ASSUME NEW self, NEW table, NEW target, NEW initial
    PROVE  get_k_closest_nodes(self, table, target, initial) =
             SubSeq(Sorted(Found(self, table, target, initial), target), 1,
                    Min({KValue, Cardinality(Found(self, table, target, initial))}))
BY DEF get_k_closest_nodes, Found, Through

\* The node's own bucket for a target is the first one looked at.
LEMMA HomeIsVisited ==
    ASSUME NEW self \in Address, NEW table, NEW target \in Address, NEW initial,
           target # self
    PROVE  get_bucket_index(self, target) \in Through(self, table, target, initial)
<1> DEFINE home == get_bucket_index(self, target)
<1>1. home \in Bucket
  BY IndexFacts
<1>2. Gap(self, home, target) = 0
  <2>1. Gap(self, home, target) = IF home < home THEN home - home ELSE home - home
    BY DEF Gap
  <2> HIDE DEF home
  <2> QED
    BY <1>1, <2>1, BucketsAssumption DEF Bucket
<1> HIDE DEF home
<1>3. \A c \in Bucket : ~ Before(self, c, home, target)
  <2>1. ASSUME NEW c \in Bucket, Before(self, c, home, target)
        PROVE  FALSE
    <3>1. Gap(self, c, target) \in Nat
      BY BeforeByGap
    <3>2. ~ (c < 0) /\ Gap(self, c, target) = 0 /\ c < home
      BY <1>1, <1>2, <2>1, <3>1, BeforeByGap, BucketsAssumption DEF Bucket
    <3>3. IF c < home THEN home - c = 0 ELSE c - home = 0
      BY <3>2 DEF Gap, home
    <3> QED
      BY <1>1, <3>2, <3>3, BucketsAssumption DEF Bucket
  <2> QED
    BY <2>1
<1>4. Earlier(self, home, target) = {}
  BY <1>3 DEF Earlier
<1> QED
  BY <1>1, <1>4 DEF Through, Visited, home

\* A search from the node itself returns as many nodes as it could, in order, a
\* known target first.
LEMMA SearchFills ==
    ASSUME NEW self \in Address, NEW table, WellFiled(self, table),
           NEW target \in Address
    PROVE  LET result == get_closest_nodes_to_key(self, table, target) IN
           /\ Len(result) = Min({KValue, Cardinality(Contacts(table)) + 1})
           /\ \A i, j \in DOMAIN result : i < j => Closer(result[i], result[j], target)
           /\ find_node_id(self, table, target) /\ KValue > 0 => result[1] = target
<1> DEFINE found == Found(self, table, target, {self})
           result == get_closest_nodes_to_key(self, table, target)
           c == Cardinality(Contacts(table))
           f == Cardinality(found)
           k == Min({KValue, f})
<1>1. {self} \in SUBSET Address
  OBVIOUS
<1>2. /\ found \in SUBSET Address /\ found \subseteq Contacts(table) \cup {self}
      /\ \A b \in Through(self, table, target, {self}) : ToSet(table[b]) \subseteq found
      /\ found = Contacts(table) \cup {self} \/ f >= KValue
  <2> DEFINE initial == {self}
  <2> HIDE DEF initial
  <2>1. initial \in SUBSET Address
    BY <1>1 DEF initial
  <2> DEFINE S == Found(self, table, target, initial)
  <2>2. /\ S \in SUBSET Address /\ S \subseteq Contacts(table) \cup initial
        /\ \A b \in Through(self, table, target, initial) : ToSet(table[b]) \subseteq S
        /\ S = Contacts(table) \cup initial \/ Cardinality(S) >= KValue
    BY <2>1, SearchFacts
  <2> QED
    BY <2>2 DEF initial
<1>3. result = SubSeq(Sorted(found, target), 1, k)
  BY SearchReturns DEF get_closest_nodes_to_key
<1>4. Contacts(table) \in SUBSET Address /\ self \notin Contacts(table)
  BY FiledFacts
<1>5. /\ IsFiniteSet(Contacts(table) \cup {self}) /\ c \in Nat
      /\ Cardinality(Contacts(table) \cup {self}) = c + 1
  BY <1>4, AddressesFinite, FS_AddElement
<1> HIDE DEF found
<1>6. /\ k \in Nat /\ k <= KValue /\ k <= f
      /\ k = KValue \/ k = f
      /\ Len(result) = k /\ DOMAIN result = 1 .. k
      /\ \A i \in 1 .. k : result[i] \in found /\ Rank(result[i], found, target) = i - 1
      /\ \A i, j \in 1 .. k : i < j => Closer(result[i], result[j], target)
  BY <1>2, <1>3, ResultFacts
<1>7. f \in Nat /\ f <= c + 1 /\ KValue \in Nat
  <2>1. f <= Cardinality(Contacts(table) \cup {self})
    BY <1>2, <1>5, FS_Subset
  <2> QED
    BY <1>2, <1>5, <2>1, AddressesFinite, BucketsAssumption
<1>8. f = c + 1 \/ f >= KValue
  BY <1>2, <1>5
<1> HIDE DEF result, f, c, k
<1>9. k = Min({KValue, c + 1})
  <2>1. k \in {KValue, c + 1} /\ k <= KValue /\ k <= c + 1
    BY <1>5, <1>6, <1>7, <1>8
  <2>2. \A x \in {KValue, c + 1} : (\A y \in {KValue, c + 1} : x =< y) => x = k
    BY <1>5, <1>6, <1>7, <2>1
  <2>3. \A y \in {KValue, c + 1} : k =< y
    BY <2>1
  <2> QED
    BY <2>1, <2>2, <2>3 DEF Min
<1>10. ASSUME find_node_id(self, table, target), KValue > 0
       PROVE  result[1] = target
  <2>1. target # self /\ target \in ToSet(table[get_bucket_index(self, target)])
    BY <1>10 DEF find_node_id
  <2>2. target \in found
    BY <1>2, <2>1, HomeIsVisited
  <2>3. Rank(target, found, target) = 0
    <3>1. {m \in found : Closer(m, target, target)} = {}
      BY <1>2, ClosestToItself
    <3> QED
      BY <3>1, FS_EmptySet DEF Rank
  <2>4. f # 0
    <3>1. IsFiniteSet(found)
      BY <1>2, AddressesFinite
    <3> QED
      BY <2>2, <3>1, FS_EmptySet DEF f
  <2>5. 1 \in 1 .. k
    BY <1>6, <1>7, <1>10, <2>4
  <2>6. result[1] \in found /\ Rank(result[1], found, target) = 0
    BY <1>6, <2>5
  <2> QED
    BY <1>2, <2>2, <2>3, <2>6, RankOrders
<1> QED
  BY <1>6, <1>9, <1>10 DEF result, c

\* A search for the node's own address is exact: what it leaves out is farther
\* than the k_value contacts it found.
LEMMA SelfSearchFacts ==
    ASSUME NEW self \in Address, NEW table, WellFiled(self, table)
    PROVE  ToSet(get_k_closest_nodes(self, table, self, {})) = Closest(Contacts(table), self)
<1> DEFINE found == Found(self, table, self, {})
           through == Through(self, table, self, {})
           f == Cardinality(found)
<1>1. {} \in SUBSET Address
  OBVIOUS
<1>2. /\ found \in SUBSET Address /\ found \subseteq Contacts(table)
      /\ \A b \in through : ToSet(table[b]) \subseteq found
      /\ \A n \in found : \E b \in through : n \in ToSet(table[b])
      /\ found = Contacts(table) \/ f >= KValue
      /\ \A b \in through : \A c \in Bucket : Before(self, c, b, self) => c \in through
  <2>1. /\ found \in SUBSET Address /\ found \subseteq Contacts(table) \cup {}
        /\ \A b \in through : ToSet(table[b]) \subseteq found
        /\ \A n \in found \ {} : \E b \in through : n \in ToSet(table[b])
        /\ found = Contacts(table) \cup {} \/ f >= KValue
        /\ \A b \in through : \A c \in Bucket : Before(self, c, b, self) => c \in through
    BY <1>1, SearchFacts
  <2> HIDE DEF found, through, f
  <2> QED
    BY <2>1
<1>3. through \subseteq Bucket
  BY DEF Through
<1>4. ToSet(get_k_closest_nodes(self, table, self, {})) = Closest(found, self)
  <2> HIDE DEF through
  <2>1. get_k_closest_nodes(self, table, self, {})
          = SubSeq(Sorted(found, self), 1, Min({KValue, f}))
    BY SearchReturns
  <2> HIDE DEF found
  <2>2. ToSet(SubSeq(Sorted(found, self), 1, Min({KValue, f}))) = Closest(found, self)
    BY <1>2, ResultFacts
  <2> QED
    BY <2>1, <2>2
<1>5. /\ Contacts(table) \in SUBSET Address /\ self \notin Contacts(table)
      /\ Contacts(table) = UNION {ToSet(table[b]) : b \in Bucket}
  BY FiledFacts DEF Contacts
<1>6. f \in Nat /\ KValue \in Nat
  BY <1>2, AddressesFinite, BucketsAssumption
<1> HIDE DEF found, through, f
<1>7. CASE found = Contacts(table)
  BY <1>4, <1>7
<1>8. CASE f >= KValue
  <2>1. ASSUME NEW n \in found, NEW m \in Contacts(table) \ found
        PROVE  Closer(n, m, self)
    <3>1. PICK c \in through : n \in ToSet(table[c])
      BY <1>2
    <3>2. PICK b \in Bucket : m \in ToSet(table[b])
      BY <1>5
    <3>3. b \notin through /\ c \in Bucket
      BY <1>2, <1>3, <2>1, <3>2
    <3>4. ~ Before(self, b, c, self) /\ b # c
      BY <1>2, <3>1, <3>3
    <3>5. c < b
      <4>1. ~ (b < c)
        BY <3>4 DEF Before
      <4> QED
        BY <3>2, <3>3, <3>4, <4>1, BucketsAssumption DEF Bucket
    <3>6. get_bucket_index(self, n) < get_bucket_index(self, m)
      BY <3>1, <3>2, <3>3, <3>5 DEF WellFiled
    <3>7. n \in Address /\ m \in Address /\ n # self /\ m # self
      BY <1>2, <1>5
    <3> QED
      BY <3>6, <3>7, HigherIsFarther
  <2>2. ASSUME NEW n \in found
        PROVE  Rank(n, Contacts(table), self) = Rank(n, found, self)
    <3>1. \A m \in Contacts(table) : Closer(m, n, self) => m \in found
      BY <1>2, <1>5, <2>1, CloserIsOrder
    <3>2. {m \in Contacts(table) : Closer(m, n, self)} = {m \in found : Closer(m, n, self)}
      BY <1>2, <3>1
    <3> QED
      BY <3>2 DEF Rank
  <2>3. ASSUME NEW n \in Contacts(table) \ found
        PROVE  ~ (Rank(n, Contacts(table), self) < KValue)
    <3> DEFINE below == {m \in Contacts(table) : Closer(m, n, self)}
    <3>1. found \in SUBSET below /\ below \in SUBSET Address
      BY <1>2, <1>5, <2>1
    <3>2. Rank(n, Contacts(table), self) = Cardinality(below)
      BY DEF Rank
    <3> HIDE DEF below
    <3>3. IsFiniteSet(below) /\ Cardinality(below) \in Nat
      BY <3>1, AddressesFinite
    <3>4. f <= Cardinality(below)
      BY <3>1, <3>3, FS_Subset DEF f
    <3> QED
      BY <1>6, <1>8, <3>2, <3>3, <3>4
  <2>4. Closest(found, self) = Closest(Contacts(table), self)
    BY <1>2, <2>2, <2>3 DEF Closest
  <2> QED
    BY <1>4, <2>4
<1> QED
  BY <1>2, <1>7, <1>8

\* A search from the node itself returns the node if it is among the k_value
\* closest of all it knows.
LEMMA FindsItself ==
    ASSUME NEW self \in Address, NEW table, WellFiled(self, table),
           NEW key \in Address, self \in Closest(Contacts(table) \cup {self}, key)
    PROVE  self \in ToSet(get_closest_nodes_to_key(self, table, key))
<1> DEFINE found == Found(self, table, key, {self})
           all == Contacts(table) \cup {self}
<1>1. {self} \in SUBSET Address
  OBVIOUS
<1>2. found \in SUBSET Address /\ self \in found /\ found \in SUBSET all
  <2>1. found \in SUBSET Address /\ {self} \subseteq found /\ found \subseteq all
    BY <1>1, SearchFacts
  <2> HIDE DEF found, all
  <2> QED
    BY <2>1
<1>3. all \in SUBSET Address
  BY FiledFacts
<1>4. get_closest_nodes_to_key(self, table, key)
        = SubSeq(Sorted(found, key), 1, Min({KValue, Cardinality(found)}))
  BY SearchReturns DEF get_closest_nodes_to_key
<1> HIDE DEF found
<1>5. ToSet(get_closest_nodes_to_key(self, table, key)) = Closest(found, key)
  BY <1>2, <1>4, ResultFacts
<1>6. Rank(self, all, key) < KValue
  BY DEF Closest
<1> HIDE DEF all
<1>7. Rank(self, found, key) <= Rank(self, all, key)
  BY <1>2, <1>3, RankGrows
<1>8. Rank(self, found, key) \in Nat /\ Rank(self, all, key) \in Nat /\ KValue \in Nat
  BY <1>2, <1>3, RankOrders, BucketsAssumption
<1> QED
  BY <1>2, <1>5, <1>6, <1>7, <1>8 DEF Closest

----------------------------------------------------------------------------
(* Inserting into a table *)

\* t can be the table of node self if the other nodes are S.
TableOf(self, t, S) ==
    /\ t \in [Bucket -> Seq(S)]
    /\ \A b \in Bucket :
          /\ \A i \in DOMAIN t[b] : t[b][i] # self /\ get_bucket_index(self, t[b][i]) = b
          /\ IsInjective(t[b])
          /\ MaxEntries > 0 => Len(t[b]) <= MaxEntries

\* The table has n, or a full bucket that it may have pushed n out of.
Holds(self, t, n) ==
    \/ n \in Contacts(t)
    \/ MaxEntries > 0 /\ Len(t[get_bucket_index(self, n)]) = MaxEntries

LEMMA TableFacts ==
    ASSUME NEW S \in SUBSET Address, NEW self \in Address, NEW t, TableOf(self, t, S)
    PROVE  /\ WellFiled(self, t)
           /\ Contacts(t) \subseteq S \ {self}
<1>1. ASSUME NEW b \in Bucket, NEW n \in ToSet(t[b])
      PROVE  n \in S /\ n # self /\ get_bucket_index(self, n) = b
  <2>1. /\ t[b] \in Seq(S)
        /\ \A i \in DOMAIN t[b] : t[b][i] # self /\ get_bucket_index(self, t[b][i]) = b
    BY DEF TableOf
  <2>2. PICK i \in DOMAIN t[b] : n = t[b][i]
    BY DEF ToSet
  <2> QED
    BY <2>1, <2>2
<1>2. WellFiled(self, t)
  BY <1>1 DEF WellFiled
<1>3. Contacts(t) = UNION {ToSet(t[b]) : b \in Bucket}
  BY DEF Contacts
<1> QED
  BY <1>1, <1>2, <1>3

LEMMA NoContactsFacts ==
    ASSUME NEW self, NEW S
    PROVE  TableOf(self, NoContacts, S) /\ Contacts(NoContacts) = {}
<1>1. \A b \in Bucket : NoContacts[b] = <<>> /\ DOMAIN NoContacts[b] = {} /\ Len(NoContacts[b]) = 0
  BY DEF NoContacts
<1>2. \A b \in Bucket : IsInjective(NoContacts[b])
  BY <1>1 DEF IsInjective
<1>3. NoContacts \in [Bucket -> Seq(S)]
  BY DEF NoContacts
<1>4. \A b \in Bucket : ToSet(NoContacts[b]) = {}
  BY <1>1 DEF ToSet
<1> QED
  BY <1>1, <1>2, <1>3, <1>4, BucketsAssumption DEF TableOf, Contacts

\* Inserting keeps a table a table; it brings the contact in, and it takes none
\* away but from a bucket that stays full.
LEMMA InsertContactFacts ==
    ASSUME NEW S \in SUBSET Address, NEW self \in Address, NEW t, TableOf(self, t, S),
           NEW m \in S
    PROVE  LET new == insert_contact(self, t, m) IN
           /\ TableOf(self, new, S)
           /\ Contacts(new) \subseteq Contacts(t) \cup {m}
           /\ m # self => m \in Contacts(new)
           /\ \A n \in S \ {self} : Holds(self, t, n) => Holds(self, new, n)
<1> DEFINE new == insert_contact(self, t, m)
           home == get_bucket_index(self, m)
<1>1. CASE m = self
  BY <1>1 DEF insert_contact
<1>2. CASE m # self
  <2>1. home \in Bucket
    BY <1>2, IndexFacts
  <2>2. new = [t EXCEPT ![home] = InsertInto(@, m)]
    BY <1>2 DEF insert_contact
  <2>3. /\ t \in [Bucket -> Seq(S)]
        /\ \A b \in Bucket :
              /\ \A i \in DOMAIN t[b] : t[b][i] # self /\ get_bucket_index(self, t[b][i]) = b
              /\ IsInjective(t[b])
              /\ MaxEntries > 0 => Len(t[b]) <= MaxEntries
    BY DEF TableOf
  <2> DEFINE old == t[home]
             made == InsertInto(old, m)
  <2>4. /\ old \in Seq(S) /\ IsInjective(old)
        /\ \A i \in DOMAIN old : old[i] # self /\ get_bucket_index(self, old[i]) = home
        /\ MaxEntries > 0 => Len(old) <= MaxEntries
    BY <2>1, <2>3
  <2>5. made \in Seq(S) /\ Placed(old, m, made)
    <3> HIDE DEF old
    <3> QED
      BY <2>4, InsertFacts
  <2>6. get_bucket_index(self, m) = home
    OBVIOUS
  <2>7. new[home] = made /\ \A b \in Bucket \ {home} : new[b] = t[b]
    BY <2>1, <2>2, <2>3
  <2>8. new \in [Bucket -> Seq(S)]
    <3> HIDE DEF made, home
    <3> QED
      BY <2>1, <2>2, <2>3, <2>5 DEF made
  <2> HIDE DEF old, made, home, new
  <2>9. PICK at \in [1 .. Len(made) - 1 -> DOMAIN old] :
            /\ \A i \in 1 .. Len(made) - 1 : made[i] = old[at[i]] /\ made[i] # m
            /\ \A i, j \in 1 .. Len(made) - 1 : i < j => at[i] < at[j]
            /\ \A n \in ToSet(old) \ ToSet(made) : MaxEntries > 0 /\ Len(made) = MaxEntries
    BY <2>5 DEF Placed
  <2>10. /\ made # <<>> /\ made[Len(made)] = m
         /\ MaxEntries > 0 /\ Len(old) <= MaxEntries => Len(made) <= MaxEntries
         /\ MaxEntries > 0 /\ Len(old) = MaxEntries => Len(made) = MaxEntries
    BY <2>5 DEF Placed
  <2>11. Len(made) \in Nat /\ DOMAIN made = 1 .. Len(made) /\ Len(made) # 0
    BY <2>5, <2>10
  <2>12. \A i \in DOMAIN made : i = Len(made) \/ i \in 1 .. Len(made) - 1
    <3> DEFINE k == Len(made)
    <3>1. k \in Nat /\ DOMAIN made = 1 .. k
      BY <2>11
    <3> HIDE DEF k
    <3>2. \A i \in DOMAIN made : i = k \/ i \in 1 .. k - 1
      BY <3>1
    <3> QED
      BY <3>2 DEF k
  <2>13. ASSUME NEW i \in DOMAIN made
         PROVE  made[i] # self /\ get_bucket_index(self, made[i]) = home
    <3>1. CASE i = Len(made)
      BY <3>1, <2>6, <2>10, <1>2
    <3>2. CASE i \in 1 .. Len(made) - 1
      <4>1. at[i] \in DOMAIN old /\ made[i] = old[at[i]]
        BY <3>2, <2>9
      <4> QED
        BY <4>1, <2>4
    <3> QED
      BY <3>1, <3>2, <2>12
  <2>14. IsInjective(made)
    <3>1. ASSUME NEW i \in 1 .. Len(made) - 1, NEW j \in 1 .. Len(made) - 1, made[i] = made[j]
          PROVE  i = j
      <4>1. /\ at[i] \in DOMAIN old /\ at[j] \in DOMAIN old
            /\ made[i] = old[at[i]] /\ made[j] = old[at[j]]
        BY <2>9
      <4>2. at[i] = at[j]
        BY <4>1, <3>1, <2>4 DEF IsInjective
      <4>3. DOMAIN old \subseteq Int
        BY <2>4
      <4>4. at[i] \in Int /\ at[j] \in Int
        BY <4>1, <4>3
      <4>5. ~ (i < j) /\ ~ (j < i)
        BY <4>2, <4>4, <2>9
      <4> QED
        BY <4>5, <2>11
    <3>2. \A i, j \in DOMAIN made : made[i] = made[j] => i = j
      BY <3>1, <2>9, <2>10, <2>12
    <3> QED
      BY <3>2 DEF IsInjective
  <2>15. TableOf(self, new, S)
    <3>1. ASSUME NEW b \in Bucket
          PROVE  /\ \A i \in DOMAIN new[b] : new[b][i] # self /\ get_bucket_index(self, new[b][i]) = b
                 /\ IsInjective(new[b])
                 /\ MaxEntries > 0 => Len(new[b]) <= MaxEntries
      <4>1. CASE b = home
        BY <4>1, <2>4, <2>7, <2>10, <2>13, <2>14
      <4>2. CASE b # home
        BY <4>2, <2>3, <2>7
      <4> QED
        BY <4>1, <4>2
    <3> QED
      BY <3>1, <2>8 DEF TableOf
  <2>16. /\ Contacts(t) = UNION {ToSet(t[b]) : b \in Bucket}
         /\ Contacts(new) = UNION {ToSet(new[b]) : b \in Bucket}
         /\ ToSet(made) = {made[i] : i \in DOMAIN made}
         /\ ToSet(old) = {old[i] : i \in DOMAIN old}
         /\ t[home] = old
    BY DEF Contacts, ToSet, old
  <2>17. ToSet(made) \subseteq ToSet(old) \cup {m}
    BY <2>9, <2>10, <2>12, <2>16
  <2>18. m \in ToSet(made)
    BY <2>10, <2>11, <2>16
  <2>19. Contacts(new) \subseteq Contacts(t) \cup {m} /\ m \in Contacts(new)
    BY <2>1, <2>7, <2>16, <2>17, <2>18
  <2>20. ASSUME NEW n \in S \ {self}, Holds(self, t, n)
         PROVE  Holds(self, new, n)
    <3>1. CASE n \in Contacts(t)
      <4>1. PICK b \in Bucket : n \in ToSet(t[b])
        BY <3>1, <2>16
      <4>2. get_bucket_index(self, n) = b
        BY <4>1, <2>3 DEF ToSet
      <4>3. CASE b # home
        BY <4>1, <4>3, <2>7, <2>16 DEF Holds
      <4>4. CASE b = home /\ n \in ToSet(made)
        BY <4>4, <2>1, <2>7, <2>16 DEF Holds
      <4>5. CASE b = home /\ n \notin ToSet(made)
        <5>1. MaxEntries > 0 /\ Len(made) = MaxEntries
          BY <4>1, <4>5, <2>9, <2>16
        <5> QED
          BY <5>1, <4>2, <4>5, <2>7 DEF Holds
      <4> QED
        BY <4>3, <4>4, <4>5
    <3>2. CASE MaxEntries > 0 /\ Len(t[get_bucket_index(self, n)]) = MaxEntries
      <4>1. get_bucket_index(self, n) \in Bucket
        BY IndexFacts
      <4>2. Len(new[get_bucket_index(self, n)]) = MaxEntries
        BY <3>2, <4>1, <2>7, <2>10, <2>16
      <4> QED
        BY <3>2, <4>2 DEF Holds
    <3> QED
      BY <3>1, <3>2, <2>20 DEF Holds
  <2> QED
    BY <1>2, <2>15, <2>19, <2>20 DEF new
<1> QED
  BY <1>1, <1>2

\* What a search from node n of its own table can return.
LEMMA ClosestFacts ==
    ASSUME NEW S \in SUBSET Address, NEW n \in S, NEW t, TableOf(n, t, S),
           NEW key \in Address
    PROVE  LET r == get_closest_nodes_to_key(n, t, key) IN
           /\ r \in Seq(S)
           /\ ToSet(r) \subseteq Contacts(t) \cup {n}
           /\ KValue >= 2 /\ n \notin ToSet(r) => \A s : ToSet(r) \ {n, s} # {}
           /\ Cardinality(Contacts(t)) + 1 <= KValue => ToSet(r) = Contacts(t) \cup {n}
<1> DEFINE initial == {n}
           found == Found(n, t, key, initial)
           k == Min({KValue, Cardinality(found)})
           r == get_closest_nodes_to_key(n, t, key)
           all == Contacts(t) \cup {n}
<1>1. initial \in SUBSET Address /\ WellFiled(n, t) /\ Contacts(t) \subseteq S \ {n} /\ n \in Address
  BY TableFacts
<1>2. r = SubSeq(Sorted(found, key), 1, k)
  BY SearchReturns DEF get_closest_nodes_to_key
<1>3. all \in SUBSET S /\ all \in SUBSET Address
  BY <1>1
<1>4. /\ found \in SUBSET Address /\ initial \subseteq found /\ found \subseteq Contacts(t) \cup initial
      /\ found = Contacts(t) \cup initial \/ Cardinality(found) >= KValue
  <2> HIDE DEF initial
  <2> QED
    BY <1>1, SearchFacts
<1>5. /\ found \in SUBSET all /\ n \in found
      /\ found = all \/ Cardinality(found) >= KValue
  <2> HIDE DEF found
  <2> QED
    BY <1>4
<1>6. /\ IsFiniteSet(all) /\ Cardinality(found) \in Nat /\ Cardinality(all) \in Nat
      /\ Cardinality(Contacts(t)) \in Nat /\ KValue \in Nat
      /\ Cardinality(all) = Cardinality(Contacts(t)) + 1
  <2>1. Contacts(t) \in SUBSET Address /\ n \notin Contacts(t)
    BY <1>1
  <2> HIDE DEF found
  <2> QED
    BY <2>1, <1>3, <1>4, AddressesFinite, FS_AddElement, BucketsAssumption
<1> HIDE DEF found
<1>7. /\ k \in Nat /\ k <= KValue /\ k <= Cardinality(found)
      /\ k = KValue \/ k = Cardinality(found)
      /\ r \in Seq(found) /\ Len(r) = k /\ DOMAIN r = 1 .. k
      /\ \A i, j \in 1 .. k : i < j => Closer(r[i], r[j], key)
      /\ ToSet(r) = Closest(found, key)
  BY <1>2, <1>4, ResultFacts
<1> HIDE DEF r, k, all
<1>8. r \in Seq(S) /\ ToSet(r) \subseteq all
  <2>1. found \subseteq S
    BY <1>3, <1>5
  <2> QED
    BY <2>1, <1>5, <1>7 DEF Closest
<1>9. ASSUME KValue >= 2, n \notin ToSet(r), NEW s
      PROVE  ToSet(r) \ {n, s} # {}
  <2>1. Rank(n, found, key) < Cardinality(found) /\ Rank(n, found, key) \in Nat
    BY <1>4, <1>5, RankOrders
  <2>2. ~ (Rank(n, found, key) < KValue)
    BY <1>5, <1>7, <1>9 DEF Closest
  <2>3. k >= 2
    BY <1>6, <1>7, <1>9, <2>1, <2>2
  <2>4. 1 \in 1 .. k /\ 2 \in 1 .. k
    BY <1>7, <2>3
  <2>5. r[1] \in ToSet(r) /\ r[2] \in ToSet(r)
    BY <1>7, <2>4 DEF ToSet
  <2>6. Closer(r[1], r[2], key)
    BY <1>7, <2>4
  <2>7. r[1] \in Address
    BY <1>7, <2>4, <1>4
  <2>8. r[1] # r[2]
    BY <2>6, <2>7, CloserIsOrder
  <2> QED
    BY <2>5, <2>8, <1>9
<1>10. ASSUME Cardinality(Contacts(t)) + 1 <= KValue
       PROVE  ToSet(r) = all
  <2>1. Cardinality(found) <= Cardinality(all)
        /\ (Cardinality(all) = Cardinality(found) => all = found)
    BY <1>5, <1>6, FS_Subset
  <2>2. found = all
    BY <2>1, <1>5, <1>6, <1>10
  <2>3. \A m \in found : Rank(m, found, key) < KValue
    <3>1. \A m \in found : Rank(m, found, key) < Cardinality(found) /\ Rank(m, found, key) \in Nat
      BY <1>4, RankOrders
    <3> QED
      BY <3>1, <2>2, <1>6, <1>10
  <2> QED
    BY <2>2, <2>3, <1>7 DEF Closest
<1> QED
  BY <1>8, <1>9, <1>10 DEF r, all
=============================================================================
