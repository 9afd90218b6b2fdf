---------------------------- MODULE SequenceFacts ----------------------------
(* Facts about sequences that the proofs about chains and lists rest on, and *)
(* induction over the naturals for what is defined by recursion.             *)
EXTENDS Integers, Sequences, SequencesExt, SequenceTheorems, FiniteSetTheorems,
        WellFoundedInduction, TLAPS

\* RemoveAt keeps the other elements in their order.
LEMMA RemoveAtProperties ==
  ASSUME NEW S, NEW s \in Seq(S), NEW r \in 1 .. Len(s)
  PROVE  /\ RemoveAt(s, r) \in Seq(S)
         /\ Len(RemoveAt(s, r)) = Len(s) - 1
         /\ \A i \in 1 .. Len(s) - 1 :
               RemoveAt(s, r)[i] = IF i < r THEN s[i] ELSE s[i + 1]
<1>1. Len(s) \in Nat /\ \A i \in 1 .. Len(s) : s[i] \in S
  BY LenProperties, ElementOfSeq
<1>2. PICK front : front = SubSeq(s, 1, r - 1)
  OBVIOUS
<1>3. PICK back : back = SubSeq(s, r + 1, Len(s))
  OBVIOUS
<1>4. /\ front \in Seq(S)
      /\ Len(front) = r - 1
      /\ \A i \in 1 .. r - 1 : front[i] = s[i]
  <2>1. \A i \in 1 .. r - 1 : s[i] \in S
    BY <1>1
  <2>2. /\ front \in Seq(S)
        /\ Len(front) = IF 1 <= r - 1 THEN (r - 1) - 1 + 1 ELSE 0
        /\ \A i \in 1 .. (r - 1) - 1 + 1 : front[i] = s[1 + i - 1]
    BY <2>1, <1>1, <1>2, SubSeqProperties
  <2>. QED  BY <2>2, <1>1
<1>5. /\ back \in Seq(S)
      /\ Len(back) = Len(s) - r
      /\ \A i \in 1 .. Len(s) - r : back[i] = s[r + i]
  <2>1. \A i \in r + 1 .. Len(s) : s[i] \in S
    BY <1>1
  <2>2. /\ back \in Seq(S)
        /\ Len(back) = IF r + 1 <= Len(s) THEN Len(s) - (r + 1) + 1 ELSE 0
        /\ \A i \in 1 .. Len(s) - (r + 1) + 1 : back[i] = s[r + 1 + i - 1]
    BY <2>1, <1>1, <1>3, SubSeqProperties
  <2>. QED  BY <2>2, <1>1
<1>6. PICK t : t = front \o back
  OBVIOUS
<1>7. /\ t \in Seq(S)
      /\ Len(t) = Len(front) + Len(back)
      /\ \A i \in 1 .. Len(front) + Len(back) :
            t[i] = IF i <= Len(front) THEN front[i] ELSE back[i - Len(front)]
  BY <1>4, <1>5, <1>6, ConcatProperties
<1>8. RemoveAt(s, r) = t
  BY <1>2, <1>3, <1>6 DEF RemoveAt
<1>9. ASSUME NEW i \in 1 .. Len(s) - 1
      PROVE  t[i] = IF i < r THEN s[i] ELSE s[i + 1]
  <2>1. CASE i < r
    BY <2>1, <1>1, <1>4, <1>5, <1>7
  <2>2. CASE ~ (i < r)
    <3>1. i - (r - 1) \in 1 .. Len(s) - r /\ r + (i - (r - 1)) = i + 1
      BY <2>2, <1>1
    <3>2. t[i] = back[i - (r - 1)]
      <4>1. Len(front) = r - 1 /\ Len(back) = Len(s) - r
        BY <1>4, <1>5
      <4>2. i \in 1 .. Len(front) + Len(back) /\ ~ (i <= Len(front))
        BY <4>1, <2>2, <1>1
      <4>3. t[i] = back[i - Len(front)]
        BY <4>2, <1>7
      <4>. QED  BY <4>1, <4>3, Zenon
    <3>3. back[i - (r - 1)] = s[r + (i - (r - 1))]
      BY <3>1, <1>5
    <3>4. t[i] = s[i + 1]
      BY <3>1, <3>2, <3>3, Zenon
    <3>. QED  BY <3>4, <2>2
  <2>. QED  BY <2>1, <2>2
<1>10. Len(t) = Len(s) - 1
  BY <1>1, <1>4, <1>5, <1>7
<1>. QED  BY <1>7, <1>8, <1>9, <1>10, Zenon

\* Membership in the range of a sequence, by position.
LEMMA RangeByPosition ==
  ASSUME NEW S, NEW s \in Seq(S), NEW e
  PROVE  e \in Range(s) <=> \E i \in 1 .. Len(s) : s[i] = e
BY LenProperties DEF Range

\* Injectivity of a sequence, by position.
LEMMA InjectiveByPosition ==
  ASSUME NEW S, NEW s \in Seq(S)
  PROVE  IsInjective(s) <=> \A i, j \in 1 .. Len(s) : s[i] = s[j] => i = j
BY LenProperties DEF IsInjective

\* A set of naturals has a least element, as the sets of the naturals below its
\* elements have a least one.
LEMMA LeastNatural ==
  ASSUME NEW T, T \subseteq Nat, T # {}
  PROVE  \E m \in T : \A n \in T : ~ (n < m)
<1>. DEFINE Below(n) == {k \in Nat : k < n}
            U == {Below(n) : n \in T}
            R == StrictSubsetOrdering(Nat)
<1>1. \A n \in Nat : IsFiniteSet(Below(n)) /\ Below(n) \in SUBSET Nat
  <2>1. ASSUME NEW n \in Nat PROVE IsFiniteSet(Below(n))
    <3>1. Below(n) = 0 .. n - 1
      OBVIOUS
    <3>2. 0 \in Int /\ n - 1 \in Int
      OBVIOUS
    <3>3. IsFiniteSet(0 .. n - 1)
      BY <3>2, FS_Interval
    <3>. QED  BY <3>1, <3>3
  <2>. QED  BY <2>1
<1>2. U \subseteq FiniteSubsetsOf(Nat) /\ U # {}
  BY <1>1 DEF FiniteSubsetsOf
<1>3. IsWellFoundedOn(R, FiniteSubsetsOf(Nat))
  BY FS_StrictSubsetOrderingWellFounded
<1>4. \E B \in U : \A C \in U : ~ (<<C, B>> \in R)
  <2>. HIDE DEF U, R
  <2>. QED  BY <1>2, <1>3, WFMin
<1>5. PICK m \in T : \A n \in T : ~ (<<Below(n), Below(m)>> \in R)
  BY <1>4
<1>6. ASSUME NEW n \in T, n < m PROVE FALSE
  <2>1. n \in Below(m) /\ n \notin Below(n) /\ Below(n) \subseteq Below(m)
    BY <1>6
  <2>2. <<Below(n), Below(m)>> \in R
    BY <2>1, <1>1 DEF StrictSubsetOrdering
  <2>. QED  BY <2>2, <1>5
<1>. QED  BY <1>6

\* Induction, for a set in the place of a predicate.
LEMMA SetInduction ==
  ASSUME NEW S, 0 \in S, \A n \in Nat : n \in S => n + 1 \in S
  PROVE  Nat \subseteq S
<1>. SUFFICES ASSUME NEW z \in Nat, z \notin S PROVE FALSE
  OBVIOUS
<1>. DEFINE T == {n \in Nat : n \notin S}
<1>0. T \subseteq Nat /\ T # {}
  OBVIOUS
<1>1. PICK m \in T : \A n \in T : ~ (n < m)
  BY <1>0, LeastNatural
<1>2. m # 0 /\ m \in Nat /\ m \notin S
  OBVIOUS
<1>3. m - 1 \in Nat /\ m - 1 < m /\ (m - 1) + 1 = m
  BY <1>2
<1>4. m - 1 \in S
  BY <1>1, <1>3
<1>. QED  BY <1>2, <1>3, <1>4
=============================================================================
