------------------------------ MODULE TextProofs ------------------------------
(***************************************************************************)
(* Proofs about the string and number functions (UlService) and about the  *)
(* lines of the formatter (LineFormat): for all strings, counts, sizes of  *)
(* buffers, formats, colours, tags, ticks, lengths of lines and both       *)
(* widths of a long.                                                       *)
(*                                                                         *)
(* A call, or a line, is right whatever was in the memory before, so the   *)
(* theorems need no inductive invariant beyond what memory there is.  The  *)
(* work is in the loops, which are recursive functions.  SetInduction says *)
(* that such a function exists; what it yields is said by the first place  *)
(* at which the loop stops, or by induction over what is left to do, as    *)
(* for the digits of a number.                                             *)
(***************************************************************************)
EXTENDS LineFormat, UlService, SequenceFacts

-----------------------------------------------------------------------------
IsPart(r, s, X, p, q) ==
  r \in Seq(X) /\ Len(r) = q + 1 - p /\ \A i \in 1 .. q + 1 - p : r[i] = s[p - 1 + i]

\* The part of a sequence from place p to place q.
LEMMA PartProperties ==
  ASSUME NEW X, NEW s \in Seq(X), NEW p \in Nat, NEW q \in Nat, 0 < p, p <= q + 1, q <= Len(s)
  PROVE  IsPart(SubSeq(s, p, q), s, X, p, q)
<1>1. Len(s) \in Nat /\ \A i \in 1 .. Len(s) : s[i] \in X
  BY LenProperties, ElementOfSeq
<1>2. \A i \in p .. q : s[i] \in X
  BY <1>1
<1>3. /\ SubSeq(s, p, q) \in Seq(X)
      /\ Len(SubSeq(s, p, q)) = IF p <= q THEN q - p + 1 ELSE 0
      /\ \A i \in 1 .. q - p + 1 : SubSeq(s, p, q)[i] = s[p + i - 1]
  BY <1>2, SubSeqProperties
<1>4. \A i \in 1 .. q - p + 1 : p + i - 1 = p - 1 + i
  OBVIOUS
<1>5. q - p + 1 = q + 1 - p /\ (~ (p <= q) => q + 1 - p = 0)
  OBVIOUS
<1>. QED  BY <1>3, <1>4, <1>5 DEF IsPart

\* The first n places of a sequence.
LEMMA PrefixProperties ==
  ASSUME NEW X, NEW s \in Seq(X), NEW n \in Nat, n <= Len(s)
  PROVE  /\ SubSeq(s, 1, n) \in Seq(X)
         /\ Len(SubSeq(s, 1, n)) = n
         /\ \A i \in 1 .. n : SubSeq(s, 1, n)[i] = s[i]
<1>1. 1 \in Nat /\ 0 < 1 /\ 1 <= n + 1 /\ n + 1 - 1 = n /\ \A i \in 1 .. n : 1 - 1 + i = i
  OBVIOUS
<1>2. IsPart(SubSeq(s, 1, n), s, X, 1, n)
  BY <1>1, PartProperties
<1>. QED  BY <1>1, <1>2 DEF IsPart

-----------------------------------------------------------------------------
\* Loops over the places D that stop at the first place of S and return the value
\* that v has there.

FirstIn(m, k, S) == m \in S /\ k <= m /\ \A j \in S : k <= j => m <= j

StopsIn(v, S, D) ==
  /\ D \subseteq Int /\ S \subseteq D
  /\ \A k \in D : k \in S \/ k + 1 \in D
  /\ \A k \in D : \E m \in S : k <= m
  /\ v = [k \in D |-> v[k]]

RunsTo(f, v, S, D) ==
  /\ f = [k \in D |-> f[k]]
  /\ \A k \in D : f[k] = IF k \in S THEN v[k] ELSE f[k + 1]

\* From every place on that has one of S behind it, there is a first one.
LEMMA FirstExists ==
  ASSUME NEW S, S \subseteq Int, NEW k \in Int, \E m \in S : k <= m
  PROVE  \E m \in S : FirstIn(m, k, S)
<1>. DEFINE T == {d \in Nat : k + d \in S}
<1>1. T \subseteq Nat /\ T # {}
  <2>1. PICK m \in S : k <= m
    OBVIOUS
  <2>2. m - k \in Nat /\ k + (m - k) = m
    BY <2>1
  <2>. QED  BY <2>1, <2>2
<1>2. PICK d \in T : \A e \in T : ~ (e < d)
  BY <1>1, LeastNatural
<1>3. ASSUME NEW n \in S, k <= n PROVE k + d <= n
  <2>1. n - k \in Nat /\ k + (n - k) = n
    BY <1>3
  <2>2. n - k \in T
    BY <2>1
  <2>. QED  BY <2>1, <2>2, <1>2
<1>. QED  BY <1>2, <1>3 DEF FirstIn

\* Such a loop has a value at every place.
LEMMA LoopExists ==
  ASSUME NEW v, NEW S, NEW D, StopsIn(v, S, D)
  PROVE  \E f : RunsTo(f, v, S, D)
<1>. DEFINE least == [k \in D |-> CHOOSE m \in S : FirstIn(m, k, S)]
            g == [k \in D |-> v[least[k]]]
<1>1. /\ D \subseteq Int /\ S \subseteq D
      /\ \A k \in D : k \in S \/ k + 1 \in D
      /\ \A k \in D : \E m \in S : k <= m
  BY DEF StopsIn
<1>2. \A k \in D : FirstIn(least[k], k, S)
  <2>1. \A k \in D : \E m \in S : FirstIn(m, k, S)
    BY <1>1, FirstExists
  <2>. QED  BY <2>1
<1>. HIDE DEF least
<1>3. ASSUME NEW k \in D, k \in S PROVE least[k] = k
  <2>1. FirstIn(least[k], k, S) /\ k \in Int
    BY <1>1, <1>2, <1>3
  <2>2. least[k] \in S /\ k <= least[k] /\ least[k] <= k
    BY <2>1, <1>3 DEF FirstIn
  <2>3. least[k] \in Int
    BY <2>2, <1>1
  <2>. QED  BY <2>1, <2>2, <2>3
<1>4. ASSUME NEW k \in D, k \notin S PROVE k + 1 \in D /\ least[k] = least[k + 1]
  <2>1. k + 1 \in D /\ k \in Int /\ least[k] \in S /\ least[k + 1] \in S
    BY <1>1, <1>2, <1>4 DEF FirstIn
  <2>2. least[k] \in Int /\ least[k + 1] \in Int /\ least[k] # k
    BY <1>1, <2>1, <1>4
  <2>3. k <= least[k] /\ k + 1 <= least[k + 1]
    BY <1>2, <2>1 DEF FirstIn
  <2>4. k + 1 <= least[k] /\ k <= least[k + 1]
    BY <2>1, <2>2, <2>3
  <2>5. least[k] <= least[k + 1] /\ least[k + 1] <= least[k]
    BY <1>2, <2>1, <2>4 DEF FirstIn
  <2>. QED  BY <2>1, <2>2, <2>5
<1>5. ASSUME NEW k \in D PROVE g[k] = IF k \in S THEN v[k] ELSE g[k + 1]
  BY <1>3, <1>4
<1>6. RunsTo(g, v, S, D)
  BY <1>5 DEF RunsTo
<1>. QED  BY <1>6

\* Its value at a place is v at the first place of S from there on.
LEMMA LoopStops ==
  ASSUME NEW v, NEW S, NEW D, StopsIn(v, S, D),
         NEW f, RunsTo(f, v, S, D), NEW k \in D, NEW m, FirstIn(m, k, S)
  PROVE  f[k] = v[m]
<1>. DEFINE T == {d \in Nat : d <= m - k => f[m - d] = v[m]}
<1>0. /\ m \in D /\ m \in Int /\ k \in Int /\ k <= m /\ m \in S
      /\ \A j \in D : j \in S \/ j + 1 \in D
      /\ \A j \in S : k <= j => m <= j
      /\ \A j \in D : j \in Int
  BY DEF StopsIn, FirstIn
<1>1. 0 \in T
  BY <1>0 DEF RunsTo
<1>5. \A d \in Nat : d <= m - k => m - d \in D
  <2>. DEFINE U == {d \in Nat : d <= m - k => k + d \in D}
  <2>1. 0 \in U
    BY <1>0
  <2>2. ASSUME NEW d \in Nat, d \in U PROVE d + 1 \in U
    <3>1. SUFFICES ASSUME d + 1 <= m - k PROVE k + (d + 1) \in D
      OBVIOUS
    <3>2. k + d \in D /\ k + d < m /\ k <= k + d
      BY <1>0, <2>2, <3>1
    <3>3. k + d \notin S
      BY <1>0, <3>2
    <3>4. (k + d) + 1 \in D /\ (k + d) + 1 = k + (d + 1)
      BY <1>0, <3>2, <3>3
    <3>. QED  BY <3>4
  <2>3. Nat \subseteq U
    <3>. HIDE DEF U
    <3>. QED  BY <2>1, <2>2, SetInduction
  <2>4. ASSUME NEW d \in Nat, d <= m - k PROVE m - d \in D
    <3>1. (m - k) - d \in Nat /\ (m - k) - d <= m - k /\ k + ((m - k) - d) = m - d
      BY <1>0, <2>4
    <3>2. k + ((m - k) - d) \in D
      BY <2>3, <3>1
    <3>. QED  BY <3>1, <3>2
  <2>. QED  BY <2>4
<1>2. ASSUME NEW d \in Nat, d \in T PROVE d + 1 \in T
  <2>1. SUFFICES ASSUME d + 1 <= m - k PROVE f[m - (d + 1)] = v[m]
    OBVIOUS
  <2>2. (m - (d + 1)) + 1 = m - d /\ d <= m - k /\ m - (d + 1) < m /\ k <= m - (d + 1)
    BY <1>0, <2>1
  <2>3. m - (d + 1) \in D
    BY <1>5, <2>1
  <2>4. m - (d + 1) \notin S
    BY <1>0, <2>2, <2>3
  <2>5. f[m - (d + 1)] = f[(m - (d + 1)) + 1]
    BY <2>3, <2>4 DEF RunsTo
  <2>. QED  BY <2>2, <2>5, <1>2
<1>3. Nat \subseteq T
  <2>. HIDE DEF T
  <2>. QED  BY <1>1, <1>2, SetInduction
<1>4. m - k \in Nat /\ m - (m - k) = k
  BY <1>0
<1>. QED  BY <1>3, <1>4

\* From every place on, the loop comes to a place of S.
LEMMA LoopReaches ==
  ASSUME NEW v, NEW S, NEW D, StopsIn(v, S, D), NEW k \in D
  PROVE  \E m \in S : FirstIn(m, k, S)
BY FirstExists DEF StopsIn

\* What a loop written as a recursive function returns.
LEMMA LoopValue ==
  ASSUME NEW v, NEW S, NEW D, StopsIn(v, S, D), NEW k \in D, NEW m, FirstIn(m, k, S)
  PROVE  (CHOOSE f : RunsTo(f, v, S, D))[k] = v[m]
<1>1. RunsTo(CHOOSE f : RunsTo(f, v, S, D), v, S, D)
  BY LoopExists
<1>. QED  BY <1>1, LoopStops

\* The first m places behind i and behind j are the same.
SameUpTo(s1, i, s2, j, m) == \A k \in 0 .. m - 1 : s1[i + k] = s2[j + k]

\* ul_memcmp returns 0 for equal memory, or else the first difference.
LEMMA MemcmpValue ==
  ASSUME NEW s1, NEW i \in Int, NEW s2, NEW j \in Int, NEW count \in Nat
  PROVE  /\ SameUpTo(s1, i, s2, j, count) => ul_memcmp(s1, i, s2, j, count) = 0
         /\ \A m \in 0 .. count - 1 :
              s1[i + m] # s2[j + m] /\ SameUpTo(s1, i, s2, j, m)
                => ul_memcmp(s1, i, s2, j, count) = s1[i + m] - s2[j + m]
<1>. DEFINE D == 0 .. count
            S == {k \in D : k = count \/ s1[i + k] # s2[j + k]}
            v == [k \in D |-> IF k = count THEN 0 ELSE s1[i + k] - s2[j + k]]
            Is(f) == f = [k \in 0 .. count |->
                            IF k = count THEN 0
                            ELSE IF s1[i + k] # s2[j + k] THEN s1[i + k] - s2[j + k]
                            ELSE f[k + 1]]
<1>1. StopsIn(v, S, D)
  <2>1. \A k \in D : \E m \in S : k <= m
    <3>1. count \in S
      OBVIOUS
    <3>. QED  BY <3>1
  <2>. QED  BY <2>1 DEF StopsIn
<1>2. ASSUME NEW f PROVE Is(f) <=> RunsTo(f, v, S, D)
  BY DEF RunsTo
<1>3. ul_memcmp(s1, i, s2, j, count) = (CHOOSE f : RunsTo(f, v, S, D))[0]
  <2>1. ul_memcmp(s1, i, s2, j, count) = (CHOOSE f : Is(f))[0]
    BY DEF ul_memcmp
  <2>2. (CHOOSE f : Is(f)) = (CHOOSE f : RunsTo(f, v, S, D))
    <3>. HIDE DEF Is, v, S, D
    <3>. QED  BY <1>2
  <2>. QED  BY <2>1, <2>2, Zenon
<1>4. ASSUME NEW m, FirstIn(m, 0, S) PROVE ul_memcmp(s1, i, s2, j, count) = v[m]
  <2>1. 0 \in D
    OBVIOUS
  <2>. HIDE DEF D, S, v
  <2>. QED  BY <1>1, <1>3, <1>4, <2>1, LoopValue
<1>5. ASSUME SameUpTo(s1, i, s2, j, count) PROVE v[count] = 0 /\ FirstIn(count, 0, S)
  BY <1>5 DEF FirstIn, SameUpTo
<1>6. ASSUME NEW m \in 0 .. count - 1, s1[i + m] # s2[j + m], SameUpTo(s1, i, s2, j, m)
      PROVE  v[m] = s1[i + m] - s2[j + m] /\ FirstIn(m, 0, S)
  BY <1>6 DEF FirstIn, SameUpTo
<1>. HIDE DEF D, S, v
<1>. QED  BY <1>4, <1>5, <1>6
\* ul_strlen finds the first NUL.
LEMMA StrlenValue ==
  ASSUME NEW s, IsString(s)
  PROVE  ul_strlen(s) = Len(s) - 1
<1>. DEFINE D == 1 .. Len(s)
            S == {Len(s)}
            v == [k \in D |-> k]
            Is(f) == f = [i \in 1 .. Len(s) |-> IF s[i] = 0 THEN i ELSE f[i + 1]]
<1>0. Len(s) \in Nat /\ Len(s) > 0 /\ \A i \in 1 .. Len(s) : s[i] = 0 <=> i = Len(s)
  BY LenProperties DEF IsString
<1>1. StopsIn(v, S, D)
  <2>1. \A k \in D : \E m \in S : k <= m
    BY <1>0
  <2>2. \A k \in D : k \in S \/ k + 1 \in D
    BY <1>0
  <2>3. D \subseteq Int /\ S \subseteq D
    BY <1>0
  <2>4. v = [k \in D |-> v[k]]
    OBVIOUS
  <2>. HIDE DEF v, S, D
  <2>. QED  BY <2>1, <2>2, <2>3, <2>4 DEF StopsIn
<1>2. ASSUME NEW f PROVE Is(f) <=> RunsTo(f, v, S, D)
  BY <1>0 DEF RunsTo
<1>3. ul_strlen(s) = (CHOOSE f : RunsTo(f, v, S, D))[1] - 1
  <2>1. ul_strlen(s) = (CHOOSE f : Is(f))[1] - 1
    BY DEF ul_strlen
  <2>2. (CHOOSE f : Is(f)) = (CHOOSE f : RunsTo(f, v, S, D))
    <3>. HIDE DEF Is, v, S, D
    <3>. QED  BY <1>2
  <2>. QED  BY <2>1, <2>2, Zenon
<1>4. FirstIn(Len(s), 1, S) /\ v[Len(s)] = Len(s) /\ 1 \in D
  BY <1>0 DEF FirstIn
<1>5. ASSUME NEW m, FirstIn(m, 1, S) PROVE (CHOOSE f : RunsTo(f, v, S, D))[1] = v[m]
  <2>. HIDE DEF D, S, v
  <2>. QED  BY <1>1, <1>4, <1>5, LoopValue
<1>. HIDE DEF D, S, v
<1>. QED  BY <1>3, <1>4, <1>5

\* The difference of two characters as strncmp has it.
CharDifference(cs, ct, k, signed) == Signed(Char(cs[k], signed) - Char(ct[k], signed), 8)

\* ul_strncmp returns the difference of the first two characters that have one, or
\* that end the first string, or else 0.
LEMMA StrncmpValue ==
  ASSUME NEW cs, NEW ct, NEW count \in Nat, NEW signed
  PROVE  /\ (\A k \in 1 .. count : CharDifference(cs, ct, k, signed) = 0 /\ cs[k] # 0)
              => ul_strncmp(cs, ct, count, signed) = 0
         /\ \A m \in 1 .. count :
              /\ CharDifference(cs, ct, m, signed) # 0 \/ cs[m] = 0
              /\ \A k \in 1 .. m - 1 : CharDifference(cs, ct, k, signed) = 0 /\ cs[k] # 0
              => ul_strncmp(cs, ct, count, signed) = CharDifference(cs, ct, m, signed)
<1>. DEFINE diff(k) == Signed(Char(cs[k], signed) - Char(ct[k], signed), 8)
            D == 1 .. count + 1
            S == {k \in D : k > count \/ diff(k) # 0 \/ cs[k] = 0}
            v == [k \in D |-> IF k > count THEN 0 ELSE diff(k)]
            Is(f) == f = [k \in 1 .. count + 1 |->
                            IF k > count THEN 0
                            ELSE IF diff(k) # 0 \/ cs[k] = 0 THEN diff(k) ELSE f[k + 1]]
<1>0. \A k : diff(k) = CharDifference(cs, ct, k, signed)
  BY DEF CharDifference
<1>3a. ul_strncmp(cs, ct, count, signed) = (CHOOSE f : Is(f))[1]
  BY DEF ul_strncmp
<1>. HIDE DEF diff
<1>1. StopsIn(v, S, D)
  <2>1. \A k \in D : \E m \in S : k <= m
    <3>1. count + 1 \in S
      OBVIOUS
    <3>. QED  BY <3>1
  <2>. QED  BY <2>1 DEF StopsIn
<1>2. ASSUME NEW f PROVE Is(f) <=> RunsTo(f, v, S, D)
  BY DEF RunsTo
<1>3. ul_strncmp(cs, ct, count, signed) = (CHOOSE f : RunsTo(f, v, S, D))[1]
  <2>2. (CHOOSE f : Is(f)) = (CHOOSE f : RunsTo(f, v, S, D))
    <3>. HIDE DEF Is, v, S, D
    <3>. QED  BY <1>2
  <2>. QED  BY <1>3a, <2>2, Zenon
<1>4. ASSUME NEW m, FirstIn(m, 1, S) PROVE ul_strncmp(cs, ct, count, signed) = v[m]
  <2>1. 1 \in D
    OBVIOUS
  <2>. HIDE DEF D, S, v
  <2>. QED  BY <1>1, <1>3, <1>4, <2>1, LoopValue
<1>5. ASSUME \A k \in 1 .. count : diff(k) = 0 /\ cs[k] # 0
      PROVE  v[count + 1] = 0 /\ FirstIn(count + 1, 1, S)
  BY <1>5 DEF FirstIn
<1>6. ASSUME NEW m \in 1 .. count, diff(m) # 0 \/ cs[m] = 0,
             \A k \in 1 .. m - 1 : diff(k) = 0 /\ cs[k] # 0
      PROVE  v[m] = diff(m) /\ FirstIn(m, 1, S)
  BY <1>6 DEF FirstIn
<1>. HIDE DEF D, S, v
<1>7. (\A k \in 1 .. count : diff(k) = 0 /\ cs[k] # 0) => ul_strncmp(cs, ct, count, signed) = 0
  BY <1>4, <1>5
<1>8. ASSUME NEW m \in 1 .. count, diff(m) # 0 \/ cs[m] = 0,
             \A k \in 1 .. m - 1 : diff(k) = 0 /\ cs[k] # 0
      PROVE  ul_strncmp(cs, ct, count, signed) = diff(m)
  BY <1>4, <1>6, <1>8
<1>. QED  BY <1>0, <1>7, <1>8
\* A text stands in another when its characters do.
LEMMA StandsByCharacters ==
  ASSUME NEW s, IsString(s), NEW t, IsString(t), NEW i \in Nat
  PROVE  StandsAt(TextOf(s), TextOf(t), i) <=>
            i + Len(t) <= Len(s) /\ SameUpTo(s, i + 1, t, 1, Len(t) - 1)
<1>1. /\ s \in Seq(0 .. 255) /\ Len(s) \in Nat /\ Len(s) > 0
      /\ t \in Seq(0 .. 255) /\ Len(t) \in Nat /\ Len(t) > 0
      /\ \A j \in 1 .. Len(s) : s[j] \in 0 .. 255
      /\ \A j \in 1 .. Len(t) : t[j] \in 0 .. 255
  BY LenProperties, ElementOfSeq DEF IsString
<1>2. PICK u : u = TextOf(s)
  OBVIOUS
<1>3. PICK w : w = TextOf(t)
  OBVIOUS
<1>4. /\ u \in Seq(0 .. 255) /\ Len(u) = Len(s) - 1
      /\ \A j \in 1 .. Len(s) - 1 : u[j] = s[j]
  <2>1. Len(s) - 1 \in Nat /\ Len(s) - 1 <= Len(s)
    BY <1>1
  <2>2. PICK n \in Nat : n = Len(s) - 1 /\ n <= Len(s)
    BY <2>1
  <2>3. s \in Seq(0 .. 255) /\ n <= Len(s)
    BY <1>1, <2>2
  <2>4. /\ SubSeq(s, 1, n) \in Seq(0 .. 255) /\ Len(SubSeq(s, 1, n)) = n
        /\ \A j \in 1 .. n : SubSeq(s, 1, n)[j] = s[j]
    BY <2>3, PrefixProperties
  <2>. QED  BY <2>2, <2>4, <1>2, Zenon DEF TextOf
<1>5. /\ w \in Seq(0 .. 255) /\ Len(w) = Len(t) - 1
      /\ \A j \in 1 .. Len(t) - 1 : w[j] = t[j]
  <2>1. Len(t) - 1 \in Nat /\ Len(t) - 1 <= Len(t)
    BY <1>1
  <2>2. PICK n \in Nat : n = Len(t) - 1 /\ n <= Len(t)
    BY <2>1
  <2>3. t \in Seq(0 .. 255) /\ n <= Len(t)
    BY <1>1, <2>2
  <2>4. /\ SubSeq(t, 1, n) \in Seq(0 .. 255) /\ Len(SubSeq(t, 1, n)) = n
        /\ \A j \in 1 .. n : SubSeq(t, 1, n)[j] = t[j]
    BY <2>3, PrefixProperties
  <2>. QED  BY <2>2, <2>4, <1>3, Zenon DEF TextOf
<1>6. CASE i + Len(t) <= Len(s)
  <2>1. PICK part : part = SubSeq(u, i + 1, i + Len(w))
    OBVIOUS
  <2>2. Len(w) \in Nat /\ i + Len(w) <= Len(u)
    BY <1>1, <1>4, <1>5, <1>6
  <2>3. /\ part \in Seq(0 .. 255) /\ Len(part) = Len(w)
        /\ \A j \in 1 .. Len(w) : part[j] = u[i + j]
    <3>1. PICK p : p = i + 1 /\ p \in Nat /\ 0 < p
      OBVIOUS
    <3>2. PICK q : q = i + Len(w) /\ q \in Nat
      BY <2>2
    <3>3. p <= q + 1 /\ q <= Len(u) /\ q + 1 - p = Len(w) /\ p - 1 = i
      BY <2>2, <3>1, <3>2
    <3>4. /\ part \in Seq(0 .. 255) /\ Len(part) = q + 1 - p
          /\ \A j \in 1 .. q + 1 - p : part[j] = u[p - 1 + j]
      <4>1. part = SubSeq(u, p, q)
        BY <2>1, <3>1, <3>2
      <4>2. /\ u \in Seq(0 .. 255) /\ p \in Nat /\ q \in Nat
            /\ 0 < p /\ p <= q + 1 /\ q <= Len(u)
        BY <3>1, <3>2, <3>3, <1>4
      <4>3. IsPart(SubSeq(u, p, q), u, 0 .. 255, p, q)
        BY <4>2, PartProperties
      <4>. QED  BY <4>1, <4>3, Zenon DEF IsPart
    <3>. QED  BY <3>3, <3>4
  <2>4. \A j \in 1 .. Len(t) - 1 : part[j] = s[i + j]
    <3>1. ASSUME NEW j \in 1 .. Len(t) - 1 PROVE part[j] = s[i + j]
      <4>1. i + j \in 1 .. Len(s) - 1
        BY <1>1, <1>6
      <4>. QED  BY <4>1, <2>3, <1>4, <1>5
    <3>. QED  BY <3>1
  <2>5. part = w <=> \A j \in 1 .. Len(t) - 1 : part[j] = w[j]
    <3>1. Len(part) = Len(t) - 1 /\ Len(w) = Len(t) - 1
      BY <2>3, <1>5
    <3>. QED  BY <2>3, <1>5, <3>1, SeqEqual
  <2>6. part = w <=> \A j \in 1 .. Len(t) - 1 : s[i + j] = t[j]
    BY <2>4, <2>5, <1>5
  <2>7. (\A j \in 1 .. Len(t) - 1 : s[i + j] = t[j])
           <=> SameUpTo(s, i + 1, t, 1, Len(t) - 1)
    <3>1. ASSUME \A j \in 1 .. Len(t) - 1 : s[i + j] = t[j], NEW k \in 0 .. Len(t) - 1 - 1
          PROVE  s[i + 1 + k] = t[1 + k]
      <4>1. 1 + k \in 1 .. Len(t) - 1 /\ i + (1 + k) = i + 1 + k
        BY <1>1
      <4>. QED  BY <4>1, <3>1
    <3>2. ASSUME \A k \in 0 .. Len(t) - 1 - 1 : s[i + 1 + k] = t[1 + k],
                 NEW j \in 1 .. Len(t) - 1
          PROVE  s[i + j] = t[j]
      <4>1. j - 1 \in 0 .. Len(t) - 1 - 1 /\ i + 1 + (j - 1) = i + j /\ 1 + (j - 1) = j
        BY <1>1
      <4>. QED  BY <4>1, <3>2
    <3>. QED  BY <3>1, <3>2 DEF SameUpTo
  <2>8. StandsAt(u, w, i) <=> part = w
    <3>1. i + Len(w) <= Len(u)
      BY <1>1, <1>4, <1>5, <1>6
    <3>. QED  BY <3>1, <2>1 DEF StandsAt
  <2>. QED  BY <1>2, <1>3, <1>6, <2>6, <2>7, <2>8, Zenon
<1>7. CASE ~ (i + Len(t) <= Len(s))
  <2>1. ~ (i + Len(w) <= Len(u))
    BY <1>1, <1>4, <1>5, <1>7
  <2>. QED  BY <2>1, <1>2, <1>3, <1>7 DEF StandsAt
<1>. QED  BY <1>6, <1>7

\* The comparison of ul_strstr says whether the text stands at the place.
LEMMA ComparisonFinds ==
  ASSUME NEW s, IsString(s), NEW t, IsString(t), NEW i \in Nat, i + Len(t) <= Len(s)
  PROVE  ul_memcmp(s, i + 1, t, 1, Len(t) - 1) = 0 <=> StandsAt(TextOf(s), TextOf(t), i)
<1>1. /\ Len(s) \in Nat /\ Len(t) \in Nat /\ Len(t) > 0
      /\ \A j \in 1 .. Len(s) : s[j] \in 0 .. 255
      /\ \A j \in 1 .. Len(t) : t[j] \in 0 .. 255
  BY LenProperties, ElementOfSeq DEF IsString
<1>0. Len(t) - 1 \in Nat
  BY <1>1
<1>2. PICK count : count = Len(t) - 1 /\ count \in Nat
  BY <1>0
<1>6. PICK p : p = i + 1 /\ p \in Int
  OBVIOUS
<1>3. StandsAt(TextOf(s), TextOf(t), i) <=> SameUpTo(s, p, t, 1, count)
  BY <1>2, <1>6, StandsByCharacters
<1>4. CASE SameUpTo(s, p, t, 1, count)
  <2>1. ul_memcmp(s, p, t, 1, count) = 0
    BY <1>2, <1>6, <1>4, MemcmpValue
  <2>. QED  BY <2>1, <1>2, <1>3, <1>4, <1>6
<1>5. CASE ~ SameUpTo(s, p, t, 1, count)
  <2>. DEFINE U == {k \in 0 .. count - 1 : s[p + k] # t[1 + k]}
  <2>1. U \subseteq Nat /\ U # {}
    BY <1>2, <1>5 DEF SameUpTo
  <2>2. PICK m \in U : \A n \in U : ~ (n < m)
    BY <2>1, LeastNatural
  <2>3. m \in Nat /\ m \in 0 .. count - 1 /\ s[p + m] # t[1 + m]
    BY <2>1
  <2>9. ASSUME NEW k \in 0 .. m - 1 PROVE s[p + k] = t[1 + k]
    <3>1. k \notin U
      BY <2>2, <2>3
    <3>2. k \in 0 .. count - 1
      BY <2>3, <1>2
    <3>. QED  BY <3>1, <3>2
  <2>10. SameUpTo(s, p, t, 1, m)
    BY <2>9 DEF SameUpTo
  <2>. HIDE DEF U
  <2>4. ul_memcmp(s, p, t, 1, count) = s[p + m] - t[1 + m]
    BY <1>2, <1>6, <2>3, <2>10, MemcmpValue
  <2>5. p + m \in 1 .. Len(s) /\ 1 + m \in 1 .. Len(t)
    BY <1>1, <1>2, <1>6, <2>3
  <2>6. s[p + m] \in 0 .. 255 /\ t[1 + m] \in 0 .. 255 /\ s[p + m] # t[1 + m]
    BY <2>3, <2>5, <1>1
  <2>7. ul_memcmp(s, p, t, 1, count) # 0
    <3>1. PICK a : a = s[p + m]
      OBVIOUS
    <3>2. PICK b : b = t[1 + m]
      OBVIOUS
    <3>3. a \in 0 .. 255 /\ b \in 0 .. 255 /\ a # b
      BY <2>6, <3>1, <3>2, Zenon
    <3>4. ul_memcmp(s, p, t, 1, count) = a - b
      BY <2>4, <3>1, <3>2, Zenon
    <3>. QED  BY <3>3, <3>4
  <2>. QED  BY <2>7, <1>2, <1>3, <1>5, <1>6
<1>. QED  BY <1>4, <1>5

\* ul_strstr returns the first place at which the text stands, or None.
LEMMA StrstrFinds ==
  ASSUME NEW s, IsString(s), NEW t, IsString(t)
  PROVE  LET places == {i \in 0 .. Len(s) : StandsAt(TextOf(s), TextOf(t), i)}
         IN ul_strstr(s, t) = IF places = {} THEN None ELSE Min(places)
<1>. DEFINE places == {i \in 0 .. Len(s) : StandsAt(TextOf(s), TextOf(t), i)}
            l1 == Len(s) - 1
            l2 == Len(t) - 1
            D == Nat
            S == {i \in Nat : i >= Tries(l1, l2) \/ ul_memcmp(s, i + 1, t, 1, l2) = 0}
            v == [i \in D |-> IF i >= Tries(l1, l2) THEN None ELSE i]
            Is(f) == f = [i \in Nat |->
                            IF i >= Tries(l1, l2) THEN None
                            ELSE IF ul_memcmp(s, i + 1, t, 1, l2) = 0 THEN i ELSE f[i + 1]]
<1>. SUFFICES ul_strstr(s, t) = IF places = {} THEN None ELSE Min(places)
  OBVIOUS
<1>1. Len(s) \in Nat /\ Len(s) > 0 /\ Len(t) \in Nat /\ Len(t) > 0
  BY LenProperties DEF IsString
<1>2. \A i \in Nat : i < Tries(l1, l2) <=> i + Len(t) <= Len(s)
  BY <1>1 DEF Tries
<1>3. \A i \in Nat : i < Tries(l1, l2) =>
        (ul_memcmp(s, i + 1, t, 1, l2) = 0 <=> StandsAt(TextOf(s), TextOf(t), i))
  BY <1>2, ComparisonFinds
<1>4. \A i \in Nat : StandsAt(TextOf(s), TextOf(t), i) => i < Tries(l1, l2) /\ i \in 0 .. Len(s)
  BY <1>1, <1>2, StandsByCharacters
<1>5. Tries(l1, l2) \in Int
  BY <1>1 DEF Tries
<1>6. ul_strlen(s) = l1 /\ ul_strlen(t) = l2
  BY StrlenValue
<1>7. ul_strstr(s, t) = IF l2 = 0 THEN 0 ELSE (CHOOSE f : Is(f))[0]
  BY <1>6 DEF ul_strstr
<1>8. CASE l2 = 0
  <2>1. StandsAt(TextOf(s), TextOf(t), 0)
    <3>1. 0 + Len(t) <= Len(s) /\ SameUpTo(s, 0 + 1, t, 1, Len(t) - 1)
      BY <1>1, <1>8 DEF SameUpTo
    <3>. QED  BY <3>1, StandsByCharacters
  <2>2. 0 \in places /\ \A i \in places : 0 <= i
    BY <2>1, <1>4
  <2>. HIDE DEF places
  <2>3. places # {} /\ Min(places) = 0
    <3>1. ASSUME NEW m \in places, \A i \in places : m <= i PROVE m = 0
      <4>1. m <= 0 /\ 0 <= m
        BY <2>2, <3>1
      <4>2. m \in Nat
        BY DEF places
      <4>. QED  BY <4>1, <4>2
    <3>. QED  BY <2>2, <3>1 DEF Min
  <2>. QED  BY <2>3, <1>7, <1>8
<1>9. CASE l2 # 0
  <2>1. StopsIn(v, S, D)
    <3>1. \A k \in D : \E m \in S : k <= m
      <4>1. ASSUME NEW k \in D PROVE \E m \in S : k <= m
        <5>1. PICK m \in Nat : k <= m /\ m >= Tries(l1, l2)
          <6>1. CASE k >= Tries(l1, l2)
            BY <6>1
          <6>2. CASE Tries(l1, l2) > k
            <7>1. Tries(l1, l2) \in Nat /\ k <= Tries(l1, l2)
              BY <6>2, <1>5
            <7>. QED  BY <7>1, <1>5
          <6>. QED  BY <6>1, <6>2, <1>5
        <5>. QED  BY <5>1
      <4>. QED  BY <4>1
    <3>2. D \subseteq Int /\ S \subseteq D /\ \A k \in D : k + 1 \in D
      OBVIOUS
    <3>3. v = [k \in D |-> v[k]]
      OBVIOUS
    <3>. HIDE DEF v, S, D
    <3>. QED  BY <3>1, <3>2, <3>3 DEF StopsIn
  <2>2. ASSUME NEW f PROVE Is(f) <=> RunsTo(f, v, S, D)
    BY DEF RunsTo
  <2>3. ul_strstr(s, t) = (CHOOSE f : RunsTo(f, v, S, D))[0]
    <3>1. (CHOOSE f : Is(f)) = (CHOOSE f : RunsTo(f, v, S, D))
      <4>. HIDE DEF Is, v, S, D
      <4>. QED  BY <2>2
    <3>. QED  BY <1>7, <1>9, <3>1, Zenon
  <2>4. PICK m \in S : FirstIn(m, 0, S)
    <3>1. 0 \in D
      OBVIOUS
    <3>. HIDE DEF D, S, v
    <3>. QED  BY <2>1, <3>1, LoopReaches
  <2>5. ul_strstr(s, t) = v[m]
    <3>1. 0 \in D
      OBVIOUS
    <3>. HIDE DEF D, S, v
    <3>. QED  BY <2>1, <2>3, <2>4, <3>1, LoopValue
  <2>6. m \in Nat /\ \A i \in S : m <= i
    BY <2>4 DEF FirstIn
  <2>7. CASE m >= Tries(l1, l2)
    <3>1. places = {}
      <4>1. SUFFICES ASSUME NEW i \in places PROVE FALSE
        OBVIOUS
      <4>2. i \in Nat /\ StandsAt(TextOf(s), TextOf(t), i) /\ i < Tries(l1, l2)
        BY <1>4
      <4>3. i \in S
        BY <4>2, <1>3
      <4>. HIDE DEF S
      <4>. QED  BY <4>2, <4>3, <2>6, <2>7, <1>5
    <3>2. v[m] = None
      BY <2>6, <2>7
    <3>. QED  BY <3>1, <3>2, <2>5
  <2>8. CASE m < Tries(l1, l2)
    <3>1. ~ (m >= Tries(l1, l2))
      BY <2>6, <2>8, <1>5
    <3>2. v[m] = m
      BY <2>6, <3>1
    <3>3. StandsAt(TextOf(s), TextOf(t), m)
      BY <2>4, <2>8, <3>1, <1>3
    <3>4. m \in places
      BY <1>4, <2>6, <3>3
    <3>5. ASSUME NEW i \in places PROVE i \in Nat /\ m <= i
      <4>1. i \in Nat /\ StandsAt(TextOf(s), TextOf(t), i) /\ i < Tries(l1, l2)
        BY <1>4
      <4>2. i \in S
        BY <4>1, <1>3
      <4>. HIDE DEF S
      <4>. QED  BY <4>1, <4>2, <2>6
    <3>6. Min(places) = m
      <4>. HIDE DEF places
      <4>1. ASSUME NEW n \in places, \A i \in places : n <= i PROVE n = m
        BY <3>4, <3>5, <4>1, <2>6
      <4>. QED  BY <3>4, <3>5, <4>1 DEF Min
    <3>. HIDE DEF places, v, S
    <3>. QED  BY <2>5, <3>2, <3>4, <3>6
  <2>. QED  BY <2>6, <2>7, <2>8, <1>5
<1>. QED  BY <1>1, <1>8, <1>9
\* ul_strncpy fills n places: with the characters before the NUL, and with NULs.
LEMMA StrncpyFills ==
  ASSUME NEW s, IsString(s), NEW dst \in Seq({None}), NEW n \in Nat, n <= Len(dst)
  PROVE  \A i \in 1 .. Len(dst) :
            ul_strncpy(dst, s, n)[i] =
              IF i > n THEN None ELSE IF i < Len(s) THEN s[i] ELSE 0
<1>. DEFINE Value(j) == IF j < Len(s) THEN s[j] ELSE 0
            Is(d) == d = [i \in 0 .. n |->
                            IF i = 0 THEN << >>
                            ELSE Append(d[i - 1], IF i > 1 /\ d[i - 1][i - 1] = 0 THEN 0 ELSE s[i])]
            g == [i \in 0 .. n |-> [j \in 1 .. i |-> Value(j)]]
<1>1. /\ Len(s) \in Nat /\ Len(s) > 0
      /\ \A i \in 1 .. Len(s) : s[i] \in 0 .. 255 /\ (s[i] = 0 <=> i = Len(s))
  BY LenProperties, ElementOfSeq DEF IsString
<1>19. Len(s) = 1 \/ 1 < Len(s)
  <2>1. Len(s) \in Nat /\ Len(s) > 0
    BY <1>1
  <2>2. \A l \in Nat : l > 0 => l = 1 \/ 1 < l
    OBVIOUS
  <2>. QED  BY <2>1, <2>2, Zenon
<1>2. \A j \in Nat \ {0} : Value(j) \in 0 .. 255 /\ (Value(j) = 0 <=> j >= Len(s))
  BY <1>1
<1>3. \A i \in 0 .. n : g[i] \in Seq(0 .. 255) /\ Len(g[i]) = i /\ \A j \in 1 .. i : g[i][j] = Value(j)
  <2>1. ASSUME NEW i \in 0 .. n
        PROVE  g[i] \in Seq(0 .. 255) /\ Len(g[i]) = i /\ \A j \in 1 .. i : g[i][j] = Value(j)
    <3>1. \A j \in 1 .. i : Value(j) \in 0 .. 255
      BY <1>2
    <3>. HIDE DEF Value
    <3>2. [j \in 1 .. i |-> Value(j)] \in Seq(0 .. 255)
      BY <3>1, IsASeq
    <3>3. Len([j \in 1 .. i |-> Value(j)]) = i
      BY <3>2, LenProperties
    <3>. QED  BY <3>2, <3>3
  <2>. QED  BY <2>1
<1>4. ASSUME NEW i \in 1 .. n
      PROVE  g[i] = Append(g[i - 1], IF i > 1 /\ g[i - 1][i - 1] = 0 THEN 0 ELSE s[i])
  <2>1. PICK c : c = IF i > 1 /\ g[i - 1][i - 1] = 0 THEN 0 ELSE s[i]
    OBVIOUS
  <2>2. c = Value(i)
    <3>1. i - 1 \in 0 .. n
      OBVIOUS
    <3>2. i > 1 => g[i - 1][i - 1] = Value(i - 1)
      <4>. HIDE DEF g, Value
      <4>. QED  BY <3>1, <1>3
    <3>3. CASE i > 1
      <4>1. g[i - 1][i - 1] = 0 <=> i - 1 >= Len(s)
        <5>1. i - 1 \in Nat \ {0}
          BY <3>3
        <5>. HIDE DEF Value, g
        <5>. QED  BY <5>1, <3>2, <3>3, <1>2
      <4>2. CASE i - 1 >= Len(s)
        <5>1. c = 0
          <6>. HIDE DEF g, Value
          <6>. QED  BY <2>1, <3>3, <4>1, <4>2
        <5>. QED  BY <5>1, <4>2, <1>1
      <4>3. CASE i = Len(s)
        <5>1. c = s[i]
          <6>. HIDE DEF g, Value
          <6>. QED  BY <2>1, <4>1, <4>3, <1>1
        <5>. QED  BY <5>1, <4>3, <1>1
      <4>4. CASE i < Len(s)
        <5>1. c = s[i]
          <6>. HIDE DEF g, Value
          <6>. QED  BY <2>1, <4>1, <4>4, <1>1
        <5>. QED  BY <5>1, <4>4
      <4>. QED  BY <4>2, <4>3, <4>4, <1>1
    <3>4. CASE i = 1
      <4>1. c = s[1]
        BY <2>1, <3>4
      <4>. QED  BY <3>4, <4>1, <1>1, <1>19
    <3>. QED  BY <3>3, <3>4
  <2>3. i - 1 \in 0 .. n /\ c \in 0 .. 255
    <3>1. i \in Nat \ {0} /\ i - 1 \in 0 .. n
      OBVIOUS
    <3>. HIDE DEF Value
    <3>. QED  BY <2>2, <3>1, <1>2
  <2>. HIDE DEF Value, g
  <2>4. PICK a : a = Append(g[i - 1], c)
    OBVIOUS
  <2>5. /\ a \in Seq(0 .. 255) /\ Len(a) = Len(g[i - 1]) + 1
        /\ \A j \in 1 .. Len(g[i - 1]) : a[j] = g[i - 1][j]
        /\ a[Len(g[i - 1]) + 1] = c
    BY <2>3, <2>4, <1>3, AppendProperties
  <2>6. Len(g[i - 1]) = i - 1 /\ Len(g[i]) = i /\ g[i] \in Seq(0 .. 255)
    BY <2>3, <1>3
  <2>7. ASSUME NEW j \in 1 .. i PROVE a[j] = g[i][j]
    <3>1. g[i][j] = Value(j)
      BY <1>3
    <3>2. CASE j = i
      BY <3>1, <3>2, <2>2, <2>5, <2>6
    <3>3. CASE j # i
      <4>1. j \in 1 .. i - 1
        BY <3>3
      <4>2. g[i - 1][j] = Value(j)
        BY <4>1, <2>3, <1>3
      <4>. QED  BY <3>1, <4>1, <4>2, <2>5, <2>6
    <3>. QED  BY <3>2, <3>3
  <2>8. a = g[i]
    <3>1. Len(a) = i /\ Len(g[i]) = i
      BY <2>5, <2>6
    <3>. QED  BY <3>1, <2>5, <2>6, <2>7, SeqEqual
  <2>. QED  BY <2>1, <2>4, <2>8
<1>5. Is(g)
  <2>1. g[0] = << >>
    <3>1. 0 \in 0 .. n
      OBVIOUS
    <3>2. g[0] \in Seq(0 .. 255) /\ Len(g[0]) = 0
      <4>. HIDE DEF g
      <4>. QED  BY <3>1, <1>3
    <3>. HIDE DEF g
    <3>. QED  BY <3>2, EmptySeq
  <2>2. ASSUME NEW i \in 0 .. n
        PROVE  g[i] = IF i = 0 THEN << >>
                      ELSE Append(g[i - 1], IF i > 1 /\ g[i - 1][i - 1] = 0 THEN 0 ELSE s[i])
    <3>. HIDE DEF g
    <3>1. CASE i = 0
      BY <2>1, <3>1
    <3>2. CASE i # 0
      <4>1. i \in 1 .. n
        BY <3>2
      <4>. QED  BY <4>1, <3>2, <1>4
    <3>. QED  BY <3>1, <3>2
  <2>3. g = [i \in 0 .. n |-> g[i]]
    OBVIOUS
  <2>. HIDE DEF g
  <2>. QED  BY <2>2, <2>3
<1>6. PICK d : d = CHOOSE f : Is(f)
  OBVIOUS
<1>7. Is(d)
  <2>. HIDE DEF Is, g
  <2>. QED  BY <1>5, <1>6
<1>8. d[n] = g[n]
  <2>. DEFINE U == {i \in Nat : i <= n => d[i] = g[i]}
  <2>. HIDE DEF g
  <2>1. \A i \in 0 .. n :
          /\ d[i] = IF i = 0 THEN << >>
                    ELSE Append(d[i - 1], IF i > 1 /\ d[i - 1][i - 1] = 0 THEN 0 ELSE s[i])
          /\ g[i] = IF i = 0 THEN << >>
                    ELSE Append(g[i - 1], IF i > 1 /\ g[i - 1][i - 1] = 0 THEN 0 ELSE s[i])
    BY <1>5, <1>7
  <2>2. 0 \in U
    BY <2>1
  <2>3. ASSUME NEW i \in Nat, i \in U PROVE i + 1 \in U
    <3>1. SUFFICES ASSUME i + 1 <= n PROVE d[i + 1] = g[i + 1]
      OBVIOUS
    <3>2. i + 1 \in 0 .. n /\ i + 1 # 0 /\ (i + 1) - 1 = i /\ i <= n
      BY <3>1
    <3>3. d[i] = g[i]
      BY <2>3, <3>2
    <3>. QED  BY <2>1, <3>2, <3>3
  <2>4. Nat \subseteq U
    <3>. HIDE DEF U
    <3>. QED  BY <2>2, <2>3, SetInduction
  <2>. QED  BY <2>4
<1>9. ul_strncpy(dst, s, n) = d[n] \o SubSeq(dst, n + 1, Len(dst))
  BY <1>6 DEF ul_strncpy
<1>10. /\ g[n] \in Seq(0 .. 255) /\ Len(g[n]) = n /\ \A j \in 1 .. n : g[n][j] = Value(j)
  <2>. HIDE DEF g, Value
  <2>. QED  BY <1>3
<1>. HIDE DEF g, Is
<1>11. PICK rest : rest = SubSeq(dst, n + 1, Len(dst))
  OBVIOUS
<1>12. Len(dst) \in Nat /\ \A j \in 1 .. Len(dst) : dst[j] = None
  BY LenProperties, ElementOfSeq
<1>13. /\ rest \in Seq({None}) /\ Len(rest) = Len(dst) - n
       /\ \A j \in 1 .. Len(dst) - n : rest[j] = None
  <2>1. PICK p : p = n + 1 /\ p \in Nat /\ 0 < p /\ p <= Len(dst) + 1
    BY <1>12
  <2>2. rest \in Seq({None}) /\ Len(rest) = Len(dst) + 1 - p
    <3>1. rest = SubSeq(dst, p, Len(dst)) /\ Len(dst) <= Len(dst)
      BY <2>1, <1>11, <1>12
    <3>2. p \in Nat /\ 0 < p /\ p <= Len(dst) + 1 /\ Len(dst) \in Nat
      BY <2>1, <1>12
    <3>3. IsPart(SubSeq(dst, p, Len(dst)), dst, {None}, p, Len(dst))
      BY <3>1, <3>2, PartProperties
    <3>. QED  BY <3>1, <3>3, Zenon DEF IsPart
  <2>3. Len(rest) = Len(dst) - n
    BY <2>1, <2>2, <1>12
  <2>. QED  BY <2>2, <2>3, ElementOfSeq
<1>. DEFINE X == 0 .. 255 \cup {None}
<1>14. g[n] \in Seq(X) /\ rest \in Seq(X)
  <2>1. ASSUME NEW A, NEW B, A \subseteq B, NEW q \in Seq(A) PROVE q \in Seq(B)
    BY <2>1, LenProperties, ElementOfSeq, IsASeq
  <2>. QED  BY <1>10, <1>13, <2>1
<1>. HIDE DEF X, Value
<1>15. PICK whole : whole = g[n] \o rest
  OBVIOUS
<1>16. \A i \in 1 .. Len(g[n]) + Len(rest) :
          whole[i] = IF i <= Len(g[n]) THEN g[n][i] ELSE rest[i - Len(g[n])]
  BY <1>14, <1>15, ConcatProperties
<1>17. ASSUME NEW i \in 1 .. Len(dst)
       PROVE  whole[i] = IF i > n THEN None ELSE Value(i)
  <2>1. Len(g[n]) = n /\ Len(rest) = Len(dst) - n /\ i \in 1 .. n + (Len(dst) - n)
    BY <1>10, <1>12, <1>13
  <2>2. whole[i] = IF i <= n THEN g[n][i] ELSE rest[i - n]
    BY <2>1, <1>16
  <2>3. CASE i <= n
    BY <2>2, <2>3, <1>10
  <2>4. CASE i > n
    <3>1. i - n \in 1 .. Len(dst) - n
      BY <2>4, <1>12
    <3>. QED  BY <3>1, <2>2, <2>4, <1>13
  <2>. QED  BY <2>3, <2>4, <1>12
<1>18. ul_strncpy(dst, s, n) = whole
  BY <1>8, <1>9, <1>11, <1>15
<1>. QED  BY <1>17, <1>18 DEF Value
\* Numbers of 8 bits: the difference of two characters, kept in a signed char.
Apart(x, y, a, b) == x - y \in -255 .. 255 /\ (x - y = 0 <=> a = b)

\* The difference of two characters, before it is kept.
LEMMA SignedChars ==
  ASSUME NEW a \in 0 .. 255, NEW b \in 0 .. 255, NEW signed
  PROVE  Apart(Char(a, signed), Char(b, signed), a, b)
<1>1. 2^8 = 256 /\ 2^(8 - 1) = 128
  OBVIOUS
<1>2. \A n \in 0 .. 255 :
        (n < 128 => Signed(n, 8) = n) /\ (~ (n < 128) => Signed(n, 8) = n - 256)
  BY <1>1 DEF Signed, Unsigned
<1>3. PICK x : x = Char(a, signed)
  OBVIOUS
<1>4. PICK y : y = Char(b, signed)
  OBVIOUS
<1>5. CASE signed
  <2>1. x = Signed(a, 8) /\ y = Signed(b, 8)
    BY <1>3, <1>4, <1>5 DEF Char
  <2>2. /\ a < 128 => x = a
        /\ ~ (a < 128) => x = a - 256
        /\ b < 128 => y = b
        /\ ~ (b < 128) => y = b - 256
    BY <2>1, <1>2
  <2>3. x \in Int /\ y \in Int
    BY <2>2
  <2>4. x - y \in -255 .. 255 /\ (x - y = 0 <=> a = b)
    BY <2>2, <2>3
  <2>. QED  BY <2>4, <1>3, <1>4, Zenon DEF Apart
<1>6. CASE ~ signed
  <2>1. x = a /\ y = b
    BY <1>3, <1>4, <1>6 DEF Char
  <2>2. x - y \in -255 .. 255 /\ (x - y = 0 <=> a = b)
    BY <2>1
  <2>. QED  BY <2>2, <1>3, <1>4, Zenon DEF Apart
<1>. QED  BY <1>5, <1>6, Zenon

\* A signed char holds a difference of -128 .. 127 and no other; 0 stays 0.
LEMMA SignedDifference ==
  ASSUME NEW d \in -255 .. 255
  PROVE  /\ Signed(d, 8) = 0 <=> d = 0
         /\ d # 0 => (SameSign(Signed(d, 8), d) <=> d \in -128 .. 127)
<1>1. 2^8 = 256 /\ 2^(8 - 1) = 128
  OBVIOUS
<1>2. Unsigned(d, 8) = IF d < 0 THEN d + 256 ELSE d
  BY <1>1 DEF Unsigned
<1>3. Signed(d, 8) = Unsigned(d, 8) - (IF Unsigned(d, 8) < 128 THEN 0 ELSE 256)
  BY <1>1 DEF Signed
<1>. QED  BY <1>2, <1>3 DEF SameSign

\* The first of the differences.
LEMMA FirstDifference ==
  ASSUME NEW s, IsString(s), NEW t, IsString(t), NEW n \in Nat
  PROVE  /\ Differences(s, t, n) = {} =>
              \A i \in Nat \ {0} : i <= n /\ i <= Len(s) /\ i <= Len(t) => s[i] = t[i]
         /\ Differences(s, t, n) # {} =>
              LET m == Min(Differences(s, t, n))
              IN /\ m \in Nat \ {0} /\ m <= n /\ m <= Len(s) /\ m <= Len(t) /\ s[m] # t[m]
                 /\ \A i \in 1 .. m - 1 : s[i] = t[i]
<1>1. Len(s) \in Nat /\ Len(t) \in Nat
  BY LenProperties DEF IsString
<1>2. PICK l : l = Min({n, Len(s), Len(t)})
  OBVIOUS
<1>3. l \in Nat /\ \A i \in Nat : i <= l <=> i <= n /\ i <= Len(s) /\ i <= Len(t)
  <2>1. \E x \in {n, Len(s), Len(t)} : \A y \in {n, Len(s), Len(t)} : x <= y
    BY <1>1
  <2>2. l \in {n, Len(s), Len(t)} /\ \A y \in {n, Len(s), Len(t)} : l <= y
    BY <2>1, <1>2 DEF Min
  <2>. QED  BY <2>2, <1>1
<1>4. PICK diff : diff = Differences(s, t, n)
  OBVIOUS
<1>5. diff = {i \in 1 .. l : s[i] # t[i]}
  BY <1>2, <1>4 DEF Differences
<1>6. ASSUME diff = {}, NEW i \in Nat \ {0}, i <= n, i <= Len(s), i <= Len(t)
      PROVE  s[i] = t[i]
  <2>1. i \in 1 .. l
    BY <1>3, <1>6
  <2>. QED  BY <2>1, <1>5, <1>6
<1>7. ASSUME diff # {}, NEW m, m = Min(diff)
      PROVE  /\ m \in Nat \ {0} /\ m <= n /\ m <= Len(s) /\ m <= Len(t) /\ s[m] # t[m]
             /\ \A i \in 1 .. m - 1 : s[i] = t[i]
  <2>1. diff \subseteq Nat
    BY <1>3, <1>5
  <2>2. PICK x \in diff : \A y \in diff : ~ (y < x)
    BY <2>1, <1>7, LeastNatural
  <2>3. \A y \in diff : x <= y
    BY <2>1, <2>2
  <2>4. m \in diff /\ \A y \in diff : m <= y
    BY <2>3, <1>7 DEF Min
  <2>5. m \in 1 .. l /\ s[m] # t[m]
    BY <2>4, <1>5
  <2>6. m \in Nat \ {0} /\ m <= n /\ m <= Len(s) /\ m <= Len(t)
    BY <2>5, <1>3
  <2>7. ASSUME NEW i \in 1 .. m - 1 PROVE s[i] = t[i]
    <3>1. i \in 1 .. l /\ ~ (m <= i)
      BY <2>5, <2>6, <1>3
    <3>2. i \notin diff
      BY <3>1, <2>4
    <3>. QED  BY <3>1, <3>2, <1>5
  <2>. QED  BY <2>5, <2>6, <2>7
<1>. QED  BY <1>4, <1>6, <1>7

\* memcmp says how the first difference is, if there is one.
LEMMA MemcmpOrders ==
  ASSUME NEW s, IsString(s), NEW t, IsString(t), NEW n \in Nat, n <= Len(s), n <= Len(t)
  PROVE  IF Differences(s, t, n) = {} THEN ul_memcmp(s, 1, t, 1, n) = 0
         ELSE SameSign(ul_memcmp(s, 1, t, 1, n),
                       s[Min(Differences(s, t, n))] - t[Min(Differences(s, t, n))])
<1>1. CASE Differences(s, t, n) = {}
  <2>1. \A k \in 0 .. n - 1 : s[1 + k] = t[1 + k]
    <3>1. ASSUME NEW k \in 0 .. n - 1 PROVE s[1 + k] = t[1 + k]
      <4>1. PICK i : i = 1 + k /\ i \in Nat \ {0} /\ i <= n /\ i <= Len(s) /\ i <= Len(t)
        <5>1. Len(s) \in Nat /\ Len(t) \in Nat
          BY LenProperties DEF IsString
        <5>. QED  BY <5>1
      <4>2. s[i] = t[i]
        BY <4>1, <1>1, FirstDifference
      <4>. QED  BY <4>1, <4>2
    <3>. QED  BY <3>1
  <2>2. SameUpTo(s, 1, t, 1, n)
    BY <2>1 DEF SameUpTo
  <2>. QED  BY <2>2, <1>1, MemcmpValue
<1>2. CASE Differences(s, t, n) # {}
  <2>1. PICK m : m = Min(Differences(s, t, n))
    OBVIOUS
  <2>2. /\ m \in Nat \ {0} /\ m <= n /\ m <= Len(s) /\ m <= Len(t) /\ s[m] # t[m]
        /\ \A i \in 1 .. m - 1 : s[i] = t[i]
    BY <2>1, <1>2, FirstDifference
  <2>3. PICK k : k = m - 1 /\ k \in 0 .. n - 1 /\ 1 + k = m
    BY <2>2
  <2>4. SameUpTo(s, 1, t, 1, k)
    <3>1. ASSUME NEW j \in 0 .. k - 1 PROVE s[1 + j] = t[1 + j]
      <4>1. 1 + j \in 1 .. m - 1
        BY <2>3
      <4>. QED  BY <4>1, <2>2
    <3>. QED  BY <3>1 DEF SameUpTo
  <2>5. ul_memcmp(s, 1, t, 1, n) = s[m] - t[m]
    <3>1. s[1 + k] # t[1 + k] /\ k \in 0 .. n - 1
      BY <2>2, <2>3
    <3>2. ul_memcmp(s, 1, t, 1, n) = s[1 + k] - t[1 + k]
      BY <3>1, <2>4, MemcmpValue
    <3>. QED  BY <3>2, <2>3
  <2>6. SameSign(s[m] - t[m], s[m] - t[m])
    BY DEF SameSign
  <2>. QED  BY <2>1, <2>5, <2>6, <1>2
<1>. QED  BY <1>1, <1>2

\* strncmp does so as far as a signed char holds the difference.
LEMMA StrncmpOrders ==
  ASSUME NEW s, IsString(s), NEW t, IsString(t), NEW n \in Nat, NEW signed
  PROVE  LET m == Min(Differences(s, t, n))
             d == Char(s[m], signed) - Char(t[m], signed)
         IN IF Differences(s, t, n) = {} THEN ul_strncmp(s, t, n, signed) = 0
            ELSE SameSign(ul_strncmp(s, t, n, signed), d) <=> d \in -128 .. 127
<1>. DEFINE first == Min(Differences(s, t, n))
            res == ul_strncmp(s, t, n, signed)
            Right(d) == SameSign(res, d) <=> d \in -128 .. 127
<1>. SUFFICES /\ Differences(s, t, n) = {} => res = 0
              /\ Differences(s, t, n) # {} =>
                    Right(Char(s[first], signed) - Char(t[first], signed))
  BY Zenon
<1>1. /\ Len(s) \in Nat /\ Len(s) > 0 /\ Len(t) \in Nat /\ Len(t) > 0
      /\ \A i \in 1 .. Len(s) : s[i] \in 0 .. 255 /\ (s[i] = 0 <=> i = Len(s))
      /\ \A i \in 1 .. Len(t) : t[i] \in 0 .. 255 /\ (t[i] = 0 <=> i = Len(t))
  BY LenProperties, ElementOfSeq DEF IsString
<1>5. Len(s) \in Nat /\ Len(s) > 0 /\ Len(t) \in Nat /\ Len(t) > 0
  BY <1>1
<1>2. ASSUME NEW i \in 1 .. Len(s), i <= Len(t)
      PROVE  CharDifference(s, t, i, signed) = 0 <=> s[i] = t[i]
  <2>1. s[i] \in 0 .. 255 /\ t[i] \in 0 .. 255
    <3>1. i \in 1 .. Len(t)
      BY <1>5, <1>2
    <3>. QED  BY <3>1, <1>1
  <2>2. PICK d : d = Char(s[i], signed) - Char(t[i], signed)
    OBVIOUS
  <2>3. d \in -255 .. 255 /\ (d = 0 <=> s[i] = t[i])
    <3>1. Apart(Char(s[i], signed), Char(t[i], signed), s[i], t[i])
      BY <2>1, SignedChars
    <3>. QED  BY <2>2, <3>1, Zenon DEF Apart
  <2>4. Signed(d, 8) = 0 <=> d = 0
    BY <2>3, SignedDifference
  <2>5. CharDifference(s, t, i, signed) = Signed(d, 8)
    BY <2>2 DEF CharDifference
  <2>. QED  BY <2>3, <2>4, <2>5
<1>3. ASSUME Differences(s, t, n) = {} PROVE res = 0
  <2>1. \A i \in Nat \ {0} : i <= n /\ i <= Len(s) /\ i <= Len(t) => s[i] = t[i]
    <3>1. Differences(s, t, n) = {} =>
            \A i \in Nat \ {0} : i <= n /\ i <= Len(s) /\ i <= Len(t) => s[i] = t[i]
      BY FirstDifference, SMTT(30)
    <3>. QED  BY <1>3, <3>1, Zenon
  <2>2. CASE n < Len(s) /\ n < Len(t)
    <3>1. ASSUME NEW k \in 1 .. n PROVE CharDifference(s, t, k, signed) = 0 /\ s[k] # 0
      <4>1. k \in 1 .. Len(s) /\ k <= Len(t) /\ k # Len(s) /\ k \in Nat \ {0} /\ k <= n
            /\ k <= Len(s)
        BY <2>2, <1>5
      <4>2. s[k] = t[k]
        BY <4>1, <2>1
      <4>3. s[k] # 0
        BY <4>1, <1>1
      <4>. QED  BY <4>1, <4>2, <4>3, <1>2
    <3>. QED  BY <3>1, StrncmpValue
  <2>3. CASE Len(s) <= n \/ Len(t) <= n
    <3>1. ~ (Len(s) < Len(t))
      <4>1. SUFFICES ASSUME Len(s) < Len(t) PROVE FALSE
        OBVIOUS
      <4>2. Len(s) \in Nat \ {0} /\ Len(s) <= n /\ Len(s) <= Len(s) /\ Len(s) <= Len(t)
            /\ Len(s) \in 1 .. Len(s) /\ Len(s) \in 1 .. Len(t) /\ Len(s) # Len(t)
        BY <4>1, <2>3, <1>5
      <4>3. s[Len(s)] = t[Len(s)]
        BY <4>2, <2>1
      <4>4. s[Len(s)] = 0 /\ t[Len(s)] # 0
        BY <4>2, <1>1
      <4>. QED  BY <4>3, <4>4
    <3>2. ~ (Len(t) < Len(s))
      <4>1. SUFFICES ASSUME Len(t) < Len(s) PROVE FALSE
        OBVIOUS
      <4>2. Len(t) \in Nat \ {0} /\ Len(t) <= n /\ Len(t) <= Len(s) /\ Len(t) <= Len(t)
            /\ Len(t) \in 1 .. Len(s) /\ Len(t) \in 1 .. Len(t) /\ Len(t) # Len(s)
        BY <4>1, <2>3, <1>5
      <4>3. s[Len(t)] = t[Len(t)]
        BY <4>2, <2>1
      <4>4. s[Len(t)] # 0 /\ t[Len(t)] = 0
        BY <4>2, <1>1
      <4>. QED  BY <4>3, <4>4
    <3>3. PICK m : m = Len(s) /\ m \in 1 .. n /\ m = Len(t)
      BY <2>3, <3>1, <3>2, <1>5
    <3>4. ASSUME NEW k \in 1 .. m PROVE s[k] = t[k] /\ CharDifference(s, t, k, signed) = 0
      <4>1. k \in Nat \ {0} /\ k <= n /\ k <= Len(s) /\ k <= Len(t) /\ k \in 1 .. Len(s)
        BY <3>3
      <4>. QED  BY <4>1, <2>1, <1>2
    <3>5. \A k \in 1 .. m - 1 : CharDifference(s, t, k, signed) = 0 /\ s[k] # 0
      <4>1. ASSUME NEW k \in 1 .. m - 1 PROVE k \in 1 .. Len(s) /\ k # Len(s) /\ k \in 1 .. m
        BY <3>3
      <4>. QED  BY <4>1, <3>4, <1>1
    <3>6. m \in 1 .. m /\ s[m] = 0
      BY <3>3, <1>1
    <3>7. ul_strncmp(s, t, n, signed) = CharDifference(s, t, m, signed)
      BY <3>3, <3>5, <3>6, StrncmpValue
    <3>. QED  BY <3>4, <3>6, <3>7
  <2>. QED  BY <2>2, <2>3, <1>5
<1>4. ASSUME Differences(s, t, n) # {}
      PROVE  Right(Char(s[first], signed) - Char(t[first], signed))
  <2>1. PICK m : m = Min(Differences(s, t, n))
    OBVIOUS
  <2>2. /\ m \in Nat \ {0} /\ m <= n /\ m <= Len(s) /\ m <= Len(t) /\ s[m] # t[m]
        /\ \A i \in 1 .. m - 1 : s[i] = t[i]
    BY <2>1, <1>4, FirstDifference
  <2>3. PICK d : d = Char(s[m], signed) - Char(t[m], signed)
    OBVIOUS
  <2>4. m \in 1 .. n /\ m \in 1 .. Len(s) /\ m \in 1 .. Len(t)
    BY <2>2, <1>5
  <2>5. d \in -255 .. 255 /\ d # 0
    <3>1. s[m] \in 0 .. 255 /\ t[m] \in 0 .. 255
      BY <2>4, <1>1
    <3>2. d \in -255 .. 255 /\ (d = 0 <=> s[m] = t[m])
      <4>1. Apart(Char(s[m], signed), Char(t[m], signed), s[m], t[m])
        BY <3>1, SignedChars
      <4>. QED  BY <2>3, <4>1, Zenon DEF Apart
    <3>3. s[m] # t[m]
      BY <2>2
    <3>. QED  BY <3>2, <3>3, Zenon
  <2>6. Signed(d, 8) # 0 /\ (SameSign(Signed(d, 8), d) <=> d \in -128 .. 127)
    BY <2>5, SignedDifference
  <2>7. ASSUME NEW k \in 1 .. m - 1 PROVE CharDifference(s, t, k, signed) = 0 /\ s[k] # 0
    <3>1. k \in 1 .. Len(s) /\ k <= Len(t) /\ k # Len(s)
      BY <2>2, <1>5
    <3>2. s[k] = t[k]
      BY <2>2
    <3>. QED  BY <3>1, <3>2, <1>1, <1>2
  <2>8. CharDifference(s, t, m, signed) = Signed(d, 8)
    BY <2>3 DEF CharDifference
  <2>9. ul_strncmp(s, t, n, signed) = Signed(d, 8)
    BY <2>4, <2>6, <2>7, <2>8, StrncmpValue
  <2>. QED  BY <2>1, <2>3, <2>6, <2>9
<1>. QED  BY <1>3, <1>4
\* The buffer given to ul_strncpy and ul_vsnprintf.
LEMMA BufProperties ==
  /\ Buf \in Seq({None}) /\ Len(Buf) \in Nat /\ DOMAIN Buf = 1 .. Len(Buf)
  /\ \A i \in 1 .. Len(Buf) : Buf[i] = None
  /\ \A n \in BufSizes : n < Len(Buf)
<1>1. PICK m \in BufSizes : \A n \in BufSizes : n <= m
  BY BufSizesAssumption
<1>2. PICK max : max = Max(BufSizes)
  OBVIOUS
<1>3. max \in BufSizes /\ \A n \in BufSizes : max >= n
  <2>1. \A n \in BufSizes : m >= n
    BY <1>1, BufSizesAssumption
  <2>. QED  BY <2>1, <1>2 DEF Max
<1>4. max \in Nat
  BY <1>3, BufSizesAssumption
<1>5. Buf = [i \in 1 .. max + 1 |-> None]
  BY <1>2 DEF Buf, Repeat
<1>6. Buf \in Seq({None})
  BY <1>4, <1>5, IsASeq
<1>7. Len(Buf) = max + 1
  BY <1>4, <1>5, <1>6, LenProperties
<1>8. \A n \in BufSizes : n < max + 1
  BY <1>3, <1>4, BufSizesAssumption
<1>9. DOMAIN Buf = 1 .. max + 1 /\ max + 1 \in Nat
  BY <1>4, <1>5
<1>. QED  BY <1>5, <1>6, <1>7, <1>8, <1>9

\* A comparison of memory agrees with its promise.
LEMMA ComparedAgrees ==
  ASSUME Compared PROVE StringsAgree'
<1>1. PICK s \in Strings, t \in Strings, n \in Counts :
        /\ n <= Least(Len(s), Len(t))
        /\ call' = [fn |-> "memcmp", s |-> s, t |-> t, n |-> n, res |-> ul_memcmp(s, 1, t, 1, n)]
  BY DEF Compared
<1>2. IsString(s) /\ IsString(t) /\ n \in Nat
  BY StringsAssumption, CountsAssumption
<1>3. n <= Len(s) /\ n <= Len(t)
  <2>1. Len(s) \in Nat /\ Len(t) \in Nat
    BY <1>2, LenProperties DEF IsString
  <2>2. \A a, b \in Nat : n <= Min({a, b}) => n <= a /\ n <= b
    <3>1. ASSUME NEW a \in Nat, NEW b \in Nat
          PROVE  Min({a, b}) \in Nat /\ Min({a, b}) <= a /\ Min({a, b}) <= b
      <4>1. \E x \in {a, b} : \A y \in {a, b} : x <= y
        OBVIOUS
      <4>. QED  BY <4>1 DEF Min
    <3>. QED  BY <3>1, <1>2
  <2>. QED  BY <2>1, <2>2, <1>1 DEF Least
<1>4. /\ call'.fn = "memcmp" /\ call'.s = s /\ call'.t = t /\ call'.n = n
      /\ call'.res = ul_memcmp(s, 1, t, 1, n)
  BY <1>1
<1>5. MemcmpRight'
  BY <1>2, <1>3, <1>4, MemcmpOrders, Zenon DEF MemcmpRight
<1>. QED  BY <1>4, <1>5 DEF StringsAgree

\* A comparison of strings agrees with its promise.
LEMMA ComparedStringsAgree ==
  ASSUME ComparedStrings PROVE StringsAgree'
<1>1. PICK s \in Strings, t \in Strings, n \in Counts, signed \in BOOLEAN :
        call' = [fn |-> "strncmp", s |-> s, t |-> t, n |-> n, signed |-> signed,
                 res |-> ul_strncmp(s, t, n, signed)]
  BY DEF ComparedStrings
<1>2. IsString(s) /\ IsString(t) /\ n \in Nat
  BY StringsAssumption, CountsAssumption
<1>4. /\ call'.fn = "strncmp" /\ call'.s = s /\ call'.t = t /\ call'.n = n
      /\ call'.signed = signed /\ call'.res = ul_strncmp(s, t, n, signed)
  BY <1>1
<1>5. StrncmpRight'
  <2>1. LET m == Min(Differences(s, t, n))
            d == Char(s[m], signed) - Char(t[m], signed)
        IN IF Differences(s, t, n) = {} THEN ul_strncmp(s, t, n, signed) = 0
           ELSE SameSign(ul_strncmp(s, t, n, signed), d) <=> d \in -128 .. 127
    BY <1>2, StrncmpOrders
  <2>. QED  BY <2>1, <1>4 DEF StrncmpRight
<1>. QED  BY <1>4, <1>5 DEF StringsAgree

\* A search agrees with its promise.
LEMMA SearchedAgrees ==
  ASSUME Searched PROVE StringsAgree'
<1>1. PICK s \in Strings, t \in Strings :
        call' = [fn |-> "strstr", s |-> s, t |-> t, res |-> ul_strstr(s, t)]
  BY DEF Searched
<1>2. IsString(s) /\ IsString(t)
  BY StringsAssumption
<1>4. call'.fn = "strstr" /\ call'.s = s /\ call'.t = t /\ call'.res = ul_strstr(s, t)
  BY <1>1
<1>5. StrstrRight'
  BY <1>2, <1>4, StrstrFinds, Zenon DEF StrstrRight
<1>. QED  BY <1>4, <1>5 DEF StringsAgree

\* A copy agrees with its promise.
LEMMA CopiedAgrees ==
  ASSUME Copied PROVE StringsAgree'
<1>1. PICK s \in Strings, n \in Counts :
        /\ n <= Len(Buf)
        /\ call' = [fn |-> "strncpy", s |-> s, n |-> n, res |-> ul_strncpy(Buf, s, n)]
  BY DEF Copied
<1>2. IsString(s) /\ n \in Nat
  BY StringsAssumption, CountsAssumption
<1>4. call'.fn = "strncpy" /\ call'.s = s /\ call'.n = n /\ call'.res = ul_strncpy(Buf, s, n)
  BY <1>1
<1>5. \A i \in 1 .. Len(Buf) :
        ul_strncpy(Buf, s, n)[i] = IF i > n THEN None ELSE IF i < Len(s) THEN s[i] ELSE 0
  <2>1. PICK dst \in Seq({None}) : dst = Buf
    BY BufProperties
  <2>2. n <= Len(dst)
    BY <1>1, <2>1
  <2>3. \A i \in 1 .. Len(dst) :
          ul_strncpy(dst, s, n)[i] = IF i > n THEN None ELSE IF i < Len(s) THEN s[i] ELSE 0
    BY <1>2, <2>2, StrncpyFills
  <2>. QED  BY <2>1, <2>3, Zenon
<1>6. StrncpyRight'
  <2>1. DOMAIN Buf = 1 .. Len(Buf) /\ \A i \in 1 .. Len(Buf) : Buf[i] = None
    BY BufProperties
  <2>2. \A i \in DOMAIN Buf :
          call'.res[i] = IF i > call'.n THEN Buf[i] ELSE IF i < Len(call'.s) THEN call'.s[i] ELSE 0
    <3>1. ASSUME NEW i \in 1 .. Len(Buf)
          PROVE  call'.res[i] = IF i > call'.n THEN None
                                ELSE IF i < Len(call'.s) THEN call'.s[i] ELSE 0
      BY <1>4, <1>5
    <3>. QED  BY <2>1, <3>1
  <2>. QED  BY <2>2, Zenon DEF StrncpyRight, Buf, Repeat
<1>. QED  BY <1>4, <1>6 DEF StringsAgree

\* The string functions agree with what their names promise, for all strings, counts
\* and buffers.
THEOREM StringsAgreeAlways == SSpec => []StringsAgree
<1>1. SInit => StringsAgree
  BY DEF SInit, StringsAgree
<1>2. StringsAgree /\ [SNext]_call => StringsAgree'
  <2>. SUFFICES ASSUME StringsAgree, [SNext]_call PROVE StringsAgree'
    OBVIOUS
  <2>1. CASE Compared
    BY <2>1, ComparedAgrees
  <2>2. CASE ComparedStrings
    BY <2>2, ComparedStringsAgree
  <2>3. CASE Searched
    BY <2>3, SearchedAgrees
  <2>4. CASE Copied
    BY <2>4, CopiedAgrees
  <2>5. CASE Printed
    <3>1. call'.fn = "vsnprintf"
      BY <2>5 DEF Printed
    <3>. QED  BY <3>1 DEF StringsAgree
  <2>6. CASE UNCHANGED call
    BY <2>6 DEF StringsAgree, MemcmpRight, StrncmpRight, StrstrRight, StrncpyRight
  <2>. QED  BY <2>1, <2>2, <2>3, <2>4, <2>5, <2>6 DEF SNext
<1>. QED  BY <1>1, <1>2, PTL DEF SSpec
-----------------------------------------------------------------------------
\* Buffers of lines.

Classes == {"nul", "space", "csi_start", "csi_end", "newline", "bracket", "digit", "colour",
            "level", "tag", "colon", "body", "addr", "high", "low", "char"}
Chars == Classes \X Int

\* The larger of two numbers.
LEMMA TwoMax ==
  ASSUME NEW a \in Int, NEW b \in Int
  PROVE  Max({a, b}) = IF a < b THEN b ELSE a
<1>1. \E x \in {a, b} : \A y \in {a, b} : x >= y
  OBVIOUS
<1>2. \A x \in {a, b} : (\A y \in {a, b} : x >= y) => x = IF a < b THEN b ELSE a
  OBVIOUS
<1>. QED  BY <1>1, <1>2 DEF Max

\* The smaller of two numbers.
LEMMA TwoMin ==
  ASSUME NEW a \in Int, NEW b \in Int
  PROVE  Min({a, b}) = IF a < b THEN a ELSE b
<1>1. \E x \in {a, b} : \A y \in {a, b} : x <= y
  OBVIOUS
<1>2. \A x \in {a, b} : (\A y \in {a, b} : x <= y) => x = IF a < b THEN a ELSE b
  OBVIOUS
<1>. QED  BY <1>1, <1>2 DEF Min

\* A text of one class has its length and its characters.
LEMMA TextProperties ==
  ASSUME NEW class \in Classes, NEW n \in Nat
  PROVE  /\ Text(class, n) \in Seq(Chars) /\ Len(Text(class, n)) = n
         /\ \A i \in 1 .. n : Text(class, n)[i] = <<class, i>>
<1>1. ASSUME NEW i \in 1 .. n PROVE <<class, i>> \in Chars
  <2>1. i \in Int
    OBVIOUS
  <2>. QED  BY <2>1, Zenon DEF Chars
<1>2. Text(class, n) \in Seq(Chars)
  BY <1>1, IsASeq DEF Text
<1>3. Len(Text(class, n)) = n
  BY <1>2, LenProperties DEF Text
<1>. QED  BY <1>2, <1>3 DEF Text

\* The text of one NUL.
LEMMA NulProperties ==
  <<NUL>> \in Seq(Chars) /\ Len(<<NUL>>) = 1 /\ <<NUL>>[1] = NUL /\ NUL \in Chars
<1>1. "nul" \in Classes /\ 0 \in Int
  BY DEF Classes
<1>2. NUL \in Chars
  BY <1>1, Zenon DEF NUL, Chars
<1>. QED  BY <1>2

IsBuffer(b) == b.len \in Nat /\ b.top \in Int

\* What storing a text does.
Stored(b, text, len, b2) ==
  /\ IsBuffer(b2) /\ b2.len = len
  /\ b2.top = IF b.top < b.len + Len(text) - 1 THEN b.len + Len(text) - 1 ELSE b.top
  /\ \A p \in Memory : p < b.len => b2.mem[p] = b.mem[p]
  /\ \A p \in Memory :
       b.len <= p /\ p < b.len + Len(text) => b2.mem[p] = text[p - b.len + 1]

\* Store does what Stored says.
LEMMA StoreProperties ==
  ASSUME NEW b, IsBuffer(b), NEW text \in Seq(Chars), NEW len \in Nat,
         NEW b2, b2 = Store(b, text, len)
  PROVE  Stored(b, text, len, b2)
<1>1. Len(text) \in Nat /\ b.len \in Nat /\ b.top \in Int
  BY LenProperties DEF IsBuffer
<1>2. PICK n : n = Len(text) /\ n \in Nat
  BY <1>1
<1>3. PICK l : l = b.len /\ l \in Nat
  BY <1>1
<1>4. PICK t : t = b.top /\ t \in Int
  BY <1>1
<1>5. Max({t, l + n - 1}) = IF t < l + n - 1 THEN l + n - 1 ELSE t
  BY <1>2, <1>3, <1>4, TwoMax
<1>6. /\ b2.mem = [i \in Memory |-> IF i \in l .. l + n - 1 THEN text[i - l + 1] ELSE b.mem[i]]
      /\ b2.len = len /\ b2.top = Max({t, l + n - 1})
  BY <1>2, <1>3, <1>4 DEF Store
<1>7. \A p \in Memory : p \in Int
  <2>1. LineSize + AddrLen \in Int
    BY LineSizeAssumption
  <2>. QED  BY <2>1 DEF Memory
<1>8. ASSUME NEW p \in Memory, p < l PROVE b2.mem[p] = b.mem[p]
  <2>1. p \notin l .. l + n - 1
    BY <1>2, <1>3, <1>7, <1>8
  <2>. QED  BY <2>1, <1>6
<1>9. ASSUME NEW p \in Memory, l <= p, p < l + n PROVE b2.mem[p] = text[p - l + 1]
  <2>1. p \in l .. l + n - 1
    BY <1>2, <1>3, <1>7, <1>9
  <2>. QED  BY <2>1, <1>6
<1>10. b2.top \in Int
  BY <1>2, <1>3, <1>4, <1>5, <1>6
<1>11. IsBuffer(b2)
  BY <1>6, <1>10 DEF IsBuffer
<1>12. Stored(b, text, len, b2)
  <2>1. b2.top = IF b.top < b.len + Len(text) - 1 THEN b.len + Len(text) - 1 ELSE b.top
    BY <1>2, <1>3, <1>4, <1>5, <1>6
  <2>. QED  BY <2>1, <1>2, <1>3, <1>6, <1>8, <1>9, <1>11 DEF Stored
<1>. QED  BY <1>12

\* The sizes of the buffer and of its parts.
LEMMA LineSizes ==
  /\ LineSize \in Nat /\ AddrLen \in Nat /\ 21 <= LineSize /\ AddrLen < LineSize
  /\ Limit \in Nat /\ Limit = LineSize - 7
  /\ \A i \in Int : 0 <= i /\ i <= LineSize => i \in Memory
  /\ \A p \in Memory : p \in Nat
<1>1. PICK level \in DOMAIN Colours : \A other \in DOMAIN Colours : other <= level
  BY ColoursAssumption
<1>2. Colours[level] \in Nat /\ Colours[level] + 21 <= LineSize
  BY <1>1, ColoursAssumption, LineSizeAssumption
<1>3. LineSize \in Nat /\ 21 <= LineSize
  BY <1>2, LineSizeAssumption
<1>. QED  BY <1>3, LineSizeAssumption DEF Limit, Memory

\* N is the length asked for so far: as far as it fits it is the length of the
\* buffer.  What stands in it counts up to Limit, where the tail begins at last.
Full(b, N) == (N <= LineSize => b.len = N) /\ (N > LineSize => b.len >= LineSize)
Holds(b, first, text) == \A i \in 1 .. Len(text) : first + i <= Limit => b.mem[first + i - 1] = text[i]
Clean(b, N) == \A i \in 1 .. N : i <= Limit => b.mem[i - 1] # NUL
Keeps(b, b2, N) == \A i \in 1 .. N : i <= Limit => b2.mem[i - 1] = b.mem[i - 1]
Inside(b) == b.len <= LineSize /\ b.top <= LineSize

Step(b, N, b2, N2) ==
  /\ IsBuffer(b2) /\ Full(b2, N2) /\ Keeps(b, b2, N)
  /\ Inside(b) => Inside(b2)
  /\ b.top <= b2.top

StoreRight(b, N, text, len, b2) ==
  /\ Keeps(b, b2, N) /\ b.top <= b2.top /\ b2.len = len /\ IsBuffer(b2)
  /\ Inside(b) /\ len <= LineSize /\ b.len + Len(text) <= LineSize + 1 => Inside(b2)
  /\ N + Len(text) <= LineSize => Holds(b2, N, text)

\* Storing a text is a step of the buffer, and the text then stands in it.
LEMMA StoreStep ==
  ASSUME NEW b, IsBuffer(b), NEW N \in Nat, Full(b, N), NEW text \in Seq(Chars),
         NEW len \in Nat, NEW b2, b2 = Store(b, text, len)
  PROVE  StoreRight(b, N, text, len, b2)
<1>1. b.len \in Nat /\ b.top \in Int /\ Len(text) \in Nat
  BY LenProperties DEF IsBuffer
<1>2. /\ IsBuffer(b2) /\ b2.len = len
      /\ b2.top = IF b.top < b.len + Len(text) - 1 THEN b.len + Len(text) - 1 ELSE b.top
      /\ \A p \in Memory : p < b.len => b2.mem[p] = b.mem[p]
      /\ \A p \in Memory :
           b.len <= p /\ p < b.len + Len(text) => b2.mem[p] = text[p - b.len + 1]
  <2>1. Stored(b, text, len, b2)
    BY StoreProperties
  <2>. QED  BY <2>1 DEF Stored
<1>3. PICK l : l = b.len /\ l \in Nat
  BY <1>1
<1>4. PICK n : n = Len(text) /\ n \in Nat
  BY <1>1
<1>5. Keeps(b, b2, N)
  <2>1. ASSUME NEW i \in 1 .. N, i <= Limit PROVE b2.mem[i - 1] = b.mem[i - 1]
    <3>1. i - 1 \in Memory /\ i < LineSize /\ i \in Nat
      BY <2>1, LineSizes
    <3>2. N <= LineSize => l = N
      BY <1>3 DEF Full
    <3>3. N > LineSize => l >= LineSize
      BY <1>3 DEF Full
    <3>4. i - 1 < l
      BY <3>1, <3>2, <3>3, <1>3, LineSizes
    <3>. QED  BY <3>1, <3>4, <1>2, <1>3
  <2>. QED  BY <2>1 DEF Keeps
<1>6. b.top <= b2.top
  BY <1>1, <1>2, <1>3, <1>4
<1>7. ASSUME Inside(b), len <= LineSize, b.len + Len(text) <= LineSize + 1 PROVE Inside(b2)
  <2>1. b.top <= LineSize /\ b.top \in Int /\ l + n - 1 <= LineSize
    BY <1>7, <1>1, <1>3, <1>4, LineSizes DEF Inside
  <2>2. b2.top <= LineSize
    BY <2>1, <1>2, <1>3, <1>4
  <2>. QED  BY <2>2, <1>2, <1>7 DEF Inside
<1>8. ASSUME N + Len(text) <= LineSize PROVE Holds(b2, N, text)
  <2>1. l = N /\ N + n <= LineSize
    BY <1>3, <1>4, <1>8, LineSizes DEF Full
  <2>2. ASSUME NEW i \in 1 .. n PROVE b2.mem[N + i - 1] = text[i]
    <3>1. PICK p : p = N + i - 1 /\ p \in Nat
      BY <1>4
    <3>2. p \in Memory /\ l <= p /\ p < l + n /\ p - l + 1 = i
      BY <2>1, <3>1, <1>4, LineSizes
    <3>3. b2.mem[p] = text[p - l + 1]
      BY <3>2, <1>2, <1>3, <1>4
    <3>. QED  BY <3>1, <3>2, <3>3
  <2>. QED  BY <2>2, <1>4 DEF Holds
<1>. QED  BY <1>2, <1>5, <1>6, <1>7, <1>8 DEF StoreRight

\* ulog_strcpy is a step by the whole text, which stands in the buffer as far as it
\* fits.
LEMMA CopyStep ==
  ASSUME NEW b, IsBuffer(b), NEW N \in Nat, Full(b, N), NEW text \in Seq(Chars),
         NEW b2, b2 = ulog_strcpy(b, text)
  PROVE  Step(b, N, b2, N + Len(text)) /\ Holds(b2, N, text)
<1>1. PICK l : l = b.len /\ l \in Nat
  BY DEF IsBuffer
<1>2. PICK n : n = Len(text) /\ n \in Nat
  BY LenProperties
<1>3. PICK m : m = Max({0, Min({n, LineSize - l})})
  OBVIOUS
<1>4. /\ m \in Nat /\ m <= n
      /\ l + n <= LineSize => m = n
      /\ l + n > LineSize /\ l <= LineSize => l + m = LineSize
      /\ l > LineSize => m = 0
  <2>1. LineSize - l \in Int /\ n \in Int /\ LineSize \in Nat
    BY <1>1, <1>2, LineSizes
  <2>2. PICK k : k = Min({n, LineSize - l})
    OBVIOUS
  <2>3. k = IF n < LineSize - l THEN n ELSE LineSize - l
    BY <2>1, <2>2, TwoMin
  <2>4. k \in Int
    BY <2>1, <2>3
  <2>5. m = IF 0 < k THEN k ELSE 0
    <3>1. m = Max({0, k}) /\ 0 \in Int
      BY <2>2, <1>3
    <3>. QED  BY <3>1, <2>4, TwoMax
  <2>. QED  BY <2>1, <2>3, <2>4, <2>5, <1>1, <1>2
<1>5. PICK part : part = SubSeq(text, 1, m)
  OBVIOUS
<1>6. part \in Seq(Chars) /\ Len(part) = m /\ \A i \in 1 .. m : part[i] = text[i]
  BY <1>2, <1>4, <1>5, PrefixProperties
<1>7. b2 = Store(b, part, l + m)
  <2>1. b2 = Write(b, part)
    BY <1>1, <1>2, <1>3, <1>5 DEF ulog_strcpy
  <2>. QED  BY <2>1, <1>1, <1>6 DEF Write
<1>8. l + m \in Nat
  BY <1>1, <1>4
<1>9. /\ Keeps(b, b2, N) /\ b.top <= b2.top /\ b2.len = l + m /\ IsBuffer(b2)
      /\ Inside(b) /\ l + m <= LineSize /\ b.len + Len(part) <= LineSize + 1 => Inside(b2)
      /\ N + Len(part) <= LineSize => Holds(b2, N, part)
  BY <1>6, <1>7, <1>8, StoreStep DEF StoreRight
<1>10. (N <= LineSize => l = N) /\ (N > LineSize => l >= LineSize)
  BY <1>1 DEF Full
<1>11. Full(b2, N + n)
  <2>1. (N + n <= LineSize => l + m = N + n) /\ (N + n > LineSize => l + m >= LineSize)
    BY <1>1, <1>2, <1>4, <1>10, LineSizes
  <2>. QED  BY <2>1, <1>9 DEF Full
<1>12. Inside(b) => Inside(b2)
  <2>1. ASSUME Inside(b) PROVE l <= LineSize
    BY <2>1, <1>1 DEF Inside
  <2>2. ASSUME Inside(b) PROVE l + m <= LineSize /\ l + m <= LineSize + 1
    BY <2>1, <2>2, <1>1, <1>2, <1>4, LineSizes
  <2>. QED  BY <2>2, <1>1, <1>6, <1>9
<1>13. Holds(b2, N, text)
  <2>1. ASSUME NEW i \in 1 .. n, N + i <= Limit PROVE b2.mem[N + i - 1] = text[i]
    <3>1. l = N /\ N + m <= LineSize /\ i \in 1 .. m
      <4>1. N <= LineSize /\ N + i < LineSize /\ l = N
        BY <2>1, <1>2, <1>10, LineSizes
      <4>. QED  BY <4>1, <1>1, <1>2, <1>4, LineSizes
    <3>2. b2.mem[N + i - 1] = part[i]
      BY <3>1, <2>1, <1>6, <1>9 DEF Holds
    <3>. QED  BY <3>1, <3>2, <1>6
  <2>. QED  BY <2>1, <1>2 DEF Holds
<1>. QED  BY <1>2, <1>9, <1>11, <1>12, <1>13 DEF Step

\* The NUL at the end changes neither what stands in the buffer nor its length.
LEMMA TerminateStep ==
  ASSUME NEW b, IsBuffer(b), NEW N \in Nat, Full(b, N), NEW b2, b2 = Terminate(b)
  PROVE  Step(b, N, b2, N) /\ b2.len = b.len
<1>1. b.len \in Nat /\ b2 = Store(b, <<NUL>>, b.len)
  BY DEF IsBuffer, Terminate
<1>2. /\ Keeps(b, b2, N) /\ b.top <= b2.top /\ b2.len = b.len /\ IsBuffer(b2)
      /\ Inside(b) /\ b.len <= LineSize /\ b.len + Len(<<NUL>>) <= LineSize + 1 => Inside(b2)
  <2>1. PICK text \in Seq(Chars) : text = <<NUL>> /\ Len(text) = 1
    BY NulProperties
  <2>2. PICK l : l = b.len /\ l \in Nat
    BY <1>1
  <2>3. b2 = Store(b, text, l)
    BY <2>1, <2>2, <1>1
  <2>4. /\ Keeps(b, b2, N) /\ b.top <= b2.top /\ b2.len = l /\ IsBuffer(b2)
        /\ Inside(b) /\ l <= LineSize /\ b.len + Len(text) <= LineSize + 1 => Inside(b2)
    BY <2>2, <2>3, StoreStep DEF StoreRight
  <2>. QED  BY <2>1, <2>2, <2>4
<1>3. Full(b2, N)
  BY <1>2 DEF Full
<1>4. Inside(b) => b.len <= LineSize /\ b.len + Len(<<NUL>>) <= LineSize + 1
  BY <1>1, NulProperties, LineSizes DEF Inside
<1>. QED  BY <1>2, <1>3, <1>4 DEF Step

\* A text that fits is written as ulog_strcpy would copy it.
LEMMA WriteStep ==
  ASSUME NEW b, IsBuffer(b), NEW N \in Nat, Full(b, N), NEW text \in Seq(Chars),
         N + Len(text) <= LineSize, NEW b2, b2 = Write(b, text)
  PROVE  Step(b, N, b2, N + Len(text)) /\ Holds(b2, N, text)
<1>1. PICK n : n = Len(text) /\ n \in Nat
  BY LenProperties
<1>2. b.len = N
  BY <1>1, LineSizes DEF Full
<1>3. b2 = Store(b, text, N + n) /\ N + n \in Nat /\ N + n <= LineSize
  BY <1>1, <1>2 DEF Write
<1>4. /\ Keeps(b, b2, N) /\ b.top <= b2.top /\ b2.len = N + n /\ IsBuffer(b2)
      /\ Inside(b) /\ N + n <= LineSize /\ b.len + Len(text) <= LineSize + 1 => Inside(b2)
      /\ N + Len(text) <= LineSize => Holds(b2, N, text)
  BY <1>3, StoreStep DEF StoreRight
<1>5. b.len + Len(text) <= LineSize + 1
  BY <1>1, <1>2, <1>3, LineSizes
<1>6. Full(b2, N + n)
  BY <1>3, <1>4, LineSizes DEF Full
<1>. QED  BY <1>1, <1>3, <1>4, <1>5, <1>6 DEF Step

\* One step after the other.
LEMMA Steps ==
  ASSUME NEW b, NEW b2, NEW b3, b.top \in Int, NEW N \in Nat, NEW N2 \in Nat, NEW N3 \in Nat,
         N <= N2, Step(b, N, b2, N2), Step(b2, N2, b3, N3)
  PROVE  Step(b, N, b3, N3)
<1>1. \A i \in 1 .. N : i \in 1 .. N2
  OBVIOUS
<1>2. Keeps(b, b3, N)
  BY <1>1 DEF Step, Keeps
<1>3. b.top \in Int /\ b2.top \in Int /\ b3.top \in Int /\ b.top <= b2.top /\ b2.top <= b3.top
  BY DEF Step, IsBuffer
<1>4. b.top <= b3.top
  BY <1>3
<1>. QED  BY <1>2, <1>4 DEF Step

\* What stands in the buffer stays in it.
LEMMA StepHolds ==
  ASSUME NEW b, NEW b2, NEW N \in Nat, NEW N2, Step(b, N, b2, N2),
         NEW first \in Nat, NEW text \in Seq(Chars), Holds(b, first, text), first + Len(text) <= N
  PROVE  Holds(b2, first, text)
<1>1. PICK n : n = Len(text) /\ n \in Nat
  BY LenProperties
<1>2. ASSUME NEW i \in 1 .. n, first + i <= Limit
      PROVE  b2.mem[first + i - 1] = text[i]
  <2>1. first + i \in 1 .. N
    BY <1>1
  <2>2. b2.mem[(first + i) - 1] = b.mem[(first + i) - 1]
    BY <2>1, <1>2 DEF Step, Keeps
  <2>3. b.mem[first + i - 1] = text[i]
    BY <1>1, <1>2 DEF Holds
  <2>. QED  BY <2>2, <2>3
<1>. QED  BY <1>1, <1>2 DEF Holds

\* No NUL gets into what is asked for, unless it is asked for.
LEMMA StepClean ==
  ASSUME NEW b, NEW b2, NEW N \in Nat, NEW N2, Step(b, N, b2, N2), Clean(b, N),
         NEW text \in Seq(Chars), N2 = N + Len(text), Holds(b2, N, text),
         \A i \in 1 .. Len(text) : text[i] # NUL
  PROVE  Clean(b2, N2)
<1>1. PICK n : n = Len(text) /\ n \in Nat
  BY LenProperties
<1>2. ASSUME NEW i \in 1 .. N2, i <= Limit PROVE b2.mem[i - 1] # NUL
  <2>1. CASE i <= N
    <3>1. i \in 1 .. N
      BY <2>1, <1>1
    <3>. QED  BY <3>1, <1>2 DEF Step, Keeps, Clean
  <2>2. CASE i > N
    <3>1. PICK j : j = i - N /\ j \in 1 .. n /\ N + j = i
      BY <2>2, <1>1
    <3>2. b2.mem[N + j - 1] = text[j]
      BY <3>1, <1>1, <1>2 DEF Holds
    <3>. QED  BY <3>1, <3>2, <1>1
  <2>. QED  BY <2>1, <2>2, <1>1
<1>. QED  BY <1>2 DEF Clean
-----------------------------------------------------------------------------
\* The digits of the time.

Short(n) == n \in Nat /\ n \div 10^9 < 10

\* Powers of ten, and division by one after the other.
LEMMA Powers ==
  \A j \in 0 .. 9 : /\ 10^j \in Nat \ {0}
                    /\ \A k \in Nat : k \div 10^j \in Nat
                    /\ \A k \in Nat : (k \div 10) \div 10^j = k \div 10^(j + 1)
<1>1. SUFFICES ASSUME NEW j \in 0 .. 9
               PROVE  /\ 10^j \in Nat \ {0}
                      /\ \A k \in Nat : k \div 10^j \in Nat
                      /\ \A k \in Nat : (k \div 10) \div 10^j = k \div 10^(j + 1)
  OBVIOUS
<1>2. CASE j = 0
  BY <1>2
<1>3. CASE j = 1
  BY <1>3
<1>4. CASE j = 2
  BY <1>4
<1>5. CASE j = 3
  BY <1>5
<1>6. CASE j = 4
  BY <1>6
<1>7. CASE j = 5
  BY <1>7
<1>8. CASE j = 6
  BY <1>8
<1>9. CASE j = 7
  BY <1>9
<1>10. CASE j = 8
  BY <1>10
<1>11. CASE j = 9
  BY <1>11
<1>. QED  BY <1>2, <1>3, <1>4, <1>5, <1>6, <1>7, <1>8, <1>9, <1>10, <1>11

\* The number of digits of a time of at most ten.
LEMMA DigitsProperties ==
  ASSUME NEW n, Short(n)
  PROVE  /\ Digits(n) \in 1 .. 10 /\ n \div 10^(Digits(n) - 1) < 10
         /\ \A k \in 1 .. 10 : n \div 10^(k - 1) < 10 => Digits(n) <= k
<1>. DEFINE T == {k \in 1 .. 10 : n \div 10^(k - 1) < 10}
<1>1. T \subseteq Nat /\ T # {}
  <2>1. 10 \in 1 .. 10 /\ 10 - 1 = 9
    OBVIOUS
  <2>2. 10 \in T
    BY <2>1 DEF Short
  <2>3. T \subseteq Nat
    OBVIOUS
  <2>. HIDE DEF T
  <2>. QED  BY <2>2, <2>3
<1>2. \E m \in T : \A k \in T : ~ (k < m)
  <2>. HIDE DEF T
  <2>. QED  BY <1>1, LeastNatural
<1>3. \E m \in T : \A k \in T : m <= k
  <2>1. PICK m \in T : \A k \in T : ~ (k < m)
    BY <1>2
  <2>2. \A k \in T : k \in Nat
    BY <1>1
  <2>3. \A k \in T : m <= k
    <3>. HIDE DEF T
    <3>. QED  BY <2>1, <2>2
  <2>. QED  BY <2>3
<1>4. Digits(n) = CHOOSE m \in T : \A k \in T : m <= k
  BY DEF Digits, Min
<1>5. Digits(n) \in T /\ \A k \in T : Digits(n) <= k
  <2>. HIDE DEF T
  <2>. QED  BY <1>3, <1>4
<1>. QED  BY <1>5

\* It is the only number with these properties.
LEMMA DigitsAre ==
  ASSUME NEW n, Short(n), NEW d \in 1 .. 10, n \div 10^(d - 1) < 10,
         \A k \in 1 .. 10 : n \div 10^(k - 1) < 10 => d <= k
  PROVE  Digits(n) = d
<1>1. /\ Digits(n) \in 1 .. 10 /\ n \div 10^(Digits(n) - 1) < 10
      /\ \A k \in 1 .. 10 : n \div 10^(k - 1) < 10 => Digits(n) <= k
  BY DigitsProperties
<1>2. PICK e \in 1 .. 10 : e = Digits(n)
  BY <1>1
<1>3. d <= e /\ e <= d
  BY <1>1, <1>2
<1>. QED  BY <1>2, <1>3

\* One digit, or those of a tenth and one more.
LEMMA DigitsStep ==
  ASSUME NEW n, Short(n)
  PROVE  /\ n < 10 => Digits(n) = 1
         /\ n >= 10 => Short(n \div 10) /\ Digits(n) = Digits(n \div 10) + 1
<1>1. n \in Nat /\ n \div 10^9 < 10
  BY DEF Short
<1>2. ASSUME n < 10 PROVE Digits(n) = 1
  <2>1. n \div 10^(1 - 1) < 10
    BY <1>1, <1>2
  <2>2. \A k \in 1 .. 10 : n \div 10^(k - 1) < 10 => 1 <= k
    OBVIOUS
  <2>. QED  BY <2>1, <2>2, DigitsAre
<1>3. ASSUME n >= 10 PROVE Short(n \div 10) /\ Digits(n) = Digits(n \div 10) + 1
  <2>1. PICK m \in Nat : m = n \div 10
    BY <1>1
  <2>2. Short(m)
    <3>1. m \div 10^9 <= n \div 10^9
      BY <1>1, <2>1
    <3>2. m \div 10^9 \in Nat /\ n \div 10^9 \in Nat
      BY <1>1, Powers
    <3>. QED  BY <3>1, <3>2, <1>1 DEF Short
  <2>3. PICK d \in 1 .. 10 : d = Digits(m)
    BY <2>2, DigitsProperties
  <2>4. /\ m \div 10^(d - 1) < 10
        /\ \A k \in 1 .. 10 : m \div 10^(k - 1) < 10 => d <= k
    BY <2>2, <2>3, DigitsProperties
  <2>5. d <= 9
    <3>1. 8 \in 0 .. 9 /\ 8 + 1 = 9 /\ 9 \in 1 .. 10 /\ 9 - 1 = 8
      OBVIOUS
    <3>2. m \div 10^8 = n \div 10^9
      BY <3>1, <1>1, <2>1, Powers
    <3>3. m \div 10^(9 - 1) < 10
      BY <3>1, <3>2, <1>1
    <3>. QED  BY <3>1, <3>3, <2>4
  <2>6. \A j \in 0 .. 9 : m \div 10^j = n \div 10^(j + 1)
    BY <1>1, <2>1, Powers
  <2>7. d + 1 \in 1 .. 10 /\ n \div 10^((d + 1) - 1) < 10
    <3>1. d - 1 \in 0 .. 9 /\ (d - 1) + 1 = (d + 1) - 1 /\ d + 1 \in 1 .. 10
      BY <2>5
    <3>2. m \div 10^(d - 1) = n \div 10^((d - 1) + 1)
      BY <3>1, <2>6
    <3>. QED  BY <3>1, <3>2, <2>4
  <2>8. ASSUME NEW k \in 1 .. 10, n \div 10^(k - 1) < 10 PROVE d + 1 <= k
    <3>1. k # 1
      <4>1. ASSUME k = 1 PROVE n \div 10^0 < 10
        <5>1. k - 1 = 0
          BY <4>1
        <5>. QED  BY <5>1, <2>8
      <4>. QED  BY <4>1, <1>1, <1>3
    <3>2. k - 2 \in 0 .. 9 /\ (k - 2) + 1 = k - 1 /\ k - 1 \in 1 .. 10 /\ (k - 1) - 1 = k - 2
      BY <3>1
    <3>3. m \div 10^(k - 2) = n \div 10^((k - 2) + 1)
      BY <3>2, <2>6
    <3>4. m \div 10^((k - 1) - 1) < 10
      BY <3>2, <3>3, <2>8
    <3>5. d <= k - 1
      BY <3>2, <3>4, <2>4
    <3>. QED  BY <3>5
  <2>9. Digits(n) = d + 1
    BY <2>7, <2>8, DigitsAre
  <2>. QED  BY <2>1, <2>2, <2>3, <2>9
<1>. QED  BY <1>2, <1>3
DigitAt(n, i) == <<"digit", (n \div 10^i) % 10>>

\* ulog_ultoa yields the digits, first one first.
LEMMA UltoaProperties ==
  ASSUME NEW n, Short(n)
  PROVE  /\ ulog_ultoa(n) \in Seq(Chars) /\ Len(ulog_ultoa(n)) = Digits(n)
         /\ \A i \in 1 .. Digits(n) : ulog_ultoa(n)[i] = DigitAt(n, Digits(n) - i)
<1>. DEFINE Is(f) == f = [k \in 0 .. n |->
                            <<<<"digit", k % 10>>>> \o (IF k < 10 THEN << >> ELSE f[k \div 10])]
            Value(k) == [i \in 1 .. Digits(k) |-> DigitAt(k, i - 1)]
            g == [k \in 0 .. n |-> Value(k)]
<1>1. n \in Nat /\ \A k \in 0 .. n : Short(k)
  <2>1. n \in Nat /\ n \div 10^9 < 10
    BY DEF Short
  <2>2. ASSUME NEW k \in 0 .. n PROVE Short(k)
    <3>1. k \in Nat /\ k <= n
      BY <2>1
    <3>2. k \div 10^9 <= n \div 10^9 /\ k \div 10^9 \in Nat /\ n \div 10^9 \in Nat
      BY <3>1, <2>1
    <3>. QED  BY <2>1, <3>1, <3>2 DEF Short
  <2>. QED  BY <2>1, <2>2
<1>2. \A k \in Nat, i \in 0 .. 9 : DigitAt(k, i) \in Chars
  <2>1. ASSUME NEW k \in Nat, NEW i \in 0 .. 9 PROVE DigitAt(k, i) \in Chars
    <3>1. (k \div 10^i) % 10 \in Int
      <4>1. PICK q \in Nat : q = k \div 10^i
        BY Powers
      <4>2. (q % 10) \in Int
        OBVIOUS
      <4>. QED  BY <4>1, <4>2
    <3>2. "digit" \in Classes
      BY DEF Classes
    <3>. QED  BY <3>1, <3>2, Zenon DEF DigitAt, Chars
  <2>. QED  BY <2>1
<1>3. ASSUME NEW k, Short(k)
      PROVE  /\ Value(k) \in Seq(Chars) /\ Len(Value(k)) = Digits(k)
             /\ \A i \in 1 .. Digits(k) : Value(k)[i] = DigitAt(k, i - 1)
  <2>1. PICK d \in 1 .. 10 : d = Digits(k)
    BY <1>3, DigitsProperties
  <2>2. \A i \in 1 .. d : i - 1 \in 0 .. 9 /\ k \in Nat
    BY <1>3 DEF Short
  <2>3. \A i \in 1 .. d : DigitAt(k, i - 1) \in Chars
    BY <2>2, <1>2
  <2>4. PICK v : v = [i \in 1 .. d |-> DigitAt(k, i - 1)]
    OBVIOUS
  <2>5. v \in Seq(Chars)
    BY <2>3, <2>4, IsASeq
  <2>6. Len(v) = d
    BY <2>4, <2>5, LenProperties
  <2>7. Value(k) = v
    BY <2>1, <2>4
  <2>. HIDE DEF Value
  <2>. QED  BY <2>1, <2>4, <2>5, <2>6, <2>7
<1>4. ASSUME NEW k, Short(k), k < 10 PROVE Value(k) = <<<<"digit", k % 10>>>> \o << >>
  <2>1. Digits(k) = 1 /\ k \in Nat
    BY <1>4, DigitsStep DEF Short
  <2>2. DigitAt(k, 0) = <<"digit", k % 10>>
    <3>1. k \div 10^0 = k
      BY <2>1
    <3>. QED  BY <3>1 DEF DigitAt
  <2>3. PICK x : x = DigitAt(k, 0)
    OBVIOUS
  <2>4. x \in Chars
    <3>1. 0 \in 0 .. 9
      OBVIOUS
    <3>. QED  BY <2>1, <2>3, <3>1, <1>2
  <2>5. <<x>> \o << >> = <<x>> /\ <<x>> \in Seq(Chars)
    BY <2>4, ConcatEmptySeq
  <2>6. Value(k) = <<x>>
    <3>1. Value(k) \in Seq(Chars) /\ Len(Value(k)) = 1 /\ Value(k)[1] = x
      <4>1. 1 - 1 = 0 /\ 1 \in 1 .. 1
        OBVIOUS
      <4>. HIDE DEF Value
      <4>. QED  BY <1>3, <1>4, <2>1, <2>3, <4>1
    <3>2. Len(<<x>>) = 1 /\ <<x>>[1] = x
      OBVIOUS
    <3>3. \A i \in 1 .. 1 : Value(k)[i] = <<x>>[i]
      BY <3>1, <3>2
    <3>. HIDE DEF Value
    <3>. QED  BY <3>1, <3>2, <3>3, <2>5, SeqEqual
  <2>. QED  BY <2>2, <2>3, <2>5, <2>6
<1>5. ASSUME NEW k, Short(k), k >= 10
      PROVE  Value(k) = <<<<"digit", k % 10>>>> \o Value(k \div 10)
  <2>1. PICK m \in Nat : m = k \div 10
    BY <1>5 DEF Short
  <2>2. Short(m) /\ Digits(k) = Digits(m) + 1 /\ k \in Nat
    BY <1>5, <2>1, DigitsStep DEF Short
  <2>3. PICK d \in 1 .. 10 : d = Digits(m)
    BY <2>2, DigitsProperties
  <2>4. PICK e \in 1 .. 10 : e = Digits(k) /\ e = d + 1
    BY <1>5, <2>2, <2>3, DigitsProperties
  <2>5. PICK x \in Chars : x = <<"digit", k % 10>> /\ x = DigitAt(k, 0)
    <3>1. k \div 10^0 = k /\ 0 \in 0 .. 9
      BY <2>2
    <3>. QED  BY <3>1, <2>2, <1>2 DEF DigitAt
  <2>6. PICK v : v = Value(m)
    OBVIOUS
  <2>7. v \in Seq(Chars) /\ Len(v) = d /\ \A i \in 1 .. d : v[i] = DigitAt(m, i - 1)
    <3>. HIDE DEF Value
    <3>. QED  BY <2>2, <2>3, <2>6, <1>3
  <2>8. PICK w : w = Value(k)
    OBVIOUS
  <2>9. w \in Seq(Chars) /\ Len(w) = e /\ \A i \in 1 .. e : w[i] = DigitAt(k, i - 1)
    <3>. HIDE DEF Value
    <3>. QED  BY <1>5, <2>4, <2>8, <1>3
  <2>10. PICK u : u = <<x>> \o v
    OBVIOUS
  <2>11. <<x>> \in Seq(Chars) /\ Len(<<x>>) = 1 /\ <<x>>[1] = x
    BY <2>5
  <2>12. /\ u \in Seq(Chars) /\ Len(u) = 1 + d
         /\ u[1] = x
         /\ \A i \in 2 .. 1 + d : u[i] = v[i - 1]
    <3>1. /\ <<x>> \o v \in Seq(Chars)
          /\ Len(<<x>> \o v) = Len(<<x>>) + Len(v)
          /\ \A i \in 1 .. Len(<<x>>) + Len(v) :
               (<<x>> \o v)[i] = IF i <= Len(<<x>>) THEN <<x>>[i] ELSE v[i - Len(<<x>>)]
      BY <2>7, <2>11, ConcatProperties
    <3>. QED  BY <3>1, <2>7, <2>10, <2>11
  <2>13. ASSUME NEW i \in 1 .. e PROVE u[i] = w[i]
    <3>1. CASE i = 1
      <4>1. w[1] = DigitAt(k, 1 - 1) /\ 1 - 1 = 0
        BY <2>9, <3>1
      <4>. QED  BY <3>1, <4>1, <2>5, <2>12
    <3>2. CASE i # 1
      <4>1. i \in 2 .. 1 + d /\ i - 1 \in 1 .. d /\ i - 2 \in 0 .. 9 /\ (i - 2) + 1 = i - 1
            /\ (i - 1) - 1 = i - 2
        BY <3>2, <2>4
      <4>2. u[i] = DigitAt(m, i - 2)
        BY <4>1, <2>7, <2>12
      <4>3. m \div 10^(i - 2) = k \div 10^((i - 2) + 1)
        BY <4>1, <2>1, <2>2, Powers
      <4>4. DigitAt(m, i - 2) = DigitAt(k, i - 1)
        BY <4>1, <4>3 DEF DigitAt
      <4>5. w[i] = DigitAt(k, i - 1)
        BY <2>9
      <4>. QED  BY <4>2, <4>4, <4>5
    <3>. QED  BY <3>1, <3>2
  <2>14. u = w
    <3>1. Len(u) = e
      BY <2>12, <2>4
    <3>. QED  BY <3>1, <2>9, <2>12, <2>13, SeqEqual
  <2>. HIDE DEF Value
  <2>. QED  BY <2>1, <2>5, <2>6, <2>8, <2>10, <2>14
<1>. HIDE DEF Value
<1>6. ASSUME NEW k \in 0 .. n, k >= 10 PROVE k \div 10 \in 0 .. n /\ k \div 10 < k
  BY <1>1, <1>6
<1>7. Is(g)
  <2>1. ASSUME NEW k \in 0 .. n
        PROVE  g[k] = <<<<"digit", k % 10>>>> \o (IF k < 10 THEN << >> ELSE g[k \div 10])
    <3>1. Short(k) /\ k \in Nat
      BY <1>1
    <3>2. CASE k < 10
      BY <3>1, <3>2, <1>4
    <3>3. CASE k >= 10
      <4>1. Value(k) = <<<<"digit", k % 10>>>> \o Value(k \div 10)
        BY <3>1, <3>3, <1>5
      <4>2. g[k \div 10] = Value(k \div 10) /\ g[k] = Value(k) /\ ~ (k < 10)
        BY <3>1, <3>3, <1>6
      <4>. HIDE DEF g
      <4>. QED  BY <4>1, <4>2
    <3>. QED  BY <3>1, <3>2, <3>3
  <2>. QED  BY <2>1
<1>8. ASSUME NEW f, Is(f) PROVE f[n] = Value(n)
  <2>. DEFINE T == {m \in Nat : \A k \in 0 .. n : k <= m => f[k] = Value(k)}
  <2>1. \A k \in 0 .. n : f[k] = <<<<"digit", k % 10>>>> \o (IF k < 10 THEN << >> ELSE f[k \div 10])
    BY <1>8
  <2>2. ASSUME NEW k \in 0 .. n, k < 10 PROVE f[k] = Value(k)
    <3>1. f[k] = <<<<"digit", k % 10>>>> \o << >>
      BY <2>1, <2>2
    <3>. QED  BY <3>1, <2>2, <1>1, <1>4
  <2>3. ASSUME NEW k \in 0 .. n, k >= 10, f[k \div 10] = Value(k \div 10) PROVE f[k] = Value(k)
    <3>1. f[k] = <<<<"digit", k % 10>>>> \o f[k \div 10]
      <4>1. ~ (k < 10)
        BY <2>3
      <4>. QED  BY <4>1, <2>1
    <3>. QED  BY <3>1, <2>3, <1>1, <1>5
  <2>. HIDE DEF Is
  <2>4. 0 \in T
    <3>1. \A k \in 0 .. n : k <= 0 => k < 10
      OBVIOUS
    <3>. QED  BY <3>1, <2>2
  <2>5. ASSUME NEW m \in Nat, m \in T PROVE m + 1 \in T
    <3>1. ASSUME NEW k \in 0 .. n, k <= m + 1 PROVE f[k] = Value(k)
      <4>1. CASE k < 10
        BY <4>1, <2>2
      <4>2. CASE k >= 10
        <5>1. k \div 10 \in 0 .. n /\ k \div 10 <= m
          BY <4>2, <3>1, <1>6, <1>1
        <5>2. f[k \div 10] = Value(k \div 10)
          BY <5>1, <2>5
        <5>. QED  BY <5>2, <4>2, <2>3
      <4>. QED  BY <4>1, <4>2
    <3>. QED  BY <3>1
  <2>6. n \in T
    <3>1. Nat \subseteq T
      <4>. HIDE DEF T
      <4>. QED  BY <2>4, <2>5, SetInduction
    <3>. QED  BY <3>1, <1>1
  <2>. QED  BY <2>6, <1>1
<1>9. ulog_ultoa(n) = Reverse(Value(n))
  <2>1. ulog_ultoa(n) = Reverse((CHOOSE f : Is(f))[n])
    BY DEF ulog_ultoa
  <2>2. Is(CHOOSE f : Is(f))
    <3>. HIDE DEF Is
    <3>. QED  BY <1>7
  <2>3. (CHOOSE f : Is(f))[n] = Value(n)
    <3>. HIDE DEF Is
    <3>. QED  BY <2>2, <1>8
  <2>. QED  BY <2>1, <2>3
<1>10. PICK v \in Seq(Chars) : v = Value(n) /\ Len(v) = Digits(n)
                              /\ \A i \in 1 .. Digits(n) : v[i] = DigitAt(n, i - 1)
  BY <1>3
<1>11. PICK d \in 1 .. 10 : d = Digits(n)
  BY DigitsProperties
<1>12. PICK r : r = [i \in 1 .. d |-> v[(d - i) + 1]]
  OBVIOUS
<1>13. ulog_ultoa(n) = r
  BY <1>9, <1>10, <1>11, <1>12 DEF Reverse
<1>14. \A i \in 1 .. d : (d - i) + 1 \in 1 .. d /\ ((d - i) + 1) - 1 = d - i
  BY <1>11
<1>15. \A i \in 1 .. d : r[i] = DigitAt(n, d - i)
  BY <1>10, <1>11, <1>12, <1>14
<1>16. r \in Seq(Chars)
  <2>1. \A i \in 1 .. d : v[(d - i) + 1] \in Chars
    BY <1>10, <1>11, <1>14, ElementOfSeq
  <2>. QED  BY <2>1, <1>12, IsASeq
<1>17. Len(r) = d
  BY <1>12, <1>16, LenProperties
<1>. QED  BY <1>11, <1>13, <1>15, <1>16, <1>17
-----------------------------------------------------------------------------
\* The head of a line.

Plain(text) == text \in Seq(Chars) /\ \A i \in 1 .. Len(text) : text[i] # NUL

\* The texts of all classes but one are without a NUL.
LEMMA PlainText ==
  ASSUME NEW class \in Classes \ {"nul"}, NEW n \in Nat
  PROVE  Plain(Text(class, n)) /\ Len(Text(class, n)) = n
<1>1. /\ Text(class, n) \in Seq(Chars) /\ Len(Text(class, n)) = n
      /\ \A i \in 1 .. n : Text(class, n)[i] = <<class, i>>
  BY TextProperties
<1>2. \A i \in 1 .. n : <<class, i>> # NUL
  BY DEF NUL
<1>. QED  BY <1>1, <1>2 DEF Plain

Joined(s, t, u) ==
  /\ Plain(u) /\ Len(u) = Len(s) + Len(t)
  /\ \A i \in 1 .. Len(s) : u[i] = s[i]
  /\ \A i \in 1 .. Len(t) : u[Len(s) + i] = t[i]

\* Two texts without a NUL make one.
LEMMA PlainJoined ==
  ASSUME NEW s, Plain(s), NEW t, Plain(t), NEW u, u = s \o t
  PROVE  Joined(s, t, u)
<1>1. PICK m \in Nat : m = Len(s)
  BY LenProperties DEF Plain
<1>2. PICK n \in Nat : n = Len(t)
  BY LenProperties DEF Plain
<1>3. s \in Seq(Chars) /\ t \in Seq(Chars)
  BY DEF Plain
<1>5. /\ u \in Seq(Chars) /\ Len(u) = m + n
      /\ \A i \in 1 .. m + n : u[i] = IF i <= m THEN s[i] ELSE t[i - m]
  BY <1>1, <1>2, <1>3, ConcatProperties
<1>6. /\ \A i \in 1 .. m : u[i] = s[i]
      /\ \A i \in 1 .. n : u[m + i] = t[i]
  <2>1. ASSUME NEW i \in 1 .. n PROVE u[m + i] = t[i]
    <3>1. m + i \in 1 .. m + n /\ ~ (m + i <= m) /\ (m + i) - m = i
      OBVIOUS
    <3>. QED  BY <3>1, <1>5
  <2>. QED  BY <2>1, <1>5
<1>7. ASSUME NEW i \in 1 .. m + n PROVE u[i] # NUL
  <2>1. CASE i <= m
    BY <2>1, <1>1, <1>6 DEF Plain
  <2>2. CASE ~ (i <= m)
    <3>1. i - m \in 1 .. n
      BY <2>2
    <3>. QED  BY <3>1, <2>2, <1>2, <1>5 DEF Plain
  <2>. QED  BY <2>1, <2>2
<1>. QED  BY <1>1, <1>2, <1>5, <1>6, <1>7 DEF Plain, Joined

\* The time in its brackets is without a NUL.
LEMMA PlainTime ==
  ASSUME NEW n, Short(n)
  PROVE  /\ Plain(ulog_ultoa(n)) /\ Plain(Time(n)) /\ Len(Time(n)) = Digits(n) + 2
         /\ \A i \in 1 .. Digits(n) : Time(n)[1 + i] = ulog_ultoa(n)[i]
<1>1. PICK d \in 1 .. 10 : d = Digits(n)
  BY DigitsProperties
<1>2. PICK u : u = ulog_ultoa(n)
  OBVIOUS
<1>3. u \in Seq(Chars) /\ Len(u) = d /\ \A i \in 1 .. d : u[i] = DigitAt(n, d - i)
  BY <1>1, <1>2, UltoaProperties
<1>4. \A i : DigitAt(n, i) # NUL
  BY DEF DigitAt, NUL
<1>5. Plain(u)
  BY <1>3, <1>4 DEF Plain
<1>6. PICK b : b = Text("bracket", 1) /\ Plain(b) /\ Len(b) = 1
  BY PlainText DEF Classes
<1>7. PICK v : v = b \o u
  OBVIOUS
<1>8. Plain(v) /\ Len(v) = 1 + d /\ \A i \in 1 .. d : v[1 + i] = u[i]
  <2>1. Joined(b, u, v)
    BY <1>5, <1>6, <1>7, PlainJoined
  <2>. QED  BY <2>1, <1>3, <1>6 DEF Joined
<1>9. PICK w : w = v \o b
  OBVIOUS
<1>10. /\ Plain(w) /\ Len(w) = (1 + d) + 1
       /\ \A i \in 1 .. 1 + d : w[i] = v[i]
  <2>1. Joined(v, b, w)
    BY <1>6, <1>8, <1>9, PlainJoined
  <2>. QED  BY <2>1, <1>6, <1>8 DEF Joined
<1>11. \A i \in 1 .. d : w[1 + i] = u[i]
  BY <1>8, <1>10
<1>12. Time(n) = w
  BY <1>2, <1>6, <1>7, <1>9 DEF Time
<1>. QED  BY <1>1, <1>2, <1>5, <1>10, <1>11, <1>12

Good(b, N) == IsBuffer(b) /\ Full(b, N) /\ Inside(b) /\ Clean(b, N)

\* ulog_strcpy leaves a good buffer good.
LEMMA PutStep ==
  ASSUME NEW b, NEW N \in Nat, Good(b, N), NEW text, Plain(text),
         NEW b2, b2 = ulog_strcpy(b, text)
  PROVE  Good(b2, N + Len(text)) /\ Holds(b2, N, text) /\ Step(b, N, b2, N + Len(text))
<1>1. text \in Seq(Chars) /\ \A i \in 1 .. Len(text) : text[i] # NUL
  BY DEF Plain
<1>2. IsBuffer(b) /\ Full(b, N) /\ Inside(b) /\ Clean(b, N)
  BY DEF Good
<1>3. PICK M : M = N + Len(text)
  OBVIOUS
<1>4. Step(b, N, b2, M) /\ Holds(b2, N, text)
  BY <1>1, <1>2, <1>3, CopyStep
<1>5. Clean(b2, M)
  BY <1>1, <1>2, <1>3, <1>4, StepClean
<1>6. Good(b2, M)
  BY <1>2, <1>4, <1>5 DEF Good, Step
<1>. QED  BY <1>3, <1>4, <1>6

\* So does the NUL at the end.
LEMMA EndStep ==
  ASSUME NEW b, NEW N \in Nat, Good(b, N), NEW b2, b2 = Terminate(b)
  PROVE  Good(b2, N) /\ Step(b, N, b2, N)
<1>1. IsBuffer(b) /\ Full(b, N) /\ Inside(b) /\ Clean(b, N)
  BY DEF Good
<1>2. Step(b, N, b2, N)
  BY <1>1, TerminateStep
<1>3. Clean(b2, N)
  BY <1>1, <1>2 DEF Step, Keeps, Clean
<1>. QED  BY <1>1, <1>2, <1>3 DEF Good, Step

\* So does a text that is written directly.
LEMMA StampStep ==
  ASSUME NEW b, NEW N \in Nat, Good(b, N), NEW text, Plain(text), N + Len(text) <= LineSize,
         NEW b2, b2 = Write(b, text)
  PROVE  Good(b2, N + Len(text)) /\ Holds(b2, N, text) /\ Step(b, N, b2, N + Len(text))
<1>1. text \in Seq(Chars) /\ \A i \in 1 .. Len(text) : text[i] # NUL
  BY DEF Plain
<1>2. IsBuffer(b) /\ Full(b, N) /\ Inside(b) /\ Clean(b, N)
  BY DEF Good
<1>3. PICK M : M = N + Len(text)
  OBVIOUS
<1>4. Step(b, N, b2, M) /\ Holds(b2, N, text)
  BY <1>1, <1>2, <1>3, WriteStep
<1>5. Clean(b2, M)
  BY <1>1, <1>2, <1>3, <1>4, StepClean
<1>6. Good(b2, M)
  BY <1>2, <1>4, <1>5 DEF Good, Step
<1>. QED  BY <1>3, <1>4, <1>6
HasHead(a) == a.level \in DOMAIN Colours /\ a.tag \in Nat /\ Short(a.tick)

HeadRight(h, a) ==
  /\ Colours[a.level] # 0 =>
       Holds(h, 0, CSI_START) /\ Holds(h, 2, Text("colour", Colours[a.level]))
  /\ Holds(h, ColourLen(a) + 1, ulog_ultoa(a.tick))
  /\ Holds(h, HeadLen(a) - 2 - a.tag, Text("tag", a.tag))

\* The lengths of the parts of the head.
LEMMA HeadLengths ==
  ASSUME NEW a, HasHead(a)
  PROVE  /\ Colours[a.level] \in Nat /\ ColourLen(a) \in Nat /\ HeadLen(a) \in Nat
         /\ Digits(a.tick) \in 1 .. 10
         /\ ColourLen(a) + 19 <= LineSize
         /\ ColourLen(a) = IF Colours[a.level] = 0 THEN 0 ELSE 2 + Colours[a.level]
         /\ HeadLen(a) = ColourLen(a) + Digits(a.tick) + a.tag + 7
<1>1. PICK c \in Nat : c = Colours[a.level] /\ c + 21 <= LineSize
  BY ColoursAssumption, LineSizeAssumption DEF HasHead
<1>2. PICK d \in 1 .. 10 : d = Digits(a.tick)
  BY DigitsProperties DEF HasHead
<1>3. PICK e \in Nat : e = ColourLen(a)
  BY <1>1 DEF ColourLen
<1>4. e = IF c = 0 THEN 0 ELSE 2 + c
  BY <1>1, <1>3 DEF ColourLen
<1>5. PICK t \in Nat : t = a.tag
  BY DEF HasHead
<1>6. HeadLen(a) = e + d + t + 7
  BY <1>2, <1>3, <1>5 DEF HeadLen
<1>. QED  BY <1>1, <1>2, <1>3, <1>4, <1>5, <1>6, LineSizes

\* The begin of the colour, where the level has one.
LEMMA HeadColours ==
  ASSUME NEW a, HasHead(a), NEW b, Good(b, 0), NEW b2,
         b2 = IF Colours[a.level] = 0 THEN b
              ELSE ulog_strcpy(ulog_strcpy(b, CSI_START), Colour(a.level))
  PROVE  /\ Good(b2, ColourLen(a))
         /\ Colours[a.level] # 0 =>
              Holds(b2, 0, CSI_START) /\ Holds(b2, 2, Text("colour", Colours[a.level]))
<1>1. PICK c \in Nat : c = Colours[a.level]
  BY HeadLengths
<1>2. PICK e \in Nat : e = ColourLen(a) /\ e = IF c = 0 THEN 0 ELSE 2 + c
  BY <1>1, HeadLengths
<1>3. CASE c = 0
  BY <1>1, <1>2, <1>3
<1>4. CASE c # 0
  <2>1. PICK s : s = CSI_START /\ Plain(s) /\ Len(s) = 2
    BY PlainText DEF CSI_START, Classes
  <2>2. PICK t : t = Text("colour", c) /\ Plain(t) /\ Len(t) = c
    BY PlainText DEF Classes
  <2>3. PICK b1 : b1 = ulog_strcpy(b, s)
    OBVIOUS
  <2>4. b2 = ulog_strcpy(b1, t)
    BY <1>1, <1>4, <2>1, <2>2, <2>3 DEF Colour
  <2>5. Good(b1, 0 + Len(s)) /\ Holds(b1, 0, s)
    <3>1. 0 \in Nat
      OBVIOUS
    <3>. QED  BY <2>1, <2>3, <3>1, PutStep
  <2>6. Good(b1, 2)
    BY <2>1, <2>5
  <2>7. PICK N \in Nat : N = 2
    OBVIOUS
  <2>8. Good(b2, N + Len(t)) /\ Holds(b2, N, t) /\ Step(b1, N, b2, N + Len(t))
    BY <2>2, <2>4, <2>6, <2>7, PutStep
  <2>9. Holds(b2, 0, s)
    <3>1. 0 \in Nat /\ 0 + Len(s) <= N /\ s \in Seq(Chars)
      BY <2>1, <2>7 DEF Plain
    <3>. QED  BY <2>5, <2>7, <2>8, <3>1, StepHolds
  <2>10. N + Len(t) = e
    BY <1>2, <1>4, <2>2, <2>7
  <2>. QED  BY <1>1, <1>2, <2>1, <2>2, <2>7, <2>8, <2>9, <2>10
<1>. QED  BY <1>3, <1>4

\* An empty buffer is good, whatever its memory holds.
LEMMA EmptyGood ==
  ASSUME NEW mem
  PROVE  Good(Buffer(mem), 0)
<1>1. Buffer(mem).len = 0 /\ Buffer(mem).top = -1
  BY DEF Buffer
<1>2. IsBuffer(Buffer(mem)) /\ Full(Buffer(mem), 0) /\ Inside(Buffer(mem)) /\ Clean(Buffer(mem), 0)
  BY <1>1, LineSizes DEF IsBuffer, Full, Inside, Clean
<1>. QED  BY <1>2 DEF Good

\* What the head asks for stands in the buffer as far as it fits.
LEMMA HeadFormatted ==
  ASSUME NEW a, HasHead(a), NEW mem, NEW h,
         h = ulog_head_formater(Buffer(mem), a.level, Text("tag", a.tag), a.tick)
  PROVE  Good(h, HeadLen(a)) /\ HeadRight(h, a)
<1>1. PICK c \in Nat : c = Colours[a.level]
  BY HeadLengths
<1>2. PICK N1 \in Nat : N1 = ColourLen(a) /\ N1 + 19 <= LineSize /\ N1 = IF c = 0 THEN 0 ELSE 2 + c
  BY <1>1, HeadLengths
<1>3. PICK d \in 1 .. 10 : d = Digits(a.tick)
  BY HeadLengths
<1>4. PICK n \in Nat : n = a.tag
  BY DEF HasHead
<1>5. HeadLen(a) = N1 + d + n + 7
  BY <1>2, <1>3, <1>4, HeadLengths
<1>6. PICK b1 : b1 = IF Colours[a.level] = 0 THEN Buffer(mem)
                     ELSE ulog_strcpy(ulog_strcpy(Buffer(mem), CSI_START), Colour(a.level))
  OBVIOUS
<1>7. Good(b1, N1) /\ (c # 0 => Holds(b1, 0, CSI_START) /\ Holds(b1, 2, Text("colour", c)))
  BY <1>1, <1>2, <1>6, EmptyGood, HeadColours
<1>8. PICK b2 : b2 = Terminate(b1)
  OBVIOUS
<1>9. Good(b2, N1) /\ Step(b1, N1, b2, N1)
  BY <1>7, <1>8, EndStep
<1>10. PICK time : time = Time(a.tick) /\ Plain(time) /\ Len(time) = d + 2
  BY <1>3, PlainTime DEF HasHead
<1>11. PICK digits : digits = ulog_ultoa(a.tick) /\ Plain(digits) /\ Len(digits) = d
  BY <1>3, PlainTime, UltoaProperties DEF HasHead
<1>12. PICK b3 : b3 = Write(b2, time)
  OBVIOUS
<1>13. PICK N2 \in Nat : N2 = N1 + (d + 2)
  OBVIOUS
<1>14. Good(b3, N2) /\ Holds(b3, N1, time) /\ Step(b2, N1, b3, N2)
  <2>1. N1 + Len(time) = N2 /\ N2 <= LineSize
    BY <1>2, <1>10, <1>13, LineSizes
  <2>. QED  BY <2>1, <1>9, <1>10, <1>12, StampStep
<1>15. Holds(b3, N1 + 1, digits)
  <2>1. ASSUME NEW i \in 1 .. d, (N1 + 1) + i <= Limit PROVE b3.mem[(N1 + 1) + i - 1] = digits[i]
    <3>1. 1 + i \in 1 .. d + 2 /\ N1 + (1 + i) = (N1 + 1) + i
      OBVIOUS
    <3>2. b3.mem[N1 + (1 + i) - 1] = time[1 + i]
      BY <3>1, <2>1, <1>10, <1>14 DEF Holds
    <3>3. time[1 + i] = digits[i]
      BY <1>3, <1>10, <1>11, PlainTime DEF HasHead
    <3>. QED  BY <3>1, <3>2, <3>3
  <2>. QED  BY <2>1, <1>11 DEF Holds
<1>16. PICK b4 : b4 = Terminate(b3)
  OBVIOUS
<1>17. Good(b4, N2) /\ Step(b3, N2, b4, N2)
  BY <1>14, <1>16, EndStep
<1>18. PICK space : space = Space /\ Plain(space) /\ Len(space) = 1
  BY PlainText DEF Space, Classes
<1>19. PICK b5 : b5 = ulog_strcpy(b4, space)
  OBVIOUS
<1>20. PICK N3 \in Nat : N3 = N2 + 1
  OBVIOUS
<1>21. Good(b5, N3) /\ Step(b4, N2, b5, N3)
  BY <1>17, <1>18, <1>19, <1>20, PutStep
<1>22. PICK lev : lev = Text("level", 2) /\ Plain(lev) /\ Len(lev) = 2
  BY PlainText DEF Classes
<1>23. PICK b6 : b6 = ulog_strcpy(b5, lev)
  OBVIOUS
<1>24. PICK N4 \in Nat : N4 = N3 + 2
  OBVIOUS
<1>25. Good(b6, N4) /\ Step(b5, N3, b6, N4)
  BY <1>21, <1>22, <1>23, <1>24, PutStep
<1>26. PICK tag : tag = Text("tag", n) /\ Plain(tag) /\ Len(tag) = n
  BY PlainText DEF Classes
<1>27. PICK b7 : b7 = ulog_strcpy(b6, tag)
  OBVIOUS
<1>28. PICK N5 \in Nat : N5 = N4 + n
  OBVIOUS
<1>29. Good(b7, N5) /\ Step(b6, N4, b7, N5) /\ Holds(b7, N4, tag)
  BY <1>25, <1>26, <1>27, <1>28, PutStep
<1>30. PICK colon : colon = Text("colon", 2) /\ Plain(colon) /\ Len(colon) = 2
  BY PlainText DEF Classes
<1>31. PICK b8 : b8 = ulog_strcpy(b7, colon)
  OBVIOUS
<1>32. PICK N6 \in Nat : N6 = N5 + 2
  OBVIOUS
<1>33. Good(b8, N6) /\ Step(b7, N5, b8, N6)
  BY <1>29, <1>30, <1>31, <1>32, PutStep
<1>34. h = b8
  BY <1>4, <1>6, <1>8, <1>10, <1>12, <1>16, <1>18, <1>19, <1>22, <1>23, <1>26, <1>27, <1>30, <1>31
     DEF ulog_head_formater
<1>35. N6 = HeadLen(a) /\ N4 = HeadLen(a) - 2 - n
  BY <1>5, <1>13, <1>20, <1>24, <1>28, <1>32
<1>36. /\ b1.top \in Int /\ b2.top \in Int /\ b3.top \in Int /\ b4.top \in Int
       /\ b5.top \in Int /\ b6.top \in Int /\ b7.top \in Int
  BY <1>7, <1>9, <1>14, <1>17, <1>21, <1>25, <1>29 DEF Good, IsBuffer
<1>37. Step(b6, N4, b8, N6)
  <2>1. N4 <= N5
    BY <1>28
  <2>. QED  BY <2>1, <1>29, <1>33, <1>36, Steps
<1>38. Step(b5, N3, b8, N6)
  <2>1. N3 <= N4
    BY <1>24
  <2>. QED  BY <2>1, <1>25, <1>37, <1>36, Steps
<1>39. Step(b4, N2, b8, N6)
  <2>1. N2 <= N3
    BY <1>20
  <2>. QED  BY <2>1, <1>21, <1>38, <1>36, Steps
<1>40. Step(b3, N2, b8, N6)
  <2>1. N2 <= N2
    OBVIOUS
  <2>. QED  BY <2>1, <1>17, <1>39, <1>36, Steps
<1>41. Step(b2, N1, b8, N6)
  <2>1. N1 <= N2
    BY <1>13
  <2>. QED  BY <2>1, <1>14, <1>40, <1>36, Steps
<1>42. Step(b1, N1, b8, N6)
  <2>1. N1 <= N1
    OBVIOUS
  <2>. QED  BY <2>1, <1>9, <1>41, <1>36, Steps
<1>43. ASSUME c # 0 PROVE Holds(h, 0, CSI_START) /\ Holds(h, 2, Text("colour", c))
  <2>1. PICK s \in Seq(Chars) : s = CSI_START /\ Len(s) = 2
    BY PlainText DEF CSI_START, Classes, Plain
  <2>2. PICK t \in Seq(Chars) : t = Text("colour", c) /\ Len(t) = c
    BY PlainText DEF Classes, Plain
  <2>3. 0 \in Nat /\ 2 \in Nat /\ 0 + Len(s) <= N1 /\ 2 + Len(t) <= N1
    BY <2>1, <2>2, <1>2, <1>43
  <2>4. Holds(b8, 0, s)
    BY <2>1, <2>3, <1>7, <1>42, <1>43, StepHolds
  <2>5. Holds(b8, 2, t)
    BY <2>2, <2>3, <1>7, <1>42, <1>43, StepHolds
  <2>. QED  BY <2>1, <2>2, <2>4, <2>5, <1>34
<1>44. Holds(h, N1 + 1, digits)
  <2>1. digits \in Seq(Chars) /\ N1 + 1 \in Nat /\ (N1 + 1) + Len(digits) <= N2
    BY <1>11, <1>13 DEF Plain
  <2>2. PICK first \in Nat : first = N1 + 1
    BY <2>1
  <2>. QED  BY <2>1, <2>2, <1>15, <1>34, <1>40, StepHolds
<1>45. Holds(h, N4, tag)
  <2>1. tag \in Seq(Chars) /\ N4 + Len(tag) <= N5
    BY <1>26, <1>28 DEF Plain
  <2>. QED  BY <2>1, <1>29, <1>33, <1>34, StepHolds
<1>46. HeadRight(h, a)
  BY <1>1, <1>2, <1>4, <1>11, <1>26, <1>35, <1>43, <1>44, <1>45 DEF HeadRight
<1>. QED  BY <1>33, <1>34, <1>35, <1>46
-----------------------------------------------------------------------------
\* The tail of a line.

\* The first k characters of text, all or none, stand behind what was there.
Extended(b, text, k, b2) ==
  /\ IsBuffer(b2) /\ b2.len = b.len + k
  /\ \A p \in Memory : p < b.len => b2.mem[p] = b.mem[p]
  /\ \A p \in Memory : b.len <= p /\ p < b.len + k => b2.mem[p] = text[p - b.len + 1]
  /\ b.top <= b2.top /\ (b2.top <= b.top \/ b2.top < LineSize)

\* A text that fits in whole extends the buffer.
LEMMA StoreExtends ==
  ASSUME NEW b, IsBuffer(b), NEW text \in Seq(Chars), b.len + Len(text) <= LineSize,
         NEW b2, Stored(b, text, b.len + Len(text), b2)
  PROVE  Extended(b, text, Len(text), b2)
<1>1. PICK l \in Nat : l = b.len
  BY DEF IsBuffer
<1>2. PICK t \in Int : t = b.top
  BY DEF IsBuffer
<1>3. PICK n \in Nat : n = Len(text)
  BY LenProperties
<1>4. /\ IsBuffer(b2) /\ b2.len = l + n
      /\ b2.top = IF t < l + n - 1 THEN l + n - 1 ELSE t
      /\ \A p \in Memory : p < l => b2.mem[p] = b.mem[p]
      /\ \A p \in Memory : l <= p /\ p < l + n => b2.mem[p] = text[p - l + 1]
  BY <1>1, <1>2, <1>3 DEF Stored
<1>5. t <= b2.top /\ (b2.top <= t \/ b2.top < LineSize)
  BY <1>1, <1>2, <1>3, <1>4, LineSizes
<1>. QED  BY <1>1, <1>2, <1>3, <1>4, <1>5 DEF Extended

\* So it does when it is copied with ulog_strcpy.
LEMMA CopyExtends ==
  ASSUME NEW b, IsBuffer(b), NEW text \in Seq(Chars), b.len + Len(text) <= LineSize,
         NEW b2, b2 = ulog_strcpy(b, text)
  PROVE  Extended(b, text, Len(text), b2)
<1>1. PICK l \in Nat : l = b.len
  BY DEF IsBuffer
<1>2. PICK n \in Nat : n = Len(text)
  BY LenProperties
<1>3. l + n <= LineSize /\ LineSize \in Nat
  BY <1>1, <1>2, LineSizes
<1>4. Max({0, Min({n, LineSize - l})}) = n
  <2>1. n \in Int /\ LineSize - l \in Int /\ 0 \in Int /\ n <= LineSize - l
    BY <1>3
  <2>2. Min({n, LineSize - l}) = n
    BY <2>1, TwoMin
  <2>3. Max({0, n}) = n
    BY <2>1, TwoMax
  <2>. QED  BY <2>2, <2>3
<1>5. SubSeq(text, 1, n) = text
  <2>1. PICK part : part = SubSeq(text, 1, n)
    OBVIOUS
  <2>2. part \in Seq(Chars) /\ Len(part) = n /\ \A i \in 1 .. n : part[i] = text[i]
    BY <1>2, <2>1, PrefixProperties
  <2>3. part = text
    BY <1>2, <2>2, SeqEqual
  <2>. QED  BY <2>1, <2>3
<1>6. b2 = Store(b, text, l + n)
  <2>1. b2 = Write(b, SubSeq(text, 1, n))
    BY <1>1, <1>2, <1>4 DEF ulog_strcpy
  <2>. QED  BY <2>1, <1>1, <1>2, <1>5 DEF Write
<1>7. Stored(b, text, l + n, b2)
  BY <1>6, StoreProperties
<1>. QED  BY <1>1, <1>2, <1>3, <1>7, StoreExtends

\* So it does, or the buffer stays, when it is only copied if asked for.
LEMMA OptionExtends ==
  ASSUME NEW b, IsBuffer(b), NEW text \in Seq(Chars), b.len + Len(text) <= LineSize,
         NEW option, NEW b2, b2 = IF option THEN ulog_strcpy(b, text) ELSE b,
         NEW k, k = IF option THEN Len(text) ELSE 0
  PROVE  Extended(b, text, k, b2)
<1>1. CASE option
  <2>1. b2 = ulog_strcpy(b, text) /\ k = Len(text)
    BY <1>1
  <2>. QED  BY <2>1, CopyExtends
<1>2. CASE ~ option
  <2>1. b2 = b /\ k = 0
    BY <1>2
  <2>2. b.len \in Nat /\ b.top \in Int
    BY DEF IsBuffer
  <2>3. PICK l \in Nat : l = b.len
    BY <2>2
  <2>4. \A p \in Memory : ~ (l <= p /\ p < l + 0)
    BY LineSizes
  <2>. QED  BY <2>1, <2>2, <2>3, <2>4 DEF Extended
<1>. QED  BY <1>1, <1>2

\* n is where the tail begins, x and y are the lengths of its parts.
TailRight(b, n, x, y, t) ==
  /\ t.len \in Nat /\ t.len = n + x + y /\ t.len < LineSize /\ t.top \in Int
  /\ \A i \in 1 .. n : t.mem[i - 1] = b.mem[i - 1]
  /\ \A i \in 1 .. x : t.mem[n + i - 1] = <<"newline", i>>
  /\ \A i \in 1 .. y : t.mem[n + x + i - 1] = <<"csi_end", i>>
  /\ t.mem[t.len] = NUL
  /\ b.top <= t.top /\ (t.top <= b.top \/ t.top <= LineSize)

\* The tail that ulog_tail_formater leaves: the newline, the end of the colour and
\* the NUL, in the room kept for them.
LEMMA TailFormatted ==
  ASSUME NEW b, IsBuffer(b), NEW newline, NEW level \in DOMAIN Colours,
         NEW t, t = ulog_tail_formater(b, newline, level),
         NEW n \in Nat, b.len <= Limit => n = b.len, b.len > Limit => n = Limit,
         NEW x \in 0 .. 2, newline => x = 2, ~ newline => x = 0,
         NEW y \in 0 .. 4, Colours[level] = 0 => y = 0, Colours[level] # 0 => y = 4
  PROVE  TailRight(b, n, x, y, t)
<1>1. PICK l \in Nat : l = b.len
  BY DEF IsBuffer
<1>2. PICK top \in Int : top = b.top
  BY DEF IsBuffer
<1>3. LineSize \in Nat /\ Limit \in Nat /\ Limit + 7 = LineSize
  BY LineSizes
<1>4. n \in Nat /\ n <= Limit /\ n <= l
  BY <1>1, <1>3
<1>5. PICK nl \in Seq(Chars) : nl = ULOG_NEWLINE_SIGN /\ Len(nl) = 2
  <2>1. "newline" \in Classes /\ 2 \in Nat
    BY DEF Classes
  <2>. QED  BY <2>1, TextProperties DEF ULOG_NEWLINE_SIGN
<1>6. PICK ce \in Seq(Chars) : ce = CSI_END /\ Len(ce) = 4
  <2>1. "csi_end" \in Classes /\ 4 \in Nat
    BY DEF Classes
  <2>. QED  BY <2>1, TextProperties DEF CSI_END
<1>31. \A i \in 1 .. 2 : nl[i] = <<"newline", i>>
  BY <1>5 DEF ULOG_NEWLINE_SIGN, Text
<1>32. \A i \in 1 .. 4 : ce[i] = <<"csi_end", i>>
  BY <1>6 DEF CSI_END, Text
<1>7. PICK b1 : b1 = IF TailFits(b.len) THEN b ELSE SetLen(b, LineSize - Len(CSI_END) - Len(ULOG_NEWLINE_SIGN) - 1)
  OBVIOUS
<1>8. b1.len = n /\ b1.mem = b.mem /\ b1.top = top
  <2>1. TailFits(b.len) <=> l + 4 + 2 + 1 <= LineSize
    BY <1>1, <1>5, <1>6 DEF TailFits
  <2>2. CASE l <= Limit
    <3>1. b1 = b /\ n = l
      BY <2>1, <2>2, <1>1, <1>3, <1>7
    <3>. QED  BY <3>1, <1>1, <1>2
  <2>3. CASE ~ (l <= Limit)
    <3>1. LineSize - 4 - 2 - 1 = Limit /\ n = Limit /\ ~ TailFits(b.len)
      BY <2>1, <2>3, <1>1, <1>3
    <3>2. b1 = SetLen(b, LineSize - 4 - 2 - 1)
      BY <3>1, <1>5, <1>6, <1>7
    <3>. QED  BY <3>1, <3>2, <1>2 DEF SetLen
  <2>. QED  BY <2>2, <2>3
<1>9. IsBuffer(b1)
  BY <1>4, <1>8 DEF IsBuffer
<1>10. PICK b2 : b2 = IF newline THEN ulog_strcpy(b1, nl) ELSE b1
  OBVIOUS
<1>12. Extended(b1, nl, x, b2)
  <2>1. b1.len + Len(nl) <= LineSize /\ x = IF newline THEN Len(nl) ELSE 0
    BY <1>3, <1>4, <1>5, <1>8
  <2>. QED  BY <2>1, <1>9, <1>10, OptionExtends
<1>13. /\ IsBuffer(b2) /\ b2.len = n + x
       /\ \A p \in Memory : p < n => b2.mem[p] = b.mem[p]
       /\ \A p \in Memory : n <= p /\ p < n + x => b2.mem[p] = nl[p - n + 1]
       /\ top <= b2.top /\ (b2.top <= top \/ b2.top < LineSize)
  BY <1>8, <1>12 DEF Extended
<1>14. PICK b3 : b3 = IF Colours[level] # 0 THEN ulog_strcpy(b2, ce) ELSE b2
  OBVIOUS
<1>15. PICK m \in Nat : m = n + x
  BY <1>4
<1>16. Extended(b2, ce, y, b3)
  <2>1. PICK coloured : coloured = (Colours[level] # 0)
    OBVIOUS
  <2>2. b2.len + Len(ce) <= LineSize
    BY <1>3, <1>4, <1>6, <1>13
  <2>4. y = IF coloured THEN Len(ce) ELSE 0
    BY <1>6, <2>1
  <2>3. b3 = IF coloured THEN ulog_strcpy(b2, ce) ELSE b2
    BY <1>14, <2>1
  <2>. QED  BY <2>2, <2>3, <2>4, <1>13, OptionExtends
<1>17. /\ IsBuffer(b3) /\ b3.len = m + y
       /\ \A p \in Memory : p < m => b3.mem[p] = b2.mem[p]
       /\ \A p \in Memory : m <= p /\ p < m + y => b3.mem[p] = ce[p - m + 1]
       /\ b2.top <= b3.top /\ (b3.top <= b2.top \/ b3.top < LineSize)
  BY <1>13, <1>15, <1>16 DEF Extended
<1>18. t = Terminate(b3)
  BY <1>5, <1>6, <1>7, <1>10, <1>14 DEF ulog_tail_formater
<1>19. PICK len \in Nat : len = m + y /\ len < LineSize
  BY <1>3, <1>4, <1>15
<1>21. PICK nul \in Seq(Chars) : nul = <<NUL>> /\ Len(nul) = 1 /\ nul[1] = NUL
  BY NulProperties
<1>22. Stored(b3, nul, len, t)
  <2>1. t = Store(b3, nul, len)
    BY <1>17, <1>18, <1>19, <1>21 DEF Terminate
  <2>. QED  BY <2>1, <1>17, StoreProperties
<1>23. /\ IsBuffer(t) /\ t.len = len
       /\ t.top = IF b3.top < len + 1 - 1 THEN len + 1 - 1 ELSE b3.top
       /\ \A p \in Memory : p < len => t.mem[p] = b3.mem[p]
       /\ \A p \in Memory : len <= p /\ p < len + 1 => t.mem[p] = nul[p - len + 1]
  BY <1>17, <1>19, <1>21, <1>22 DEF Stored
<1>24. b2.top \in Int /\ b3.top \in Int /\ t.top \in Int
  BY <1>13, <1>17, <1>23 DEF IsBuffer
<1>25. top <= t.top /\ (t.top <= top \/ t.top <= LineSize)
  BY <1>3, <1>13, <1>17, <1>19, <1>23, <1>24
<1>26. t.mem[len] = NUL
  <2>1. len \in Memory /\ len <= len /\ len < len + 1 /\ len - len + 1 = 1
    BY <1>19, LineSizes
  <2>. QED  BY <2>1, <1>21, <1>23
<1>27. ASSUME NEW i \in 1 .. n PROVE t.mem[i - 1] = b.mem[i - 1]
  <2>1. i - 1 \in Memory /\ i - 1 < n /\ i - 1 < m /\ i - 1 < len
    BY <1>3, <1>4, <1>15, <1>19, LineSizes
  <2>. QED  BY <2>1, <1>13, <1>17, <1>23
<1>28. ASSUME NEW i \in 1 .. x PROVE t.mem[n + i - 1] = <<"newline", i>>
  <2>1. PICK p \in Nat : p = n + i - 1
    BY <1>4
  <2>2. p \in Memory /\ n <= p /\ p < n + x /\ p < m /\ p < len /\ p - n + 1 = i /\ i \in 1 .. 2
    BY <2>1, <1>3, <1>4, <1>15, <1>19, LineSizes
  <2>3. t.mem[p] = nl[i]
    BY <2>2, <1>13, <1>17, <1>23
  <2>. QED  BY <2>1, <2>2, <2>3, <1>31
<1>29. ASSUME NEW i \in 1 .. y PROVE t.mem[n + x + i - 1] = <<"csi_end", i>>
  <2>1. PICK p \in Nat : p = n + x + i - 1
    BY <1>4
  <2>2. p \in Memory /\ m <= p /\ p < m + y /\ p < len /\ p - m + 1 = i /\ i \in 1 .. 4
    BY <2>1, <1>3, <1>4, <1>15, <1>19, LineSizes
  <2>3. t.mem[p] = ce[i]
    BY <2>2, <1>17, <1>23
  <2>. QED  BY <2>1, <2>2, <2>3, <1>32
<1>30. len = n + x + y
  BY <1>15, <1>19
<1>. QED  BY <1>2, <1>19, <1>23, <1>24, <1>25, <1>26, <1>27, <1>28, <1>29, <1>30 DEF TailRight
-----------------------------------------------------------------------------
\* What vsnprintf stores: the text as far as it fits, and a NUL.

StoredText(text, class, k) ==
  /\ text \in Seq(Chars) /\ Len(text) = k + 1
  /\ \A i \in 1 .. k : text[i] = <<class, i>>
  /\ text[k + 1] = NUL

\* vsnprintf stores as many characters as leave room for its NUL.
LEMMA VsnprintfStores ==
  ASSUME NEW b, IsBuffer(b), NEW size \in Nat \ {0}, NEW class \in Classes, NEW n \in Nat,
         NEW done, done = vsnprintf(b, size, Text(class, n)),
         NEW k \in Nat, n < size => k = n, n >= size => k = size - 1
  PROVE  \E text : StoredText(text, class, k) /\ done = Store(b, text, b.len)
<1>1. PICK t \in Seq(Chars) : /\ t = Text(class, n) /\ Len(t) = n
                              /\ \A i \in 1 .. n : t[i] = <<class, i>>
  BY TextProperties
<1>2. Min({n, size - 1}) = k /\ k <= n
  <2>1. n \in Int /\ size - 1 \in Int
    OBVIOUS
  <2>2. Min({n, size - 1}) = IF n < size - 1 THEN n ELSE size - 1
    BY <2>1, TwoMin
  <2>. QED  BY <2>2
<1>3. PICK cut : cut = SubSeq(t, 1, k)
  OBVIOUS
<1>4. cut \in Seq(Chars) /\ Len(cut) = k /\ \A i \in 1 .. k : cut[i] = t[i]
  BY <1>1, <1>2, <1>3, PrefixProperties
<1>5. PICK nul \in Seq(Chars) : nul = <<NUL>> /\ Len(nul) = 1 /\ nul[1] = NUL
  BY NulProperties
<1>6. PICK text : text = cut \o nul
  OBVIOUS
<1>7. /\ text \in Seq(Chars) /\ Len(text) = k + 1
      /\ \A i \in 1 .. k + 1 : text[i] = IF i <= k THEN cut[i] ELSE nul[i - k]
  BY <1>4, <1>5, <1>6, ConcatProperties
<1>8. StoredText(text, class, k)
  <2>1. \A i \in 1 .. k : text[i] = <<class, i>>
    BY <1>1, <1>2, <1>4, <1>7
  <2>2. text[k + 1] = NUL
    <3>1. k + 1 \in 1 .. k + 1 /\ ~ (k + 1 <= k) /\ (k + 1) - k = 1
      OBVIOUS
    <3>. QED  BY <3>1, <1>5, <1>7
  <2>. QED  BY <2>1, <2>2, <1>7 DEF StoredText
<1>9. done = Store(b, text, b.len)
  BY <1>1, <1>2, <1>3, <1>5, <1>6 DEF vsnprintf
<1>. QED  BY <1>8, <1>9

\* The body of a line behind its head.
BodyRight(h, H, n, done) ==
  /\ IsBuffer(done) /\ Inside(done) /\ Keeps(h, done, H)
  /\ Clean(done, H + n) /\ Holds(done, H, Text("body", n))

\* The body behind the head: cut where the buffer ends, and all before it kept.
LEMMA BodyFormatted ==
  ASSUME NEW h, NEW H \in Nat, Good(h, H), NEW n \in Nat,
         NEW done, done = vsnprintf(h, LineSize - h.len, Text("body", n))
  PROVE  BodyRight(h, H, n, done)
<1>1. IsBuffer(h) /\ Full(h, H) /\ Inside(h) /\ Clean(h, H)
  BY DEF Good
<1>2. PICK l \in Nat : l = h.len /\ l <= LineSize
  BY <1>1 DEF IsBuffer, Inside
<1>3. (H <= LineSize => l = H) /\ (H > LineSize => l >= LineSize)
  BY <1>1, <1>2 DEF Full
<1>4. LineSize \in Nat /\ Limit = LineSize - 7
  BY LineSizes
<1>5. PICK body \in Seq(Chars) : body = Text("body", n) /\ Len(body) = n
  <2>1. "body" \in Classes
    BY DEF Classes
  <2>. QED  BY <2>1, TextProperties
<1>6. \A i \in 1 .. n : body[i] = <<"body", i>> /\ body[i] # NUL
  BY <1>5 DEF Text, NUL
<1>7. CASE l = LineSize
  <2>1. done = h
    <3>1. LineSize - h.len = 0
      BY <1>2, <1>4, <1>7
    <3>. QED  BY <3>1 DEF vsnprintf
  <2>2. H >= LineSize
    BY <1>3, <1>4, <1>7
  <2>3. Holds(done, H, body)
    <3>1. \A i \in 1 .. n : ~ (H + i <= Limit)
      BY <2>2, <1>4
    <3>. QED  BY <3>1, <1>5 DEF Holds
  <2>4. Clean(done, H + n)
    <3>1. \A i \in 1 .. H + n : i <= Limit => i \in 1 .. H
      BY <2>2, <1>4
    <3>. QED  BY <3>1, <2>1, <1>1 DEF Clean
  <2>. QED  BY <2>1, <2>3, <2>4, <1>1, <1>5 DEF BodyRight, Keeps
<1>8. CASE l < LineSize
  <2>1. l = H
    BY <1>3, <1>4, <1>8
  <2>2. PICK size \in Nat \ {0} : size = LineSize - l
    BY <1>4, <1>8
  <2>3. PICK k \in Nat : (n < size => k = n) /\ (n >= size => k = size - 1)
    <3>1. CASE n < size
      BY <3>1
    <3>2. CASE n >= size
      <4>1. size - 1 \in Nat
        OBVIOUS
      <4>. QED  BY <3>2, <4>1
    <3>. QED  BY <3>1, <3>2
  <2>4. done = vsnprintf(h, size, Text("body", n)) /\ "body" \in Classes
    BY <1>2, <2>2 DEF Classes
  <2>5. PICK text : StoredText(text, "body", k) /\ done = Store(h, text, h.len)
    BY <1>1, <2>3, <2>4, VsnprintfStores
  <2>6. /\ text \in Seq(Chars) /\ Len(text) = k + 1
        /\ \A i \in 1 .. k : text[i] = <<"body", i>>
    BY <2>5 DEF StoredText
  <2>7. H + (k + 1) <= LineSize
    <3>1. k + 1 <= size
      BY <2>3
    <3>. QED  BY <3>1, <2>1, <2>2, <1>4
  <2>8. /\ Keeps(h, done, H) /\ h.top <= done.top /\ done.len = l /\ IsBuffer(done)
        /\ Inside(h) /\ l <= LineSize /\ h.len + Len(text) <= LineSize + 1 => Inside(done)
        /\ H + Len(text) <= LineSize => Holds(done, H, text)
    <3>1. done = Store(h, text, l)
      BY <1>2, <2>5
    <3>2. StoreRight(h, H, text, l, done)
      BY <3>1, <1>1, <1>2, <2>6, StoreStep
    <3>. QED  BY <3>2 DEF StoreRight
  <2>9. Inside(done) /\ Holds(done, H, text)
    <3>1. h.len + Len(text) <= LineSize + 1 /\ H + Len(text) <= LineSize
      BY <1>2, <1>4, <2>1, <2>6, <2>7
    <3>. QED  BY <3>1, <1>1, <1>2, <2>8
  <2>10. \A i \in 1 .. n : H + i <= Limit => i \in 1 .. k
    BY <1>4, <2>1, <2>2, <2>3
  <2>11. Holds(done, H, body)
    <3>1. ASSUME NEW i \in 1 .. n, H + i <= Limit PROVE done.mem[H + i - 1] = body[i]
      <4>1. i \in 1 .. k /\ i \in 1 .. k + 1
        BY <3>1, <2>10
      <4>2. done.mem[H + i - 1] = text[i]
        BY <4>1, <3>1, <2>6, <2>9 DEF Holds
      <4>. QED  BY <4>1, <4>2, <2>6, <1>6
    <3>. QED  BY <3>1, <1>5 DEF Holds
  <2>12. Clean(done, H + n)
    <3>1. ASSUME NEW i \in 1 .. H + n, i <= Limit PROVE done.mem[i - 1] # NUL
      <4>1. CASE i <= H
        <5>1. i \in 1 .. H
          BY <4>1
        <5>. QED  BY <5>1, <3>1, <2>8, <1>1 DEF Keeps, Clean
      <4>2. CASE i > H
        <5>1. PICK j \in 1 .. n : H + j = i
          <6>1. i - H \in 1 .. n /\ H + (i - H) = i
            BY <4>2
          <6>. QED  BY <6>1
        <5>2. done.mem[H + j - 1] = body[j]
          BY <5>1, <3>1, <2>11, <1>5 DEF Holds
        <5>3. done.mem[i - 1] = body[j]
          <6>1. H + j - 1 = i - 1
            BY <5>1
          <6>. QED  BY <6>1, <5>2
        <5>. QED  BY <5>3, <1>6
      <4>. QED  BY <4>1, <4>2
    <3>. QED  BY <3>1 DEF Clean
  <2>. QED  BY <2>8, <2>9, <2>11, <2>12, <1>5 DEF BodyRight
<1>. QED  BY <1>2, <1>4, <1>7, <1>8
-----------------------------------------------------------------------------
\* What a reader of the line finds after a call: f is the finished buffer, b the
\* one before the tail, of which S characters are shown.

Outcome(a, b, f, S) ==
  /\ S \in Nat /\ S <= Limit /\ f.len \in Nat /\ S <= f.len
  /\ \A i \in 1 .. S : f.mem[i - 1] = b.mem[i - 1]
  /\ log_buf_th' = f.mem /\ line'.len = f.len /\ Shown(a)' = S

\* The characters of the line are those of the finished buffer, and up to S those of
\* the buffer before the tail.
LEMMA LineAfter ==
  ASSUME NEW a, NEW b, NEW f, NEW S, Outcome(a, b, f, S), NEW i \in 1 .. f.len
  PROVE  Line'[i] = f.mem[i - 1] /\ (i <= S => Line'[i] = b.mem[i - 1])
<1>1. /\ S \in Nat /\ f.len \in Nat /\ log_buf_th' = f.mem /\ line'.len = f.len
      /\ \A j \in 1 .. S : f.mem[j - 1] = b.mem[j - 1]
  BY DEF Outcome
<1>2. Line' = [j \in 1 .. f.len |-> f.mem[j - 1]]
  BY <1>1 DEF Line
<1>3. Line'[i] = f.mem[i - 1]
  BY <1>2
<1>4. i <= S => i \in 1 .. S
  BY <1>1
<1>. QED  BY <1>1, <1>3, <1>4

\* What stood in the buffer before the tail stands in the line as far as it is shown.
LEMMA StandsAfter ==
  ASSUME NEW a, NEW b, NEW f, NEW S, Outcome(a, b, f, S),
         NEW class \in Classes, NEW first \in Nat, NEW n \in Nat,
         Holds(b, first, Text(class, n))
  PROVE  Stands(a, class, first, n)'
<1>1. S \in Nat /\ S <= Limit /\ f.len \in Nat /\ S <= f.len /\ Shown(a)' = S
  BY DEF Outcome
<1>2. ASSUME NEW i \in 1 .. n, first + i <= S PROVE Line'[first + i] = <<class, i>>
  <2>1. PICK p \in 1 .. f.len : p = first + i /\ p <= S /\ p <= Limit
    BY <1>1, <1>2, LineSizes
  <2>2. Line'[p] = b.mem[p - 1]
    BY <2>1, LineAfter
  <2>3. Len(Text(class, n)) = n /\ Text(class, n)[i] = <<class, i>>
    BY TextProperties
  <2>4. b.mem[first + i - 1] = <<class, i>>
    BY <2>1, <2>3 DEF Holds
  <2>. QED  BY <2>1, <2>2, <2>4
<1>. QED  BY <1>1, <1>2 DEF Stands

\* The head stands in the line.
LEMMA HeadAfter ==
  ASSUME NEW a, HasHead(a), NEW b, HeadRight(b, a), NEW f, NEW S, Outcome(a, b, f, S),
         ColourLen(a) + Digits(a.tick) + 1 <= S
  PROVE  HeadStands(a)'
<1>1. PICK c \in Nat : c = Colours[a.level]
  BY HeadLengths
<1>2. PICK e \in Nat : e = ColourLen(a) /\ e = IF c = 0 THEN 0 ELSE 2 + c
  BY <1>1, HeadLengths
<1>3. PICK d \in 1 .. 10 : d = Digits(a.tick)
  BY HeadLengths
<1>4. PICK n \in Nat : n = a.tag
  BY DEF HasHead
<1>5. HeadLen(a) = e + d + n + 7
  BY <1>2, <1>3, <1>4, HeadLengths
<1>6. S \in Nat /\ S <= Limit /\ f.len \in Nat /\ S <= f.len /\ Shown(a)' = S /\ Limit \in Nat
  BY LineSizes DEF Outcome
<1>7. Stands(a, "csi_start", 0, IF e = 0 THEN 0 ELSE 2)'
  <2>1. CASE c = 0
    <3>1. e = 0
      BY <2>1, <1>2
    <3>. QED  BY <3>1 DEF Stands
  <2>2. CASE c # 0
    <3>1. e # 0 /\ "csi_start" \in Classes /\ 2 \in Nat /\ 0 \in Nat
      BY <2>2, <1>2 DEF Classes
    <3>2. Holds(b, 0, Text("csi_start", 2))
      BY <2>2, <1>1 DEF HeadRight, CSI_START
    <3>3. Stands(a, "csi_start", 0, 2)'
      BY <3>1, <3>2, StandsAfter
    <3>. QED  BY <3>1, <3>3
  <2>. QED  BY <2>1, <2>2
<1>8. Stands(a, "colour", 2, c)'
  <2>1. CASE c = 0
    BY <2>1 DEF Stands
  <2>2. CASE c # 0
    <3>1. "colour" \in Classes /\ 2 \in Nat
      BY DEF Classes
    <3>2. Holds(b, 2, Text("colour", c))
      BY <2>2, <1>1 DEF HeadRight
    <3>. QED  BY <3>1, <3>2, StandsAfter
  <2>. QED  BY <2>1, <2>2
<1>9. ASSUME NEW i \in 1 .. d
      PROVE  Line'[(e + 1) + i] = <<"digit", (a.tick \div 10^(d - i)) % 10>>
  <2>1. PICK p \in 1 .. f.len : p = (e + 1) + i /\ p <= S /\ p <= Limit
    <3>1. (e + 1) + i \in Int /\ 1 <= (e + 1) + i /\ (e + 1) + i <= S
      BY <1>2, <1>3, <1>6
    <3>. QED  BY <3>1, <1>6
  <2>2. Line'[p] = b.mem[p - 1]
    BY <2>1, LineAfter
  <2>3. PICK u : u = ulog_ultoa(a.tick)
    OBVIOUS
  <2>4. Len(u) = d /\ u[i] = DigitAt(a.tick, d - i)
    BY <2>3, <1>3, UltoaProperties DEF HasHead
  <2>5. Holds(b, e + 1, u)
    BY <2>3, <1>2 DEF HeadRight
  <2>6. b.mem[(e + 1) + i - 1] = u[i]
    BY <2>1, <2>4, <2>5 DEF Holds
  <2>. QED  BY <2>1, <2>2, <2>4, <2>6 DEF DigitAt
<1>10. Stands(a, "tag", HeadLen(a) - 2 - n, n)'
  <2>1. "tag" \in Classes
    BY DEF Classes
  <2>2. PICK first \in Nat : first = HeadLen(a) - 2 - n
    BY <1>5
  <2>3. Holds(b, first, Text("tag", n))
    BY <2>2, <1>4 DEF HeadRight
  <2>4. Stands(a, "tag", first, n)'
    BY <2>1, <2>3, StandsAfter
  <2>. QED  BY <2>2, <2>4
<1>. QED  BY <1>1, <1>2, <1>3, <1>4, <1>7, <1>8, <1>9, <1>10 DEF HeadStands

\* x and y are the lengths of the newline and of the end of the colour.
LEMMA TailAfter ==
  ASSUME NEW a, HasHead(a), NEW b, NEW f, NEW S, Outcome(a, b, f, S),
         NEW x \in 0 .. 2, a.newline => x = 2, ~ a.newline => x = 0,
         NEW y \in 0 .. 4, Colours[a.level] = 0 => y = 0, Colours[a.level] # 0 => y = 4,
         NEW done, TailRight(done, S, x, y, f)
  PROVE  /\ TailStands(a)'
         /\ \A i \in 1 .. f.len : i > S => Line'[i] # NUL
<1>1. /\ S \in Nat /\ f.len \in Nat /\ S <= f.len /\ Shown(a)' = S
      /\ log_buf_th' = f.mem /\ line'.len = f.len
  BY DEF Outcome
<1>2. /\ f.len = S + x + y
      /\ \A i \in 1 .. x : f.mem[S + i - 1] = <<"newline", i>>
      /\ \A i \in 1 .. y : f.mem[S + x + i - 1] = <<"csi_end", i>>
      /\ f.mem[f.len] = NUL
  BY DEF TailRight
<1>3. ASSUME NEW i \in 1 .. x PROVE Line'[S + i] = <<"newline", i>>
  <2>1. PICK p \in 1 .. f.len : p = S + i
    BY <1>1, <1>2
  <2>2. Line'[p] = f.mem[p - 1]
    BY <2>1, LineAfter
  <2>3. f.mem[S + i - 1] = <<"newline", i>>
    BY <1>2
  <2>4. S + i - 1 = p - 1
    BY <2>1, <1>1
  <2>. QED  BY <2>1, <2>2, <2>3, <2>4
<1>4. ASSUME NEW i \in 1 .. y PROVE Line'[S + x + i] = <<"csi_end", i>>
  <2>1. PICK p \in 1 .. f.len : p = S + x + i
    BY <1>1, <1>2
  <2>2. Line'[p] = f.mem[p - 1]
    BY <2>1, LineAfter
  <2>3. f.mem[S + x + i - 1] = <<"csi_end", i>>
    BY <1>2
  <2>4. S + x + i - 1 = p - 1
    BY <2>1, <1>1
  <2>. QED  BY <2>1, <2>2, <2>3, <2>4
<1>5. x = IF a.newline THEN 2 ELSE 0
  OBVIOUS
<1>6. y = IF Colours[a.level] = 0 THEN 0 ELSE 4
  OBVIOUS
<1>7. TailStands(a)'
  BY <1>1, <1>2, <1>3, <1>4, <1>5, <1>6 DEF TailStands
<1>8. ASSUME NEW i \in 1 .. f.len, i > S PROVE Line'[i] # NUL
  <2>1. CASE i <= S + x
    <3>1. PICK j \in 1 .. x : i = S + j
      <4>1. i - S \in 1 .. x /\ i = S + (i - S)
        BY <2>1, <1>1, <1>8
      <4>. QED  BY <4>1
    <3>. QED  BY <3>1, <1>3 DEF NUL
  <2>2. CASE ~ (i <= S + x)
    <3>1. PICK j \in 1 .. y : i = S + x + j
      <4>1. i - (S + x) \in 1 .. y /\ i = S + x + (i - (S + x))
        BY <2>2, <1>1, <1>2
      <4>. QED  BY <4>1
    <3>. QED  BY <3>1, <1>4 DEF NUL
  <2>. QED  BY <2>1, <2>2
<1>. QED  BY <1>7, <1>8

\* How much of N characters is shown before the tail.
LEMMA ShownAt ==
  ASSUME NEW N \in Nat, NEW S, S = Min({N, Limit})
  PROVE  /\ S \in Nat /\ S <= Limit
         /\ N <= Limit => S = N
         /\ N > Limit => S = Limit
<1>1. N \in Int /\ Limit \in Int /\ Limit \in Nat
  BY LineSizes
<1>2. S = IF N < Limit THEN N ELSE Limit
  BY <1>1, TwoMin
<1>. QED  BY <1>1, <1>2

\* The head stays what it is while what is behind it is written.
LEMMA HeadKept ==
  ASSUME NEW a, HasHead(a), NEW h, HeadRight(h, a), NEW b, Keeps(h, b, HeadLen(a))
  PROVE  HeadRight(b, a)
<1>0. PICK H \in Nat : H = HeadLen(a) /\ Keeps(h, b, H)
  BY HeadLengths
<1>1. ASSUME NEW first \in Nat, NEW text \in Seq(Chars), Holds(h, first, text),
             first + Len(text) <= H
      PROVE  Holds(b, first, text)
  <2>1. PICK n \in Nat : n = Len(text)
    BY LenProperties
  <2>2. ASSUME NEW i \in 1 .. n, first + i <= Limit PROVE b.mem[first + i - 1] = text[i]
    <3>1. PICK p \in 1 .. H : p = first + i
      BY <1>1, <2>1
    <3>2. b.mem[p - 1] = h.mem[p - 1]
      BY <3>1, <2>2, <1>0 DEF Keeps
    <3>3. h.mem[first + i - 1] = text[i]
      BY <1>1, <2>1, <2>2 DEF Holds
    <3>. QED  BY <3>1, <3>2, <3>3
  <2>. QED  BY <2>1, <2>2 DEF Holds
<1>2. PICK c \in Nat : c = Colours[a.level]
  BY HeadLengths
<1>3. PICK e \in Nat : e = ColourLen(a) /\ e = IF c = 0 THEN 0 ELSE 2 + c
  BY <1>2, HeadLengths
<1>4. PICK d \in 1 .. 10 : d = Digits(a.tick)
  BY HeadLengths
<1>5. PICK n \in Nat : n = a.tag
  BY DEF HasHead
<1>6. H = e + d + n + 7
  BY <1>3, <1>4, <1>5, <1>0, HeadLengths
<1>7. ASSUME c # 0 PROVE Holds(b, 0, CSI_START) /\ Holds(b, 2, Text("colour", c))
  <2>1. PICK s \in Seq(Chars) : s = CSI_START /\ Len(s) = 2
    BY PlainText DEF CSI_START, Classes, Plain
  <2>2. PICK t \in Seq(Chars) : t = Text("colour", c) /\ Len(t) = c
    BY PlainText DEF Classes, Plain
  <2>3. 0 \in Nat /\ 2 \in Nat /\ 0 + Len(s) <= H /\ 2 + Len(t) <= H
    BY <2>1, <2>2, <1>3, <1>6, <1>7
  <2>4. Holds(h, 0, s) /\ Holds(h, 2, t)
    BY <2>1, <2>2, <1>2, <1>7 DEF HeadRight
  <2>. QED  BY <2>1, <2>2, <2>3, <2>4, <1>1
<1>8. Holds(b, e + 1, ulog_ultoa(a.tick))
  <2>1. PICK u \in Seq(Chars) : u = ulog_ultoa(a.tick) /\ Len(u) = d
    BY <1>4, UltoaProperties DEF HasHead
  <2>2. PICK first \in Nat : first = e + 1 /\ first + Len(u) <= H
    BY <2>1, <1>6
  <2>3. Holds(h, first, u)
    BY <2>1, <2>2, <1>3 DEF HeadRight
  <2>. QED  BY <2>1, <2>2, <2>3, <1>1
<1>9. Holds(b, H - 2 - n, Text("tag", n))
  <2>1. PICK t \in Seq(Chars) : t = Text("tag", n) /\ Len(t) = n
    BY PlainText DEF Classes, Plain
  <2>2. PICK first \in Nat : first = H - 2 - n /\ first + Len(t) <= H
    BY <2>1, <1>6
  <2>3. Holds(h, first, t)
    BY <2>1, <2>2, <1>0, <1>5 DEF HeadRight
  <2>. QED  BY <2>1, <2>2, <2>3, <1>1
<1>. QED  BY <1>2, <1>3, <1>5, <1>0, <1>7, <1>8, <1>9 DEF HeadRight

\* The line of ulog_formater, whatever vsnprintf returned.
LEMMA LogFormatted ==
  ASSUME NEW a, HasHead(a), a.result \in Nat \cup {-1}, NEW mem,
         NEW f, f = ulog_formater(mem, a.level, Text("tag", a.tag), a.tick, a.newline, a.result),
         NEW x \in 0 .. 2, a.newline => x = 2, ~ a.newline => x = 0,
         NEW y \in 0 .. 4, Colours[a.level] = 0 => y = 0, Colours[a.level] # 0 => y = 4,
         NEW S \in Nat, a.result = -1 => S = Limit,
         a.result # -1 => S = Min({HeadLen(a) + a.result, Limit})
  PROVE  \E b : /\ HeadRight(b, a) /\ TailRight(b, S, x, y, f) /\ f.top <= LineSize
                /\ a.result # -1 =>
                     BodyRight(ulog_head_formater(Buffer(mem), a.level, Text("tag", a.tag), a.tick),
                               HeadLen(a), a.result, b)
<1>1. PICK H \in Nat : H = HeadLen(a)
  BY HeadLengths
<1>2. PICK r \in Int : r = a.result /\ r >= -1
  OBVIOUS
<1>3. PICK h : h = ulog_head_formater(Buffer(mem), a.level, Text("tag", a.tag), a.tick)
  OBVIOUS
<1>4. Good(h, H) /\ HeadRight(h, a)
  BY <1>1, <1>3, HeadFormatted
<1>5. IsBuffer(h) /\ Full(h, H) /\ Inside(h)
  BY <1>4 DEF Good
<1>6. PICK l \in Nat : l = h.len /\ l <= LineSize
  BY <1>5 DEF IsBuffer, Inside
<1>7. (H <= LineSize => l = H) /\ (H > LineSize => l >= LineSize)
  BY <1>5, <1>6 DEF Full
<1>8. LineSize \in Nat /\ Limit = LineSize - 7 /\ Limit \in Nat
  BY LineSizes
<1>9. PICK done : done = IF a.result = -1 THEN h
                         ELSE vsnprintf(h, LineSize - h.len, Text("body", a.result))
  OBVIOUS
<1>10. PICK len : len = LengthAfter(h.len, a.result)
  OBVIOUS
<1>11. /\ r > -1 /\ l + r <= LineSize => len = l + r
       /\ ~ (r > -1 /\ l + r <= LineSize) => len = LineSize
  BY <1>2, <1>6, <1>10 DEF LengthAfter
<1>12. len \in Nat
  BY <1>6, <1>8, <1>11
<1>13. PICK b : b = SetLen(done, len)
  OBVIOUS
<1>14. f = ulog_tail_formater(b, a.newline, a.level)
  BY <1>3, <1>9, <1>10, <1>13 DEF ulog_formater
<1>15. b.len = len /\ b.mem = done.mem /\ b.top = done.top
  BY <1>13 DEF SetLen
<1>16. (len <= Limit => S = len) /\ (len > Limit => S = Limit)
  <2>1. CASE r = -1
    BY <2>1, <1>2, <1>8, <1>11
  <2>2. CASE r # -1
    <3>1. PICK N \in Nat : N = H + r
      BY <2>2, <1>2
    <3>2. (N <= Limit => S = N) /\ (N > Limit => S = Limit)
      BY <2>2, <3>1, <1>1, <1>2, ShownAt
    <3>3. N <= Limit => len = N
      BY <2>2, <3>1, <1>2, <1>7, <1>8, <1>11
    <3>4. N > Limit => len > Limit
      BY <2>2, <3>1, <1>2, <1>6, <1>7, <1>8, <1>11
    <3>. QED  BY <3>1, <3>2, <3>3, <3>4, <1>12, <1>8
  <2>. QED  BY <2>1, <2>2
<1>17. CASE r = -1
  <2>1. done = h
    BY <1>2, <1>9, <1>17
  <2>2. IsBuffer(b) /\ b.top <= LineSize
    BY <2>1, <1>5, <1>12, <1>15 DEF IsBuffer, Inside
  <2>3. HeadRight(b, a)
    BY <2>1, <1>4, <1>15 DEF HeadRight, Holds
  <2>4. TailRight(b, S, x, y, f)
    <3>1. a.level \in DOMAIN Colours
      BY DEF HasHead
    <3>. QED  BY <3>1, <2>2, <1>14, <1>15, <1>16, TailFormatted
  <2>5. f.top <= LineSize
    <3>1. b.top \in Int /\ f.top \in Int /\ (f.top <= b.top \/ f.top <= LineSize)
      BY <2>2, <2>4 DEF TailRight, IsBuffer
    <3>. QED  BY <3>1, <2>2, <1>8
  <2>. QED  BY <2>3, <2>4, <2>5, <1>2, <1>17
<1>18. CASE r # -1
  <2>1. r \in Nat /\ done = vsnprintf(h, LineSize - h.len, Text("body", r))
    BY <1>2, <1>9, <1>18
  <2>2. BodyRight(h, H, r, done)
    BY <2>1, <1>4, BodyFormatted
  <2>3. IsBuffer(b) /\ b.top <= LineSize
    BY <2>2, <1>12, <1>15 DEF BodyRight, IsBuffer, Inside
  <2>4. HeadRight(b, a)
    <3>1. Keeps(h, b, H)
      BY <2>2, <1>15 DEF BodyRight, Keeps
    <3>. QED  BY <3>1, <1>1, <1>4, HeadKept
  <2>5. TailRight(b, S, x, y, f)
    <3>1. a.level \in DOMAIN Colours
      BY DEF HasHead
    <3>. QED  BY <3>1, <2>3, <1>14, <1>15, <1>16, TailFormatted
  <2>6. f.top <= LineSize
    <3>1. b.top \in Int /\ f.top \in Int /\ (f.top <= b.top \/ f.top <= LineSize)
      BY <2>3, <2>5 DEF TailRight, IsBuffer
    <3>. QED  BY <3>1, <2>3, <1>8
  <2>7. BodyRight(h, H, r, b)
    <3>1. Inside(b)
      BY <2>3, <1>8, <1>11, <1>6, <1>15 DEF Inside
    <3>2. Keeps(h, b, H)
      BY <2>2, <1>15 DEF BodyRight, Keeps
    <3>3. Clean(b, H + r)
      BY <2>2, <1>15 DEF BodyRight, Clean
    <3>4. Holds(b, H, Text("body", r))
      BY <2>2, <1>15 DEF BodyRight, Holds
    <3>. QED  BY <2>3, <3>1, <3>2, <3>3, <3>4 DEF BodyRight
  <2>. QED  BY <2>4, <2>5, <2>6, <2>7, <1>1, <1>2, <1>3
<1>. QED  BY <1>17, <1>18
\* A call leaves its line: the buffer, and what was asked for.
Left(kind, a, f) ==
  log_buf_th' = f.mem /\ line' = [kind |-> kind, args |-> a, len |-> f.len, top |-> f.top]

\* A call of ulog_formater leaves its line intact.
LEMMA LogIntact ==
  ASSUME NEW a, HasHead(a), a.result \in Nat \cup {-1},
         NEW f, f = ulog_formater(log_buf_th, a.level, Text("tag", a.tag), a.tick, a.newline, a.result),
         Left("log", a, f)
  PROVE  FormattedIntact'
<1>1. PICK H \in Nat : H = HeadLen(a) /\ H >= ColourLen(a) + Digits(a.tick) + 7
  <2>1. PICK d \in 1 .. 10 : d = Digits(a.tick)
    BY HeadLengths
  <2>2. PICK n \in Nat : n = a.tag
    BY DEF HasHead
  <2>3. PICK e \in Nat : e = ColourLen(a)
    BY HeadLengths
  <2>4. HeadLen(a) = e + d + n + 7
    BY <2>1, <2>2, <2>3, HeadLengths
  <2>. QED  BY <2>1, <2>3, <2>4
<1>2. PICK r \in Int : r = a.result /\ r >= -1
  OBVIOUS
<1>3. PICK x \in 0 .. 2 : (a.newline => x = 2) /\ (~ a.newline => x = 0)
  <2>1. CASE a.newline
    BY <2>1
  <2>2. CASE ~ a.newline
    BY <2>2
  <2>. QED  BY <2>1, <2>2
<1>4. PICK y \in 0 .. 4 : (Colours[a.level] = 0 => y = 0) /\ (Colours[a.level] # 0 => y = 4)
  OBVIOUS
<1>5. PICK S : S = IF r = -1 THEN Limit ELSE Min({H + r, Limit})
  OBVIOUS
<1>6. /\ S \in Nat /\ S <= Limit /\ (r = -1 => S = Limit)
      /\ r # -1 => (H + r <= Limit => S = H + r) /\ (H + r > Limit => S = Limit)
  <2>1. CASE r = -1
    BY <2>1, <1>5, LineSizes
  <2>2. CASE r # -1
    <3>1. PICK N \in Nat : N = H + r
      BY <2>2, <1>2
    <3>2. S = Min({N, Limit})
      BY <2>2, <3>1, <1>5
    <3>. QED  BY <2>2, <3>1, <3>2, ShownAt
  <2>. QED  BY <2>1, <2>2
<1>7. PICK h : h = ulog_head_formater(Buffer(log_buf_th), a.level, Text("tag", a.tag), a.tick)
  OBVIOUS
<1>8. PICK b : /\ HeadRight(b, a) /\ TailRight(b, S, x, y, f) /\ f.top <= LineSize
               /\ r # -1 => BodyRight(h, H, r, b)
  <2>1. a.result # -1 => S = Min({HeadLen(a) + a.result, Limit})
    BY <1>1, <1>2, <1>5
  <2>2. a.result = -1 => S = Limit
    BY <1>2, <1>6
  <2>3. \E b : /\ HeadRight(b, a) /\ TailRight(b, S, x, y, f) /\ f.top <= LineSize
               /\ a.result # -1 =>
                    BodyRight(ulog_head_formater(Buffer(log_buf_th), a.level, Text("tag", a.tag), a.tick),
                              HeadLen(a), a.result, b)
    BY <2>1, <2>2, <1>3, <1>4, <1>6, LogFormatted
  <2>. QED  BY <2>3, <1>1, <1>2, <1>7
<1>9. /\ line'.kind = "log" /\ line'.args = a /\ line'.len = f.len /\ line'.top = f.top
      /\ log_buf_th' = f.mem
  BY DEF Left
<1>10. Shown(a)' = S
  <2>1. AskedLen(a)' = H + r
    BY <1>1, <1>2, <1>9 DEF AskedLen
  <2>. QED  BY <2>1, <1>2, <1>5, <1>9 DEF Shown
<1>11. Outcome(a, b, f, S)
  <2>1. f.len \in Nat /\ S <= f.len
    <3>1. f.len = S + x + y
      BY <1>8 DEF TailRight
    <3>. QED  BY <3>1, <1>6
  <2>2. \A i \in 1 .. S : f.mem[i - 1] = b.mem[i - 1]
    BY <1>8 DEF TailRight
  <2>. QED  BY <2>1, <2>2, <1>6, <1>9, <1>10 DEF Outcome
<1>12. ColourLen(a) + Digits(a.tick) + 1 <= S
  <2>1. PICK e \in Nat : e = ColourLen(a) /\ e + 19 <= LineSize
    BY HeadLengths
  <2>2. PICK d \in 1 .. 10 : d = Digits(a.tick)
    BY HeadLengths
  <2>3. e + d + 1 <= Limit
    BY <2>1, LineSizes
  <2>4. r # -1 => e + d + 1 <= H + r
    BY <2>1, <2>2, <1>1, <1>2
  <2>5. PICK k \in Nat : k = e + d + 1
    OBVIOUS
  <2>6. k <= S
    <3>1. CASE r = -1
      BY <3>1, <2>3, <2>5, <1>6
    <3>2. CASE r # -1
      <4>1. (H + r <= Limit => S = H + r) /\ (H + r > Limit => S = Limit)
        BY <3>2, <1>6
      <4>2. H + r \in Int /\ Limit \in Int /\ k <= Limit /\ k <= H + r
        BY <3>2, <2>3, <2>4, <2>5, <1>1, <1>2, LineSizes
      <4>. QED  BY <4>1, <4>2
    <3>. QED  BY <3>1, <3>2
  <2>. QED  BY <2>1, <2>2, <2>5, <2>6
<1>13. HeadStands(a)'
  BY <1>8, <1>11, <1>12, HeadAfter
<1>14. TailStands(a)' /\ \A i \in 1 .. f.len : i > S => Line'[i] # NUL
  BY <1>3, <1>4, <1>8, <1>11, TailAfter
<1>15. ASSUME r # -1 PROVE Stands(a, "body", H, r)' /\ \A i \in 1 .. f.len : Line'[i] # NUL
  <2>1. BodyRight(h, H, r, b) /\ r \in Nat /\ "body" \in Classes
    BY <1>2, <1>8, <1>15 DEF Classes
  <2>2. Stands(a, "body", H, r)'
    BY <2>1, <1>11, StandsAfter DEF BodyRight
  <2>3. ASSUME NEW i \in 1 .. f.len, i <= S PROVE Line'[i] # NUL
    <3>1. i \in 1 .. H + r /\ i <= Limit
      BY <2>1, <2>3, <1>6, <1>15, LineSizes
    <3>2. b.mem[i - 1] # NUL
      BY <3>1, <2>1 DEF BodyRight, Clean
    <3>. QED  BY <3>2, <2>3, <1>11, LineAfter
  <2>4. \A i \in 1 .. f.len : i <= S \/ i > S
    BY <1>6, <1>11 DEF Outcome
  <2>. QED  BY <2>2, <2>3, <2>4, <1>14
<1>16. ~ (line'.top > LineSize)
  <2>1. f.top \in Int /\ f.top <= LineSize
    BY <1>8 DEF TailRight
  <2>. QED  BY <2>1, <1>9, LineSizes
<1>. QED  BY <1>1, <1>2, <1>9, <1>13, <1>14, <1>15, <1>16 DEF FormattedIntact
-----------------------------------------------------------------------------
\* The line of ulog_raw.
LEMMA RawAfter ==
  ASSUME NEW n \in Nat \cup {-1}, NEW f, f = RawLine(log_buf_th, n),
         Left("raw", [result |-> n], f)
  PROVE  RawIntact'
<1>1. /\ line'.kind = "raw" /\ line'.args.result = n /\ line'.len = f.len /\ line'.top = f.top
      /\ log_buf_th' = f.mem
  BY DEF Left
<1>2. SUFFICES ASSUME n # -1
               PROVE  /\ f.len = Min({n, LineSize}) /\ f.top < LineSize
                      /\ \A i \in 1 .. Min({n, LineSize - 1}) : Line'[i] = <<"body", i>>
                      /\ n >= LineSize => Line'[LineSize] = NUL
  BY <1>1 DEF RawIntact
<1>3. n \in Nat /\ LineSize \in Nat \ {0} /\ "body" \in Classes
  BY <1>2, LineSizes DEF Classes
<1>4. PICK k \in Nat : (n < LineSize => k = n) /\ (n >= LineSize => k = LineSize - 1)
  <2>1. CASE n < LineSize
    BY <2>1, <1>3
  <2>2. CASE n >= LineSize
    <3>1. LineSize - 1 \in Nat
      BY <1>3
    <3>2. PICK m \in Nat : m = LineSize - 1
      BY <3>1
    <3>3. ~ (n < LineSize)
      BY <2>2, <1>3
    <3>. QED  BY <3>2, <3>3
  <2>3. n < LineSize \/ n >= LineSize
    BY <1>3
  <2>. QED  BY <2>1, <2>2, <2>3
<1>5. PICK b : b = Buffer(log_buf_th)
  OBVIOUS
<1>6. b.len = 0 /\ b.top = -1 /\ IsBuffer(b)
  BY <1>5 DEF Buffer, IsBuffer
<1>7. PICK done : done = vsnprintf(b, LineSize, Text("body", n))
  OBVIOUS
<1>8. PICK text : StoredText(text, "body", k) /\ done = Store(b, text, b.len)
  BY <1>3, <1>4, <1>6, <1>7, VsnprintfStores
<1>9. /\ text \in Seq(Chars) /\ Len(text) = k + 1
      /\ \A i \in 1 .. k : text[i] = <<"body", i>>
      /\ text[k + 1] = NUL
  BY <1>8 DEF StoredText
<1>10. Stored(b, text, 0, done)
  <2>1. 0 \in Nat /\ done = Store(b, text, 0)
    BY <1>6, <1>8
  <2>. QED  BY <2>1, <1>6, <1>9, StoreProperties
<1>11. /\ done.top = IF -1 < 0 + (k + 1) - 1 THEN 0 + (k + 1) - 1 ELSE -1
       /\ \A p \in Memory : 0 <= p /\ p < 0 + (k + 1) => done.mem[p] = text[p - 0 + 1]
  BY <1>6, <1>9, <1>10 DEF Stored
<1>12. ASSUME NEW i \in 1 .. k + 1 PROVE done.mem[i - 1] = text[i]
  <2>1. k < LineSize
    BY <1>3, <1>4
  <2>2. i - 1 \in Memory /\ 0 <= i - 1 /\ i - 1 < 0 + (k + 1) /\ (i - 1) - 0 + 1 = i
    BY <2>1, LineSizes
  <2>. QED  BY <2>2, <1>11
<1>13. f = SetLen(done, LengthAfter(0, n))
  BY <1>2, <1>5, <1>7 DEF RawLine
<1>14. f.mem = done.mem /\ f.top = k /\ f.len = LengthAfter(0, n)
  <2>1. done.top = k
    BY <1>11
  <2>. QED  BY <2>1, <1>13 DEF SetLen
<1>15. (n <= LineSize => f.len = n) /\ (n > LineSize => f.len = LineSize)
  BY <1>3, <1>14 DEF LengthAfter
<1>16. Min({n, LineSize}) = f.len
  <2>1. n \in Int /\ LineSize \in Int
    BY <1>3
  <2>2. Min({n, LineSize}) = IF n < LineSize THEN n ELSE LineSize
    BY <2>1, TwoMin
  <2>. QED  BY <2>2, <1>3, <1>15
<1>17. Min({n, LineSize - 1}) = k
  <2>1. n \in Int /\ LineSize - 1 \in Int
    BY <1>3
  <2>2. Min({n, LineSize - 1}) = IF n < LineSize - 1 THEN n ELSE LineSize - 1
    BY <2>1, TwoMin
  <2>. QED  BY <2>2, <1>3, <1>4
<1>18. Line' = [i \in 1 .. f.len |-> f.mem[i - 1]]
  BY <1>1 DEF Line
<1>19. ASSUME NEW i \in 1 .. k PROVE Line'[i] = <<"body", i>>
  <2>1. i \in 1 .. f.len /\ i \in 1 .. k + 1
    BY <1>3, <1>4, <1>15
  <2>. QED  BY <2>1, <1>9, <1>12, <1>14, <1>18
<1>20. ASSUME n >= LineSize PROVE Line'[LineSize] = NUL
  <2>1. LineSize \in 1 .. f.len /\ LineSize = k + 1 /\ k + 1 \in 1 .. k + 1
    BY <1>3, <1>4, <1>15, <1>20
  <2>2. done.mem[LineSize - 1] = text[k + 1]
    BY <2>1, <1>12
  <2>3. Line'[LineSize] = f.mem[LineSize - 1]
    BY <2>1, <1>18
  <2>. QED  BY <2>2, <2>3, <1>9, <1>14
<1>21. f.top < LineSize
  BY <1>3, <1>4, <1>14
<1>. QED  BY <1>16, <1>17, <1>19, <1>20, <1>21
-----------------------------------------------------------------------------
\* The rows of a hexdump.

\* The quotient and the rest of a division.
LEMMA Division ==
  ASSUME NEW w \in Nat \ {0}, NEW i \in Nat
  PROVE  /\ i \div w \in Nat /\ (i % w) \in 0 .. w - 1
         /\ i = w * (i \div w) + (i % w)
OBVIOUS

\* A number is in the row of one multiple only.
LEMMA OneMultiple ==
  ASSUME NEW w \in Nat \ {0}, NEW p \in Nat, NEW q \in Nat, NEW i \in Nat,
         w * p <= i, i < w * p + w, w * q <= i, i < w * q + w
  PROVE  p = q
<1>1. ASSUME p < q PROVE FALSE
  <2>1. PICK d \in Nat : q = p + 1 + d
    <3>1. q - p - 1 \in Nat /\ q = p + 1 + (q - p - 1)
      BY <1>1
    <3>. QED  BY <3>1
  <2>2. w * q = w * p + w + w * d
    BY <2>1
  <2>3. w * d >= 0 /\ w * d \in Nat /\ w * p \in Nat
    OBVIOUS
  <2>. QED  BY <2>2, <2>3
<1>2. ASSUME q < p PROVE FALSE
  <2>1. PICK d \in Nat : p = q + 1 + d
    <3>1. p - q - 1 \in Nat /\ p = q + 1 + (p - q - 1)
      BY <1>2
    <3>. QED  BY <3>1
  <2>2. w * p = w * q + w + w * d
    BY <2>1
  <2>3. w * d >= 0 /\ w * d \in Nat /\ w * q \in Nat
    OBVIOUS
  <2>. QED  BY <2>2, <2>3
<1>. QED  BY <1>1, <1>2

\* A multiple leaves no rest.
LEMMA MultipleLeaves ==
  ASSUME NEW w \in Nat \ {0}, NEW p \in Nat
  PROVE  (w * p) % w = 0
OBVIOUS

\* Every byte is in the one row that begins at the multiple of width before it.
LEMMA RowsCoverAll ==
  ASSUME NEW w \in Nat \ {0}, NEW s \in Nat, NEW i \in 0 .. s - 1
  PROVE  Cardinality({r \in Rows(w, s) : i \in r.from .. r.from + r.size - 1}) = 1
<1>. DEFINE Row(m) == [from |-> m, size |-> IF m + w > s THEN s - m ELSE w]
<1>1. \A r : r \in Rows(w, s) <=> \E m \in 0 .. s - 1 : (m % w) = 0 /\ r = Row(m)
  BY DEF Rows
<1>2. i \in Nat /\ i < s
  OBVIOUS
<1>3. PICK p \in Nat : w * p <= i /\ i < w * p + w
  <2>1. PICK p \in Nat : p = i \div w
    BY <1>2, Division
  <2>2. PICK rest \in 0 .. w - 1 : i = w * p + rest
    BY <1>2, <2>1, Division
  <2>3. w * p \in Nat
    OBVIOUS
  <2>. QED  BY <2>2, <2>3
<1>4. PICK m \in Nat : m = w * p /\ (m % w) = 0
  <2>1. w * p \in Nat
    OBVIOUS
  <2>. QED  BY <2>1, MultipleLeaves
<1>5. m \in 0 .. s - 1 /\ m <= i /\ i < m + w
  BY <1>2, <1>3, <1>4
<1>6. \A n \in 0 .. s - 1 : i \in Row(n).from .. Row(n).from + Row(n).size - 1 <=> n <= i /\ i < n + w
  <2>1. ASSUME NEW n \in 0 .. s - 1
        PROVE  i \in Row(n).from .. Row(n).from + Row(n).size - 1 <=> n <= i /\ i < n + w
    <3>1. PICK z \in Int : z = Row(n).size /\ (n + w > s => z = s - n) /\ (~ (n + w > s) => z = w)
      OBVIOUS
    <3>2. i \in n .. n + z - 1 <=> n <= i /\ i < n + w
      BY <1>2, <3>1
    <3>. QED  BY <3>1, <3>2
  <2>. QED  BY <2>1
<1>7. ASSUME NEW n \in 0 .. s - 1, (n % w) = 0, n <= i, i < n + w PROVE n = m
  <2>1. PICK q \in Nat : q = n \div w
    BY Division
  <2>2. n = w * q + (n % w)
    BY <2>1, Division
  <2>3. n = w * q
    <3>1. w * q \in Nat
      OBVIOUS
    <3>. QED  BY <2>2, <3>1, <1>7
  <2>4. q = p
    BY <2>3, <1>2, <1>3, <1>7, OneMultiple
  <2>. QED  BY <2>3, <2>4, <1>4
<1>8. Row(m) \in Rows(w, s) /\ i \in Row(m).from .. Row(m).from + Row(m).size - 1
  <2>. HIDE DEF Row
  <2>. QED  BY <1>1, <1>4, <1>5, <1>6
<1>9. ASSUME NEW r \in Rows(w, s), i \in r.from .. r.from + r.size - 1 PROVE r = Row(m)
  <2>. HIDE DEF Row
  <2>1. PICK n \in 0 .. s - 1 : (n % w) = 0 /\ r = Row(n)
    BY <1>1
  <2>2. n <= i /\ i < n + w
    BY <2>1, <1>6, <1>9
  <2>3. n = m
    BY <2>1, <2>2, <1>7
  <2>. QED  BY <2>1, <2>3
<1>10. {r \in Rows(w, s) : i \in r.from .. r.from + r.size - 1} = {Row(m)}
  <2>. HIDE DEF Row
  <2>. QED  BY <1>8, <1>9
<1>. QED  BY <1>10, FS_Singleton
-----------------------------------------------------------------------------
\* Texts t copied one after the other behind the buffer c: text j to place p[j].

IsCopies(f, c, t, n) ==
  f = [j \in 0 .. n |-> IF j = 0 THEN c ELSE ulog_strcpy(f[j - 1], t[j - 1])]

Placed(t, p, n) ==
  /\ n \in Nat /\ \A j \in 0 .. n : p[j] \in Nat
  /\ \A j \in 0 .. n - 1 : t[j] \in Seq(Chars) /\ p[j + 1] = p[j] + Len(t[j])

\* One can go on copying texts.
LEMMA CopiesExist ==
  ASSUME NEW c, NEW t, NEW n \in Nat
  PROVE  \E f : IsCopies(f, c, t, n)
<1>. DEFINE T == {m \in Nat : \E f : IsCopies(f, c, t, m)}
<1>1. 0 \in T
  <2>1. PICK f : f = [j \in 0 .. 0 |-> c]
    OBVIOUS
  <2>2. f = [j \in 0 .. 0 |-> IF j = 0 THEN c ELSE ulog_strcpy(f[j - 1], t[j - 1])]
    BY <2>1
  <2>3. IsCopies(f, c, t, 0)
    BY <2>2 DEF IsCopies
  <2>. QED  BY <2>3
<1>2. ASSUME NEW m \in Nat, m \in T PROVE m + 1 \in T
  <2>1. PICK f : IsCopies(f, c, t, m)
    BY <1>2
  <2>2. PICK g : g = [j \in 0 .. m + 1 |-> IF j = m + 1 THEN ulog_strcpy(f[m], t[m]) ELSE f[j]]
    OBVIOUS
  <2>3. \A j \in 0 .. m : g[j] = f[j] /\ j \in 0 .. m + 1
    BY <2>2
  <2>4. \A j \in 0 .. m : f[j] = IF j = 0 THEN c ELSE ulog_strcpy(f[j - 1], t[j - 1])
    BY <2>1 DEF IsCopies
  <2>5. ASSUME NEW j \in 0 .. m + 1
        PROVE  g[j] = IF j = 0 THEN c ELSE ulog_strcpy(g[j - 1], t[j - 1])
    <3>1. CASE j = m + 1
      <4>1. g[j] = ulog_strcpy(f[m], t[m]) /\ j - 1 = m /\ j # 0 /\ m \in 0 .. m
        BY <3>1, <2>2
      <4>2. g[m] = f[m]
        BY <4>1, <2>3
      <4>. QED  BY <4>1, <4>2
    <3>2. CASE j # m + 1
      <4>1. j \in 0 .. m
        BY <3>2
      <4>2. CASE j = 0
        BY <4>1, <4>2, <2>3, <2>4
      <4>3. CASE j # 0
        <5>1. j - 1 \in 0 .. m
          BY <4>1, <4>3
        <5>. QED  BY <4>1, <4>3, <5>1, <2>3, <2>4
      <4>. QED  BY <4>2, <4>3
    <3>. QED  BY <3>1, <3>2
  <2>6. IsCopies(g, c, t, m + 1)
    <3>1. g = [j \in 0 .. m + 1 |-> g[j]]
      BY <2>2
    <3>. QED  BY <3>1, <2>5 DEF IsCopies
  <2>. QED  BY <2>6
<1>3. Nat \subseteq T
  <2>. HIDE DEF T
  <2>. QED  BY <1>1, <1>2, SetInduction
<1>. QED  BY <1>3

\* All of them stand where they belong.
CopiedTo(c, t, p, j, b) ==
  /\ Step(c, p[0], b, p[j])
  /\ \A i \in 0 .. j - 1 : Holds(b, p[i], t[i])

\* After the last copy all of them stand in the buffer.
LEMMA CopiesStand ==
  ASSUME NEW c, NEW t, NEW p, NEW n, Placed(t, p, n), IsBuffer(c), Full(c, p[0]),
         NEW f, IsCopies(f, c, t, n)
  PROVE  CopiedTo(c, t, p, n, f[n])
<1>. DEFINE T == {j \in Nat : j <= n => /\ CopiedTo(c, t, p, j, f[j])
                                         /\ \A i \in 0 .. j : p[i] <= p[j]}
<1>1. /\ n \in Nat /\ \A j \in 0 .. n : p[j] \in Nat
      /\ \A j \in 0 .. n - 1 : t[j] \in Seq(Chars) /\ p[j + 1] = p[j] + Len(t[j])
  BY DEF Placed
<1>2. \A j \in 0 .. n : f[j] = IF j = 0 THEN c ELSE ulog_strcpy(f[j - 1], t[j - 1])
  BY DEF IsCopies
<1>3. c.top \in Int /\ c.len \in Nat
  BY DEF IsBuffer
<1>4. 0 \in T
  <2>1. f[0] = c /\ 0 \in 0 .. n
    BY <1>1, <1>2
  <2>2. Step(c, p[0], c, p[0])
    BY <1>3 DEF Step, Keeps
  <2>3. CopiedTo(c, t, p, 0, f[0])
    BY <2>1, <2>2 DEF CopiedTo
  <2>4. \A i \in 0 .. 0 : p[i] <= p[0]
    BY <2>1, <1>1
  <2>. QED  BY <2>3, <2>4
<1>5. ASSUME NEW j \in Nat, j \in T PROVE j + 1 \in T
  <2>1. SUFFICES ASSUME j + 1 <= n
                 PROVE  CopiedTo(c, t, p, j + 1, f[j + 1]) /\ \A i \in 0 .. j + 1 : p[i] <= p[j + 1]
    OBVIOUS
  <2>2. j <= n /\ j \in 0 .. n - 1 /\ j \in 0 .. n /\ j + 1 \in 0 .. n /\ (j + 1) - 1 = j /\ j + 1 # 0
    BY <2>1, <1>1
  <2>3. CopiedTo(c, t, p, j, f[j]) /\ \A i \in 0 .. j : p[i] <= p[j]
    BY <2>2, <1>5
  <2>4. PICK text \in Seq(Chars) : text = t[j] /\ p[j + 1] = p[j] + Len(text)
    BY <2>2, <1>1
  <2>5. PICK k \in Nat : k = Len(text)
    BY LenProperties
  <2>6. PICK b : b = f[j]
    OBVIOUS
  <2>7. PICK N \in Nat : N = p[j]
    BY <2>2, <1>1
  <2>8. PICK N2 \in Nat : N2 = p[j + 1] /\ N2 = N + k
    BY <2>4, <2>5, <2>7
  <2>9. PICK b2 : b2 = f[j + 1] /\ b2 = ulog_strcpy(b, text)
    BY <2>2, <2>4, <2>6, <1>2
  <2>10. Step(c, p[0], b, N) /\ \A i \in 0 .. j - 1 : Holds(b, p[i], t[i])
    BY <2>3, <2>6, <2>7 DEF CopiedTo
  <2>11. IsBuffer(b) /\ Full(b, N)
    BY <2>10 DEF Step
  <2>12. Step(b, N, b2, N2) /\ Holds(b2, N, text)
    BY <2>5, <2>8, <2>9, <2>11, CopyStep
  <2>13. PICK N0 \in Nat : N0 = p[0] /\ N0 <= N
    <3>1. 0 \in 0 .. n /\ 0 \in 0 .. j
      BY <1>1
    <3>. QED  BY <3>1, <2>3, <2>7, <1>1
  <2>14. Step(c, N0, b2, N2)
    BY <2>10, <2>12, <2>13, <1>3, Steps
  <2>15. ASSUME NEW i \in 0 .. (j + 1) - 1 PROVE Holds(b2, p[i], t[i])
    <3>1. CASE i = j
      BY <3>1, <2>4, <2>7, <2>12
    <3>2. CASE i # j
      <4>1. i \in 0 .. j - 1 /\ i \in 0 .. n - 1 /\ i \in 0 .. n /\ i + 1 \in 0 .. j
        BY <3>2, <2>1, <1>1
      <4>2. PICK s \in Seq(Chars) : s = t[i] /\ p[i + 1] = p[i] + Len(s)
        BY <4>1, <1>1
      <4>3. PICK first \in Nat : first = p[i]
        BY <4>1, <1>1
      <4>4. first + Len(s) <= N
        BY <4>1, <4>2, <4>3, <2>3, <2>7
      <4>5. Holds(b, first, s)
        BY <4>1, <4>2, <4>3, <2>10
      <4>6. Holds(b2, first, s)
        BY <4>4, <4>5, <2>12, StepHolds
      <4>. QED  BY <4>2, <4>3, <4>6
    <3>. QED  BY <3>1, <3>2
  <2>16. CopiedTo(c, t, p, j + 1, f[j + 1])
    BY <2>8, <2>9, <2>13, <2>14, <2>15 DEF CopiedTo
  <2>17. ASSUME NEW i \in 0 .. j + 1 PROVE p[i] <= p[j + 1]
    <3>1. CASE i = j + 1
      BY <3>1, <2>8
    <3>2. CASE i # j + 1
      <4>1. i \in 0 .. j /\ i \in 0 .. n
        BY <3>2, <2>1, <1>1
      <4>2. p[i] <= N /\ p[i] \in Nat
        BY <4>1, <2>3, <2>7, <1>1
      <4>. QED  BY <4>2, <2>8
    <3>. QED  BY <3>1, <3>2
  <2>. QED  BY <2>16, <2>17
<1>6. n \in T
  <2>1. Nat \subseteq T
    <3>. HIDE DEF T
    <3>. QED  BY <1>4, <1>5, SetInduction
  <2>. QED  BY <2>1, <1>1
<1>. QED  BY <1>6, <1>1
-----------------------------------------------------------------------------
\* The address and the columns of a hexdump.

\* The head, at most the whole of LineSize, leaves no room for the address.
Over(H) == (H <= LineSize => H + AddrLen > LineSize) /\ (H > LineSize => AddrLen > 0)

AddressRight(h, H, c) ==
  /\ IsBuffer(c) /\ Full(c, H + AddrLen) /\ Keeps(h, c, H)
  /\ Over(H) => c.top > LineSize
  /\ ~ Over(H) => Inside(c)

\* The address behind the head; the length goes on as if it had been written in
\* whole.
LEMMA AddressFormatted ==
  ASSUME NEW h, NEW H \in Nat, Good(h, H),
         NEW addr, addr = vsnprintf(h, LineSize, Text("addr", AddrLen)),
         NEW c, c = SetLen(addr, h.len + LengthAfter(0, AddrLen))
  PROVE  AddressRight(h, H, c)
<1>1. IsBuffer(h) /\ Full(h, H) /\ Inside(h)
  BY DEF Good
<1>2. PICK l \in Nat : l = h.len /\ l <= LineSize
  BY <1>1 DEF IsBuffer, Inside
<1>3. PICK top \in Int : top = h.top /\ top <= LineSize
  BY <1>1 DEF IsBuffer, Inside
<1>4. (H <= LineSize => l = H) /\ (H > LineSize => l >= LineSize)
  BY <1>1, <1>2 DEF Full
<1>5. LineSize \in Nat \ {0} /\ AddrLen \in Nat /\ AddrLen < LineSize /\ "addr" \in Classes
  BY LineSizes DEF Classes
<1>6. LengthAfter(0, AddrLen) = AddrLen
  BY <1>5 DEF LengthAfter
<1>7. PICK text : StoredText(text, "addr", AddrLen) /\ addr = Store(h, text, h.len)
  BY <1>1, <1>5, VsnprintfStores
<1>8. text \in Seq(Chars) /\ Len(text) = AddrLen + 1
  BY <1>7 DEF StoredText
<1>9. addr = Store(h, text, l)
  BY <1>2, <1>7
<1>10. StoreRight(h, H, text, l, addr)
  BY <1>1, <1>2, <1>8, <1>9, StoreStep
<1>11. Stored(h, text, l, addr)
  BY <1>1, <1>2, <1>8, <1>9, StoreProperties
<1>12. Keeps(h, addr, H) /\ IsBuffer(addr)
  BY <1>10 DEF StoreRight
<1>13. addr.top = IF top < l + (AddrLen + 1) - 1 THEN l + (AddrLen + 1) - 1 ELSE top
  BY <1>2, <1>3, <1>8, <1>11 DEF Stored
<1>14. c.mem = addr.mem /\ c.len = l + AddrLen /\ c.top = addr.top
  BY <1>2, <1>6 DEF SetLen
<1>15. IsBuffer(c)
  BY <1>5, <1>12, <1>14 DEF IsBuffer
<1>16. Full(c, H + AddrLen)
  <2>1. H + AddrLen <= LineSize => l + AddrLen = H + AddrLen
    BY <1>4, <1>5
  <2>2. H + AddrLen > LineSize => l + AddrLen >= LineSize
    BY <1>4, <1>5
  <2>. QED  BY <2>1, <2>2, <1>14 DEF Full
<1>17. Keeps(h, c, H)
  BY <1>12, <1>14 DEF Keeps
<1>18. Over(H) <=> l + AddrLen > LineSize
  BY <1>2, <1>4, <1>5 DEF Over
<1>19. (l + AddrLen > LineSize => c.top > LineSize) /\ (~ (l + AddrLen > LineSize) => c.top <= LineSize)
  BY <1>3, <1>5, <1>13, <1>14
<1>20. ~ Over(H) => Inside(c)
  <2>1. ~ (l + AddrLen > LineSize) => l + AddrLen <= LineSize
    BY <1>5
  <2>. QED  BY <2>1, <1>14, <1>18, <1>19 DEF Inside
<1>. QED  BY <1>15, <1>16, <1>17, <1>18, <1>19, <1>20 DEF AddressRight

Gap(j) == IF (j + 1) % 8 = 0 THEN 1 ELSE 0

IsCell(c, from, size, j) ==
  /\ c \in Seq(Chars) /\ Len(c) = 3 + Gap(j)
  /\ j < size => c[1] = <<"high", from + j>> /\ c[2] = <<"low", from + j>>

\* A cell is its two digits, or blanks, and its gap.
LEMMA CellProperties ==
  ASSUME NEW from \in Nat, NEW size \in Nat, NEW j \in Nat
  PROVE  IsCell(Cell(from, size, j), from, size, j)
<1>1. PICK hi \in Chars : hi = <<"high", from + j>>
  <2>1. "high" \in Classes /\ from + j \in Int
    BY DEF Classes
  <2>. QED  BY <2>1, Zenon DEF Chars
<1>2. PICK lo \in Chars : lo = <<"low", from + j>>
  <2>1. "low" \in Classes /\ from + j \in Int
    BY DEF Classes
  <2>. QED  BY <2>1, Zenon DEF Chars
<1>3. PICK sp \in Chars : sp = <<"space", 1>>
  <2>1. "space" \in Classes /\ 1 \in Int
    BY DEF Classes
  <2>. QED  BY <2>1, Zenon DEF Chars
<1>4. PICK s : s = IF j < size THEN <<hi, lo, sp>> ELSE <<sp, sp, sp>>
  OBVIOUS
<1>5. s \in Seq(Chars) /\ Len(s) = 3 /\ (j < size => s[1] = hi /\ s[2] = lo)
  BY <1>4
<1>6. PICK t : t = IF (j + 1) % 8 = 0 THEN Space ELSE << >>
  OBVIOUS
<1>7. t \in Seq(Chars) /\ Len(t) = Gap(j)
  <2>1. Space \in Seq(Chars) /\ Len(Space) = 1
    <3>1. "space" \in Classes /\ 1 \in Nat
      BY DEF Classes
    <3>. QED  BY <3>1, TextProperties DEF Space
  <2>2. << >> \in Seq(Chars) /\ Len(<< >>) = 0
    OBVIOUS
  <2>3. CASE (j + 1) % 8 = 0
    <3>1. t = Space /\ Gap(j) = 1
      BY <2>3, <1>6 DEF Gap
    <3>. QED  BY <3>1, <2>1
  <2>4. CASE ~ ((j + 1) % 8 = 0)
    <3>1. t = << >> /\ Gap(j) = 0
      BY <2>4, <1>6 DEF Gap
    <3>. QED  BY <3>1, <2>2
  <2>. QED  BY <2>3, <2>4
<1>8. PICK u : u = s \o t
  OBVIOUS
<1>9. PICK g \in 0 .. 1 : g = Gap(j)
  BY DEF Gap
<1>10. /\ u \in Seq(Chars) /\ Len(u) = 3 + g
       /\ \A i \in 1 .. 3 + g : u[i] = IF i <= 3 THEN s[i] ELSE t[i - 3]
  <2>1. /\ s \o t \in Seq(Chars) /\ Len(s \o t) = Len(s) + Len(t)
        /\ \A i \in 1 .. Len(s) + Len(t) :
              (s \o t)[i] = IF i <= Len(s) THEN s[i] ELSE t[i - Len(s)]
    BY <1>5, <1>7, ConcatProperties
  <2>2. Len(s) = 3 /\ Len(t) = g
    BY <1>5, <1>7, <1>9
  <2>. QED  BY <2>1, <2>2, <1>8
<1>11. u[1] = s[1] /\ u[2] = s[2]
  BY <1>10
<1>12. Cell(from, size, j) = u
  BY <1>1, <1>2, <1>3, <1>4, <1>6, <1>8 DEF Cell
<1>. QED  BY <1>1, <1>2, <1>5, <1>9, <1>10, <1>11, <1>12 DEF IsCell

HasRow(a) == HasHead(a) /\ a.width \in Nat /\ a.row.from \in Nat /\ a.row.size \in Nat

\* Where the columns begin, one after the other.
LEMMA Columns ==
  ASSUME NEW a, HasRow(a)
  PROVE  /\ HexAt(a, 0) = HeadLen(a) + AddrLen
         /\ CharAt(a, 0) = HexAt(a, a.width) + 1
         /\ \A j \in Nat : /\ HexAt(a, j) \in Nat /\ CharAt(a, j) \in Nat
                           /\ HeadLen(a) <= HexAt(a, j)
                           /\ HexAt(a, j + 1) = HexAt(a, j) + 3 + Gap(j)
                           /\ CharAt(a, j + 1) = CharAt(a, j) + 1
                           /\ CharAt(a, 0) <= CharAt(a, j)
<1>1. PICK H \in Nat : H = HeadLen(a)
  BY HeadLengths DEF HasRow
<1>2. AddrLen \in Nat /\ a.width \in Nat
  BY LineSizes DEF HasRow
<1>3. \A j \in Nat : HexAt(a, j) = H + AddrLen + 3 * j + (j \div 8) /\ j \div 8 \in Nat
  BY <1>1 DEF HexAt
<1>4. \A j \in Nat : HexAt(a, j) \in Nat /\ H <= HexAt(a, j)
  <2>1. ASSUME NEW j \in Nat PROVE HexAt(a, j) \in Nat /\ H <= HexAt(a, j)
    <3>1. PICK q \in Nat : q = j \div 8
      OBVIOUS
    <3>2. HexAt(a, j) = H + AddrLen + 3 * j + q
      BY <3>1, <1>3
    <3>3. H + AddrLen + 3 * j + q \in Nat /\ H <= H + AddrLen + 3 * j + q
      BY <1>2
    <3>. QED  BY <3>2, <3>3
  <2>. QED  BY <2>1
<1>5. PICK W \in Nat : W = HexAt(a, a.width)
  BY <1>2, <1>4
<1>6. \A j \in Nat : CharAt(a, j) = W + 1 + j
  BY <1>5 DEF CharAt
<1>7. ASSUME NEW j \in Nat PROVE HexAt(a, j + 1) = HexAt(a, j) + 3 + Gap(j)
  <2>1. (j + 1) \div 8 = (j \div 8) + Gap(j)
    BY DEF Gap
  <2>2. PICK q \in Nat : q = j \div 8
    OBVIOUS
  <2>3. PICK g \in 0 .. 1 : g = Gap(j)
    BY DEF Gap
  <2>4. HexAt(a, j + 1) = H + AddrLen + 3 * (j + 1) + (q + g)
    <3>1. j + 1 \in Nat
      OBVIOUS
    <3>2. HexAt(a, j + 1) = H + AddrLen + 3 * (j + 1) + ((j + 1) \div 8)
      BY <3>1, <1>3
    <3>. QED  BY <3>2, <2>1, <2>2, <2>3
  <2>5. HexAt(a, j) = H + AddrLen + 3 * j + q
    BY <2>2, <1>3
  <2>. QED  BY <2>3, <2>4, <2>5, <1>2
<1>8. HexAt(a, 0) = H + AddrLen
  <2>1. 0 \in Nat /\ 0 \div 8 = 0
    OBVIOUS
  <2>. QED  BY <2>1, <1>2, <1>3
<1>9. \A j \in Nat : /\ CharAt(a, j) \in Nat /\ CharAt(a, j + 1) = CharAt(a, j) + 1
                     /\ CharAt(a, 0) <= CharAt(a, j) /\ CharAt(a, 0) = W + 1
  BY <1>6
<1>. QED  BY <1>1, <1>4, <1>5, <1>7, <1>8, <1>9

\* A later column is further on.
LEMMA HexGrows ==
  ASSUME NEW a, HasRow(a), NEW i \in Nat, NEW j \in Nat, i <= j
  PROVE  HexAt(a, i) <= HexAt(a, j)
<1>1. PICK H \in Nat : H = HeadLen(a)
  BY HeadLengths DEF HasRow
<1>2. AddrLen \in Nat
  BY LineSizes
<1>3. i \div 8 <= j \div 8
  OBVIOUS
<1>4. PICK p \in Nat : p = i \div 8
  OBVIOUS
<1>5. PICK q \in Nat : q = j \div 8
  OBVIOUS
<1>6. HexAt(a, i) = H + AddrLen + 3 * i + p /\ HexAt(a, j) = H + AddrLen + 3 * j + q
  BY <1>1, <1>4, <1>5 DEF HexAt
<1>. QED  BY <1>2, <1>3, <1>4, <1>5, <1>6
CharText(a, j) == <<<<"char", a.row.from + j>>>>

\* The character of one byte.
LEMMA CharTextProperties ==
  ASSUME NEW a, HasRow(a), NEW j \in Nat
  PROVE  /\ CharText(a, j) \in Seq(Chars) /\ Len(CharText(a, j)) = 1
         /\ CharText(a, j)[1] = <<"char", a.row.from + j>>
<1>1. PICK x \in Chars : x = <<"char", a.row.from + j>>
  <2>1. "char" \in Classes /\ a.row.from + j \in Int
    BY DEF Classes, HasRow
  <2>. QED  BY <2>1, Zenon DEF Chars
<1>2. <<x>> \in Seq(Chars) /\ Len(<<x>>) = 1 /\ <<x>>[1] = x
  OBVIOUS
<1>3. CharText(a, j) = <<x>>
  BY <1>1 DEF CharText
<1>. QED  BY <1>1, <1>2, <1>3

\* The cells behind the address.
CellsRight(a, c, d) ==
  /\ Step(c, HexAt(a, 0), d, HexAt(a, a.width))
  /\ \A i \in 0 .. a.width - 1 : Holds(d, HexAt(a, i), Cell(a.row.from, a.row.size, i))

\* After the loop over the cells they stand in their columns.
LEMMA CellsCopied ==
  ASSUME NEW a, HasRow(a), NEW c, IsBuffer(c), Full(c, HexAt(a, 0)),
         NEW f, f = [j \in 0 .. a.width |->
                       IF j = 0 THEN c
                       ELSE ulog_strcpy(f[j - 1], Cell(a.row.from, a.row.size, j - 1))]
  PROVE  CellsRight(a, c, f[a.width])
<1>1. PICK w \in Nat : w = a.width
  BY DEF HasRow
<1>2. PICK t : t = [j \in 0 .. w - 1 |-> Cell(a.row.from, a.row.size, j)]
  OBVIOUS
<1>3. PICK p : p = [j \in 0 .. w |-> HexAt(a, j)]
  OBVIOUS
<1>4. \A j \in 0 .. w - 1 : t[j] = Cell(a.row.from, a.row.size, j)
  BY <1>2
<1>5. \A j \in 0 .. w : p[j] = HexAt(a, j) /\ j \in Nat
  BY <1>3
<1>6. Placed(t, p, w)
  <2>1. \A j \in 0 .. w : p[j] \in Nat
    BY <1>5, Columns
  <2>2. ASSUME NEW j \in 0 .. w - 1 PROVE t[j] \in Seq(Chars) /\ p[j + 1] = p[j] + Len(t[j])
    <3>1. j \in Nat /\ j \in 0 .. w /\ j + 1 \in 0 .. w
      OBVIOUS
    <3>2. t[j] \in Seq(Chars) /\ Len(t[j]) = 3 + Gap(j)
      <4>1. PICK from \in Nat : from = a.row.from
        BY DEF HasRow
      <4>2. PICK size \in Nat : size = a.row.size
        BY DEF HasRow
      <4>3. t[j] = Cell(from, size, j)
        BY <4>1, <4>2, <1>4
      <4>4. Cell(from, size, j) \in Seq(Chars) /\ Len(Cell(from, size, j)) = 3 + Gap(j)
        BY <3>1, CellProperties DEF IsCell
      <4>. QED  BY <4>3, <4>4
    <3>3. PICK k \in Nat : k = HexAt(a, j)
      BY <3>1, Columns
    <3>4. PICK g \in 0 .. 1 : g = Gap(j)
      BY DEF Gap
    <3>5. HexAt(a, j + 1) = k + 3 + g
      BY <3>1, <3>3, <3>4, Columns
    <3>6. p[j] = k /\ p[j + 1] = k + 3 + g
      BY <3>1, <3>3, <3>5, <1>5
    <3>. QED  BY <3>2, <3>4, <3>6
  <2>. QED  BY <2>1, <2>2 DEF Placed
<1>7. IsCopies(f, c, t, w)
  <2>1. \A j \in 0 .. w : f[j] = IF j = 0 THEN c ELSE ulog_strcpy(f[j - 1], Cell(a.row.from, a.row.size, j - 1))
    BY <1>1
  <2>2. ASSUME NEW j \in 0 .. w PROVE f[j] = IF j = 0 THEN c ELSE ulog_strcpy(f[j - 1], t[j - 1])
    <3>1. CASE j = 0
      BY <3>1, <2>1
    <3>2. CASE j # 0
      <4>1. j - 1 \in 0 .. w - 1
        BY <3>2
      <4>. QED  BY <3>2, <4>1, <2>1, <1>4
    <3>. QED  BY <3>1, <3>2
  <2>3. f = [j \in 0 .. w |-> f[j]]
    BY <1>1
  <2>. QED  BY <2>2, <2>3 DEF IsCopies
<1>8. p[0] = HexAt(a, 0) /\ p[w] = HexAt(a, w)
  <2>1. 0 \in 0 .. w /\ w \in 0 .. w
    OBVIOUS
  <2>. QED  BY <2>1, <1>5
<1>9. CopiedTo(c, t, p, w, f[w])
  BY <1>6, <1>7, <1>8, CopiesStand
<1>10. \A i \in 0 .. w - 1 : Holds(f[w], HexAt(a, i), Cell(a.row.from, a.row.size, i))
  <2>1. \A i \in 0 .. w - 1 : i \in 0 .. w
    OBVIOUS
  <2>. QED  BY <2>1, <1>4, <1>5, <1>9 DEF CopiedTo
<1>. QED  BY <1>1, <1>8, <1>9, <1>10 DEF CellsRight, CopiedTo

\* The characters behind the cells.
CharsRight(a, c, d) ==
  /\ Step(c, CharAt(a, 0), d, CharAt(a, a.row.size))
  /\ \A i \in 0 .. a.row.size - 1 : Holds(d, CharAt(a, i), CharText(a, i))

\* After the loop over the characters they stand in theirs.
LEMMA CharsCopied ==
  ASSUME NEW a, HasRow(a), NEW c, IsBuffer(c), Full(c, CharAt(a, 0)),
         NEW f, f = [j \in 0 .. a.row.size |->
                       IF j = 0 THEN c ELSE ulog_strcpy(f[j - 1], <<<<"char", a.row.from + j - 1>>>>)]
  PROVE  CharsRight(a, c, f[a.row.size])
<1>1. PICK w \in Nat : w = a.row.size
  BY DEF HasRow
<1>2. PICK t : t = [j \in 0 .. w - 1 |-> CharText(a, j)]
  OBVIOUS
<1>3. PICK p : p = [j \in 0 .. w |-> CharAt(a, j)]
  OBVIOUS
<1>4. \A j \in 0 .. w - 1 : t[j] = CharText(a, j)
  BY <1>2
<1>5. \A j \in 0 .. w : p[j] = CharAt(a, j) /\ j \in Nat
  BY <1>3
<1>6. Placed(t, p, w)
  <2>1. \A j \in 0 .. w : p[j] \in Nat
    BY <1>5, Columns
  <2>2. ASSUME NEW j \in 0 .. w - 1 PROVE t[j] \in Seq(Chars) /\ p[j + 1] = p[j] + Len(t[j])
    <3>1. j \in Nat /\ j \in 0 .. w /\ j + 1 \in 0 .. w
      OBVIOUS
    <3>2. t[j] \in Seq(Chars) /\ Len(t[j]) = 1
      BY <3>1, <1>4, CharTextProperties
    <3>3. CharAt(a, j + 1) = CharAt(a, j) + 1
      BY <3>1, Columns
    <3>. QED  BY <3>1, <3>2, <3>3, <1>5
  <2>. QED  BY <2>1, <2>2 DEF Placed
<1>7. IsCopies(f, c, t, w)
  <2>1. \A j \in 0 .. w : f[j] = IF j = 0 THEN c ELSE ulog_strcpy(f[j - 1], <<<<"char", a.row.from + j - 1>>>>)
    BY <1>1
  <2>2. ASSUME NEW j \in 0 .. w PROVE f[j] = IF j = 0 THEN c ELSE ulog_strcpy(f[j - 1], t[j - 1])
    <3>1. CASE j = 0
      BY <3>1, <2>1
    <3>2. CASE j # 0
      <4>1. PICK k \in 0 .. w - 1 : k = j - 1
        BY <3>2
      <4>2. a.row.from + j - 1 = a.row.from + k
        BY <4>1 DEF HasRow
      <4>3. t[k] = <<<<"char", a.row.from + j - 1>>>>
        BY <4>2, <1>4 DEF CharText
      <4>. QED  BY <3>2, <4>1, <4>3, <2>1
    <3>. QED  BY <3>1, <3>2
  <2>3. f = [j \in 0 .. w |-> f[j]]
    BY <1>1
  <2>. QED  BY <2>2, <2>3 DEF IsCopies
<1>8. p[0] = CharAt(a, 0) /\ p[w] = CharAt(a, w)
  <2>1. 0 \in 0 .. w /\ w \in 0 .. w
    OBVIOUS
  <2>. QED  BY <2>1, <1>5
<1>9. CopiedTo(c, t, p, w, f[w])
  BY <1>6, <1>7, <1>8, CopiesStand
<1>10. \A i \in 0 .. w - 1 : Holds(f[w], CharAt(a, i), CharText(a, i))
  <2>1. \A i \in 0 .. w - 1 : i \in 0 .. w
    OBVIOUS
  <2>. QED  BY <2>1, <1>4, <1>5, <1>9 DEF CopiedTo
<1>. QED  BY <1>1, <1>8, <1>9, <1>10 DEF CharsRight, CopiedTo
\* The whole line of a hexdump.
HexRight(a, b, f, S, y) ==
  /\ HeadRight(b, a) /\ TailRight(b, S, 2, y, f)
  /\ \A i \in Nat : i < a.width => Holds(b, HexAt(a, i), Cell(a.row.from, a.row.size, i))
  /\ \A i \in Nat : i < a.row.size => Holds(b, CharAt(a, i), CharText(a, i))
  /\ f.top > LineSize <=> Over(HeadLen(a))

\* The line of ulog_hex_format, in any memory.
LEMMA HexFormatted ==
  ASSUME NEW a, HasRow(a), a.level = LOG_LVL_DBG, NEW mem,
         NEW f, f = ulog_hex_format(mem, Text("tag", a.tag), a.tick, a.row.from, a.row.size, a.width),
         NEW y \in 0 .. 4, Colours[a.level] = 0 => y = 0, Colours[a.level] # 0 => y = 4,
         NEW S \in Nat, S = Min({CharAt(a, a.row.size), Limit})
  PROVE  \E b : HexRight(a, b, f, S, y)
<1>. DEFINE h == ulog_head_formater(Buffer(mem), LOG_LVL_DBG, Text("tag", a.tag), a.tick)
            addr == vsnprintf(h, LineSize, Text("addr", AddrLen))
            c == SetLen(addr, h.len + LengthAfter(0, AddrLen))
            IsCells(g) == g = [j \in 0 .. a.width |->
                                 IF j = 0 THEN c
                                 ELSE ulog_strcpy(g[j - 1], Cell(a.row.from, a.row.size, j - 1))]
            cells == CHOOSE g : IsCells(g)
            d == ulog_strcpy(cells[a.width], Space)
            IsChars(g) == g = [j \in 0 .. a.row.size |->
                                 IF j = 0 THEN d
                                 ELSE ulog_strcpy(g[j - 1], <<<<"char", a.row.from + j - 1>>>>)]
            chars == CHOOSE g : IsChars(g)
            b == chars[a.row.size]
<1>1. f = ulog_tail_formater(b, TRUE, LOG_LVL_DBG)
  BY DEF ulog_hex_format
<1>2. HasHead(a) /\ a.width \in Nat /\ a.row.from \in Nat /\ a.row.size \in Nat
  BY DEF HasRow
<1>3. \E g : IsCells(g)
  <2>. HIDE DEF c
  <2>1. PICK t : t = [j \in 0 .. a.width - 1 |-> Cell(a.row.from, a.row.size, j)]
    OBVIOUS
  <2>2. PICK g : IsCopies(g, c, t, a.width)
    BY <1>2, CopiesExist
  <2>3. g = [j \in 0 .. a.width |-> IF j = 0 THEN c ELSE ulog_strcpy(g[j - 1], t[j - 1])]
    BY <2>2 DEF IsCopies
  <2>4. ASSUME NEW j \in 0 .. a.width
        PROVE  g[j] = IF j = 0 THEN c ELSE ulog_strcpy(g[j - 1], Cell(a.row.from, a.row.size, j - 1))
    <3>1. CASE j = 0
      BY <3>1, <2>3
    <3>2. CASE j # 0
      <4>1. PICK k \in 0 .. a.width - 1 : k = j - 1
        BY <3>2, <1>2
      <4>2. t[k] = Cell(a.row.from, a.row.size, k)
        BY <4>1, <2>1
      <4>. QED  BY <3>2, <4>1, <4>2, <2>3
    <3>. QED  BY <3>1, <3>2
  <2>5. g = [j \in 0 .. a.width |-> g[j]]
    BY <2>3
  <2>6. IsCells(g)
    BY <2>4, <2>5
  <2>. QED  BY <2>6
<1>4. \E g : IsChars(g)
  <2>. HIDE DEF d
  <2>1. PICK t : t = [j \in 0 .. a.row.size - 1 |-> <<<<"char", a.row.from + j>>>>]
    OBVIOUS
  <2>2. PICK g : IsCopies(g, d, t, a.row.size)
    BY <1>2, CopiesExist
  <2>3. g = [j \in 0 .. a.row.size |-> IF j = 0 THEN d ELSE ulog_strcpy(g[j - 1], t[j - 1])]
    BY <2>2 DEF IsCopies
  <2>4. ASSUME NEW j \in 0 .. a.row.size
        PROVE  g[j] = IF j = 0 THEN d ELSE ulog_strcpy(g[j - 1], <<<<"char", a.row.from + j - 1>>>>)
    <3>1. CASE j = 0
      BY <3>1, <2>3
    <3>2. CASE j # 0
      <4>1. PICK k \in 0 .. a.row.size - 1 : k = j - 1
        BY <3>2, <1>2
      <4>2. t[k] = <<<<"char", a.row.from + k>>>>
        BY <4>1, <2>1
      <4>3. a.row.from + j - 1 = a.row.from + k
        BY <4>1, <1>2
      <4>. QED  BY <3>2, <4>1, <4>2, <4>3, <2>3
    <3>. QED  BY <3>1, <3>2
  <2>5. g = [j \in 0 .. a.row.size |-> g[j]]
    BY <2>3
  <2>6. IsChars(g)
    BY <2>4, <2>5
  <2>. QED  BY <2>6
<1>5. IsCells(cells)
  <2>. HIDE DEF IsCells
  <2>. QED  BY <1>3
<1>6. IsChars(chars)
  <2>. HIDE DEF IsChars
  <2>. QED  BY <1>4
<1>7. PICK H \in Nat : H = HeadLen(a)
  BY <1>2, HeadLengths
<1>8. Good(h, H) /\ HeadRight(h, a)
  BY <1>2, <1>7, HeadFormatted
<1>. HIDE DEF h
<1>9. AddressRight(h, H, c)
  BY <1>8, AddressFormatted
<1>. HIDE DEF c
<1>10. HexAt(a, 0) = H + AddrLen
  BY <1>7, Columns
<1>11. IsBuffer(c) /\ Full(c, HexAt(a, 0)) /\ Keeps(h, c, H)
  BY <1>9, <1>10 DEF AddressRight
<1>12. CellsRight(a, c, cells[a.width])
  <2>. HIDE DEF cells
  <2>. QED  BY <1>5, <1>11, CellsCopied
<1>. HIDE DEF cells
<1>13. PICK N0 \in Nat : N0 = HexAt(a, 0) /\ H <= N0
  <2>1. 0 \in Nat
    OBVIOUS
  <2>. QED  BY <2>1, <1>7, Columns
<1>14. PICK N1 \in Nat : N1 = HexAt(a, a.width) /\ CharAt(a, 0) = N1 + 1
  BY <1>2, Columns
<1>15. PICK N2 \in Nat : N2 = CharAt(a, 0) /\ N2 = N1 + 1
  BY <1>14
<1>16. PICK N3 \in Nat : N3 = CharAt(a, a.row.size) /\ N2 <= N3
  BY <1>2, <1>15, Columns
<1>17. PICK e : e = cells[a.width]
  OBVIOUS
<1>18. Step(c, N0, e, N1) /\ IsBuffer(e) /\ Full(e, N1)
  BY <1>12, <1>13, <1>14, <1>17 DEF CellsRight, Step
<1>19. PICK sp \in Seq(Chars) : sp = Space /\ Len(sp) = 1
  <2>1. "space" \in Classes /\ 1 \in Nat
    BY DEF Classes
  <2>. QED  BY <2>1, TextProperties DEF Space
<1>20. Step(e, N1, d, N2)
  <2>1. d = ulog_strcpy(e, sp)
    BY <1>17, <1>19
  <2>. HIDE DEF d
  <2>. QED  BY <2>1, <1>15, <1>18, <1>19, CopyStep
<1>. HIDE DEF d
<1>21. IsBuffer(d) /\ Full(d, CharAt(a, 0))
  BY <1>15, <1>20 DEF Step
<1>22. CharsRight(a, d, b)
  <2>. HIDE DEF chars
  <2>. QED  BY <1>6, <1>21, CharsCopied
<1>. HIDE DEF b
<1>23. Step(d, N2, b, N3)
  BY <1>15, <1>16, <1>22 DEF CharsRight
<1>24. c.top \in Int /\ e.top \in Int /\ d.top \in Int
  BY <1>11, <1>18, <1>21 DEF IsBuffer
<1>25. N0 <= N1
  BY <1>12, <1>13, <1>14, <1>2, HexGrows
<1>26. Step(e, N1, b, N3)
  <2>1. N1 <= N2
    BY <1>15
  <2>. QED  BY <2>1, <1>20, <1>23, <1>24, Steps
<1>27. Step(c, N0, b, N3)
  BY <1>18, <1>24, <1>25, <1>26, Steps
<1>28. IsBuffer(b) /\ Full(b, N3) /\ (Inside(c) => Inside(b)) /\ c.top <= b.top
  BY <1>27 DEF Step
<1>29. Keeps(h, b, H)
  <2>1. ASSUME NEW i \in 1 .. H, i <= Limit PROVE b.mem[i - 1] = h.mem[i - 1]
    <3>1. i \in 1 .. N0
      BY <1>13
    <3>2. b.mem[i - 1] = c.mem[i - 1]
      BY <3>1, <2>1, <1>27 DEF Step, Keeps
    <3>3. c.mem[i - 1] = h.mem[i - 1]
      BY <2>1, <1>11 DEF Keeps
    <3>. QED  BY <3>2, <3>3
  <2>. QED  BY <2>1 DEF Keeps
<1>30. HeadRight(b, a)
  BY <1>2, <1>7, <1>8, <1>29, HeadKept
<1>31. ASSUME NEW i \in Nat, i < a.width PROVE Holds(b, HexAt(a, i), Cell(a.row.from, a.row.size, i))
  <2>1. i \in 0 .. a.width - 1
    BY <1>2, <1>31
  <2>2. PICK t \in Seq(Chars) : t = Cell(a.row.from, a.row.size, i) /\ Len(t) = 3 + Gap(i)
    <3>1. PICK from \in Nat : from = a.row.from
      BY <1>2
    <3>2. PICK size \in Nat : size = a.row.size
      BY <1>2
    <3>3. Cell(from, size, i) \in Seq(Chars) /\ Len(Cell(from, size, i)) = 3 + Gap(i)
      BY CellProperties DEF IsCell
    <3>. QED  BY <3>1, <3>2, <3>3
  <2>3. PICK first \in Nat : first = HexAt(a, i)
    BY Columns
  <2>4. Holds(e, first, t)
    BY <2>1, <2>2, <2>3, <1>12, <1>17 DEF CellsRight
  <2>5. first + Len(t) <= N1
    <3>1. first + Len(t) = HexAt(a, i + 1)
      <4>1. PICK g \in 0 .. 1 : g = Gap(i)
        BY DEF Gap
      <4>2. HexAt(a, i + 1) = first + 3 + g
        BY <4>1, <2>3, Columns
      <4>. QED  BY <4>1, <4>2, <2>2
    <3>2. i + 1 \in Nat /\ i + 1 <= a.width
      BY <1>2, <1>31
    <3>. QED  BY <3>1, <3>2, <1>2, <1>14, HexGrows
  <2>6. Holds(b, first, t)
    BY <2>4, <2>5, <1>26, StepHolds
  <2>. QED  BY <2>2, <2>3, <2>6
<1>32. ASSUME NEW i \in Nat, i < a.row.size PROVE Holds(b, CharAt(a, i), CharText(a, i))
  <2>1. i \in 0 .. a.row.size - 1
    BY <1>2, <1>32
  <2>. QED  BY <2>1, <1>22 DEF CharsRight
<1>33. IsBuffer(b) /\ (b.len <= Limit => S = b.len) /\ (b.len > Limit => S = Limit)
  <2>1. (N3 <= Limit => S = N3) /\ (N3 > Limit => S = Limit)
    BY <1>16, ShownAt
  <2>2. (N3 <= LineSize => b.len = N3) /\ (N3 > LineSize => b.len >= LineSize)
    BY <1>28 DEF Full
  <2>3. b.len \in Nat /\ Limit \in Nat /\ LineSize = Limit + 7
    BY <1>28, LineSizes DEF IsBuffer
  <2>. QED  BY <2>1, <2>2, <2>3, <1>16, <1>28
<1>34. TailRight(b, S, 2, y, f)
  <2>1. a.level \in DOMAIN Colours /\ f = ulog_tail_formater(b, TRUE, a.level)
    BY <1>1, <1>2 DEF HasHead
  <2>2. 2 \in 0 .. 2 /\ (TRUE => 2 = 2) /\ (~ TRUE => 2 = 0)
    OBVIOUS
  <2>. QED  BY <2>1, <2>2, <1>33, TailFormatted
<1>35. f.top \in Int /\ b.top \in Int /\ b.top <= f.top /\ (f.top <= b.top \/ f.top <= LineSize)
  BY <1>28, <1>34 DEF TailRight, IsBuffer
<1>36. ASSUME Over(H) PROVE f.top > LineSize
  <2>1. c.top > LineSize
    BY <1>36, <1>9 DEF AddressRight
  <2>. QED  BY <2>1, <1>24, <1>28, <1>35, LineSizes
<1>37. ASSUME ~ Over(H) PROVE ~ (f.top > LineSize)
  <2>1. Inside(b)
    BY <1>37, <1>9, <1>28 DEF AddressRight
  <2>2. b.top <= LineSize
    BY <2>1 DEF Inside
  <2>. QED  BY <2>2, <1>35, LineSizes
<1>38. HexRight(a, b, f, S, y)
  BY <1>7, <1>30, <1>31, <1>32, <1>34, <1>36, <1>37 DEF HexRight
<1>. QED  BY <1>38

\* A row of a hexdump is left intact.
LEMMA HexIntact ==
  ASSUME NEW a, HasRow(a), a.level = LOG_LVL_DBG, a.newline, a.row.size <= a.width,
         NEW f, f = ulog_hex_format(log_buf_th, Text("tag", a.tag), a.tick, a.row.from, a.row.size, a.width),
         Left("hex", a, f)
  PROVE  FormattedIntact'
<1>1. HasHead(a) /\ a.width \in Nat /\ a.row.from \in Nat /\ a.row.size \in Nat
  BY DEF HasRow
<1>2. PICK H \in Nat : H = HeadLen(a) /\ H >= ColourLen(a) + Digits(a.tick) + 7
  <2>1. PICK d \in 1 .. 10 : d = Digits(a.tick)
    BY <1>1, HeadLengths
  <2>2. PICK n \in Nat : n = a.tag
    BY <1>1 DEF HasHead
  <2>3. PICK e \in Nat : e = ColourLen(a)
    BY <1>1, HeadLengths
  <2>4. HeadLen(a) = e + d + n + 7
    BY <2>1, <2>2, <2>3, <1>1, HeadLengths
  <2>. QED  BY <2>1, <2>2, <2>3, <2>4
<1>3. PICK y \in 0 .. 4 : (Colours[a.level] = 0 => y = 0) /\ (Colours[a.level] # 0 => y = 4)
  OBVIOUS
<1>4. PICK N \in Nat : N = CharAt(a, a.row.size) /\ H <= N
  <2>1. PICK N0 \in Nat : N0 = HexAt(a, a.width) /\ H <= N0
    BY <1>1, <1>2, Columns
  <2>2. CharAt(a, a.row.size) = N0 + 1 + a.row.size
    BY <2>1 DEF CharAt
  <2>. QED  BY <2>1, <2>2, <1>1
<1>5. PICK S \in Nat : /\ S = Min({CharAt(a, a.row.size), Limit}) /\ S <= Limit
                       /\ (N <= Limit => S = N) /\ (N > Limit => S = Limit)
  BY <1>4, ShownAt
<1>6. PICK b : HexRight(a, b, f, S, y)
  BY <1>3, <1>5, HexFormatted
<1>7. /\ HeadRight(b, a) /\ TailRight(b, S, 2, y, f)
      /\ \A i \in Nat : i < a.width => Holds(b, HexAt(a, i), Cell(a.row.from, a.row.size, i))
      /\ \A i \in Nat : i < a.row.size => Holds(b, CharAt(a, i), CharText(a, i))
      /\ f.top > LineSize <=> Over(HeadLen(a))
  BY <1>6 DEF HexRight
<1>8. /\ line'.kind = "hex" /\ line'.args = a /\ line'.len = f.len /\ line'.top = f.top
      /\ log_buf_th' = f.mem
  BY DEF Left
<1>9. Shown(a)' = S
  <2>1. AskedLen(a)' = CharAt(a, a.row.size)
    BY <1>8 DEF AskedLen
  <2>. QED  BY <2>1, <1>5, <1>8 DEF Shown
<1>10. Outcome(a, b, f, S)
  <2>1. f.len \in Nat /\ S <= f.len
    <3>1. f.len = S + 2 + y
      BY <1>7 DEF TailRight
    <3>. QED  BY <3>1
  <2>2. \A i \in 1 .. S : f.mem[i - 1] = b.mem[i - 1]
    BY <1>7 DEF TailRight
  <2>. QED  BY <2>1, <2>2, <1>5, <1>8, <1>9 DEF Outcome
<1>11. ColourLen(a) + Digits(a.tick) + 1 <= S
  <2>1. PICK e \in Nat : e = ColourLen(a) /\ e + 19 <= LineSize
    BY <1>1, HeadLengths
  <2>2. PICK d \in 1 .. 10 : d = Digits(a.tick)
    BY <1>1, HeadLengths
  <2>3. PICK k \in Nat : k = e + d + 1 /\ k <= Limit
    BY <2>1, LineSizes
  <2>4. k <= N
    BY <2>1, <2>2, <2>3, <1>2, <1>4
  <2>5. k <= S
    BY <2>3, <2>4, <1>5, LineSizes
  <2>. QED  BY <2>1, <2>2, <2>3, <2>5
<1>12. HeadStands(a)'
  BY <1>1, <1>7, <1>10, <1>11, HeadAfter
<1>13. TailStands(a)'
  <2>1. 2 \in 0 .. 2 /\ (a.newline => 2 = 2) /\ (~ a.newline => 2 = 0)
    OBVIOUS
  <2>. QED  BY <2>1, <1>1, <1>3, <1>7, <1>10, TailAfter
<1>14. \A p \in Nat : p + 1 <= S => Line'[p + 1] = b.mem[p]
  <2>1. ASSUME NEW p \in Nat, p + 1 <= S PROVE Line'[p + 1] = b.mem[p]
    <3>1. PICK i \in 1 .. f.len : i = p + 1 /\ i - 1 = p
      BY <2>1, <1>10 DEF Outcome
    <3>2. Line'[i] = b.mem[i - 1]
      BY <3>1, <2>1, <1>10, LineAfter
    <3>. QED  BY <3>1, <3>2
  <2>. QED  BY <2>1
<1>15. ASSUME NEW j \in 0 .. a.row.size - 1
       PROVE  /\ HexAt(a, j) + 1 <= S => Line'[HexAt(a, j) + 1] = <<"high", a.row.from + j>>
              /\ HexAt(a, j) + 2 <= S => Line'[HexAt(a, j) + 2] = <<"low", a.row.from + j>>
              /\ CharAt(a, j) + 1 <= S => Line'[CharAt(a, j) + 1] = <<"char", a.row.from + j>>
  <2>1. j \in Nat /\ j < a.row.size /\ j < a.width
    BY <1>1
  <2>2. PICK t : t = Cell(a.row.from, a.row.size, j)
    OBVIOUS
  <2>3. /\ Len(t) = 3 + Gap(j) /\ t[1] = <<"high", a.row.from + j>> /\ t[2] = <<"low", a.row.from + j>>
    <3>1. PICK from \in Nat : from = a.row.from
      BY <1>1
    <3>2. PICK size \in Nat : size = a.row.size
      BY <1>1
    <3>3. j \in Nat /\ j < size
      BY <2>1, <3>2
    <3>4. IsCell(Cell(from, size, j), from, size, j)
      BY <3>3, CellProperties
    <3>. QED  BY <3>1, <3>2, <3>3, <3>4, <2>2 DEF IsCell
  <2>4. PICK first \in Nat : first = HexAt(a, j)
    BY <2>1, Columns
  <2>5. PICK g \in 0 .. 1 : g = Gap(j)
    BY DEF Gap
  <2>6. Holds(b, first, t)
    BY <2>1, <2>2, <2>4, <1>7
  <2>7. \A i \in 1 .. 3 + g : first + i <= Limit => b.mem[first + i - 1] = t[i]
    BY <2>3, <2>5, <2>6 DEF Holds
  <2>8. ASSUME first + 1 <= S PROVE Line'[first + 1] = t[1]
    <3>1. first + 1 <= Limit /\ 1 \in 1 .. 3 + g /\ first + 1 - 1 = first
      BY <2>8, <1>5, LineSizes
    <3>2. b.mem[first + 1 - 1] = t[1]
      BY <3>1, <2>7
    <3>. QED  BY <3>1, <3>2, <2>8, <1>14
  <2>9. ASSUME first + 2 <= S PROVE Line'[first + 2] = t[2]
    <3>1. PICK p \in Nat : p = first + 1 /\ p + 1 = first + 2 /\ p + 1 <= S
      BY <2>9
    <3>2. first + 2 <= Limit /\ 2 \in 1 .. 3 + g /\ first + 2 - 1 = p
      BY <3>1, <1>5, LineSizes
    <3>3. b.mem[first + 2 - 1] = t[2]
      BY <3>2, <2>7
    <3>. QED  BY <3>1, <3>2, <3>3, <1>14
  <2>10. PICK at \in Nat : at = CharAt(a, j)
    BY <2>1, Columns
  <2>11. ASSUME at + 1 <= S PROVE Line'[at + 1] = <<"char", a.row.from + j>>
    <3>1. Holds(b, at, CharText(a, j))
      BY <2>1, <2>10, <1>7
    <3>2. Len(CharText(a, j)) = 1 /\ CharText(a, j)[1] = <<"char", a.row.from + j>>
      BY <2>1, CharTextProperties
    <3>3. at + 1 <= Limit /\ 1 \in 1 .. 1 /\ at + 1 - 1 = at
      BY <2>11, <1>5, LineSizes
    <3>4. b.mem[at + 1 - 1] = CharText(a, j)[1]
      BY <3>1, <3>2, <3>3 DEF Holds
    <3>. QED  BY <3>2, <3>3, <3>4, <2>11, <1>14
  <2>. QED  BY <2>3, <2>4, <2>8, <2>9, <2>10, <2>11
<1>16. RowStands(a)'
  BY <1>9, <1>15 DEF RowStands
<1>17. Over(H) <=> Min({H, LineSize}) + AddrLen > LineSize
  <2>1. H \in Int /\ LineSize \in Int /\ LineSize \in Nat /\ AddrLen \in Nat
    BY LineSizes
  <2>2. Min({H, LineSize}) = IF H < LineSize THEN H ELSE LineSize
    BY <2>1, TwoMin
  <2>. QED  BY <2>1, <2>2 DEF Over
<1>18. line'.top > LineSize <=> Min({HeadLen(a), LineSize}) + AddrLen > LineSize
  BY <1>2, <1>7, <1>8, <1>17
<1>. QED  BY <1>8, <1>12, <1>13, <1>16, <1>18 DEF FormattedIntact
-----------------------------------------------------------------------------
\* The line of the last call is intact whatever the buffer held before it.

\* The level of a hexdump has its colour.
LEMMA LastLevel ==
  LOG_LVL_DBG \in DOMAIN Colours
<1>1. PICK last \in DOMAIN Colours : \A level \in DOMAIN Colours : level <= last
  BY ColoursAssumption
<1>2. \E x \in DOMAIN Colours : \A z \in DOMAIN Colours : x >= z
  <2>1. \A z \in DOMAIN Colours : z \in Int
    BY ColoursAssumption
  <2>. QED  BY <1>1, <2>1
<1>. QED  BY <1>2 DEF LOG_LVL_DBG, Max

\* Every line of a log call is intact.
LEMMA FormattedLeaves ==
  ASSUME Formatted
  PROVE  LinesIntact'
<1>1. PICK level \in DOMAIN Colours, tag \in TagLens, tick \in Ticks, newline \in BOOLEAN,
           result \in Results :
         Keep("log", [level |-> level, tag |-> tag, tick |-> tick, newline |-> newline,
                      result |-> result],
              ulog_formater(log_buf_th, level, Text("tag", tag), tick, newline, result))
  BY DEF Formatted
<1>2. PICK a : a = [level |-> level, tag |-> tag, tick |-> tick, newline |-> newline, result |-> result]
  OBVIOUS
<1>3. /\ a.level = level /\ a.tag = tag /\ a.tick = tick /\ a.newline = newline
      /\ a.result = result
  BY <1>2
<1>4. HasHead(a) /\ a.result \in Nat \cup {-1}
  BY <1>1, <1>3, TicksAssumption, LengthsAssumption DEF HasHead, Short
<1>5. PICK f : f = ulog_formater(log_buf_th, level, Text("tag", tag), tick, newline, result)
  OBVIOUS
<1>6. Left("log", a, f)
  BY <1>1, <1>2, <1>5 DEF Keep, Left
<1>7. f = ulog_formater(log_buf_th, a.level, Text("tag", a.tag), a.tick, a.newline, a.result)
  BY <1>3, <1>5
<1>8. FormattedIntact'
  BY <1>4, <1>6, <1>7, LogIntact
<1>9. line'.kind = "log"
  BY <1>6 DEF Left
<1>10. RawIntact' /\ RowsCover'
  BY <1>9 DEF RawIntact, RowsCover
<1>. QED  BY <1>8, <1>10 DEF LinesIntact

\* Every row of a hexdump is intact, and every byte is in one row.
LEMMA DumpedLeaves ==
  ASSUME Dumped
  PROVE  LinesIntact'
<1>1. PICK tag \in TagLens, tick \in Ticks, width \in Widths, size \in Sizes :
         \E row \in Rows(width, size) :
           Keep("hex", [level |-> LOG_LVL_DBG, tag |-> tag, tick |-> tick, newline |-> TRUE,
                        width |-> width, size |-> size, row |-> row],
                ulog_hex_format(log_buf_th, Text("tag", tag), tick, row.from, row.size, width))
  BY DEF Dumped
<1>2. PICK row \in Rows(width, size) :
         Keep("hex", [level |-> LOG_LVL_DBG, tag |-> tag, tick |-> tick, newline |-> TRUE,
                      width |-> width, size |-> size, row |-> row],
              ulog_hex_format(log_buf_th, Text("tag", tag), tick, row.from, row.size, width))
  BY <1>1
<1>3. PICK a : a = [level |-> LOG_LVL_DBG, tag |-> tag, tick |-> tick, newline |-> TRUE,
                    width |-> width, size |-> size, row |-> row]
  OBVIOUS
<1>4. /\ a.level = LOG_LVL_DBG /\ a.tag = tag /\ a.tick = tick /\ a.newline = TRUE
      /\ a.width = width /\ a.size = size /\ a.row = row
  BY <1>3
<1>5. width \in Nat \ {0} /\ size \in Nat
  BY <1>1, LengthsAssumption
<1>6. row.from \in Nat /\ row.size \in Nat /\ row.size <= width
  <2>1. PICK m \in 0 .. size - 1 : row = [from |-> m, size |-> IF m + width > size THEN size - m ELSE width]
    BY <1>2 DEF Rows
  <2>2. PICK n : n = row.size /\ (m + width > size => n = size - m) /\ (~ (m + width > size) => n = width)
    BY <2>1
  <2>3. n \in Nat /\ n <= width
    BY <2>2, <1>5
  <2>. QED  BY <2>1, <2>2, <2>3
<1>7. HasHead(a)
  BY <1>1, <1>4, LastLevel, TicksAssumption, LengthsAssumption DEF HasHead, Short
<1>8. HasRow(a) /\ a.row.size <= a.width
  BY <1>4, <1>5, <1>6, <1>7 DEF HasRow
<1>9. PICK f : f = ulog_hex_format(log_buf_th, Text("tag", tag), tick, row.from, row.size, width)
  OBVIOUS
<1>10. Left("hex", a, f)
  BY <1>2, <1>3, <1>9 DEF Keep, Left
<1>11. f = ulog_hex_format(log_buf_th, Text("tag", a.tag), a.tick, a.row.from, a.row.size, a.width)
  BY <1>4, <1>9
<1>12. FormattedIntact'
  BY <1>4, <1>8, <1>10, <1>11, HexIntact
<1>13. line'.kind = "hex" /\ line'.args = a
  BY <1>10 DEF Left
<1>14. RowsCover'
  BY <1>4, <1>5, <1>13, RowsCoverAll DEF RowsCover
<1>15. RawIntact'
  BY <1>13 DEF RawIntact
<1>. QED  BY <1>12, <1>14, <1>15 DEF LinesIntact

\* Every raw line is intact.
LEMMA RawLeaves ==
  ASSUME Raw
  PROVE  LinesIntact'
<1>1. PICK result \in Results : Keep("raw", [result |-> result], RawLine(log_buf_th, result))
  BY DEF Raw
<1>2. result \in Nat \cup {-1}
  BY LengthsAssumption
<1>3. PICK f : f = RawLine(log_buf_th, result)
  OBVIOUS
<1>4. Left("raw", [result |-> result], f)
  BY <1>1, <1>3 DEF Keep, Left
<1>5. RawIntact'
  BY <1>2, <1>3, <1>4, RawAfter
<1>6. line'.kind = "raw"
  BY <1>4 DEF Left
<1>7. FormattedIntact' /\ RowsCover'
  BY <1>6 DEF FormattedIntact, RowsCover
<1>. QED  BY <1>5, <1>7 DEF LinesIntact

\* A step of nothing leaves the last line as it is.
LEMMA NothingLeaves ==
  ASSUME UNCHANGED lvars, LinesIntact
  PROVE  LinesIntact'
<1>1. line' = line /\ log_buf_th' = log_buf_th
  BY DEF lvars
<1>2. Line' = Line
  BY <1>1 DEF Line
<1>3. \A a : Shown(a)' = Shown(a)
  BY <1>1 DEF Shown, AskedLen
<1>4. \A a, class, first, n : Stands(a, class, first, n)' <=> Stands(a, class, first, n)
  BY <1>2, <1>3 DEF Stands
<1>5. \A a : HeadStands(a)' <=> HeadStands(a)
  BY <1>2, <1>4 DEF HeadStands
<1>6. \A a : RowStands(a)' <=> RowStands(a)
  BY <1>2, <1>3 DEF RowStands
<1>7. \A a : TailStands(a)' <=> TailStands(a)
  BY <1>1, <1>2, <1>3 DEF TailStands
<1>8. FormattedIntact' <=> FormattedIntact
  BY <1>1, <1>2, <1>4, <1>5, <1>6, <1>7 DEF FormattedIntact
<1>9. RawIntact' <=> RawIntact
  BY <1>1, <1>2 DEF RawIntact
<1>10. RowsCover' <=> RowsCover
  BY <1>1 DEF RowsCover
<1>. QED  BY <1>8, <1>9, <1>10 DEF LinesIntact

\* ulog_formater, ulog_hexdump, ulog_raw: for every size of the line buffer, every
\* colour, tag, tick and result of vsnprintf, and every width and size of a hexdump,
\* a line is its head, its text and its tail, whatever the buffer held before.
THEOREM LinesIntactAlways == LSpec => []LinesIntact
<1>1. LInit => LinesIntact
  BY DEF LInit, LinesIntact, FormattedIntact, RawIntact, RowsCover
<1>2. LinesIntact /\ [LNext]_lvars => LinesIntact'
  <2>1. SUFFICES ASSUME LinesIntact, [LNext]_lvars PROVE LinesIntact'
    OBVIOUS
  <2>2. CASE Formatted
    BY <2>2, FormattedLeaves
  <2>3. CASE Dumped
    BY <2>3, DumpedLeaves
  <2>4. CASE Raw
    BY <2>4, RawLeaves
  <2>5. CASE UNCHANGED lvars
    BY <2>1, <2>5, NothingLeaves
  <2>. QED  BY <2>1, <2>2, <2>3, <2>4, <2>5 DEF LNext
<1>. QED  BY <1>1, <1>2, PTL DEF LSpec

-----------------------------------------------------------------------------
\* The integers of so many bits, and the two ways to read them.
Half(bits) == 2^(bits - 1)

\* The rest of a division by M, for numbers up to M away from zero.
LEMMA Modulo ==
  ASSUME NEW M \in Nat, 0 < M
  PROVE  /\ \A k \in Int : k % M \in 0 .. M - 1
         /\ \A k \in 0 .. M - 1 : k % M = k
         /\ \A k \in - M .. - 1 : k % M = k + M
<1>1. ASSUME NEW k \in Int PROVE k % M \in 0 .. M - 1
  OBVIOUS
<1>2. ASSUME NEW k \in 0 .. M - 1 PROVE k % M = k
  OBVIOUS
<1>3. ASSUME NEW k \in - M .. - 1 PROVE k % M = k + M
  OBVIOUS
<1>. QED  BY <1>1, <1>2, <1>3

\* A number and its two readings in 2 * H values: mod gives the unsigned one.
LEMMA TwoReadings ==
  ASSUME NEW H \in Nat, 0 < H, NEW mod, NEW n \in Int,
         \A k \in Int : mod[k] \in 0 .. 2 * H - 1,
         \A k \in 0 .. 2 * H - 1 : mod[k] = k,
         \A k \in - (2 * H) .. - 1 : mod[k] = k + 2 * H,
         NEW s, s = mod[n] - (IF mod[n] < H THEN 0 ELSE 2 * H)
  PROVE  /\ s \in - H .. H - 1
         /\ n \in - H .. H - 1 => s = n
         /\ mod[s] = mod[n]
<1>1. PICK r \in 0 .. 2 * H - 1 : r = mod[n]
  OBVIOUS
<1>2. s = r - (IF r < H THEN 0 ELSE 2 * H) /\ s \in - H .. H - 1
  BY <1>1
<1>3. mod[s] = r
  BY <1>2
<1>4. n \in - H .. H - 1 => s = n
  BY <1>1, <1>2
<1>. QED  BY <1>1, <1>2, <1>3, <1>4

Readings(n, bits) ==
  /\ Half(bits) \in Nat /\ 0 < Half(bits) /\ 2^bits = 2 * Half(bits)
  /\ Unsigned(n, bits) \in 0 .. 2 * Half(bits) - 1
  /\ n \in 0 .. 2 * Half(bits) - 1 => Unsigned(n, bits) = n
  /\ Signed(n, bits) \in - Half(bits) .. Half(bits) - 1
  /\ n \in - Half(bits) .. Half(bits) - 1 => Signed(n, bits) = n
  /\ Unsigned(Signed(n, bits), bits) = Unsigned(n, bits)

\* Both readings, for every number of bits there is.
LEMMA BitsProperties ==
  ASSUME NEW bits \in {4, 8, 16, 32}, NEW n \in Int
  PROVE  Readings(n, bits)
<1>1. PICK H : H = Half(bits)
  OBVIOUS
<1>2. PICK mod : mod = [k \in Int |-> Unsigned(k, bits)]
  OBVIOUS
<1>3. /\ H \in Nat /\ 0 < H /\ 2^bits = 2 * H
      /\ \A k \in Int : Unsigned(k, bits) \in 0 .. 2 * H - 1
      /\ \A k \in 0 .. 2 * H - 1 : Unsigned(k, bits) = k
      /\ \A k \in - (2 * H) .. - 1 : Unsigned(k, bits) = k + 2 * H
  <2>1. PICK M : M = 2^bits
    OBVIOUS
  <2>2. M \in Nat /\ H \in Nat /\ 0 < H /\ M = 2 * H
    <3>1. CASE bits = 4
      <4>1. M = 16 /\ H = 8
        BY <3>1, <1>1, <2>1, SMT DEF Half
      <4>. QED  BY <4>1, SMT
    <3>2. CASE bits = 8
      <4>1. M = 256 /\ H = 128
        BY <3>2, <1>1, <2>1, SMT DEF Half
      <4>. QED  BY <4>1, SMT
    <3>3. CASE bits = 16
      <4>1. M = 65536 /\ H = 32768
        BY <3>3, <1>1, <2>1, SMT DEF Half
      <4>. QED  BY <4>1, SMT
    <3>4. CASE bits = 32
      <4>1. M = 4294967296 /\ H = 2147483648
        BY <3>4, <1>1, <2>1, SMT DEF Half
      <4>. QED  BY <4>1, SMT
    <3>. QED  BY <3>1, <3>2, <3>3, <3>4
  <2>3. \A k \in Int : Unsigned(k, bits) = k % M
    BY <2>1 DEF Unsigned
  <2>4. /\ \A k \in Int : k % M \in 0 .. M - 1
        /\ \A k \in 0 .. M - 1 : k % M = k
        /\ \A k \in - M .. - 1 : k % M = k + M
    <3>1. 0 < M
      BY <2>2
    <3>. QED  BY <3>1, <2>2, Modulo
  <2>. QED  BY <2>1, <2>2, <2>3, <2>4
<1>4. /\ \A k \in Int : mod[k] = Unsigned(k, bits)
      /\ \A k \in Int : mod[k] \in 0 .. 2 * H - 1
      /\ \A k \in 0 .. 2 * H - 1 : mod[k] = k
      /\ \A k \in - (2 * H) .. - 1 : mod[k] = k + 2 * H
  BY <1>2, <1>3
<1>5. PICK s : s = Signed(n, bits)
  OBVIOUS
<1>6. s = mod[n] - (IF mod[n] < H THEN 0 ELSE 2 * H)
  BY <1>1, <1>3, <1>4, <1>5 DEF Signed, Half
<1>7. s \in - H .. H - 1 /\ (n \in - H .. H - 1 => s = n) /\ mod[s] = mod[n]
  BY <1>3, <1>4, <1>6, TwoReadings
<1>8. s \in Int
  BY <1>3, <1>7
<1>9. Unsigned(n, bits) \in 0 .. 2 * H - 1 /\ (n \in 0 .. 2 * H - 1 => Unsigned(n, bits) = n)
  BY <1>3
<1>10. Unsigned(s, bits) = Unsigned(n, bits)
  BY <1>4, <1>7, <1>8
<1>. QED  BY <1>1, <1>3, <1>5, <1>7, <1>9, <1>10 DEF Readings

\* The value of a number in C.
Value(spec) ==
  IF spec.conv = "d" THEN Signed(spec.arg, Bits(spec)) ELSE Unsigned(spec.arg, Bits(spec))
Amount(spec) == IF Value(spec) < 0 THEN - Value(spec) ELSE Value(spec)

\* The sizes an argument can have.
LEMMA SomeBits ==
  ASSUME NEW spec
  PROVE  /\ Width \in {4, 8, 16, 32} /\ Bits(spec) \in {4, 8, 16, 32}
         /\ Half(Bits(spec)) <= Half(Width)
<1>1. Width = 8 \/ Width = 32
  BY WidthAssumption
<1>2. Bits(spec) = Width \/ (Width = 8 /\ Bits(spec) = 4) \/ (Width = 32 /\ Bits(spec) = 16)
  BY <1>1 DEF Bits
<1>3. Half(4) = 8 /\ Half(8) = 128 /\ Half(16) = 32768 /\ Half(32) = 2147483648
  BY SMT DEF Half
<1>. QED  BY <1>1, <1>2, <1>3, SMT

\* What print_number gets for it.
LEMMA ArgumentProperties ==
  ASSUME NEW spec, spec.arg \in Int
  PROVE  /\ Argument(spec) \in Int /\ Value(spec) \in Int
         /\ Amount(spec) \in 0 .. 2^Width - 1
         /\ spec.conv = "d" => Argument(spec) = Value(spec)
         /\ spec.conv # "d" => 0 <= Value(spec)
         /\ Argument(spec) = 0 <=> Amount(spec) = 0
         /\ Unsigned(Argument(spec), Width) = Unsigned(Value(spec), Width)
         /\ Unsigned(Amount(spec), Width) = Amount(spec)
         /\ 0 <= Value(spec) => Unsigned(Argument(spec), Width) = Amount(spec)
<1>1. PICK b \in {4, 8, 16, 32} : b = Bits(spec)
  BY SomeBits
<1>2. Width \in {4, 8, 16, 32}
  BY SomeBits
<1>3. PICK H : H = Half(b)
  OBVIOUS
<1>4. PICK W : W = Half(Width)
  OBVIOUS
<1>20. Readings(spec.arg, b)
  BY BitsProperties
<1>21. \A n \in Int : Readings(n, Width)
  BY <1>2, BitsProperties
<1>5. H \in Nat /\ W \in Nat /\ 0 < H /\ H <= W /\ 2^Width = 2 * W
  BY <1>1, <1>3, <1>4, <1>20, <1>21, SomeBits DEF Readings
<1>6. PICK v : v = Value(spec)
  OBVIOUS
<1>7. /\ spec.conv = "d" => v \in - H .. H - 1
      /\ spec.conv # "d" => v \in 0 .. 2 * H - 1
  BY <1>1, <1>3, <1>6, <1>20 DEF Value, Readings
<1>8. v \in Int
  BY <1>5, <1>7
<1>22. Readings(v, Width)
  BY <1>8, <1>21
<1>23. Argument(spec) = Signed(v, Width)
  BY <1>6 DEF Argument, Value
<1>9. /\ Argument(spec) = Signed(v, Width)
      /\ Signed(v, Width) \in - W .. W - 1
      /\ v \in - W .. W - 1 => Signed(v, Width) = v
      /\ Unsigned(Signed(v, Width), Width) = Unsigned(v, Width)
  BY <1>4, <1>22, <1>23 DEF Readings
<1>10. \A n \in 0 .. 2 * W - 1 : Unsigned(n, Width) = n
  <2>1. ASSUME NEW n \in 0 .. 2 * W - 1 PROVE Unsigned(n, Width) = n
    <3>1. n \in Int
      BY <1>5
    <3>2. Readings(n, Width)
      BY <3>1, <1>21
    <3>. QED  BY <3>2, <1>4 DEF Readings
  <2>. QED  BY <2>1
<1>11. Amount(spec) = IF v < 0 THEN - v ELSE v
  BY <1>6 DEF Amount
<1>12. Amount(spec) \in 0 .. 2 * W - 1
  BY <1>5, <1>7, <1>8, <1>11
<1>13. 0 <= v => Unsigned(Argument(spec), Width) = Amount(spec)
  BY <1>8, <1>9, <1>10, <1>11, <1>12
<1>14. spec.conv = "d" => Argument(spec) = v
  BY <1>5, <1>7, <1>9
<1>15. Argument(spec) = 0 <=> Amount(spec) = 0
  <2>1. CASE spec.conv = "d"
    BY <2>1, <1>8, <1>11, <1>14
  <2>2. CASE spec.conv # "d"
    <3>1. 0 <= v /\ Amount(spec) = v
      BY <2>2, <1>5, <1>7, <1>11
    <3>2. 0 \in - W .. W - 1 /\ 0 \in 0 .. 2 * W - 1
      BY <1>5
    <3>3. Amount(spec) = 0 => Argument(spec) = 0
      BY <3>1, <3>2, <1>9
    <3>4. Argument(spec) = 0 => Amount(spec) = 0
      BY <3>1, <3>2, <1>10, <1>13
    <3>. QED  BY <3>3, <3>4
  <2>. QED  BY <2>1, <2>2
<1>. QED  BY <1>5, <1>6, <1>7, <1>8, <1>9, <1>10, <1>12, <1>13, <1>14, <1>15

-----------------------------------------------------------------------------
\* The digits of a number, from the last one and from the first one.
IsTmp(f, b, flags, m) ==
  f = [n \in 0 .. m |-> IF n = 0 THEN << >> ELSE <<Digit(n % b, flags)>> \o f[n \div b]]
IsDigits(f, b, flags, m) ==
  f = [k \in 0 .. m |-> IF k < b THEN <<Digit(k, flags)>>
                        ELSE f[k \div b] \o <<Digit(k % b, flags)>>]

\* Division by a base leaves less.
LEMMA Quotient ==
  ASSUME NEW b \in {10, 16}, NEW n \in Nat
  PROVE  /\ n \div b \in Nat /\ (n % b) \in Nat
         /\ n # 0 => n \div b < n
         /\ n < b => n \div b = 0 /\ n % b = n
         /\ b <= n => 0 < n \div b
<1>1. CASE b = 10
  BY <1>1
<1>2. CASE b = 16
  BY <1>2
<1>. QED  BY <1>1, <1>2

\* The digits of all numbers up to n, last one first.
LEMMA TmpExists ==
  ASSUME NEW b \in {10, 16}, NEW flags, NEW n \in Nat
  PROVE  \E f : IsTmp(f, b, flags, n)
<1>. DEFINE T == {m \in Nat : \E f : IsTmp(f, b, flags, m)}
<1>1. 0 \in T
  <2>1. PICK f : f = [j \in 0 .. 0 |-> << >>]
    OBVIOUS
  <2>2. f = [j \in 0 .. 0 |-> IF j = 0 THEN << >> ELSE <<Digit(j % b, flags)>> \o f[j \div b]]
    BY <2>1
  <2>3. IsTmp(f, b, flags, 0)
    BY <2>2 DEF IsTmp
  <2>. QED  BY <2>3
<1>2. ASSUME NEW m \in Nat, m \in T PROVE m + 1 \in T
  <2>1. PICK f : IsTmp(f, b, flags, m)
    BY <1>2
  <2>2. PICK g : g = [j \in 0 .. m + 1 |->
                        IF j = m + 1 THEN <<Digit(j % b, flags)>> \o f[j \div b] ELSE f[j]]
    OBVIOUS
  <2>3. \A j \in 0 .. m : g[j] = f[j] /\ j \in 0 .. m + 1
    BY <2>2
  <2>4. \A j \in 0 .. m :
          f[j] = IF j = 0 THEN << >> ELSE <<Digit(j % b, flags)>> \o f[j \div b]
    BY <2>1 DEF IsTmp
  <2>5. ASSUME NEW j \in 0 .. m + 1
        PROVE  g[j] = IF j = 0 THEN << >> ELSE <<Digit(j % b, flags)>> \o g[j \div b]
    <3>1. j # 0 => g[j \div b] = f[j \div b]
      <4>1. j # 0 => j \div b \in 0 .. m
        BY Quotient
      <4>. QED  BY <4>1, <2>3
    <3>2. CASE j = m + 1
      <4>1. g[j] = <<Digit(j % b, flags)>> \o f[j \div b] /\ j # 0
        BY <3>2, <2>2
      <4>. QED  BY <4>1, <3>1
    <3>3. CASE j # m + 1
      <4>1. j \in 0 .. m
        BY <3>3
      <4>2. g[j] = f[j]
        BY <4>1, <2>3
      <4>3. f[j] = IF j = 0 THEN << >> ELSE <<Digit(j % b, flags)>> \o f[j \div b]
        BY <4>1, <2>4
      <4>. QED  BY <4>2, <4>3, <3>1
    <3>. QED  BY <3>2, <3>3
  <2>6. IsTmp(g, b, flags, m + 1)
    <3>1. g = [j \in 0 .. m + 1 |-> g[j]]
      BY <2>2
    <3>. QED  BY <3>1, <2>5 DEF IsTmp
  <2>. QED  BY <2>6
<1>3. Nat \subseteq T
  <2>. HIDE DEF T
  <2>. QED  BY <1>1, <1>2, SetInduction
<1>. QED  BY <1>3

\* The digits of all numbers up to n, first one first.
LEMMA DigitsExist ==
  ASSUME NEW b \in {10, 16}, NEW flags, NEW n \in Nat
  PROVE  \E f : IsDigits(f, b, flags, n)
<1>. DEFINE T == {m \in Nat : \E f : IsDigits(f, b, flags, m)}
<1>1. 0 \in T
  <2>1. PICK f : f = [j \in 0 .. 0 |-> <<Digit(j, flags)>>]
    OBVIOUS
  <2>2. f = [j \in 0 .. 0 |-> IF j < b THEN <<Digit(j, flags)>>
                              ELSE f[j \div b] \o <<Digit(j % b, flags)>>]
    <3>1. \A j \in 0 .. 0 : j < b
      OBVIOUS
    <3>. QED  BY <2>1, <3>1
  <2>3. IsDigits(f, b, flags, 0)
    BY <2>2 DEF IsDigits
  <2>. QED  BY <2>3
<1>2. ASSUME NEW m \in Nat, m \in T PROVE m + 1 \in T
  <2>1. PICK f : IsDigits(f, b, flags, m)
    BY <1>2
  <2>2. PICK g : g = [j \in 0 .. m + 1 |->
                        IF j = m + 1
                        THEN IF j < b THEN <<Digit(j, flags)>>
                             ELSE f[j \div b] \o <<Digit(j % b, flags)>>
                        ELSE f[j]]
    OBVIOUS
  <2>3. \A j \in 0 .. m : g[j] = f[j] /\ j \in 0 .. m + 1
    BY <2>2
  <2>4. \A j \in 0 .. m :
          f[j] = IF j < b THEN <<Digit(j, flags)>>
                 ELSE f[j \div b] \o <<Digit(j % b, flags)>>
    BY <2>1 DEF IsDigits
  <2>5. ASSUME NEW j \in 0 .. m + 1
        PROVE  g[j] = IF j < b THEN <<Digit(j, flags)>>
                      ELSE g[j \div b] \o <<Digit(j % b, flags)>>
    <3>1. ~ (j < b) => g[j \div b] = f[j \div b]
      <4>1. ~ (j < b) => j # 0
        OBVIOUS
      <4>2. j # 0 => j \div b \in 0 .. m
        BY Quotient
      <4>. QED  BY <4>1, <4>2, <2>3
    <3>2. CASE j = m + 1
      <4>1. g[j] = IF j < b THEN <<Digit(j, flags)>>
                   ELSE f[j \div b] \o <<Digit(j % b, flags)>>
        BY <3>2, <2>2
      <4>. QED  BY <4>1, <3>1
    <3>3. CASE j # m + 1
      <4>1. j \in 0 .. m
        BY <3>3
      <4>2. g[j] = f[j]
        BY <4>1, <2>3
      <4>3. f[j] = IF j < b THEN <<Digit(j, flags)>>
                   ELSE f[j \div b] \o <<Digit(j % b, flags)>>
        BY <4>1, <2>4
      <4>. QED  BY <4>2, <4>3, <3>1
    <3>. QED  BY <3>2, <3>3
  <2>6. IsDigits(g, b, flags, m + 1)
    <3>1. g = [j \in 0 .. m + 1 |-> g[j]]
      BY <2>2
    <3>. QED  BY <3>1, <2>5 DEF IsDigits
  <2>. QED  BY <2>6
<1>3. Nat \subseteq T
  <2>. HIDE DEF T
  <2>. QED  BY <1>1, <1>2, SetInduction
<1>. QED  BY <1>3

\* One character reversed.
LEMMA ReverseOne ==
  ASSUME NEW x \in Int
  PROVE  Reverse(<<x>>) = <<x>>
<1>1. Len(<<x>>) = 1 /\ <<x>>[1] = x
  OBVIOUS
<1>2. Reverse(<<x>>) = [i \in 1 .. 1 |-> <<x>>[(1 - i) + 1]]
  BY <1>1 DEF Reverse
<1>3. Reverse(<<x>>) = [i \in 1 .. 1 |-> x]
  <2>1. \A i \in 1 .. 1 : (1 - i) + 1 = 1
    OBVIOUS
  <2>. QED  BY <2>1, <1>1, <1>2
<1>4. [i \in 1 .. 1 |-> x] \in Seq(Int)
  BY IsASeq
<1>5. Len([i \in 1 .. 1 |-> x]) = 1
  BY <1>4, LenProperties
<1>6. <<x>> \in Seq(Int)
  OBVIOUS
<1>7. \A i \in 1 .. 1 : [j \in 1 .. 1 |-> x][i] = <<x>>[i]
  BY <1>1
<1>. QED  BY <1>1, <1>3, <1>4, <1>5, <1>6, <1>7, SeqEqual

\* The first character of a text is the last one of the reversed text.
LEMMA ReverseFirst ==
  ASSUME NEW x \in Int, NEW t \in Seq(Int)
  PROVE  Reverse(<<x>> \o t) = Reverse(t) \o <<x>>
<1>1. PICK n \in Nat : n = Len(t)
  BY LenProperties
<1>2. PICK u : u = <<x>> \o t
  OBVIOUS
<1>3. <<x>> \in Seq(Int) /\ Len(<<x>>) = 1 /\ <<x>>[1] = x
  OBVIOUS
<1>4. /\ u \in Seq(Int) /\ Len(u) = 1 + n
      /\ \A i \in 1 .. 1 + n : u[i] = IF i <= 1 THEN <<x>>[i] ELSE t[i - 1]
  BY <1>1, <1>2, <1>3, ConcatProperties
<1>5. PICK r : r = Reverse(t)
  OBVIOUS
<1>6. r \in Seq(Int) /\ Len(r) = n /\ \A i \in 1 .. n : r[i] = t[n - i + 1]
  <2>1. r = [i \in 1 .. n |-> t[(n - i) + 1]]
    BY <1>1, <1>5 DEF Reverse
  <2>2. \A i \in 1 .. n : t[(n - i) + 1] \in Int
    <3>1. \A i \in 1 .. n : (n - i) + 1 \in 1 .. Len(t)
      BY <1>1
    <3>. QED  BY <3>1, ElementOfSeq
  <2>3. r \in Seq(Int)
    BY <2>1, <2>2, IsASeq
  <2>4. Len(r) = n
    BY <2>1, <2>3, LenProperties
  <2>. QED  BY <2>1, <2>3, <2>4
<1>7. PICK v : v = r \o <<x>>
  OBVIOUS
<1>8. /\ v \in Seq(Int) /\ Len(v) = n + 1
      /\ \A i \in 1 .. n + 1 : v[i] = IF i <= n THEN r[i] ELSE <<x>>[i - n]
  BY <1>3, <1>6, <1>7, ConcatProperties
<1>9. PICK w : w = Reverse(u)
  OBVIOUS
<1>10. w = [i \in 1 .. n + 1 |-> u[(n + 1 - i) + 1]]
  <2>1. Len(u) = n + 1
    BY <1>4
  <2>. QED  BY <2>1, <1>9 DEF Reverse
<1>11. w \in Seq(Int)
  <2>1. \A i \in 1 .. n + 1 : u[(n + 1 - i) + 1] \in Int
    <3>1. \A i \in 1 .. n + 1 : (n + 1 - i) + 1 \in 1 .. Len(u)
      BY <1>4
    <3>. QED  BY <3>1, <1>4, ElementOfSeq
  <2>2. n + 1 \in Nat
    OBVIOUS
  <2>. QED  BY <2>1, <2>2, <1>10, IsASeq
<1>12. Len(w) = n + 1
  BY <1>10, <1>11, LenProperties
<1>13. ASSUME NEW i \in 1 .. n + 1 PROVE w[i] = v[i]
  <2>1. PICK j \in 1 .. n + 1 : j = (n + 1 - i) + 1
    <3>1. (n + 1 - i) + 1 \in 1 .. n + 1
      OBVIOUS
    <3>. QED  BY <3>1
  <2>2. w[i] = u[j]
    BY <2>1, <1>10
  <2>3. j \in 1 .. 1 + n
    OBVIOUS
  <2>4. u[j] = IF j <= 1 THEN <<x>>[j] ELSE t[j - 1]
    BY <2>3, <1>4
  <2>5. CASE i = n + 1
    <3>1. j = 1 /\ i - n = 1 /\ ~ (i <= n)
      BY <2>5, <2>1
    <3>. QED  BY <3>1, <2>2, <2>4, <1>3, <1>8
  <2>6. CASE i # n + 1
    <3>1. i \in 1 .. n /\ j - 1 = n - i + 1 /\ ~ (j <= 1)
      BY <2>6, <2>1
    <3>2. r[i] = t[n - i + 1] /\ v[i] = r[i]
      BY <3>1, <1>6, <1>8
    <3>. QED  BY <3>1, <3>2, <2>2, <2>4
  <2>. QED  BY <2>5, <2>6
<1>14. w = v
  BY <1>8, <1>11, <1>12, <1>13, SeqEqual
<1>. QED  BY <1>2, <1>5, <1>7, <1>9, <1>14, Zenon

\* A digit is a character.
LEMMA DigitInteger ==
  ASSUME NEW d \in Int, NEW flags
  PROVE  Digit(d, flags) \in Int
BY DEF Digit

TurnsTo(t, d, n) == t[n] \in Seq(Int) /\ Reverse(t[n]) = d[n]

\* The digits that print_number keeps, reversed, are the digits of the number, by
\* induction over the number.
LEMMA DigitsTurned ==
  ASSUME NEW b \in {10, 16}, NEW F, NEW G, NEW m \in Nat, NEW v \in 1 .. m,
         \A k \in Int : Digit(k, F) = Digit(k, G),
         NEW t, IsTmp(t, b, F, m), NEW d, IsDigits(d, b, G, v)
  PROVE  TurnsTo(t, d, v)
<1>. DEFINE T == {n \in Nat : \A k \in 1 .. n : k <= v => TurnsTo(t, d, k)}
<1>1. \A n \in 0 .. m : t[n] = IF n = 0 THEN << >> ELSE <<Digit(n % b, F)>> \o t[n \div b]
  BY DEF IsTmp
<1>2. \A n \in 0 .. v : d[n] = IF n < b THEN <<Digit(n, G)>>
                               ELSE d[n \div b] \o <<Digit(n % b, G)>>
  BY DEF IsDigits
<1>3. 0 \in T
  OBVIOUS
<1>4. ASSUME NEW n \in Nat, n \in T PROVE n + 1 \in T
  <2>1. ASSUME NEW k \in 1 .. n + 1, k <= v PROVE TurnsTo(t, d, k)
    <3>1. CASE k \in 1 .. n
      BY <3>1, <2>1, <1>4
    <3>2. CASE k = n + 1
      <4>1. k \in Nat /\ k # 0 /\ k \in 0 .. m /\ k \in 0 .. v
        BY <2>1
      <4>2. PICK q \in Nat : q = k \div b
        BY <4>1, Quotient
      <4>3. PICK x \in Int : x = Digit(k % b, F)
        <5>1. (k % b) \in Nat
          BY <4>1, Quotient
        <5>2. (k % b) \in Int
          BY <5>1
        <5>. QED  BY <5>2, DigitInteger
      <4>4. Digit(k % b, G) = x
        <5>1. (k % b) \in Nat
          BY <4>1, Quotient
        <5>. QED  BY <5>1, <4>3
      <4>5. t[k] = <<x>> \o t[q]
        BY <4>1, <4>2, <4>3, <1>1
      <4>6. CASE k < b
        <5>1. q = 0 /\ k % b = k
          BY <4>1, <4>2, <4>6, Quotient
        <5>2. t[q] = << >>
          <6>1. 0 \in 0 .. m
            OBVIOUS
          <6>2. t[0] = << >>
            BY <6>1, <1>1
          <6>. QED  BY <5>1, <6>2
        <5>3. t[k] = <<x>>
          <6>1. <<x>> \in Seq(Int)
            OBVIOUS
          <6>. QED  BY <6>1, <5>2, <4>5, ConcatEmptySeq
        <5>4. d[k] = <<x>>
          BY <4>1, <4>4, <4>6, <5>1, <1>2
        <5>5. Reverse(<<x>>) = <<x>>
          BY ReverseOne
        <5>. QED  BY <5>3, <5>4, <5>5 DEF TurnsTo
      <4>7. CASE ~ (k < b)
        <5>1. b <= k
          BY <4>1, <4>7
        <5>2. q \in 1 .. n /\ q <= v
          <6>1. 0 < q /\ q < k
            BY <4>1, <4>2, <5>1, Quotient
          <6>. QED  BY <6>1, <3>2, <2>1
        <5>3. t[q] \in Seq(Int) /\ Reverse(t[q]) = d[q]
          BY <5>2, <1>4 DEF TurnsTo
        <5>4. d[k] = d[q] \o <<x>>
          BY <4>1, <4>2, <4>4, <4>7, <1>2
        <5>5. Reverse(<<x>> \o t[q]) = Reverse(t[q]) \o <<x>>
          BY <5>3, ReverseFirst
        <5>6. <<x>> \o t[q] \in Seq(Int)
          BY <5>3
        <5>. QED  BY <4>5, <5>3, <5>4, <5>5, <5>6, Zenon DEF TurnsTo
      <4>. QED  BY <4>6, <4>7
    <3>. QED  BY <3>1, <3>2
  <2>. QED  BY <2>1
<1>5. Nat \subseteq T
  <2>. HIDE DEF T
  <2>. QED  BY <1>3, <1>4, SetInduction
<1>6. v \in Nat
  OBVIOUS
<1>7. v \in T
  BY <1>5, <1>6
<1>8. v \in 1 .. v
  OBVIOUS
<1>. QED  BY <1>7, <1>8

\* So they are for the number as print_number gets it, 0 included.
LEMMA DigitsAreTurned ==
  ASSUME NEW base, NEW F, NEW G,
         \A k \in Int : Digit(k, F) = Digit(k, G),
         2^Width \in Nat, NEW v \in 0 .. 2^Width - 1, NEW num,
         num = 0 <=> v = 0, v = Unsigned(num, Width)
  PROVE  /\ Tmp(num, base, F) \in Seq(Int)
         /\ Reverse(Tmp(num, base, F)) = DigitsOf(v, DivideBy(base), G)
<1>. DEFINE b == DivideBy(base)
            Is(f) == f = [n \in 0 .. 2^Width |->
                            IF n = 0 THEN << >> ELSE <<Digit(n % b, F)>> \o f[n \div b]]
            As(f) == f = [k \in 0 .. v |->
                            IF k < b THEN <<Digit(k, G)>>
                            ELSE f[k \div b] \o <<Digit(k % b, G)>>]
            t == CHOOSE f : Is(f)
            d == CHOOSE f : As(f)
<1>0. b \in {10, 16}
  BY DEF DivideBy
<1>1. PICK m \in Nat : m = 2^Width
  OBVIOUS
<1>2. v \in Nat /\ v < m
  BY <1>1
<1>3. Is(t)
  <2>1. PICK f : IsTmp(f, b, F, m)
    BY <1>0, TmpExists
  <2>2. Is(f)
    BY <2>1, <1>1 DEF IsTmp
  <2>. HIDE DEF Is
  <2>. QED  BY <2>2
<1>4. As(d)
  <2>1. PICK f : IsDigits(f, b, G, v)
    BY <1>0, <1>2, DigitsExist
  <2>2. As(f)
    BY <2>1 DEF IsDigits
  <2>. HIDE DEF As
  <2>. QED  BY <2>2
<1>5. IsTmp(t, b, F, m)
  <2>. HIDE DEF b, t
  <2>. QED  BY <1>1, <1>3 DEF IsTmp
<1>6. IsDigits(d, b, G, v)
  <2>. HIDE DEF b, d
  <2>. QED  BY <1>4 DEF IsDigits
<1>7. Tmp(num, base, F) = IF num = 0 THEN <<Digit(0, F)>> ELSE t[v]
  <2>1. Tmp(num, base, F) = IF num = 0 THEN <<Digit(0, F)>> ELSE t[Unsigned(num, Width)]
    BY Zenon DEF Tmp
  <2>. QED  BY <2>1, Zenon
<1>8. DigitsOf(v, DivideBy(base), G) = d[v]
  BY Zenon DEF DigitsOf
<1>9. CASE num = 0
  <2>1. PICK x \in Int : x = Digit(0, F)
    BY DigitInteger
  <2>2. PICK w : w = <<x>>
    OBVIOUS
  <2>7. w \in Seq(Int)
    BY <2>2
  <2>3. Reverse(w) = w
    BY <2>2, ReverseOne
  <2>4. Tmp(num, base, F) = w
    BY <2>1, <2>2, <1>7, <1>9
  <2>5. d[v] = w
    <3>1. Digit(0, G) = x
      BY <2>1
    <3>2. v = 0 /\ v \in 0 .. v /\ v < b
      BY <1>0, <1>9
    <3>. HIDE DEF b, d
    <3>3. d[v] = <<Digit(v, G)>>
      BY <3>2, <1>6 DEF IsDigits
    <3>. QED  BY <3>1, <3>2, <3>3, <2>2
  <2>6. DigitsOf(v, DivideBy(base), G) = w
    BY <2>5, <1>8, Zenon
  <2>. QED  BY <2>3, <2>4, <2>6, <2>7, Zenon
<1>10. CASE num # 0
  <2>1. v \in 1 .. m
    BY <1>2, <1>10
  <2>. HIDE DEF b, t, d
  <2>2. TurnsTo(t, d, v)
    BY <2>1, <1>0, <1>5, <1>6, DigitsTurned
  <2>3. Tmp(num, base, F) = t[v]
    BY <1>7, <1>10
  <2>. QED  BY <2>2, <2>3, <1>8 DEF TurnsTo
<1>. QED  BY <1>9, <1>10

\* A character repeated.
LEMMA RepeatProperties ==
  ASSUME NEW X, NEW c \in X, NEW n \in Nat
  PROVE  /\ Repeat(c, n) \in Seq(X) /\ Len(Repeat(c, n)) = n
         /\ n = 0 => Repeat(c, n) = << >>
<1>1. Repeat(c, n) = [i \in 1 .. n |-> c]
  BY DEF Repeat
<1>2. Repeat(c, n) \in Seq(X)
  BY <1>1, IsASeq
<1>3. Len(Repeat(c, n)) = n
  BY <1>1, <1>2, LenProperties
<1>4. Repeat(c, n) # << >> => Len(Repeat(c, n)) \in Nat \ {0}
  BY <1>2, EmptySeq
<1>. QED  BY <1>2, <1>3, <1>4

\* One text behind the other, in either order.
LEMMA Associative ==
  ASSUME NEW s \in Seq(Int), NEW t \in Seq(Int), NEW u \in Seq(Int)
  PROVE  (s \o t) \o u = s \o (t \o u)
BY ConcatAssociative

\* A number in its field.
Laid(sign, rest, zeros, put, left, zeropad) ==
  IF left THEN sign \o zeros \o put \o Repeat(Blank, rest)
  ELSE IF zeropad THEN sign \o Repeat(48, rest) \o zeros \o put
  ELSE Repeat(Blank, rest) \o sign \o zeros \o put

\* How print_number shares out the rest of the field.
Shared(rest, left, zeropad, a, c, b, d) ==
  /\ left => a = 0 /\ b = 0 /\ d = rest
  /\ ~ left /\ zeropad => a = 0 /\ b = rest /\ d = 0 /\ c = 48
  /\ ~ left /\ ~ zeropad => a = rest /\ b = 0 /\ d = 0

PutOut(sign, zeros, put, a, b, c, d) ==
  Repeat(Blank, a) \o sign \o Repeat(c, b) \o (zeros \o put) \o Repeat(Blank, d)

AreParts(sign, zeros, put, rest, left, zeropad, a, b, c, d) ==
  /\ sign \in Seq(Int) /\ zeros \in Seq(Int) /\ put \in Seq(Int)
  /\ rest \in Nat /\ a \in Nat /\ b \in Nat /\ d \in Nat /\ c \in Int
  /\ left \in BOOLEAN /\ zeropad \in BOOLEAN
  /\ Shared(rest, left, zeropad, a, c, b, d)

\* What print_number puts out, part by part, is the number laid out in its field.
LEMMA LaidOut ==
  ASSUME NEW sign, NEW zeros, NEW put, NEW rest, NEW left, NEW zeropad,
         NEW a, NEW b, NEW c, NEW d,
         AreParts(sign, zeros, put, rest, left, zeropad, a, b, c, d)
  PROVE  PutOut(sign, zeros, put, a, b, c, d) = Laid(sign, rest, zeros, put, left, zeropad)
<1>. DEFINE ra == Repeat(Blank, a)
            rb == Repeat(c, b)
            rd == Repeat(Blank, d)
            r == Repeat(Blank, rest)
            z == Repeat(48, rest)
            mid == zeros \o put
<1>. USE DEF AreParts
<1>1. Blank \in Int /\ 48 \in Int
  BY DEF Blank
<1>2. /\ ra \in Seq(Int) /\ rb \in Seq(Int) /\ rd \in Seq(Int) /\ r \in Seq(Int) /\ z \in Seq(Int)
      /\ (a = 0 => ra = << >>) /\ (b = 0 => rb = << >>) /\ (d = 0 => rd = << >>)
  BY <1>1, RepeatProperties
<1>3. mid \in Seq(Int) /\ sign \o zeros \in Seq(Int) /\ << >> \in Seq(Int)
  BY ConcatProperties, EmptySeq
<1>4. CASE left
  <2>1. ra = << >> /\ rb = << >> /\ rd = r
    BY <1>2, <1>4 DEF Shared
  <2>2. ra \o sign = sign /\ sign \o rb = sign
    BY <2>1, ConcatEmptySeq
  <2>3. sign \o mid = (sign \o zeros) \o put
    BY Associative, Zenon
  <2>4. ra \o sign \o rb \o mid \o rd = sign \o zeros \o put \o r
    <3>. HIDE DEF ra, rb, rd, r, mid
    <3>. QED  BY <2>1, <2>2, <2>3, Zenon
  <2>. QED  BY <2>4, <1>4, Zenon DEF Laid, PutOut
<1>5. CASE ~ left /\ zeropad
  <2>1. ra = << >> /\ rb = z /\ rd = << >>
    BY <1>2, <1>5 DEF Shared
  <2>2. ra \o sign = sign
    BY <2>1, ConcatEmptySeq
  <2>3. sign \o z \in Seq(Int)
    BY <1>2, ConcatProperties
  <2>4. (sign \o z) \o mid = ((sign \o z) \o zeros) \o put
    BY <2>3, Associative, Zenon
  <2>5. (sign \o z) \o mid \in Seq(Int)
    BY <1>3, <2>3, ConcatProperties
  <2>6. ((sign \o z) \o mid) \o rd = (sign \o z) \o mid
    BY <2>1, <2>5, ConcatEmptySeq
  <2>7. ra \o sign \o rb \o mid \o rd = sign \o z \o zeros \o put
    <3>. HIDE DEF ra, rb, rd, z, mid
    <3>. QED  BY <2>1, <2>2, <2>4, <2>6, Zenon
  <2>. QED  BY <2>7, <1>5, Zenon DEF Laid, PutOut
<1>6. CASE ~ left /\ ~ zeropad
  <2>1. ra = r /\ rb = << >> /\ rd = << >>
    BY <1>2, <1>6 DEF Shared
  <2>2. r \o sign \in Seq(Int)
    BY <1>2, ConcatProperties
  <2>3. (r \o sign) \o rb = r \o sign
    BY <2>1, <2>2, ConcatEmptySeq
  <2>4. (r \o sign) \o mid = ((r \o sign) \o zeros) \o put
    BY <2>2, Associative, Zenon
  <2>5. (r \o sign) \o mid \in Seq(Int)
    BY <1>3, <2>2, ConcatProperties
  <2>6. ((r \o sign) \o mid) \o rd = (r \o sign) \o mid
    BY <2>1, <2>5, ConcatEmptySeq
  <2>7. ra \o sign \o rb \o mid \o rd = r \o sign \o zeros \o put
    <3>. HIDE DEF ra, rb, rd, r, mid
    <3>. QED  BY <2>1, <2>3, <2>4, <2>6, Zenon
  <2>. QED  BY <2>7, <1>6, Zenon DEF Laid, PutOut
<1>. QED  BY <1>4, <1>5, <1>6

\* A number laid out is a sequence of characters.
LEMMA LaidIsText ==
  ASSUME NEW sign \in Seq(Int), NEW zeros \in Seq(Int), NEW put \in Seq(Int), NEW rest \in Nat,
         NEW left \in BOOLEAN, NEW zeropad \in BOOLEAN
  PROVE  Laid(sign, rest, zeros, put, left, zeropad) \in Seq(Int)
<1>1. Blank \in Int /\ 48 \in Int
  BY DEF Blank
<1>2. Repeat(Blank, rest) \in Seq(Int) /\ Repeat(48, rest) \in Seq(Int)
  BY <1>1, RepeatProperties
<1>3. /\ sign \o zeros \o put \o Repeat(Blank, rest) \in Seq(Int)
      /\ sign \o Repeat(48, rest) \o zeros \o put \in Seq(Int)
      /\ Repeat(Blank, rest) \o sign \o zeros \o put \in Seq(Int)
  BY <1>2, ConcatProperties
<1>. QED  BY <1>3, Zenon DEF Laid

\* The sizes print_number counts down, for a sign of length l and a number of which
\* shown characters stand.
SizesOf(s, shown, l, sign, left, before, size, size1, size2, a, b, d, rest) ==
  /\ size = SizeForBlanks(s - shown, sign)
  /\ size1 = (IF before THEN After(size) ELSE s - shown) - l
  /\ size2 = IF left THEN size1 ELSE After(size1)
  /\ a = IF before THEN Times(size) ELSE 0
  /\ b = IF left THEN 0 ELSE Times(size1)
  /\ d = Times(size2)
  /\ rest = Max({0, s - (l + shown)})

\* Counted down as in print_number, the sizes give the whole rest of the field to one
\* of the three places.
LEMMA SizesShare ==
  ASSUME NEW s \in Int, NEW shown \in Nat, NEW l \in {0, 1}, NEW sign, sign = << >> <=> l = 0,
         NEW left \in BOOLEAN, NEW zeropad \in BOOLEAN, NEW c, ~ left /\ zeropad => c = 48,
         NEW before, before <=> ~ left /\ ~ zeropad, NEW size, NEW size1, NEW size2,
         NEW a, NEW b, NEW d, NEW rest,
         SizesOf(s, shown, l, sign, left, before, size, size1, size2, a, b, d, rest)
  PROVE  /\ a \in Nat /\ b \in Nat /\ d \in Nat /\ rest \in Nat
         /\ Shared(rest, left, zeropad, a, c, b, d)
<1>. USE DEF SizesOf
<1>1. size = IF l = 1 /\ s - shown > 0 THEN s - shown - 1 ELSE s - shown
  BY DEF SizeForBlanks
<1>2. rest = IF 0 < s - (l + shown) THEN s - (l + shown) ELSE 0
  BY TwoMax
<1>3. CASE left
  <2>1. size1 = s - shown - l /\ size2 = size1
    BY <1>3
  <2>. QED  BY <2>1, <1>2, <1>3 DEF Times, Shared
<1>4. CASE ~ left /\ zeropad
  <2>1. size1 = s - shown - l /\ size2 = After(size1)
    BY <1>4
  <2>2. d = 0
    BY <2>1 DEF After, Times
  <2>. QED  BY <2>1, <2>2, <1>2, <1>4 DEF Times, Shared
<1>5. CASE ~ left /\ ~ zeropad
  <2>1. size1 = After(size) - l /\ size2 = After(size1) /\ a = Times(size)
    BY <1>5
  <2>2. size \in Int
    BY <1>1
  <2>3. size1 \in Int /\ size1 < 0
    BY <2>1, <2>2 DEF After
  <2>4. b = 0 /\ d = 0
    BY <2>1, <2>3, <1>5 DEF After, Times
  <2>5. a = rest /\ a \in Nat
    BY <2>1, <1>1, <1>2 DEF Times
  <2>. QED  BY <2>4, <2>5, <1>5 DEF Shared
<1>. QED  BY <1>3, <1>4, <1>5

\* The sign print_number puts out, the number it makes digits of, and its field.
SignOf(num, flags) ==
  IF "SIGN" \notin flags THEN << >>
  ELSE IF num < 0 THEN <<45>>
  ELSE IF "PLUS" \in flags THEN <<43>>
  ELSE IF "SPACE" \in flags THEN <<Blank>> ELSE << >>
Positive(num, flags) == IF "SIGN" \in flags /\ num < 0 THEN - num ELSE num
Kept(flags) == IF "LEFT" \in flags THEN flags \ {"ZEROPAD"} ELSE flags

FieldText(s, precision, sign, digits, left, zeropad) ==
  LET zeros == Repeat(48, IF precision = None THEN 0
                          ELSE Max({0, precision - Len(digits)}))
      rest == Max({0, s - Len(sign \o zeros \o digits)})
      put == IF precision \in {None, 0} THEN << >> ELSE digits
  IN Laid(sign, rest, zeros, put, left, zeropad)

\* There is at most one sign.
LEMMA SignProperties ==
  ASSUME NEW num \in Int, NEW flags
  PROVE  /\ SignOf(num, flags) \in Seq(Int) /\ Len(SignOf(num, flags)) \in {0, 1}
         /\ SignOf(num, flags) = << >> <=> Len(SignOf(num, flags)) = 0
<1>1. << >> \in Seq(Int) /\ Len(<< >>) = 0
  BY EmptySeq
<1>2. \A x \in Int : <<x>> \in Seq(Int) /\ Len(<<x>>) = 1
  OBVIOUS
<1>3. 45 \in Int /\ 43 \in Int /\ Blank \in Int
  BY DEF Blank
<1>4. SignOf(num, flags) = << >> \/ \E x \in Int : SignOf(num, flags) = <<x>>
  BY <1>3, Zenon DEF SignOf
<1>5. CASE SignOf(num, flags) = << >>
  BY <1>1, <1>5
<1>6. CASE \E x \in Int : SignOf(num, flags) = <<x>>
  <2>1. PICK x \in Int : SignOf(num, flags) = <<x>>
    BY <1>6
  <2>2. <<x>> # << >>
    OBVIOUS
  <2>. QED  BY <2>1, <2>2, <1>2
<1>. QED  BY <1>4, <1>5, <1>6

\* A reversed text is as long as the text.
LEMMA ReverseProperties ==
  ASSUME NEW X, NEW t \in Seq(X)
  PROVE  Reverse(t) \in Seq(X) /\ Len(Reverse(t)) = Len(t)
<1>1. PICK n \in Nat : n = Len(t)
  BY LenProperties
<1>2. PICK r : r = Reverse(t)
  OBVIOUS
<1>3. r = [i \in 1 .. n |-> t[(n - i) + 1]]
  BY <1>1, <1>2 DEF Reverse
<1>4. \A i \in 1 .. n : t[(n - i) + 1] \in X
  <2>1. \A i \in 1 .. n : (n - i) + 1 \in 1 .. Len(t)
    BY <1>1
  <2>. QED  BY <2>1, ElementOfSeq
<1>5. r \in Seq(X)
  BY <1>3, <1>4, IsASeq
<1>6. Len(r) = n
  BY <1>3, <1>5, LenProperties
<1>. QED  BY <1>1, <1>2, <1>5, <1>6

\* print_number lays out its sign and its digits, for every field and precision.
LEMMA PrintNumberLays ==
  ASSUME NEW num \in Int, NEW base, NEW s \in Int, NEW precision,
         precision = None \/ precision \in Int, NEW flags0,
         Tmp(Positive(num, flags0), base, Kept(flags0)) \in Seq(Int)
  PROVE  /\ print_number(num, base, s, precision, flags0) \in Seq(Int)
         /\ print_number(num, base, s, precision, flags0)
              = FieldText(s, precision, SignOf(num, flags0),
                          Reverse(Tmp(Positive(num, flags0), base, Kept(flags0))),
                          "LEFT" \in flags0, "ZEROPAD" \in flags0)
<1>. DEFINE flags == IF "LEFT" \in flags0 THEN flags0 \ {"ZEROPAD"} ELSE flags0
            c == IF "ZEROPAD" \in flags THEN 48 ELSE Blank
            negative == "SIGN" \in flags /\ num < 0
            sign == IF "SIGN" \notin flags THEN << >>
                    ELSE IF negative THEN <<45>>
                    ELSE IF "PLUS" \in flags THEN <<43>>
                    ELSE IF "SPACE" \in flags THEN <<Blank>> ELSE << >>
            tmp == Tmp(IF negative THEN - num ELSE num, base, flags)
            i == Len(tmp)
            shown == IF precision = None THEN i ELSE Max({i, precision})
            size == SizeForBlanks(s - shown, sign)
            before == flags \cap {"ZEROPAD", "LEFT"} = {}
            size1 == (IF before THEN After(size) ELSE s - shown) - Len(sign)
            size2 == IF "LEFT" \in flags THEN size1 ELSE After(size1)
            a == IF before THEN Times(size) ELSE 0
            b == IF "LEFT" \in flags THEN 0 ELSE Times(size1)
            d == Times(size2)
            mid == IF precision = None THEN << >>
                   ELSE Repeat(48, shown - i)
                          \o (IF precision = 0 THEN << >> ELSE Reverse(tmp))
<1>1. print_number(num, base, s, precision, flags0)
        = Repeat(Blank, a) \o sign \o Repeat(c, b) \o mid \o Repeat(Blank, d)
  BY Zenon DEF print_number
<1>2. /\ "SIGN" \in flags <=> "SIGN" \in flags0
      /\ "PLUS" \in flags <=> "PLUS" \in flags0
      /\ "SPACE" \in flags <=> "SPACE" \in flags0
      /\ "LEFT" \in flags <=> "LEFT" \in flags0
      /\ "LEFT" \notin flags0 => ("ZEROPAD" \in flags <=> "ZEROPAD" \in flags0)
  OBVIOUS
<1>3. PICK sg : sg = SignOf(num, flags0)
  OBVIOUS
<1>4. sign = sg
  <2>. HIDE DEF flags
  <2>. QED  BY <1>2, <1>3, Zenon DEF SignOf
<1>5. PICK tp \in Seq(Int) : tp = Tmp(Positive(num, flags0), base, Kept(flags0))
  OBVIOUS
<1>6. tmp = tp
  <2>1. flags = Kept(flags0)
    BY Zenon DEF Kept
  <2>2. (IF negative THEN - num ELSE num) = Positive(num, flags0)
    BY <1>2, Zenon DEF Positive
  <2>3. tmp = Tmp(Positive(num, flags0), base, Kept(flags0))
    <3>. HIDE DEF flags, negative
    <3>. QED  BY <2>1, <2>2, Zenon
  <2>. QED  BY <2>3, <1>5, Zenon
<1>7. PICK left \in BOOLEAN : left <=> "LEFT" \in flags0
  OBVIOUS
<1>8. PICK zeropad \in BOOLEAN : zeropad <=> "ZEROPAD" \in flags0
  OBVIOUS
<1>9. before <=> ~ left /\ ~ zeropad
  BY <1>7, <1>8
<1>10. ~ left /\ zeropad => c = 48
  BY <1>7, <1>8
<1>11. c \in Int
  BY DEF Blank
<1>12. PICK n \in Nat : n = Len(tp)
  BY LenProperties
<1>13. PICK dg : dg = Reverse(tp)
  OBVIOUS
<1>14. dg \in Seq(Int) /\ Len(dg) = n
  BY <1>12, <1>13, ReverseProperties
<1>15. PICK sh : sh = shown
  OBVIOUS
<1>16. sh = IF precision = None THEN n ELSE Max({n, precision})
  BY <1>6, <1>12, <1>15, Zenon
<1>17. PICK l \in {0, 1} : l = Len(sg)
  BY <1>3, SignProperties
<1>18. sg \in Seq(Int) /\ (sg = << >> <=> l = 0)
  BY <1>3, <1>17, SignProperties
<1>. DEFINE zz == IF precision = None THEN 0 ELSE Max({0, precision - n})
            zeros == Repeat(48, zz)
            put == IF precision \in {None, 0} THEN << >> ELSE dg
<1>19. zz \in Nat /\ sh = n + zz /\ sh \in Nat
  <2>1. CASE precision = None
    BY <2>1, <1>16
  <2>2. CASE precision \in Int /\ precision # None
    <3>1. Max({n, precision}) = IF n < precision THEN precision ELSE n
      BY <2>2, TwoMax
    <3>2. Max({0, precision - n}) = IF 0 < precision - n THEN precision - n ELSE 0
      BY <2>2, TwoMax
    <3>3. sh = Max({n, precision})
      BY <2>2, <1>16, Zenon
    <3>4. zz = Max({0, precision - n})
      BY <2>2, Zenon
    <3>5. sh = IF n < precision THEN precision ELSE n
      BY <3>1, <3>3, Zenon
    <3>6. zz = IF 0 < precision - n THEN precision - n ELSE 0
      BY <3>2, <3>4, Zenon
    <3>. HIDE DEF zz
    <3>. QED  BY <2>2, <3>5, <3>6
  <2>. QED  BY <2>1, <2>2
<1>20. zeros \in Seq(Int) /\ Len(zeros) = zz /\ (zz = 0 => zeros = << >>)
  <2>. HIDE DEF zz
  <2>1. 48 \in Int
    OBVIOUS
  <2>. QED  BY <2>1, <1>19, RepeatProperties
<1>21. put \in Seq(Int)
  BY <1>14, EmptySeq
<1>22. mid = zeros \o put
  <2>1. CASE precision = None
    <3>1. zeros = << >> /\ put = << >>
      BY <2>1, <1>20
    <3>2. << >> \o << >> = << >>
      BY EmptySeq, ConcatEmptySeq
    <3>. HIDE DEF zeros, put
    <3>. QED  BY <2>1, <3>1, <3>2
  <2>2. CASE precision # None
    <3>1. shown - i = zz
      <4>1. shown = sh /\ i = n
        BY <1>6, <1>12, <1>15, Zenon
      <4>. HIDE DEF shown, i, zz
      <4>. QED  BY <4>1, <1>19
    <3>2. Reverse(tmp) = dg
      BY <1>6, <1>13, Zenon
    <3>3. mid = Repeat(48, shown - i) \o (IF precision = 0 THEN << >> ELSE Reverse(tmp))
      BY <2>2, Zenon
    <3>4. put = IF precision = 0 THEN << >> ELSE dg
      BY <2>2
    <3>. HIDE DEF shown, i, tmp, mid, put, zz
    <3>. QED  BY <3>1, <3>2, <3>3, <3>4, Zenon
  <2>. QED  BY <2>1, <2>2
<1>23. PICK rest : rest = Max({0, s - (l + sh)})
  OBVIOUS
<1>24. rest = Max({0, s - Len(sg \o zeros \o dg)})
  <2>1. sg \o zeros \in Seq(Int) /\ Len(sg \o zeros) = l + zz
    <3>. HIDE DEF zeros, zz
    <3>. QED  BY <1>17, <1>18, <1>20, ConcatProperties
  <2>2. Len((sg \o zeros) \o dg) = l + zz + n
    <3>. HIDE DEF zeros, zz
    <3>. QED  BY <2>1, <1>14, ConcatProperties
  <2>3. l + zz + n = l + sh
    <3>. HIDE DEF zz
    <3>. QED  BY <1>19
  <2>. QED  BY <2>2, <2>3, <1>23, Zenon
<1>25. /\ a \in Nat /\ b \in Nat /\ d \in Nat /\ rest \in Nat
       /\ Shared(rest, left, zeropad, a, c, b, d)
  <2>1. size = SizeForBlanks(s - sh, sg)
    BY <1>4, <1>15, Zenon
  <2>2. size1 = (IF before THEN After(size) ELSE s - sh) - l
    BY <1>4, <1>15, <1>17, Zenon
  <2>3. size2 = IF left THEN size1 ELSE After(size1)
    BY <1>2, <1>7, Zenon
  <2>4. b = IF left THEN 0 ELSE Times(size1)
    BY <1>2, <1>7, Zenon
  <2>5. a = IF before THEN Times(size) ELSE 0
    BY Zenon
  <2>6. d = Times(size2)
    BY Zenon
  <2>. HIDE DEF a, b, c, d, size, size1, size2, before
  <2>7. SizesOf(s, sh, l, sg, left, before, size, size1, size2, a, b, d, rest)
    BY <2>1, <2>2, <2>3, <2>4, <2>5, <2>6, <1>23, Zenon DEF SizesOf
  <2>. QED  BY <2>7, <1>9, <1>10, <1>18, <1>19, SizesShare
<1>26. PutOut(sg, zeros, put, a, b, c, d)
         = Laid(sg, rest, zeros, put, left, zeropad)
  <2>. HIDE DEF a, b, c, d, zeros, put
  <2>1. a \in Nat /\ b \in Nat /\ d \in Nat /\ rest \in Nat /\ c \in Int
    BY <1>11, <1>25
  <2>2. sg \in Seq(Int) /\ zeros \in Seq(Int) /\ put \in Seq(Int)
    BY <1>18, <1>20, <1>21
  <2>3. Shared(rest, left, zeropad, a, c, b, d)
    BY <1>25
  <2>4. AreParts(sg, zeros, put, rest, left, zeropad, a, b, c, d)
    BY <2>1, <2>2, <2>3 DEF AreParts
  <2>. QED  BY <2>4, LaidOut
<1>27. print_number(num, base, s, precision, flags0)
         = Laid(sg, rest, zeros, put, left, zeropad)
  <2>. HIDE DEF a, b, c, d, zeros, put, sign, mid
  <2>. QED  BY <1>1, <1>4, <1>22, <1>26, Zenon DEF PutOut
<1>28. FieldText(s, precision, sg, dg, "LEFT" \in flags0, "ZEROPAD" \in flags0)
         = Laid(sg, rest, zeros, put, left, zeropad)
  <2>1. zeros = Repeat(48, IF precision = None THEN 0 ELSE Max({0, precision - Len(dg)}))
    BY <1>14, Zenon
  <2>2. left = ("LEFT" \in flags0) /\ zeropad = ("ZEROPAD" \in flags0)
    BY <1>7, <1>8
  <2>3. put = IF precision \in {None, 0} THEN << >> ELSE dg
    BY Zenon
  <2>. HIDE DEF zeros, put
  <2>. QED  BY <2>1, <2>2, <2>3, <1>24, Zenon DEF FieldText
<1>29. Reverse(Tmp(Positive(num, flags0), base, Kept(flags0))) = dg
  BY <1>5, <1>13, Zenon
<1>30. Laid(sg, rest, zeros, put, left, zeropad) \in Seq(Int)
  <2>. HIDE DEF zeros, put
  <2>. QED  BY <1>18, <1>20, <1>21, <1>25, LaidIsText
<1>. QED  BY <1>3, <1>27, <1>28, <1>29, <1>30, Zenon

IsNumber(spec) ==
  /\ spec.conv \in NumberConversions /\ spec.arg \in Int /\ spec.width \in Int
  /\ spec.precision = None \/ spec.precision \in Int
  /\ spec.flags \subseteq {"LEFT", "ZEROPAD", "PLUS", "SPACE"}

\* The flags of a conversion by what is written in it.
LEMMA FlagsProperties ==
  ASSUME NEW spec, IsNumber(spec)
  PROVE  /\ "LEFT" \in Flags(spec) <=> LeftJustified(spec)
         /\ "ZEROPAD" \in Flags(spec) <=> "ZEROPAD" \in spec.flags
         /\ "PLUS" \in Flags(spec) <=> "PLUS" \in spec.flags
         /\ "SPACE" \in Flags(spec) <=> "SPACE" \in spec.flags
         /\ "SIGN" \in Flags(spec) <=> spec.conv = "d"
         /\ \A k \in Int : Digit(k, Kept(Flags(spec))) = Digit(k, Flags(spec))
<1>1. Flags(spec) = {f \in {"LEFT", "ZEROPAD", "PLUS", "SPACE", "SIGN", "LARGE"} :
                       \/ f \in spec.flags
                       \/ f = "LEFT" /\ LeftJustified(spec)
                       \/ f = "LARGE" /\ spec.conv = "X"
                       \/ f = "SIGN" /\ spec.conv = "d"}
  BY DEF Flags, IsNumber
<1>2. "LARGE" \in Kept(Flags(spec)) <=> "LARGE" \in Flags(spec)
  BY DEF Kept
<1>3. \A k \in Int : Digit(k, Kept(Flags(spec))) = Digit(k, Flags(spec))
  BY <1>2, Zenon DEF Digit
<1>4. "LEFT" \in spec.flags => LeftJustified(spec)
  BY DEF LeftJustified
<1>5. "SIGN" \notin spec.flags
  BY DEF IsNumber
<1>. QED  BY <1>1, <1>3, <1>4, <1>5

\* A number as print_number puts it out, in every build: base 8 is base 16, and
\* FieldText leaves the digits out where the code does.
SignText(spec) ==
  IF spec.conv # "d" THEN << >>
  ELSE IF Value(spec) < 0 THEN <<45>>
  ELSE IF "PLUS" \in spec.flags THEN <<43>>
  ELSE IF "SPACE" \in spec.flags THEN <<Blank>> ELSE << >>
PrintedText(spec) ==
  FieldText(FieldWidth(spec), spec.precision, SignText(spec),
            DigitsOf(Amount(spec), DivideBy(Base(spec.conv)), Flags(spec)),
            LeftJustified(spec), "ZEROPAD" \in spec.flags)

LEMMA NumberFills ==
  ASSUME NEW spec, IsNumber(spec)
  PROVE  /\ NumberConversion(spec) = PrintedText(spec) /\ NumberConversion(spec) \in Seq(Int)
         /\ DigitsOf(Amount(spec), DivideBy(Base(spec.conv)), Flags(spec)) \in Seq(Int)
<1>. DEFINE num == Argument(spec)
            flags == Flags(spec)
            base == Base(spec.conv)
            v == Amount(spec)
            pos == Positive(num, flags)
            sign == SignText(spec)
            digits == DigitsOf(v, DivideBy(base), flags)
            tmp == Tmp(pos, base, Kept(flags))
<1>1. spec.arg \in Int /\ FieldWidth(spec) \in Int
  BY DEF IsNumber, FieldWidth
<1>2. /\ num \in Int /\ Value(spec) \in Int /\ v \in 0 .. 2^Width - 1
      /\ spec.conv = "d" => num = Value(spec)
      /\ spec.conv # "d" => 0 <= Value(spec)
      /\ num = 0 <=> v = 0
      /\ Unsigned(v, Width) = v
      /\ 0 <= Value(spec) => Unsigned(num, Width) = v
  BY <1>1, ArgumentProperties
<1>3. /\ "LEFT" \in flags <=> LeftJustified(spec)
      /\ "ZEROPAD" \in flags <=> "ZEROPAD" \in spec.flags
      /\ "PLUS" \in flags <=> "PLUS" \in spec.flags
      /\ "SPACE" \in flags <=> "SPACE" \in spec.flags
      /\ "SIGN" \in flags <=> spec.conv = "d"
      /\ \A k \in Int : Digit(k, Kept(flags)) = Digit(k, flags)
  BY FlagsProperties
<1>4. NumberConversion(spec) = print_number(num, base, FieldWidth(spec), spec.precision, flags)
  BY DEF NumberConversion
<1>5. PrintedText(spec) = FieldText(FieldWidth(spec), spec.precision, sign, digits,
                                    LeftJustified(spec), "ZEROPAD" \in spec.flags)
  BY Zenon DEF PrintedText
<1>. HIDE DEF flags, num, v, base
<1>6. sign = SignOf(num, flags)
  <2>1. CASE spec.conv = "d"
    <3>1. num = Value(spec)
      BY <2>1, <1>2
    <3>. QED  BY <2>1, <3>1, <1>3, Zenon DEF SignOf, SignText
  <2>2. CASE spec.conv # "d"
    BY <2>2, <1>3, Zenon DEF SignOf, SignText
  <2>. QED  BY <2>1, <2>2
<1>7. (pos = 0 <=> v = 0) /\ v = Unsigned(pos, Width)
  <2>1. CASE spec.conv = "d" /\ Value(spec) < 0
    <3>1. num = Value(spec) /\ num < 0 /\ pos = - num
      BY <2>1, <1>2, <1>3 DEF Positive
    <3>2. v = pos
      BY <3>1, <2>1 DEF v, Amount
    <3>. QED  BY <3>2, <1>2
  <2>2. CASE ~ (spec.conv = "d" /\ Value(spec) < 0)
    <3>1. 0 <= Value(spec)
      BY <2>2, <1>2
    <3>2. pos = num
      <4>1. CASE spec.conv = "d"
        <5>1. ~ (num < 0)
          BY <4>1, <3>1, <1>2
        <5>. QED  BY <5>1, Zenon DEF Positive
      <4>2. CASE spec.conv # "d"
        BY <4>2, <1>3, Zenon DEF Positive
      <4>. QED  BY <4>1, <4>2
    <3>. HIDE DEF pos
    <3>. QED  BY <3>1, <3>2, <1>2
  <2>. QED  BY <2>1, <2>2
<1>8. 2^Width \in Nat
  <2>1. Width \in {4, 8, 16, 32}
    BY SomeBits
  <2>2. Readings(0, Width)
    BY <2>1, BitsProperties
  <2>3. PICK h \in Nat : h = Half(Width)
    BY <2>2 DEF Readings
  <2>4. 2^Width = 2 * h
    BY <2>2, <2>3 DEF Readings
  <2>. QED  BY <2>4
<1>9. tmp \in Seq(Int) /\ Reverse(tmp) = digits
  <2>. DEFINE kept == Kept(flags)
  <2>. HIDE DEF pos, kept
  <2>1. \A k \in Int : Digit(k, kept) = Digit(k, flags)
    BY <1>3 DEF kept
  <2>2. Tmp(pos, base, kept) \in Seq(Int)
        /\ Reverse(Tmp(pos, base, kept)) = DigitsOf(v, DivideBy(base), flags)
    BY <2>1, <1>2, <1>7, <1>8, DigitsAreTurned
  <2>. QED  BY <2>2 DEF kept
<1>10. /\ print_number(num, base, FieldWidth(spec), spec.precision, flags) \in Seq(Int)
       /\ print_number(num, base, FieldWidth(spec), spec.precision, flags)
            = FieldText(FieldWidth(spec), spec.precision, SignOf(num, flags), Reverse(tmp),
                        "LEFT" \in flags, "ZEROPAD" \in flags)
  <2>1. spec.precision = None \/ spec.precision \in Int
    BY DEF IsNumber
  <2>2. PICK p : p = spec.precision
    OBVIOUS
  <2>3. PICK w \in Int : w = FieldWidth(spec)
    BY <1>1
  <2>4. print_number(num, base, w, p, flags) \in Seq(Int) /\ print_number(num, base, w, p, flags)
          = FieldText(w, p, SignOf(num, flags), Reverse(Tmp(Positive(num, flags), base, Kept(flags))),
                      "LEFT" \in flags, "ZEROPAD" \in flags)
    BY <2>1, <2>2, <1>2, <1>9, PrintNumberLays
  <2>. QED  BY <2>2, <2>3, <2>4
<1>11. /\ ("LEFT" \in flags) = LeftJustified(spec)
       /\ ("ZEROPAD" \in flags) = ("ZEROPAD" \in spec.flags)
  BY <1>3 DEF LeftJustified
<1>12. DigitsOf(Amount(spec), DivideBy(Base(spec.conv)), Flags(spec)) \in Seq(Int)
  <2>. HIDE DEF tmp
  <2>1. digits \in Seq(Int)
    BY <1>9, ReverseProperties
  <2>. QED  BY <2>1 DEF v, base, flags
<1>. HIDE DEF sign, digits, tmp
<1>. QED  BY <1>4, <1>5, <1>6, <1>9, <1>10, <1>11, <1>12, Zenon

\* Where KeepsToC claims it, that is the number as C has it.
LEMMA PrintedIsNumberText ==
  ASSUME NEW spec, IsNumber(spec), KeepsToC(spec)
  PROVE  PrintedText(spec) = NumberText(spec)
<1>. DEFINE given == spec.precision # None /\ spec.precision >= 0
            digits == DigitsOf(Amount(spec), Radix(spec.conv), Flags(spec))
            sign == SignText(spec)
            zeros == Repeat(48, IF given THEN Max({0, spec.precision - Len(digits)}) ELSE 0)
            put == IF spec.precision = 0 /\ Value(spec) = 0 THEN << >> ELSE digits
            rest == Max({0, FieldWidth(spec) - Len(sign \o zeros \o put)})
            left == LeftJustified(spec)
            zeropad == "ZEROPAD" \in spec.flags
<1>1. NumberText(spec)
        = IF left THEN sign \o zeros \o put \o Repeat(Blank, rest)
          ELSE IF zeropad /\ ~ given THEN sign \o Repeat(48, rest) \o put
          ELSE Repeat(Blank, rest) \o sign \o zeros \o put
  BY Zenon DEF NumberText, Amount, Value, SignText
<1>2. DivideBy(Base(spec.conv)) = Radix(spec.conv)
  BY DEF KeepsToC, IsNumber, NumberConversions, Base, DivideBy, Radix
<1>3. /\ spec.precision \in Int /\ spec.precision # None /\ spec.precision # 0
      /\ spec.precision > 0 => ~ zeropad \/ left
  BY NoneAssumption DEF KeepsToC, IsNumber
<1>4. PrintedText(spec)
        = FieldText(FieldWidth(spec), spec.precision, sign, digits, left, zeropad)
  BY <1>2, Zenon DEF PrintedText
<1>5. put = digits
  BY <1>3
<1>6. digits \in Seq(Int)
  BY <1>2, NumberFills
<1>7. sign \in Seq(Int)
  <2>1. \A x \in Int : <<x>> \in Seq(Int)
    OBVIOUS
  <2>2. 45 \in Int /\ 43 \in Int /\ Blank \in Int
    BY DEF Blank
  <2>3. sign = << >> \/ \E x \in Int : sign = <<x>>
    BY <2>2, Zenon DEF SignText
  <2>. QED  BY <2>1, <2>3, EmptySeq
<1>8. PICK n \in Nat : n = Len(digits)
  BY <1>6, LenProperties
<1>. HIDE DEF digits, sign
<1>9. zeros = Repeat(48, Max({0, spec.precision - Len(digits)}))
  <2>1. CASE given
    BY <2>1
  <2>2. CASE ~ given
    <3>1. spec.precision - n \in Int /\ spec.precision - n < 0
      BY <2>2, <1>3
    <3>2. Max({0, spec.precision - n}) = 0
      BY <3>1, TwoMax
    <3>. QED  BY <2>2, <3>2, <1>8
  <2>. QED  BY <2>1, <2>2
<1>10. FieldText(FieldWidth(spec), spec.precision, sign, digits, left, zeropad)
         = Laid(sign, rest, zeros, digits, left, zeropad)
  BY <1>3, <1>5, <1>9, Zenon DEF FieldText
<1>11. ~ given => sign \o Repeat(48, rest) \o zeros \o put = sign \o Repeat(48, rest) \o put
  <2>1. SUFFICES ASSUME ~ given
                 PROVE  (sign \o Repeat(48, rest)) \o zeros = sign \o Repeat(48, rest)
    BY Zenon
  <2>2. zeros = << >>
    <3>1. zeros = Repeat(48, 0)
      BY <2>1
    <3>. QED  BY <3>1, RepeatProperties
  <2>. HIDE DEF zeros, put
  <2>3. PICK m \in Nat : m = Len(sign \o zeros \o put)
    <3>1. sign \o zeros \o put \in Seq(Int)
      BY <1>5, <1>6, <1>7, <2>2, EmptySeq, ConcatProperties
    <3>. QED  BY <3>1, LenProperties
  <2>4. rest \in Nat
    <3>1. FieldWidth(spec) - m \in Int
      BY DEF FieldWidth, IsNumber
    <3>. QED  BY <3>1, <2>3, TwoMax
  <2>. HIDE DEF rest
  <2>5. sign \o Repeat(48, rest) \in Seq(Int)
    <3>1. Repeat(48, rest) \in Seq(Int)
      <4>1. PICK c \in Int : c = 48
        OBVIOUS
      <4>2. Repeat(c, rest) \in Seq(Int)
        BY <2>4, RepeatProperties
      <4>. QED  BY <4>1, <4>2
    <3>. QED  BY <3>1, <1>7, ConcatProperties
  <2>. QED  BY <2>2, <2>5
<1>12. given => ~ zeropad \/ left
  BY <1>3
<1>. QED  BY <1>1, <1>4, <1>5, <1>10, <1>11, <1>12, Zenon DEF Laid

-----------------------------------------------------------------------------
\* Strings and characters in their fields.
LEMMA AroundProperties ==
  ASSUME NEW X, Blank \in X, NEW text \in Seq(X), NEW n \in Nat, NEW left \in BOOLEAN
  PROVE  Around(text, n, left) \in Seq(X) /\ Len(Around(text, n, left)) = Len(text) + n
<1>1. PICK r : r = Repeat(Blank, n)
  OBVIOUS
<1>2. r \in Seq(X) /\ Len(r) = n
  BY <1>1, RepeatProperties
<1>3. PICK m \in Nat : m = Len(text)
  BY LenProperties
<1>4. text \o r \in Seq(X) /\ r \o text \in Seq(X) /\ Len(text \o r) = m + n /\ Len(r \o text) = n + m
  BY <1>2, <1>3, ConcatProperties
<1>5. Around(text, n, left) = IF left THEN text \o r ELSE r \o text
  BY <1>1, Zenon DEF Around
<1>. QED  BY <1>3, <1>4, <1>5

\* A character fills its field.
LEMMA CharFills ==
  ASSUME NEW spec, spec.width \in Int
  PROVE  /\ CharConversion(spec) \in Seq(Int \cup {spec.arg})
         /\ Len(CharConversion(spec)) = Max({1, FieldWidth(spec)})
<1>1. PICK w \in Int : w = FieldWidth(spec)
  BY DEF FieldWidth
<1>2. PICK left \in BOOLEAN : left = LeftJustified(spec)
  BY DEF LeftJustified
<1>3. PICK n \in Nat : n = Times(w - 1)
  BY DEF Times
<1>4. PICK X : X = Int \cup {spec.arg}
  OBVIOUS
<1>5. PICK text : text = <<spec.arg>>
  OBVIOUS
<1>6. Blank \in X /\ text \in Seq(X) /\ Len(text) = 1
  BY <1>4, <1>5 DEF Blank
<1>7. Around(text, n, left) \in Seq(X) /\ Len(Around(text, n, left)) = 1 + n
  BY <1>6, AroundProperties
<1>8. CharConversion(spec) = Around(text, n, left)
  BY <1>1, <1>2, <1>3, <1>5, Zenon DEF CharConversion
<1>9. 1 + n = Max({1, w})
  <2>1. Max({1, w}) = IF 1 < w THEN w ELSE 1
    BY TwoMax
  <2>. QED  BY <2>1, <1>3 DEF Times
<1>. QED  BY <1>1, <1>4, <1>7, <1>8, <1>9

\* What is put out for a null pointer is a string.
LEMMA NullIsString == IsString(<<40, 78, 85, 76, 76, 41, 0>>)
<1>1. PICK s : s = <<40, 78, 85, 76, 76, 41, 0>>
  OBVIOUS
<1>2. s \in Seq(0 .. 255) /\ Len(s) = 7
  BY <1>1
<1>3. s[1] = 40 /\ s[2] = 78 /\ s[3] = 85 /\ s[4] = 76 /\ s[5] = 76 /\ s[6] = 41 /\ s[7] = 0
  BY <1>1
<1>4. \A i \in 1 .. 7 : s[i] = 0 <=> i = 7
  BY <1>3
<1>. QED  BY <1>1, <1>2, <1>4 DEF IsString

\* A string fills its field, cut or filled up.
LEMMA StringFills ==
  ASSUME NEW spec, spec.width \in Int, spec.precision = None \/ spec.precision \in Int,
         spec.arg = None \/ IsString(spec.arg)
  PROVE  /\ StringConversion(spec) \in Seq(Int)
         /\ spec.width # -1 => Len(StringConversion(spec)) = FieldWidth(spec)
<1>1. PICK w \in Int : w = FieldWidth(spec)
  BY DEF FieldWidth
<1>2. PICK left \in BOOLEAN : left = LeftJustified(spec)
  BY DEF LeftJustified
<1>3. PICK s : s = IF spec.arg = None THEN <<40, 78, 85, 76, 76, 41, 0>> ELSE spec.arg
  OBVIOUS
<1>4. IsString(s)
  BY <1>3, NullIsString
<1>5. PICK m \in Nat : m = ul_strlen(s) /\ Len(s) = m + 1
  <2>1. Len(s) \in Nat /\ Len(s) > 0 /\ ul_strlen(s) = Len(s) - 1
    BY <1>4, StrlenValue, LenProperties DEF IsString
  <2>. QED  BY <2>1
<1>6. PICK p : p = spec.precision
  OBVIOUS
<1>. DEFINE inField == IF w < 0 THEN m ELSE Least(m, w)
            len == IF p # None /\ p > 0 THEN Least(inField, p) ELSE inField
<1>7. inField \in Nat /\ inField <= m /\ (0 <= w => inField <= w)
  <2>1. Least(m, w) = IF m < w THEN m ELSE w
    BY TwoMin DEF Least
  <2>. QED  BY <2>1
<1>8. len \in Nat /\ len <= inField
  <2>. HIDE DEF inField
  <2>1. CASE p # None /\ p > 0
    <3>1. p \in Int
      BY <2>1, <1>6
    <3>2. Least(inField, p) = IF inField < p THEN inField ELSE p
      BY <3>1, <1>7, TwoMin DEF Least
    <3>. QED  BY <2>1, <3>1, <3>2, <1>7
  <2>2. CASE ~ (p # None /\ p > 0)
    BY <2>2, <1>7
  <2>. QED  BY <2>1, <2>2
<1>9. PICK n : n = Times(w - len)
  OBVIOUS
<1>10. StringConversion(spec) = Around(SubSeq(s, 1, len), n, left)
  <2>. DEFINE s0 == IF spec.arg = None THEN <<40, 78, 85, 76, 76, 41, 0>> ELSE spec.arg
              f0 == IF FieldWidth(spec) < 0 THEN ul_strlen(s0)
                    ELSE Least(ul_strlen(s0), FieldWidth(spec))
              l0 == IF spec.precision # None /\ spec.precision > 0
                    THEN Least(f0, spec.precision) ELSE f0
  <2>1. StringConversion(spec)
          = Around(SubSeq(s0, 1, l0), Times(FieldWidth(spec) - l0), LeftJustified(spec))
    BY Zenon DEF StringConversion
  <2>2. s0 = s
    BY <1>3, Zenon
  <2>3. ul_strlen(s0) = m
    <3>. HIDE DEF s0
    <3>. QED  BY <2>2, <1>5
  <2>4. f0 = inField
    <3>. HIDE DEF s0
    <3>. QED  BY <2>3, <1>1, Zenon
  <2>5. l0 = len
    <3>. HIDE DEF f0, inField
    <3>. QED  BY <2>4, <1>6, Zenon
  <2>. HIDE DEF s0, l0, len
  <2>. QED  BY <2>1, <2>2, <2>5, <1>1, <1>2, <1>9, Zenon
<1>. HIDE DEF len, inField
<1>11. n \in Nat /\ (0 <= w => len + n = w)
  BY <1>7, <1>8, <1>9 DEF Times
<1>12. s \in Seq(Int)
  <2>1. s \in Seq(0 .. 255)
    BY <1>4 DEF IsString
  <2>2. 0 .. 255 \subseteq Int
    OBVIOUS
  <2>. QED  BY <2>1, <2>2, SeqMonotonic
<1>13. SubSeq(s, 1, len) \in Seq(Int) /\ Len(SubSeq(s, 1, len)) = len
  BY <1>5, <1>7, <1>8, <1>12, PrefixProperties
<1>14. Blank \in Int
  BY DEF Blank
<1>15. /\ Around(SubSeq(s, 1, len), n, left) \in Seq(Int)
       /\ Len(Around(SubSeq(s, 1, len), n, left)) = len + n
  BY <1>11, <1>13, <1>14, AroundProperties
<1>16. spec.width # -1 => 0 <= w
  BY <1>1 DEF FieldWidth
<1>. QED  BY <1>1, <1>10, <1>11, <1>15, <1>16

\* What a conversion puts out.
LEMMA PointerIsNumber ==
  ASSUME NEW spec, IsSpec(spec), spec.conv \in NumberConversions
  PROVE  IsNumber(Pointer(spec))
<1>1. /\ DOMAIN spec = {"conv", "flags", "width", "precision", "qualifier", "arg"}
      /\ spec.arg \in Int /\ spec.width \in Int
      /\ spec.precision = None \/ spec.precision \in Int
      /\ spec.flags \subseteq {"LEFT", "ZEROPAD", "PLUS", "SPACE"}
  BY DEF IsSpec
<1>2. CASE spec.conv = "p" /\ spec.width = -1
  <2>1. PICK q : q = [spec EXCEPT !.width = Width \div 4, !.flags = spec.flags \cup {"ZEROPAD"}]
    OBVIOUS
  <2>2. Pointer(spec) = q
    BY <2>1, <1>2 DEF Pointer
  <2>3. q.conv = spec.conv /\ q.arg = spec.arg /\ q.precision = spec.precision
    BY <2>1, <1>1
  <2>4. q.flags = spec.flags \cup {"ZEROPAD"}
    BY <2>1, <1>1
  <2>5. q.width = Width \div 4 /\ Width \div 4 \in Int
    <3>1. q.width = Width \div 4
      BY <2>1, <1>1
    <3>2. Width = 8 \/ Width = 32
      BY WidthAssumption
    <3>. QED  BY <3>1, <3>2
  <2>. QED  BY <2>2, <2>3, <2>4, <2>5, <1>1 DEF IsNumber
<1>3. CASE ~ (spec.conv = "p" /\ spec.width = -1)
  <2>1. Pointer(spec) = spec
    BY <1>3 DEF Pointer
  <2>. QED  BY <2>1, <1>1 DEF IsNumber
<1>. QED  BY <1>2, <1>3

\* Every conversion puts out characters that are right for its field.
LEMMA ConversionFills ==
  ASSUME NEW spec, IsSpec(spec)
  PROVE  /\ Conversion(spec) \in Seq(Int \cup {spec.arg})
         /\ FieldRight(spec, Conversion(spec))
<1>1. /\ spec.conv \in {"text", "%", "c", "s", "unknown"} \cup NumberConversions
      /\ spec.width \in Int /\ (spec.precision = None \/ spec.precision \in Int)
      /\ spec.conv = "s" => spec.arg = None \/ IsString(spec.arg)
  BY DEF IsSpec
<1>2. PICK X : X = Int \cup {spec.arg}
  OBVIOUS
<1>3. CASE spec.conv \in {"text", "%", "unknown"}
  <2>1. Conversion(spec) \in {<<spec.arg>>, <<37>>, <<37, spec.arg>>}
    BY <1>3 DEF Conversion, NumberConversions
  <2>2. <<spec.arg>> \in Seq(X) /\ <<37>> \in Seq(X) /\ <<37, spec.arg>> \in Seq(X)
    BY <1>2
  <2>3. spec.conv \notin NumberConversions /\ spec.conv # "c" /\ spec.conv # "s"
    BY <1>3 DEF NumberConversions
  <2>. QED  BY <2>1, <2>2, <2>3, <1>2, Zenon DEF FieldRight
<1>4. CASE spec.conv = "c"
  <2>1. Conversion(spec) = CharConversion(spec)
    BY <1>4 DEF Conversion, NumberConversions
  <2>2. spec.conv \notin NumberConversions /\ spec.conv # "s"
    BY <1>4 DEF NumberConversions
  <2>3. /\ CharConversion(spec) \in Seq(Int \cup {spec.arg})
        /\ Len(CharConversion(spec)) = Max({1, FieldWidth(spec)})
    BY <1>1, CharFills
  <2>. QED  BY <2>1, <2>2, <2>3, Zenon DEF FieldRight
<1>5. CASE spec.conv = "s"
  <2>1. Conversion(spec) = StringConversion(spec)
    BY <1>5 DEF Conversion, NumberConversions
  <2>2. spec.conv \notin NumberConversions /\ spec.conv # "c"
    BY <1>5 DEF NumberConversions
  <2>3. /\ StringConversion(spec) \in Seq(Int)
        /\ spec.width # -1 => Len(StringConversion(spec)) = FieldWidth(spec)
    BY <1>1, <1>5, StringFills
  <2>4. StringConversion(spec) \in Seq(X)
    <3>1. Int \subseteq X
      BY <1>2
    <3>. QED  BY <3>1, <2>3, SeqMonotonic
  <2>. QED  BY <2>1, <2>2, <2>3, <2>4, <1>2, Zenon DEF FieldRight
<1>6. CASE spec.conv \in NumberConversions
  <2>1. Conversion(spec) = NumberConversion(Pointer(spec))
    BY <1>6, Zenon DEF Conversion, NumberConversions
  <2>2. spec.conv # "c" /\ spec.conv # "s"
    BY <1>6 DEF NumberConversions
  <2>3. IsNumber(Pointer(spec))
    BY <1>6, PointerIsNumber
  <2>4. /\ NumberConversion(Pointer(spec)) = PrintedText(Pointer(spec))
        /\ NumberConversion(Pointer(spec)) \in Seq(Int)
    BY <2>3, NumberFills
  <2>6. KeepsToC(Pointer(spec)) => PrintedText(Pointer(spec)) = NumberText(Pointer(spec))
    BY <2>3, PrintedIsNumberText
  <2>5. NumberConversion(Pointer(spec)) \in Seq(X)
    <3>1. Int \subseteq X
      BY <1>2
    <3>. QED  BY <3>1, <2>4, SeqMonotonic
  <2>. QED  BY <2>1, <2>2, <2>4, <2>5, <2>6, <1>2, Zenon DEF FieldRight
<1>. QED  BY <1>1, <1>3, <1>4, <1>5, <1>6

-----------------------------------------------------------------------------
\* The texts of a format one behind the other.
IsJoin(f, t, n) == f = [i \in 0 .. n |-> IF i = 0 THEN << >> ELSE f[i - 1] \o t[i]]

\* One can go on joining texts.
LEMMA JoinExists ==
  ASSUME NEW t, NEW n \in Nat
  PROVE  \E f : IsJoin(f, t, n)
<1>. DEFINE T == {m \in Nat : \E f : IsJoin(f, t, m)}
<1>1. 0 \in T
  <2>1. PICK f : f = [j \in 0 .. 0 |-> << >>]
    OBVIOUS
  <2>2. f = [j \in 0 .. 0 |-> IF j = 0 THEN << >> ELSE f[j - 1] \o t[j]]
    BY <2>1
  <2>3. IsJoin(f, t, 0)
    BY <2>2 DEF IsJoin
  <2>. QED  BY <2>3
<1>2. ASSUME NEW m \in Nat, m \in T PROVE m + 1 \in T
  <2>1. PICK f : IsJoin(f, t, m)
    BY <1>2
  <2>2. PICK g : g = [j \in 0 .. m + 1 |-> IF j = m + 1 THEN f[m] \o t[m + 1] ELSE f[j]]
    OBVIOUS
  <2>3. \A j \in 0 .. m : g[j] = f[j] /\ j \in 0 .. m + 1
    BY <2>2
  <2>4. \A j \in 0 .. m : f[j] = IF j = 0 THEN << >> ELSE f[j - 1] \o t[j]
    BY <2>1 DEF IsJoin
  <2>5. ASSUME NEW j \in 0 .. m + 1
        PROVE  g[j] = IF j = 0 THEN << >> ELSE g[j - 1] \o t[j]
    <3>1. CASE j = m + 1
      <4>1. g[j] = f[m] \o t[j] /\ j - 1 = m /\ j # 0 /\ m \in 0 .. m
        BY <3>1, <2>2
      <4>2. g[m] = f[m]
        BY <4>1, <2>3
      <4>. QED  BY <4>1, <4>2
    <3>2. CASE j # m + 1
      <4>1. j \in 0 .. m
        BY <3>2
      <4>2. CASE j = 0
        BY <4>1, <4>2, <2>3, <2>4
      <4>3. CASE j # 0
        <5>1. j - 1 \in 0 .. m
          BY <4>1, <4>3
        <5>. QED  BY <4>1, <4>3, <5>1, <2>3, <2>4
      <4>. QED  BY <4>2, <4>3
    <3>. QED  BY <3>1, <3>2
  <2>6. IsJoin(g, t, m + 1)
    <3>1. g = [j \in 0 .. m + 1 |-> g[j]]
      BY <2>2
    <3>. QED  BY <3>1, <2>5 DEF IsJoin
  <2>. QED  BY <2>6
<1>3. Nat \subseteq T
  <2>. HIDE DEF T
  <2>. QED  BY <1>1, <1>2, SetInduction
<1>. QED  BY <1>3

\* Texts joined are a text.
LEMMA JoinIsText ==
  ASSUME NEW X, NEW n \in Nat, NEW t, \A i \in 1 .. n : t[i] \in Seq(X),
         NEW f, IsJoin(f, t, n)
  PROVE  \A i \in 0 .. n : f[i] \in Seq(X)
<1>. DEFINE T == {m \in Nat : m <= n => f[m] \in Seq(X)}
<1>1. \A j \in 0 .. n : f[j] = IF j = 0 THEN << >> ELSE f[j - 1] \o t[j]
  BY DEF IsJoin
<1>2. 0 \in T
  <2>1. f[0] = << >>
    <3>1. 0 \in 0 .. n
      OBVIOUS
    <3>. QED  BY <3>1, <1>1
  <2>. QED  BY <2>1, EmptySeq
<1>3. ASSUME NEW m \in Nat, m \in T PROVE m + 1 \in T
  <2>1. ASSUME m + 1 <= n PROVE f[m + 1] \in Seq(X)
    <3>1. m + 1 \in 0 .. n /\ m + 1 # 0 /\ m + 1 \in 1 .. n /\ m <= n
      BY <2>1
    <3>2. (m + 1) - 1 = m
      OBVIOUS
    <3>3. f[m + 1] = f[m] \o t[m + 1]
      BY <3>1, <3>2, <1>1
    <3>4. f[m] \in Seq(X) /\ t[m + 1] \in Seq(X)
      BY <3>1, <1>3
    <3>. QED  BY <3>3, <3>4, ConcatProperties
  <2>. QED  BY <2>1
<1>4. Nat \subseteq T
  <2>. HIDE DEF T
  <2>. QED  BY <1>2, <1>3, SetInduction
<1>. QED  BY <1>4

\* They are what FlattenSeq makes of the texts.
LEMMA FlattenJoins ==
  ASSUME NEW X, NEW t \in Seq(Seq(X)), NEW n \in Nat, n = Len(t), NEW f, IsJoin(f, t, n)
  PROVE  FlattenSeq(t) = f[n]
<1>1. \A i \in 1 .. n : t[i] \in Seq(X)
  BY ElementOfSeq
<1>2. \A i \in 0 .. n : f[i] \in Seq(X)
  BY <1>1, JoinIsText
<1>3. \A j \in 0 .. n : f[j] = IF j = 0 THEN << >> ELSE f[j - 1] \o t[j]
  BY DEF IsJoin
<1>4. f[0] = << >>
  <2>1. 0 \in 0 .. n
    OBVIOUS
  <2>. QED  BY <2>1, <1>3
<1>5. CASE n = 0
  <2>1. FlattenSeq(t) = t
    BY <1>5 DEF FlattenSeq
  <2>2. t = << >>
    <3>1. t # << >> => Len(t) \in Nat \ {0}
      BY EmptySeq
    <3>. QED  BY <3>1, <1>5
  <2>. QED  BY <2>1, <2>2, <1>4, <1>5
<1>6. CASE n # 0
  <2>. DEFINE Is(g) == g = [i \in 1 .. Len(t) |-> IF i = 1 THEN t[i] ELSE g[i - 1] \o t[i]]
              g == CHOOSE h : Is(h)
  <2>1. FlattenSeq(t) = g[Len(t)]
    <3>1. ~ (Len(t) = 0)
      BY <1>6
    <3>. QED  BY <3>1, Zenon DEF FlattenSeq
  <2>2. f[1] = t[1]
    <3>1. PICK k \in 0 .. n : k = 1 /\ k # 0 /\ k - 1 = 0
      <4>1. 1 \in 0 .. n /\ 1 # 0 /\ 1 - 1 = 0
        BY <1>6
      <4>. QED  BY <4>1
    <3>2. f[1] = f[0] \o t[1]
      <4>1. f[k] = f[k - 1] \o t[k]
        BY <3>1, <1>3
      <4>. QED  BY <4>1, <3>1
    <3>3. t[1] \in Seq(X)
      <4>1. 1 \in 1 .. n
        BY <1>6
      <4>. QED  BY <4>1, <1>1
    <3>. QED  BY <3>2, <3>3, <1>4, ConcatEmptySeq
  <2>3. \A i \in 1 .. n : f[i] = IF i = 1 THEN t[i] ELSE f[i - 1] \o t[i]
    <3>1. ASSUME NEW i \in 1 .. n, i # 1 PROVE f[i] = f[i - 1] \o t[i]
      <4>1. i \in 0 .. n /\ i # 0
        OBVIOUS
      <4>. QED  BY <4>1, <1>3
    <3>. QED  BY <3>1, <2>2
  <2>4. PICK h : h = [i \in 1 .. n |-> f[i]]
    OBVIOUS
  <2>5. Is(h)
    <3>1. ASSUME NEW i \in 1 .. n PROVE h[i] = IF i = 1 THEN t[i] ELSE h[i - 1] \o t[i]
      <4>1. CASE i = 1
        BY <4>1, <2>3, <2>4
      <4>2. CASE i # 1
        <5>1. i - 1 \in 1 .. n
          BY <4>2
        <5>2. h[i - 1] = f[i - 1] /\ h[i] = f[i]
          BY <5>1, <2>4
        <5>. QED  BY <4>2, <5>2, <2>3
      <4>. QED  BY <4>1, <4>2
    <3>2. h = [i \in 1 .. n |-> h[i]]
      BY <2>4
    <3>. QED  BY <3>1, <3>2
  <2>6. Is(g)
    <3>. HIDE DEF Is
    <3>. QED  BY <2>5
  <2>7. \A i \in 1 .. n : g[i] = IF i = 1 THEN t[i] ELSE g[i - 1] \o t[i]
    <3>. HIDE DEF g
    <3>. QED  BY <2>6
  <2>. HIDE DEF g
  <2>. DEFINE T == {m \in Nat : m + 1 <= n => g[m + 1] = f[m + 1]}
  <2>8. 0 \in T
    <3>1. 0 + 1 = 1 /\ 1 \in 1 .. n
      BY <1>6
    <3>. QED  BY <3>1, <2>2, <2>7
  <2>9. ASSUME NEW m \in Nat, m \in T PROVE m + 1 \in T
    <3>1. ASSUME (m + 1) + 1 <= n PROVE g[(m + 1) + 1] = f[(m + 1) + 1]
      <4>1. PICK k \in 1 .. n : k = (m + 1) + 1 /\ k # 1 /\ k - 1 = m + 1
        <5>1. (m + 1) + 1 \in 1 .. n /\ (m + 1) + 1 # 1 /\ ((m + 1) + 1) - 1 = m + 1
          BY <3>1
        <5>. QED  BY <5>1
      <4>2. g[m + 1] = f[m + 1]
        <5>1. m + 1 <= n
          BY <3>1
        <5>. QED  BY <5>1, <2>9
      <4>3. g[k] = g[m + 1] \o t[k] /\ f[k] = f[m + 1] \o t[k]
        BY <4>1, <2>3, <2>7
      <4>. QED  BY <4>1, <4>2, <4>3
    <3>. QED  BY <3>1
  <2>10. Nat \subseteq T
    <3>. HIDE DEF T
    <3>. QED  BY <2>8, <2>9, SetInduction
  <2>11. g[n] = f[n]
    <3>1. n - 1 \in Nat /\ (n - 1) + 1 = n /\ n <= n
      BY <1>6
    <3>2. n - 1 \in T
      BY <3>1, <2>10
    <3>. QED  BY <3>1, <3>2
  <2>. QED  BY <2>1, <2>11
<1>. QED  BY <1>5, <1>6

\* What PrintsRight asks of one call.
PrintedRight(fmt, size, res) ==
  LET texts == [i \in DOMAIN fmt |-> Conversion(fmt[i])]
      text == FlattenSeq(texts)
  IN /\ \A i \in DOMAIN texts : FieldRight(fmt[i], texts[i])
     /\ res.n = Len(text)
     /\ \A i \in DOMAIN Buf :
          res.buf[i] = IF i > size THEN None
                       ELSE IF i = Least(Len(text) + 1, size) THEN 0
                       ELSE IF i <= Len(text) THEN text[i] ELSE None

\* One call of ul_vsnprintf prints what it should, for every format and size.
LEMMA VsnprintfPrints ==
  ASSUME NEW fmt \in Formats, NEW size \in BufSizes
  PROVE  PrintedRight(fmt, size, ul_vsnprintf(Buf, size, fmt))
<1>. DEFINE Is(f) == f = [i \in 0 .. Len(fmt) |->
                            IF i = 0 THEN << >> ELSE f[i - 1] \o Conversion(fmt[i])]
            out == CHOOSE f : Is(f)
            text == out[Len(fmt)]
            stored == [i \in DOMAIN Buf |->
                         IF i <= Least(size, Len(text)) THEN text[i] ELSE Buf[i]]
            texts == [i \in DOMAIN fmt |-> Conversion(fmt[i])]
<1>1. PICK res : res = ul_vsnprintf(Buf, size, fmt)
  OBVIOUS
<1>2. res = [n |-> Len(text),
             buf |-> IF size > 0 THEN [stored EXCEPT ![EndOfText(Len(text), size)] = 0]
                     ELSE stored]
  BY <1>1, Zenon DEF ul_vsnprintf
<1>3. PICK n \in Nat : n = Len(fmt) /\ DOMAIN fmt = 1 .. n /\ \A i \in 1 .. n : IsSpec(fmt[i])
  <2>1. Len(fmt) \in Nat /\ fmt = [i \in 1 .. Len(fmt) |-> fmt[i]]
    BY FormatsAssumption
  <2>2. \A i \in 1 .. Len(fmt) : IsSpec(fmt[i])
    BY FormatsAssumption
  <2>3. DOMAIN fmt = 1 .. Len(fmt)
    BY <2>1
  <2>. QED  BY <2>1, <2>2, <2>3
<1>4. PICK t : t = texts
  OBVIOUS
<1>5. t = [i \in 1 .. n |-> Conversion(fmt[i])]
  BY <1>3, <1>4
<1>6. PICK X : X = Int \cup {fmt[i].arg : i \in 1 .. n}
  OBVIOUS
<1>7. \A i \in 1 .. n : t[i] \in Seq(X) /\ FieldRight(fmt[i], t[i])
  <2>1. ASSUME NEW i \in 1 .. n PROVE t[i] \in Seq(X) /\ FieldRight(fmt[i], t[i])
    <3>1. PICK spec : spec = fmt[i]
      OBVIOUS
    <3>2. IsSpec(spec)
      BY <3>1, <1>3
    <3>3. Conversion(spec) \in Seq(Int \cup {spec.arg}) /\ FieldRight(spec, Conversion(spec))
      BY <3>2, ConversionFills
    <3>4. Int \cup {spec.arg} \subseteq X
      BY <3>1, <1>6
    <3>5. Conversion(spec) \in Seq(X)
      BY <3>3, <3>4, SeqMonotonic
    <3>6. t[i] = Conversion(spec)
      BY <3>1, <1>5
    <3>. QED  BY <3>1, <3>3, <3>5, <3>6, Zenon
  <2>. QED  BY <2>1
<1>8. t \in Seq(Seq(X)) /\ Len(t) = n
  <2>1. \A i \in 1 .. n : Conversion(fmt[i]) \in Seq(X)
    BY <1>5, <1>7
  <2>2. t \in Seq(Seq(X))
    BY <2>1, <1>5, IsASeq
  <2>. QED  BY <2>2, <1>5, LenProperties
<1>9. IsJoin(out, t, n)
  <2>1. PICK f : IsJoin(f, t, n)
    BY JoinExists
  <2>2. Is(f)
    <3>1. \A i \in 0 .. n : f[i] = IF i = 0 THEN << >> ELSE f[i - 1] \o t[i]
      BY <2>1 DEF IsJoin
    <3>2. f = [i \in 0 .. n |-> f[i]]
      BY <2>1 DEF IsJoin
    <3>3. \A i \in 0 .. n : f[i] = IF i = 0 THEN << >> ELSE f[i - 1] \o Conversion(fmt[i])
      <4>1. ASSUME NEW i \in 0 .. n, i # 0 PROVE t[i] = Conversion(fmt[i])
        <5>1. i \in 1 .. n
          BY <4>1
        <5>. QED  BY <5>1, <1>5
      <4>. QED  BY <4>1, <3>1
    <3>. QED  BY <3>2, <3>3, <1>3
  <2>3. Is(out)
    <3>. HIDE DEF Is
    <3>. QED  BY <2>2
  <2>. HIDE DEF out
  <2>4. \A i \in 0 .. n : out[i] = IF i = 0 THEN << >> ELSE out[i - 1] \o Conversion(fmt[i])
    BY <2>3, <1>3
  <2>5. \A i \in 0 .. n : out[i] = IF i = 0 THEN << >> ELSE out[i - 1] \o t[i]
    <3>1. ASSUME NEW i \in 0 .. n, i # 0 PROVE t[i] = Conversion(fmt[i])
      <4>1. i \in 1 .. n
        BY <3>1
      <4>. QED  BY <4>1, <1>5
    <3>. QED  BY <3>1, <2>4
  <2>6. out = [i \in 0 .. n |-> out[i]]
    BY <2>3, <1>3
  <2>. QED  BY <2>5, <2>6 DEF IsJoin
<1>. HIDE DEF out
<1>10. FlattenSeq(t) = text
  BY <1>3, <1>8, <1>9, FlattenJoins
<1>11. text \in Seq(X)
  <2>1. \A i \in 0 .. n : out[i] \in Seq(X)
    BY <1>7, <1>9, JoinIsText
  <2>2. n \in 0 .. n
    OBVIOUS
  <2>. QED  BY <2>1, <2>2, <1>3
<1>12. PICK L \in Nat : L = Len(text)
  BY <1>11, LenProperties
<1>13. PICK N \in Nat : N = Len(Buf) /\ DOMAIN Buf = 1 .. N /\ \A i \in 1 .. N : Buf[i] = None
  BY BufProperties
<1>14. size \in Nat /\ size < N
  BY <1>13, BufProperties, BufSizesAssumption
<1>. HIDE DEF text
<1>15. ASSUME NEW i \in 1 .. N
       PROVE  res.buf[i] = IF i > size THEN None
                           ELSE IF i = Least(L + 1, size) THEN 0
                           ELSE IF i <= L THEN text[i] ELSE None
  <2>1. Least(size, L) = IF size < L THEN size ELSE L
    BY <1>14, TwoMin DEF Least
  <2>2. Least(L + 1, size) = IF L + 1 < size THEN L + 1 ELSE size
    BY <1>14, TwoMin DEF Least
  <2>3. PICK e \in Nat : e = EndOfText(L, size)
    BY <1>14 DEF EndOfText
  <2>4. size > 0 => e = Least(L + 1, size)
    BY <2>2, <2>3, <1>14 DEF EndOfText
  <2>5. stored = [j \in 1 .. N |-> IF j <= Least(size, L) THEN text[j] ELSE None]
    BY <1>12, <1>13
  <2>. HIDE DEF stored
  <2>6. stored[i] = IF i <= size /\ i <= L THEN text[i] ELSE None
    BY <2>1, <2>5, <1>14
  <2>7. res.buf = IF size > 0 THEN [stored EXCEPT ![e] = 0] ELSE stored
    BY <1>2, <1>12, <2>3
  <2>8. CASE size > 0
    <3>1. res.buf[i] = IF i = e THEN 0 ELSE stored[i]
      BY <2>5, <2>7, <2>8
    <3>2. e <= size
      BY <2>2, <2>4, <2>8, <1>14
    <3>. QED  BY <3>1, <3>2, <2>4, <2>6, <2>8, <1>14
  <2>9. CASE ~ (size > 0)
    <3>1. i > size /\ ~ (i <= size)
      BY <2>9, <1>14
    <3>. QED  BY <3>1, <2>6, <2>7, <2>9
  <2>. QED  BY <2>8, <2>9
<1>16. res.n = L
  BY <1>2, <1>12
<1>17. DOMAIN t = 1 .. n
  BY <1>5
<1>18. /\ \A i \in DOMAIN t : FieldRight(fmt[i], t[i])
       /\ res.n = Len(FlattenSeq(t))
       /\ \A i \in DOMAIN Buf :
            res.buf[i] = IF i > size THEN None
                         ELSE IF i = Least(Len(FlattenSeq(t)) + 1, size) THEN 0
                         ELSE IF i <= Len(FlattenSeq(t)) THEN FlattenSeq(t)[i] ELSE None
  BY <1>7, <1>10, <1>12, <1>13, <1>15, <1>16, <1>17
<1>. QED  BY <1>1, <1>4, <1>18, Zenon DEF PrintedRight

\* ul_vsnprintf puts out, for every format with its arguments and every size, what
\* PrintsRight says.
THEOREM PrintsRightAlways == SSpec => []PrintsRight
<1>1. SInit => PrintsRight
  BY DEF SInit, PrintsRight
<1>2. PrintsRight /\ [SNext]_call => PrintsRight'
  <2>. SUFFICES ASSUME PrintsRight, [SNext]_call PROVE PrintsRight'
    OBVIOUS
  <2>1. CASE Printed
    <3>1. PICK fmt \in Formats, size \in BufSizes :
            call' = [fn |-> "vsnprintf", fmt |-> fmt, size |-> size,
                     res |-> ul_vsnprintf(Buf, size, fmt)]
      BY <2>1 DEF Printed
    <3>2. call'.fmt = fmt /\ call'.size = size /\ call'.res = ul_vsnprintf(Buf, size, fmt)
      BY <3>1
    <3>3. PrintedRight(fmt, size, ul_vsnprintf(Buf, size, fmt))
      BY VsnprintfPrints
    <3>4. PrintedRight(call'.fmt, call'.size, call'.res)
      BY <3>2, <3>3, Zenon
    <3>. QED  BY <3>4, Zenon DEF PrintedRight, PrintsRight, Buf, Repeat
  <2>2. CASE Compared \/ ComparedStrings \/ Searched \/ Copied
    <3>1. call'.fn # "vsnprintf"
      BY <2>2 DEF Compared, ComparedStrings, Searched, Copied
    <3>. QED  BY <3>1 DEF PrintsRight
  <2>3. CASE UNCHANGED call
    BY <2>3, Zenon DEF PrintsRight
  <2>. QED  BY <2>1, <2>2, <2>3 DEF SNext
<1>. QED  BY <1>1, <1>2, PTL DEF SSpec
=============================================================================
