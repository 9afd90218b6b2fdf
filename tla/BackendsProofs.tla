---------------------------- MODULE BackendsProofs ----------------------------
(***************************************************************************)
(* Proofs about the list of backends and the walks over it, for any number *)
(* of backends, tasks and changes.                                         *)
(*                                                                         *)
(* The list is the sequence its links spell out (ChainOf).  A walk that no *)
(* removal has met is at a prefix of it (OnChain); any walk stays within   *)
(* what has been on the list since its line was started, as that is closed *)
(* under the links, those of removed nodes included (KnownClosed).         *)
(***************************************************************************)
EXTENDS Backends, SequenceFacts

Places == {"idle", "test", "first", "visit", "follow"}
Stands(t) == pc[t] \in {"visit", "follow"}

Types ==
  /\ next \in [Nodes -> Backends \cup {None}]
  /\ where \in [Backends -> {"unlisted", "entering", "listed", "leaving"}]
  /\ support_color \in [Backends -> BOOLEAN]
  /\ pc \in [Tasks -> Places]
  /\ node \in [Tasks -> Backends \cup {None}]
  /\ \A t \in Tasks : Stands(t) => node[t] \in Backends
  /\ cut \in [Tasks -> Nat]
  /\ walk \in [Tasks -> Seq(Backends)]
  /\ outputs \in [Tasks -> Seq([color : BOOLEAN, cut : Nat])]
  /\ line \in [Tasks -> [level : Levels, is_raw : BOOLEAN] \cup {None}]
  /\ changes \in Nat /\ changes <= MaxChanges
  /\ stayed \in [Tasks -> SUBSET Backends] /\ known \in [Tasks -> SUBSET Backends]
  /\ removed \in [Tasks -> BOOLEAN]

\* Every backend that is being registered or on the list took a change.
Occupied == {b \in Backends : where[b] # "unlisted"}
Bounded == IsFiniteSet(Occupied) /\ Cardinality(Occupied) <= changes

\* The k-th node of the list s, the head being the 0th.
At(s, k) == IF k = 0 THEN backend_list ELSE IF k <= Len(s) THEN s[k] ELSE None

ChainOf(s) ==
  /\ s \in Seq(Backends)
  /\ \A i, j \in 1 .. Len(s) : s[i] = s[j] => i = j
  /\ \A b \in Backends : b \in Listed <=> \E i \in 1 .. Len(s) : s[i] = b
  /\ \A k \in 0 .. Len(s) : next[At(s, k)] = At(s, k + 1)

OnChain(t, s) ==
  ~ removed[t] =>
    /\ Len(walk[t]) <= Len(s) /\ \A i \in 1 .. Len(walk[t]) : walk[t][i] = s[i]
    /\ Stands(t) => Len(walk[t]) >= 1 /\ node[t] = walk[t][Len(walk[t])]
    /\ pc[t] \in {"test", "first"} => Len(walk[t]) = 0
    /\ pc[t] = "idle" => \A b \in stayed[t] : \E i \in 1 .. Len(walk[t]) : walk[t][i] = b

ListInv ==
  \E s \in Seq(Backends) : ChainOf(s) /\ \A t \in Tasks : OnChain(t, s)

KnownClosed ==
  \A t \in Tasks :
    /\ stayed[t] \subseteq Listed /\ Listed \subseteq known[t]
    /\ \A n \in known[t] \cup {backend_list} : next[n] \in known[t] \cup {None}
    /\ Stands(t) => node[t] \in known[t]
    /\ \A i \in 1 .. Len(walk[t]) : walk[t][i] \in known[t]

\* cut counts nothing before the first output that had to be cut.
CutInv ==
  \A t \in Tasks :
    /\ line[t] = None => Len(outputs[t]) = 0
    /\ /\ line[t] # None
       /\ ~ Coloured(t) \/ \A i \in 1 .. Len(outputs[t]) : outputs[t][i].color
       => cut[t] = 0

BackendsInv == Types /\ Bounded /\ ListInv /\ KnownClosed /\ CutInv /\ FirstCutRight

-----------------------------------------------------------------------------
\* The list as a sequence and as Walk.

\* Backends, the head of the list and NULL are different.
LEMMA NodesDiffer ==
  /\ None \notin Backends /\ backend_list \notin Backends /\ backend_list # None
  /\ Backends \subseteq Nodes /\ backend_list \in Nodes /\ None \notin Nodes
BY NamesAssumption DEF Nodes

\* The nodes of a chain that starts at the head and ends at NULL.
LEMMA AtTyped ==
  ASSUME NEW s \in Seq(Backends)
  PROVE  /\ Len(s) \in Nat
         /\ At(s, 0) = backend_list
         /\ \A k \in 1 .. Len(s) : At(s, k) = s[k] /\ s[k] \in Backends
         /\ \A k \in 0 .. Len(s) : At(s, k) \in Nodes /\ At(s, k) # None
         /\ At(s, Len(s) + 1) = None
<1>1. Len(s) \in Nat /\ \A k \in 1 .. Len(s) : s[k] \in Backends
  BY LenProperties, ElementOfSeq
<1>2. \A k \in 1 .. Len(s) : k # 0 /\ k <= Len(s)
  BY <1>1
<1>3. Len(s) + 1 # 0 /\ ~ (Len(s) + 1 <= Len(s))
  BY <1>1
<1>4. \A k \in 0 .. Len(s) : k = 0 \/ k \in 1 .. Len(s)
  BY <1>1
<1>. QED  BY <1>1, <1>2, <1>3, <1>4, NodesDiffer DEF At

\* No node comes twice on the list with its head.
LEMMA AtInjective ==
  ASSUME NEW s, ChainOf(s), NEW i \in 0 .. Len(s), NEW j \in 0 .. Len(s), At(s, i) = At(s, j)
  PROVE  i = j
<1>1. s \in Seq(Backends) /\ \A k, l \in 1 .. Len(s) : s[k] = s[l] => k = l
  BY DEF ChainOf
<1>2. /\ Len(s) \in Nat
      /\ At(s, 0) = backend_list
      /\ \A k \in 1 .. Len(s) : At(s, k) = s[k] /\ s[k] \in Backends
  BY <1>1, AtTyped
<1>3. (i = 0 \/ i \in 1 .. Len(s)) /\ (j = 0 \/ j \in 1 .. Len(s))
  BY <1>2
<1>. QED  BY <1>1, <1>2, <1>3, NodesDiffer

\* What Walk computes.
LEMMA WalkOnChain ==
  ASSUME NEW s, ChainOf(s)
  PROVE  /\ DOMAIN Walk = 0 .. (MaxChanges + 1)
         /\ \A k \in 0 .. (MaxChanges + 1) : Walk[k] = At(s, k)
<1>. DEFINE D == 0 .. (MaxChanges + 1)
            Is(f) == f = [k \in D |-> IF k = 0 THEN backend_list
                                      ELSE IF f[k - 1] = None THEN None ELSE next[f[k - 1]]]
            chain == [k \in D |-> At(s, k)]
<1>0. MaxChanges \in Nat /\ s \in Seq(Backends) /\ Len(s) \in Nat
  BY BoundAssumption, AtTyped DEF ChainOf
<1>1. Is(chain)
  <2>1. ASSUME NEW k \in D, k # 0
        PROVE  At(s, k) = IF At(s, k - 1) = None THEN None ELSE next[At(s, k - 1)]
    <3>1. CASE k - 1 <= Len(s)
      <4>1. k - 1 \in 0 .. Len(s) /\ (k - 1) + 1 = k
        BY <2>1, <3>1, <1>0
      <4>2. next[At(s, k - 1)] = At(s, k) /\ At(s, k - 1) # None
        BY <4>1, <1>0, AtTyped DEF ChainOf
      <4>. QED  BY <4>2
    <3>2. CASE ~ (k - 1 <= Len(s))
      <4>1. k - 1 # 0 /\ ~ (k <= Len(s))
        BY <2>1, <3>2, <1>0
      <4>. QED  BY <4>1, <2>1, <3>2 DEF At
    <3>. QED  BY <3>1, <3>2
  <2>2. \A k \in D : k # 0 => k - 1 \in D
    BY <1>0
  <2>3. At(s, 0) = backend_list
    BY DEF At
  <2>. QED  BY <2>1, <2>2, <2>3
<1>2. Is(Walk)
  <2>1. Walk = CHOOSE f : Is(f)
    BY DEF Walk
  <2>2. Is(CHOOSE f : Is(f))
    <3>. HIDE DEF Is
    <3>. QED  BY <1>1
  <2>3. Is(Walk)
    <3>. HIDE DEF Is
    <3>. QED  BY <2>1, <2>2, Zenon
  <2>. QED  BY <2>3, Zenon
<1>3. \A k \in D : Walk[k] = IF k = 0 THEN backend_list
                             ELSE IF Walk[k - 1] = None THEN None ELSE next[Walk[k - 1]]
  BY <1>2
<1>4. \A k \in D : At(s, k) = IF k = 0 THEN backend_list
                              ELSE IF At(s, k - 1) = None THEN None ELSE next[At(s, k - 1)]
  <2>1. \A k \in D : k # 0 => k - 1 \in D
    BY <1>0
  <2>2. \A k \in D : chain[k] = IF k = 0 THEN backend_list
                                ELSE IF chain[k - 1] = None THEN None ELSE next[chain[k - 1]]
    <3>. HIDE DEF chain
    <3>. QED  BY <1>1
  <2>. QED  BY <2>1, <2>2
<1>5. \A k \in Nat : k \in D => Walk[k] = At(s, k)
  <2>. DEFINE S == {k \in Nat : k \in D => Walk[k] = At(s, k)}
  <2>1. 0 \in S
    <3>1. 0 \in D
      BY <1>0
    <3>. QED  BY <1>3, <1>4, <3>1
  <2>2. ASSUME NEW k \in Nat, k \in S PROVE k + 1 \in S
    <3>1. k + 1 \in D => k \in D /\ k + 1 # 0 /\ (k + 1) - 1 = k
      BY <1>0
    <3>. QED  BY <2>2, <3>1, <1>3, <1>4
  <2>3. Nat \subseteq S
    <3>. HIDE DEF S
    <3>. QED  BY <2>1, <2>2, SetInduction
  <2>. QED  BY <2>3
<1>6. DOMAIN Walk = D
  BY <1>2
<1>7. \A k \in D : k \in Nat
  BY <1>0
<1>. QED  BY <1>5, <1>6, <1>7

\* The list is never longer than the domain of Walk.
LEMMA LenBound ==
  ASSUME Types, Bounded, NEW s, ChainOf(s)
  PROVE  Len(s) <= MaxChanges
<1>1. /\ s \in Seq(Backends) /\ Len(s) \in Nat
      /\ \A k \in 1 .. Len(s) : s[k] \in Listed
      /\ \A b \in Listed : \E k \in 1 .. Len(s) : s[k] = b
      /\ \A i, j \in 1 .. Len(s) : s[i] = s[j] => i = j
  BY AtTyped DEF ChainOf, Listed
<1>2. Listed \subseteq Occupied
  BY DEF Listed, Occupied
<1>3. IsFiniteSet(Listed) /\ Cardinality(Listed) <= Cardinality(Occupied)
  BY <1>2, FS_Subset DEF Bounded
<1>4. IsFiniteSet(1 .. Len(s)) /\ Cardinality(1 .. Len(s)) = Len(s)
  <2>1. 1 \in Int /\ Len(s) \in Int /\ (IF 1 > Len(s) THEN 0 ELSE Len(s) - 1 + 1) = Len(s)
    BY <1>1
  <2>. QED  BY <2>1, FS_Interval
<1>5. Cardinality(Listed) = Len(s)
  <2>. DEFINE f == [k \in 1 .. Len(s) |-> s[k]]
  <2>1. f \in Bijection(1 .. Len(s), Listed)
    BY <1>1 DEF Bijection, Injection, Surjection, IsInjective
  <2>. QED  BY <1>4, <2>1, FS_Bijection DEF ExistsBijection
<1>6. Cardinality(Occupied) \in Nat
  BY FS_CardinalityType DEF Bounded
<1>7. Cardinality(Occupied) <= changes /\ changes <= MaxChanges /\ changes \in Nat
  BY DEF Bounded, Types
<1>. QED  BY <1>1, <1>3, <1>5, <1>6, <1>7, BoundAssumption

\* slist_append links the new node behind the last one.
LEMMA AppendLinks ==
  ASSUME Types, Bounded, NEW s, ChainOf(s), NEW b \in Backends, slist_append(b)
  PROVE  next' = [next EXCEPT ![At(s, Len(s))] = b, ![b] = None]
<1>1. s \in Seq(Backends)
  BY DEF ChainOf
<1>2. Len(s) \in Nat /\ Len(s) <= MaxChanges /\ MaxChanges \in Nat
  BY <1>1, AtTyped, LenBound, BoundAssumption
<1>3. PICK k \in 0 .. (MaxChanges + 1) :
         /\ At(s, k) # None /\ next[At(s, k)] = None
         /\ next' = [next EXCEPT ![At(s, k)] = b, ![b] = None]
  <2>1. PICK k \in DOMAIN Walk :
           /\ Walk[k] # None /\ next[Walk[k]] = None
           /\ next' = [next EXCEPT ![Walk[k]] = b, ![b] = None]
    BY DEF slist_append
  <2>2. k \in 0 .. (MaxChanges + 1) /\ Walk[k] = At(s, k)
    BY WalkOnChain
  <2>. QED  BY <2>1, <2>2
<1>4. k = Len(s)
  <2>1. k <= Len(s)
    BY <1>2, <1>3 DEF At
  <2>2. next[At(s, k)] = At(s, k + 1)
    BY <2>1, <1>2 DEF ChainOf
  <2>3. ~ (k + 1 <= Len(s))
    <3>. SUFFICES ASSUME k + 1 <= Len(s) PROVE FALSE
      OBVIOUS
    <3>1. k + 1 \in 0 .. Len(s)
      BY <1>2
    <3>2. At(s, k + 1) # None
      BY <1>1, <3>1, AtTyped
    <3>. QED  BY <3>2, <2>2, <1>3
  <2>. QED  BY <2>1, <2>3, <1>2
<1>. QED  BY <1>3, <1>4

\* slist_remove links the node before the one removed to the one behind it.
LEMMA RemoveLinks ==
  ASSUME Types, Bounded, NEW s, ChainOf(s), NEW b \in Backends, b \in Listed, slist_remove(b)
  PROVE  \E r \in 1 .. Len(s) :
           s[r] = b /\ next' = [next EXCEPT ![At(s, r - 1)] = At(s, r + 1)]
<1>1. s \in Seq(Backends)
  BY DEF ChainOf
<1>2. Len(s) \in Nat /\ Len(s) <= MaxChanges /\ MaxChanges \in Nat
  BY <1>1, AtTyped, LenBound, BoundAssumption
<1>3. PICK k \in 0 .. (MaxChanges + 1) :
         /\ At(s, k) # None /\ next[At(s, k)] = b
         /\ next' = [next EXCEPT ![At(s, k)] = next[b]]
  BY WalkOnChain DEF slist_remove
<1>4. k \in 0 .. Len(s)
  BY <1>2, <1>3 DEF At
<1>5. At(s, k + 1) = b
  BY <1>3, <1>4 DEF ChainOf
<1>6. k + 1 <= Len(s)
  <2>. SUFFICES ASSUME ~ (k + 1 <= Len(s)) PROVE FALSE
    OBVIOUS
  <2>1. k = Len(s)
    BY <1>2, <1>4
  <2>. QED  BY <2>1, <1>1, <1>5, AtTyped, NodesDiffer
<1>7. k + 1 \in 1 .. Len(s) /\ (k + 1) - 1 = k /\ k + 1 \in 0 .. Len(s)
  BY <1>2, <1>4, <1>6
<1>8. s[k + 1] = b
  BY <1>1, <1>5, <1>7, AtTyped
<1>9. next[b] = At(s, (k + 1) + 1)
  BY <1>5, <1>7 DEF ChainOf
<1>. QED  BY <1>3, <1>7, <1>8, <1>9

-----------------------------------------------------------------------------
\* Types.

Changes(b) == StartRegister(b) \/ Link(b) \/ StartUnregister(b) \/ Unlink(b)
               \/ ulog_backend_set_filter(b) \/ ulog_be_lvl_filter_set(b)
Walks(t) == ulog_output_to_all_backend(t) \/ ulog_flush(t)

\* A step changes the list, is of a walk, or is nothing.
LEMMA NextOrStutter ==
  [Next]_vars => \/ \E b \in Backends : Changes(b)
                 \/ \E t \in Tasks : Walks(t)
                 \/ UNCHANGED vars
BY DEF Next, Changes, Walks

\* Changes of the list keep the types,
LEMMA ChangeTypes ==
  ASSUME Types, NEW b \in Backends, Changes(b)
  PROVE  Types'
<1>1. /\ UNCHANGED <<pc, line, node, cut, walk, outputs>>
      /\ \A t \in Tasks : Stands(t)' <=> Stands(t)
  BY DEF Changes, StartRegister, Link, StartUnregister, Unlink, ulog_backend_set_filter,
     ulog_be_lvl_filter_set, progress, Stands
<1>2. next' \in [Nodes -> Backends \cup {None}]
  <2>1. CASE Link(b)
    BY <2>1 DEF Link, slist_append, Types
  <2>2. CASE Unlink(b)
    <3>1. next[b] \in Backends \cup {None}
      BY NodesDiffer DEF Types
    <3>. QED  BY <2>2, <3>1 DEF Unlink, slist_remove, Types
  <2>3. CASE UNCHANGED next
    BY <2>3 DEF Types
  <2>. QED  BY <2>1, <2>2, <2>3 DEF Changes, StartRegister, StartUnregister,
            ulog_backend_set_filter, ulog_be_lvl_filter_set, list
<1>3. where' \in [Backends -> {"unlisted", "entering", "listed", "leaving"}]
  BY DEF Changes, StartRegister, Link, StartUnregister, Unlink, ulog_backend_set_filter,
     ulog_be_lvl_filter_set, list, Goes, Types
<1>4. support_color' \in [Backends -> BOOLEAN]
  BY DEF Changes, StartRegister, Link, StartUnregister, Unlink, ulog_backend_set_filter,
     ulog_be_lvl_filter_set, attributes, Types
<1>5. changes' \in Nat /\ changes' <= MaxChanges
  <2>1. changes' = changes \/ (changes < MaxChanges /\ changes' = changes + 1)
    BY DEF Changes, StartRegister, Link, StartUnregister, Unlink, ulog_backend_set_filter,
       ulog_be_lvl_filter_set, Change
  <2>. QED  BY <2>1, BoundAssumption DEF Types
<1>6. stayed' \in [Tasks -> SUBSET Backends] /\ known' \in [Tasks -> SUBSET Backends]
      /\ removed' \in [Tasks -> BOOLEAN]
  <2>1. CASE Link(b)
    BY <2>1 DEF Link, Types
  <2>2. CASE Unlink(b)
    BY <2>2 DEF Unlink, Types
  <2>3. CASE UNCHANGED history
    BY <2>3 DEF history, Types
  <2>. QED  BY <2>1, <2>2, <2>3 DEF Changes, StartRegister, StartUnregister,
            ulog_backend_set_filter, ulog_be_lvl_filter_set
<1>. QED  BY <1>1, <1>2, <1>3, <1>4, <1>5, <1>6 DEF Types

\* the backends listed are backends,
LEMMA ListedTyped == Listed \in SUBSET Backends
BY DEF Listed

\* walks keep the types,
LEMMA WalkTypes ==
  ASSUME Types, NEW t \in Tasks, Walks(t)
  PROVE  Types'
<1>1. UNCHANGED <<next, where, support_color, changes>>
  BY DEF Walks, ulog_output_to_all_backend, ulog_flush, Start, TestFirst, First, Refuse, Output,
     Follow, StartFlush, Flush, GoTo, list, attributes
<1>2. ASSUME Start(t) \/ StartFlush(t) PROVE Types'
  <2>1. pc' \in [Tasks -> Places] /\ \A u \in Tasks : Stands(u)' => Stands(u)
    BY <1>2 DEF Start, StartFlush, Step, Stands, Places, Types
  <2>2. line' \in [Tasks -> [level : Levels, is_raw : BOOLEAN] \cup {None}] /\ UNCHANGED node
    <3>1. CASE Start(t)
      <4>1. PICK level \in Levels, is_raw \in BOOLEAN :
               line' = [line EXCEPT ![t] = [level |-> level, is_raw |-> is_raw]]
        BY <3>1 DEF Start
      <4>2. PICK l : l = [level |-> level, is_raw |-> is_raw]
        OBVIOUS
      <4>3. l \in [level : Levels, is_raw : BOOLEAN]
        BY <4>2
      <4>4. line' = [line EXCEPT ![t] = l]
        BY <4>1, <4>2, Zenon
      <4>. QED  BY <3>1, <4>3, <4>4 DEF Start, Types
    <3>2. CASE StartFlush(t)
      BY <3>2 DEF StartFlush, Types
    <3>. QED  BY <1>2, <3>1, <3>2
  <2>3. /\ cut' \in [Tasks -> Nat] /\ walk' \in [Tasks -> Seq(Backends)]
        /\ outputs' \in [Tasks -> Seq([color : BOOLEAN, cut : Nat])]
        /\ stayed' \in [Tasks -> SUBSET Backends] /\ known' \in [Tasks -> SUBSET Backends]
        /\ removed' \in [Tasks -> BOOLEAN]
    <3>1. << >> \in Seq(Backends) /\ << >> \in Seq([color : BOOLEAN, cut : Nat])
      BY EmptySeq
    <3>2. BeginWalk(t)
      BY <1>2 DEF Start, StartFlush
    <3>3. cut' \in [Tasks -> Nat] /\ removed' \in [Tasks -> BOOLEAN]
      BY <3>2 DEF BeginWalk, Types
    <3>4. walk' \in [Tasks -> Seq(Backends)]
      BY <3>1, <3>2 DEF BeginWalk, Types
    <3>5. outputs' \in [Tasks -> Seq([color : BOOLEAN, cut : Nat])]
      BY <3>1, <3>2 DEF BeginWalk, Types
    <3>6. stayed' \in [Tasks -> SUBSET Backends] /\ known' \in [Tasks -> SUBSET Backends]
      BY <3>2, ListedTyped DEF BeginWalk, Types
    <3>. QED  BY <3>3, <3>4, <3>5, <3>6
  <2>. QED  BY <1>1, <2>1, <2>2, <2>3 DEF Types
<1>3. ASSUME NEW from \in {"first", "follow"}, NEW n \in Backends \cup {None}, GoTo(t, from, n)
      PROVE  Types'
  <2>1. pc' \in [Tasks -> Places] /\ pc[t] = from
        /\ (pc'[t] = IF n = None THEN "idle" ELSE "visit")
        /\ \A u \in Tasks : u # t => pc'[u] = pc[u]
    BY <1>3 DEF GoTo, Step, Places, Types
  <2>2. node' \in [Tasks -> Backends \cup {None}] /\ node'[t] = n
        /\ \A u \in Tasks : u # t => node'[u] = node[u]
    BY <1>3 DEF GoTo, Types
  <2>3. \A u \in Tasks : Stands(u)' => node'[u] \in Backends
    BY <2>1, <2>2 DEF Types, Stands
  <2>4. walk' \in [Tasks -> Seq(Backends)]
    <3>1. n # None => walk[t] \o <<n>> \in Seq(Backends)
      BY ConcatProperties DEF Types
    <3>. QED  BY <1>3, <3>1 DEF GoTo, Types
  <2>5. UNCHANGED <<line, cut, outputs, stayed, known, removed>>
    BY <1>3 DEF GoTo, history
  <2>. QED  BY <1>1, <2>1, <2>2, <2>3, <2>4, <2>5 DEF Types
<1>4. ASSUME TestFirst(t) \/ Flush(t) \/ Refuse(t) \/ Output(t)
      PROVE  /\ pc' \in [Tasks -> Places] /\ \A u \in Tasks : Stands(u)' => pc[u] = "test" \/ Stands(u)
             /\ UNCHANGED <<line, node, walk, stayed, known, removed>>
  BY <1>4 DEF TestFirst, Flush, Refuse, Output, Step, Stands, Places, Types, history
<1>5. ASSUME TestFirst(t) \/ Flush(t) \/ Refuse(t)
      PROVE  UNCHANGED <<cut, outputs>> /\ (TestFirst(t) => ~ Stands(t)')
  BY <1>5 DEF TestFirst, Flush, Refuse, Step, Stands, Types
<1>6. ASSUME TestFirst(t) \/ Flush(t) \/ Refuse(t) \/ Output(t)
      PROVE  \A u \in Tasks : Stands(u)' => Stands(u)
  BY <1>6 DEF TestFirst, Flush, Refuse, Output, Step, Stands, Places, Types
<1>7. ASSUME Output(t)
      PROVE  cut' \in [Tasks -> Nat] /\ outputs' \in [Tasks -> Seq([color : BOOLEAN, cut : Nat])]
  <2>1. node[t] \in Backends /\ support_color[node[t]] \in BOOLEAN
    BY <1>7 DEF Output, Step, Stands, Types
  <2>2. cut' \in [Tasks -> Nat] /\ cut'[t] \in Nat
    BY <1>7 DEF Output, Types
  <2>3. \E c \in Nat : outputs' = [outputs EXCEPT ![t] =
                          @ \o <<[color |-> support_color[node[t]], cut |-> c]>>]
    BY <1>7, <2>2 DEF Output
  <2>4. PICK c \in Nat : outputs' = [outputs EXCEPT ![t] =
                            @ \o <<[color |-> support_color[node[t]], cut |-> c]>>]
    BY <2>3
  <2>5. outputs[t] \o <<[color |-> support_color[node[t]], cut |-> c]>>
          \in Seq([color : BOOLEAN, cut : Nat])
    BY <2>1, ConcatProperties DEF Types
  <2>. QED  BY <2>2, <2>4, <2>5 DEF Types
<1>8. ASSUME TestFirst(t) \/ Flush(t) \/ Refuse(t) \/ Output(t) PROVE Types'
  BY <1>8, <1>1, <1>4, <1>5, <1>6, <1>7 DEF Types
<1>9. next[backend_list] \in Backends \cup {None}
      /\ (pc[t] = "follow" => next[node[t]] \in Backends \cup {None})
  BY NodesDiffer DEF Types, Stands
<1>10. First(t) => GoTo(t, "first", next[backend_list])
  BY DEF First
<1>11. Follow(t) => GoTo(t, "follow", next[node[t]]) /\ pc[t] = "follow"
  BY DEF Follow, GoTo, Step
<1>. QED  BY <1>2, <1>3, <1>8, <1>9, <1>10, <1>11
          DEF Walks, ulog_output_to_all_backend, ulog_flush

\* and so does every step.
LEMMA NextTypes == Types /\ [Next]_vars => Types'
<1>. SUFFICES ASSUME Types, UNCHANGED vars PROVE Types'
  BY NextOrStutter, ChangeTypes, WalkTypes
<1>. QED  BY DEF vars, list, attributes, progress, history, Types, Stands

-----------------------------------------------------------------------------
\* The changes.

\* Where a change takes a backend: into the list in two steps, out of it in two.
LEMMA ChangeWhere ==
  ASSUME Types, NEW b \in Backends, Changes(b)
  PROVE  \/ StartRegister(b) /\ where[b] = "unlisted" /\ where'[b] = "entering"
            /\ changes' = changes + 1 /\ \A d \in Backends : d # b => where'[d] = where[d]
         \/ Link(b) /\ where[b] = "entering" /\ where'[b] = "listed"
            /\ changes' = changes /\ \A d \in Backends : d # b => where'[d] = where[d]
         \/ StartUnregister(b) /\ where[b] = "listed" /\ where'[b] = "leaving"
            /\ changes' = changes + 1 /\ \A d \in Backends : d # b => where'[d] = where[d]
         \/ Unlink(b) /\ where[b] = "leaving" /\ where'[b] = "unlisted"
            /\ changes' = changes /\ \A d \in Backends : d # b => where'[d] = where[d]
         \/ where' = where /\ changes' = changes + 1
            /\ (ulog_backend_set_filter(b) \/ ulog_be_lvl_filter_set(b))
<1>1. \A from, to : Goes(b, from, to) =>
         where[b] = from /\ where'[b] = to /\ \A d \in Backends : d # b => where'[d] = where[d]
  BY DEF Goes, Types
<1>. QED  BY <1>1 DEF Changes, StartRegister, Link, StartUnregister, Unlink,
          ulog_backend_set_filter, ulog_be_lvl_filter_set, Change, list

\* A change is counted, and a backend half in or half out of the list is counted as
\* one.
LEMMA ChangeBounded ==
  ASSUME Types, Bounded, NEW b \in Backends, Changes(b)
  PROVE  Bounded'
<1>1. IsFiniteSet(Occupied) /\ Cardinality(Occupied) \in Nat /\ Cardinality(Occupied) <= changes
      /\ changes \in Nat
  BY FS_CardinalityType DEF Bounded, Types
<1>2. CASE StartRegister(b) /\ where[b] = "unlisted" /\ where'[b] = "entering"
           /\ changes' = changes + 1 /\ \A d \in Backends : d # b => where'[d] = where[d]
  <2>1. Occupied' = Occupied \cup {b} /\ b \notin Occupied
    BY <1>2 DEF Occupied
  <2>2. IsFiniteSet(Occupied') /\ Cardinality(Occupied') = Cardinality(Occupied) + 1
    BY <2>1, <1>1, FS_AddElement
  <2>. QED  BY <2>2, <1>1, <1>2 DEF Bounded
<1>3. CASE /\ Occupied' = Occupied /\ (changes' = changes \/ changes' = changes + 1)
  BY <1>3, <1>1 DEF Bounded
<1>4. CASE Unlink(b) /\ where[b] = "leaving" /\ where'[b] = "unlisted"
           /\ changes' = changes /\ \A d \in Backends : d # b => where'[d] = where[d]
  <2>1. Occupied' \subseteq Occupied
    BY <1>4 DEF Occupied
  <2>2. IsFiniteSet(Occupied') /\ Cardinality(Occupied') <= Cardinality(Occupied)
    BY <2>1, <1>1, FS_Subset
  <2>3. Cardinality(Occupied') \in Nat
    BY <2>2, FS_CardinalityType
  <2>. QED  BY <2>2, <2>3, <1>1, <1>4 DEF Bounded
<1>5. CASE \/ Link(b) /\ where[b] = "entering" /\ where'[b] = "listed"
              /\ changes' = changes /\ \A d \in Backends : d # b => where'[d] = where[d]
           \/ StartUnregister(b) /\ where[b] = "listed" /\ where'[b] = "leaving"
              /\ changes' = changes + 1 /\ \A d \in Backends : d # b => where'[d] = where[d]
           \/ where' = where /\ changes' = changes + 1
  <2>1. Occupied' = Occupied
    BY <1>5 DEF Occupied
  <2>. QED  BY <2>1, <1>3, <1>5
<1>. QED  BY ChangeWhere, <1>2, <1>4, <1>5

\* Registering and unregistering, but for the moments of Link and Unlink, leave
\* the list, and so do the filters.
LEMMA QuietChange ==
  ASSUME Types, NEW b \in Backends, Changes(b), ~ Link(b), ~ Unlink(b)
  PROVE  /\ Listed' = Listed
         /\ UNCHANGED <<next, pc, line, node, cut, walk, outputs, stayed, known, removed>>
<1>1. Listed' = Listed
  BY ChangeWhere DEF Listed
<1>2. UNCHANGED <<next, pc, line, node, cut, walk, outputs, stayed, known, removed>>
  BY DEF Changes, StartRegister, StartUnregister, ulog_backend_set_filter,
     ulog_be_lvl_filter_set, list, progress, history
<1>. QED  BY <1>1, <1>2

\* The critical section of ulog_backend_register: one backend more, known to all
\* walks.
LEMMA LinkEffect ==
  ASSUME Types, NEW b \in Backends, Link(b)
  PROVE  /\ b \notin Listed /\ Listed' = Listed \cup {b} /\ slist_append(b)
         /\ UNCHANGED <<pc, line, node, cut, walk, outputs, stayed, removed>>
         /\ \A t \in Tasks : known'[t] = known[t] \cup {b}
<1>1. where[b] = "entering" /\ where'[b] = "listed"
      /\ \A d \in Backends : d # b => where'[d] = where[d]
  BY DEF Link, Goes, Types
<1>. QED  BY <1>1 DEF Link, Listed, progress

\* The critical section of ulog_backend_unregister: one backend less, noticed by all
\* walks.
LEMMA UnlinkEffect ==
  ASSUME Types, NEW b \in Backends, Unlink(b)
  PROVE  /\ b \in Listed /\ Listed' = Listed \ {b} /\ slist_remove(b)
         /\ UNCHANGED <<pc, line, node, cut, walk, outputs, known>>
         /\ \A t \in Tasks : stayed'[t] = stayed[t] \ {b} /\ removed'[t]
<1>1. where[b] = "leaving" /\ where'[b] = "unlisted"
      /\ \A d \in Backends : d # b => where'[d] = where[d]
  BY DEF Unlink, Goes, Types
<1>. QED  BY <1>1 DEF Unlink, Listed, progress

\* The list with a backend linked behind its last one.
LEMMA LinkedChain ==
  ASSUME Types, Bounded, NEW s, ChainOf(s), NEW b \in Backends, Link(b)
  PROVE  ChainOf(Append(s, b))'
<1>1. s \in Seq(Backends) /\ Len(s) \in Nat
  BY AtTyped DEF ChainOf
<1>2. b \notin Listed /\ Listed' = Listed \cup {b} /\ slist_append(b)
  BY LinkEffect
<1>3. PICK u : u = Append(s, b)
  OBVIOUS
<1>4. /\ u \in Seq(Backends) /\ Len(u) = Len(s) + 1
      /\ \A i \in 1 .. Len(s) : u[i] = s[i]
      /\ u[Len(s) + 1] = b
  BY <1>1, <1>3, AppendProperties
<1>5. \A i \in 1 .. Len(s) : s[i] # b
  BY <1>1, <1>2, ElementOfSeq DEF ChainOf
<1>6. \A i \in 1 .. Len(u) : i \in 1 .. Len(s) \/ i = Len(s) + 1
  BY <1>1, <1>4
<1>7. \A i, j \in 1 .. Len(u) : u[i] = u[j] => i = j
  BY <1>4, <1>5, <1>6 DEF ChainOf
<1>8. \A d \in Backends : d \in Listed' <=> \E i \in 1 .. Len(u) : u[i] = d
  <2>1. \A i \in 1 .. Len(s) : i \in 1 .. Len(u)
    BY <1>1, <1>4
  <2>2. Len(s) + 1 \in 1 .. Len(u)
    BY <1>1, <1>4
  <2>3. \A d \in Backends : d \in Listed <=> \E i \in 1 .. Len(s) : s[i] = d
    BY DEF ChainOf
  <2>. QED  BY <2>1, <2>2, <2>3, <1>2, <1>4, <1>6
<1>9. ASSUME NEW k \in 0 .. Len(u) PROVE next'[At(u, k)] = At(u, k + 1)
  <2>1. next' = [next EXCEPT ![At(s, Len(s))] = b, ![b] = None]
    BY <1>2, AppendLinks
  <2>2. /\ \A i \in 0 .. Len(s) : At(s, i) \in Nodes /\ At(s, i) # b
        /\ b \in Nodes
    <3>1. \A i \in 0 .. Len(s) : At(s, i) \in Nodes /\ (i = 0 \/ At(s, i) = s[i])
      BY <1>1, AtTyped DEF At
    <3>2. \A i \in 0 .. Len(s) : i = 0 \/ i \in 1 .. Len(s)
      BY <1>1
    <3>3. At(s, 0) = backend_list
      BY DEF At
    <3>. QED  BY <3>1, <3>2, <3>3, <1>5, NodesDiffer
  <2>3. /\ next'[b] = None
        /\ next'[At(s, Len(s))] = b
        /\ \A n \in Nodes : n # b /\ n # At(s, Len(s)) => next'[n] = next[n]
    <3>1. At(s, Len(s)) \in Nodes /\ At(s, Len(s)) # b
      BY <1>1, <2>2
    <3>. QED  BY <2>1, <2>2, <3>1 DEF Types
  <2>4. \A i \in 0 .. Len(s) : At(u, i) = At(s, i)
    BY <1>1, <1>4 DEF At
  <2>5. At(u, Len(s) + 1) = b /\ At(u, Len(u) + 1) = None
    <3>1. Len(s) + 1 # 0 /\ Len(s) + 1 <= Len(u) /\ Len(u) + 1 # 0 /\ ~ (Len(u) + 1 <= Len(u))
      BY <1>1, <1>4
    <3>. QED  BY <3>1, <1>4 DEF At
  <2>6. CASE k < Len(s)
    <3>1. k \in 0 .. Len(s) /\ k + 1 \in 0 .. Len(s) /\ Len(s) \in 0 .. Len(s) /\ k # Len(s)
      BY <2>6, <1>1
    <3>2. At(s, k) # At(s, Len(s))
      BY <3>1, AtInjective
    <3>3. next'[At(s, k)] = next[At(s, k)]
      BY <2>2, <2>3, <3>1, <3>2
    <3>4. next[At(s, k)] = At(s, k + 1)
      BY <3>1 DEF ChainOf
    <3>. QED  BY <3>1, <3>3, <3>4, <2>4
  <2>7. CASE k = Len(s)
    <3>1. Len(s) \in 0 .. Len(s)
      BY <1>1
    <3>. QED  BY <2>7, <3>1, <2>3, <2>4, <2>5
  <2>8. CASE k = Len(s) + 1
    <3>1. k + 1 = Len(u) + 1
      BY <2>8, <1>4
    <3>. QED  BY <2>8, <3>1, <2>3, <2>5
  <2>. QED  BY <2>6, <2>7, <2>8, <1>1, <1>4
<1>10. ChainOf(u)'
  BY <1>4, <1>7, <1>8, <1>9 DEF ChainOf, At
<1>. QED  BY <1>3, <1>10

\* The list with a backend taken off.
LEMMA UnlinkedChain ==
  ASSUME Types, Bounded, NEW s, ChainOf(s), NEW b \in Backends, Unlink(b)
  PROVE  \E u \in Seq(Backends) : ChainOf(u)'
<1>1. s \in Seq(Backends) /\ Len(s) \in Nat
  BY AtTyped DEF ChainOf
<1>2. b \in Listed /\ Listed' = Listed \ {b} /\ slist_remove(b)
  BY UnlinkEffect
<1>3. PICK r \in 1 .. Len(s) :
         s[r] = b /\ next' = [next EXCEPT ![At(s, r - 1)] = At(s, r + 1)]
  BY <1>2, RemoveLinks
<1>4. PICK u : u = RemoveAt(s, r)
  OBVIOUS
<1>5. /\ u \in Seq(Backends) /\ Len(u) = Len(s) - 1
      /\ \A i \in 1 .. Len(s) - 1 : u[i] = IF i < r THEN s[i] ELSE s[i + 1]
  BY <1>1, <1>4, RemoveAtProperties
<1>6. /\ \A i \in 1 .. Len(u) : (i < r => i \in 1 .. Len(s)) /\ (~ (i < r) => i + 1 \in 1 .. Len(s))
      /\ \A i \in 1 .. Len(s) : (i < r => i \in 1 .. Len(u))
                                /\ (i > r => i - 1 \in 1 .. Len(u) /\ ~ (i - 1 < r) /\ (i - 1) + 1 = i)
  BY <1>1, <1>5
<1>7. \A i \in 1 .. Len(u) : u[i] = IF i < r THEN s[i] ELSE s[i + 1]
  BY <1>5
<1>8. \A i, j \in 1 .. Len(u) : u[i] = u[j] => i = j
  <2>1. ASSUME NEW i \in 1 .. Len(u), NEW j \in 1 .. Len(u), u[i] = u[j] PROVE i = j
    <3>1. PICK i1 \in 1 .. Len(s) : u[i] = s[i1] /\ i1 = (IF i < r THEN i ELSE i + 1)
      BY <1>6, <1>7
    <3>2. PICK j1 \in 1 .. Len(s) : u[j] = s[j1] /\ j1 = (IF j < r THEN j ELSE j + 1)
      BY <1>6, <1>7
    <3>3. i1 = j1
      BY <2>1, <3>1, <3>2 DEF ChainOf
    <3>. QED  BY <3>1, <3>2, <3>3
  <2>. QED  BY <2>1
<1>9. \A d \in Backends : d \in Listed' <=> \E i \in 1 .. Len(u) : u[i] = d
  <2>1. \A d \in Backends : d \in Listed <=> \E i \in 1 .. Len(s) : s[i] = d
    BY DEF ChainOf
  <2>2. ASSUME NEW d \in Listed' PROVE \E i \in 1 .. Len(u) : u[i] = d
    <3>1. d \in Backends /\ d \in Listed /\ d # b
      BY <1>2, ListedTyped
    <3>2. PICK i \in 1 .. Len(s) : s[i] = d
      BY <2>1, <3>1
    <3>3. i < r \/ i > r
      BY <1>3, <3>1, <3>2
    <3>. QED  BY <3>2, <3>3, <1>6, <1>7
  <2>3. ASSUME NEW i \in 1 .. Len(u) PROVE u[i] \in Listed'
    <3>1. PICK i1 \in 1 .. Len(s) : u[i] = s[i1] /\ i1 # r
      BY <1>6, <1>7
    <3>2. s[i1] # b /\ s[i1] \in Backends
      BY <3>1, <1>1, <1>3, ElementOfSeq DEF ChainOf
    <3>. QED  BY <3>1, <3>2, <2>1, <1>2
  <2>. QED  BY <2>2, <2>3
<1>10. ASSUME NEW k \in 0 .. Len(u) PROVE next'[At(u, k)] = At(u, k + 1)
  <2>1. \A i \in 0 .. Len(u) + 1 : At(u, i) = IF i < r THEN At(s, i) ELSE At(s, i + 1)
    <3>1. ASSUME NEW i \in 0 .. Len(u) + 1, i < r PROVE At(u, i) = At(s, i)
      <4>1. i <= Len(s) /\ (i = 0 \/ (i \in 1 .. Len(u) /\ i <= Len(u)))
        BY <3>1, <1>1, <1>5
      <4>. QED  BY <3>1, <4>1, <1>7 DEF At
    <3>2. ASSUME NEW i \in 0 .. Len(u) + 1, ~ (i < r) PROVE At(u, i) = At(s, i + 1)
      <4>1. i # 0 /\ i + 1 # 0 /\ (i <= Len(u) <=> i + 1 <= Len(s))
            /\ (i <= Len(u) => i \in 1 .. Len(u))
        BY <3>2, <1>1, <1>5
      <4>. QED  BY <3>2, <4>1, <1>7 DEF At
    <3>. QED  BY <3>1, <3>2
  <2>2. \A i \in 0 .. Len(s) : next[At(s, i)] = At(s, i + 1) /\ At(s, i) \in Nodes
    BY <1>1, AtTyped DEF ChainOf
  <2>3. r - 1 \in 0 .. Len(s) /\ At(s, r - 1) \in Nodes
    BY <1>1, <2>2
  <2>4. /\ next'[At(s, r - 1)] = At(s, r + 1)
        /\ \A n \in Nodes : n # At(s, r - 1) => next'[n] = next[n]
    BY <1>3, <2>3 DEF Types
  <2>5. \A i \in 0 .. Len(s) : i # r - 1 => next'[At(s, i)] = At(s, i + 1)
    BY <2>2, <2>3, <2>4, AtInjective
  <2>6. CASE k < r - 1
    <3>1. k \in 0 .. Len(s) /\ k # r - 1 /\ k < r /\ k + 1 < r
          /\ k \in 0 .. Len(u) + 1 /\ k + 1 \in 0 .. Len(u) + 1
      BY <2>6, <1>1, <1>5
    <3>. QED  BY <3>1, <2>1, <2>5
  <2>7. CASE k = r - 1
    <3>1. k < r /\ ~ (k + 1 < r) /\ (k + 1) + 1 = r + 1
          /\ k \in 0 .. Len(u) + 1 /\ k + 1 \in 0 .. Len(u) + 1
      BY <2>7, <1>1, <1>5
    <3>. QED  BY <2>7, <3>1, <2>1, <2>4
  <2>8. CASE k > r - 1
    <3>1. ~ (k < r) /\ ~ (k + 1 < r) /\ k + 1 \in 0 .. Len(s) /\ k + 1 # r - 1
          /\ k \in 0 .. Len(u) + 1 /\ k + 1 \in 0 .. Len(u) + 1
      BY <2>8, <1>1, <1>5
    <3>. QED  BY <3>1, <2>1, <2>5
  <2>. QED  BY <2>6, <2>7, <2>8, <1>1, <1>5
<1>11. ChainOf(u)'
  BY <1>5, <1>8, <1>9, <1>10 DEF ChainOf, At
<1>. QED  BY <1>5, <1>11

-----------------------------------------------------------------------------
\* The steps of a walk.

\* Only the task that walks moves.
LEMMA WalkFrame ==
  ASSUME Types, NEW t \in Tasks, Walks(t)
  PROVE  /\ UNCHANGED <<next, where, support_color, changes>> /\ Listed' = Listed
         /\ \A u \in Tasks : u # t =>
              /\ pc'[u] = pc[u] /\ line'[u] = line[u] /\ node'[u] = node[u] /\ cut'[u] = cut[u]
              /\ walk'[u] = walk[u] /\ outputs'[u] = outputs[u] /\ stayed'[u] = stayed[u]
              /\ known'[u] = known[u] /\ removed'[u] = removed[u]
<1>1. UNCHANGED <<next, where, support_color, changes>>
  BY DEF Walks, ulog_output_to_all_backend, ulog_flush, Start, TestFirst, First, Refuse, Output,
     Follow, StartFlush, Flush, GoTo, list, attributes
<1>2. ASSUME NEW u \in Tasks, u # t
      PROVE  /\ pc'[u] = pc[u] /\ line'[u] = line[u] /\ node'[u] = node[u] /\ cut'[u] = cut[u]
             /\ walk'[u] = walk[u] /\ outputs'[u] = outputs[u] /\ stayed'[u] = stayed[u]
             /\ known'[u] = known[u] /\ removed'[u] = removed[u]
  <2>1. CASE Start(t) \/ StartFlush(t)
    BY <2>1, <1>2 DEF Start, StartFlush, BeginWalk, Step, Types
  <2>2. CASE First(t) \/ Follow(t)
    BY <2>2, <1>2 DEF First, Follow, GoTo, Step, history, Types
  <2>3. CASE TestFirst(t) \/ Refuse(t) \/ Flush(t)
    BY <2>3, <1>2 DEF TestFirst, Refuse, Flush, Step, history, Types
  <2>4. CASE Output(t)
    BY <2>4, <1>2 DEF Output, Step, history, Types
  <2>. QED  BY <2>1, <2>2, <2>3, <2>4 DEF Walks, ulog_output_to_all_backend, ulog_flush
<1>3. Listed' = Listed
  BY <1>1 DEF Listed
<1>. QED  BY <1>1, <1>2, <1>3

\* What a step of a walk does to its own task.
LEMMA WalkMoves ==
  ASSUME Types, NEW t \in Tasks, Walks(t)
  PROVE  \/ /\ pc'[t] \in {"test", "first"} /\ Len(walk'[t]) = 0 /\ Len(outputs'[t]) = 0
            /\ cut'[t] = 0 /\ stayed'[t] = Listed /\ known'[t] = Listed /\ ~ removed'[t]
         \/ /\ pc[t] = "test" /\ UNCHANGED <<node, walk, outputs, cut, line, history>>
            /\ pc'[t] = IF next[backend_list] = None THEN "idle" ELSE "first"
         \/ /\ pc[t] \in {"first", "follow"} /\ UNCHANGED <<outputs, cut, line, history>>
            /\ LET n == IF pc[t] = "first" THEN next[backend_list] ELSE next[node[t]]
               IN /\ pc'[t] = IF n = None THEN "idle" ELSE "visit"
                  /\ node'[t] = n
                  /\ walk'[t] = IF n = None THEN walk[t] ELSE walk[t] \o <<n>>
         \/ /\ pc[t] = "visit" /\ pc'[t] = "follow" /\ UNCHANGED <<node, walk, line, history>>
            /\ Output(t) \/ UNCHANGED <<outputs, cut>>
<1>1. CASE Start(t) \/ StartFlush(t)
  <2>1. Len(<< >>) = 0
    BY EmptySeq
  <2>2. BeginWalk(t) /\ pc'[t] \in {"test", "first"}
    BY <1>1 DEF Start, StartFlush, Step, Types
  <2>3. /\ walk'[t] = << >> /\ outputs'[t] = << >> /\ cut'[t] = 0
        /\ stayed'[t] = Listed /\ known'[t] = Listed /\ removed'[t] = FALSE
    BY <2>2 DEF BeginWalk, Types
  <2>. QED  BY <2>1, <2>2, <2>3
<1>2. CASE TestFirst(t)
  BY <1>2 DEF TestFirst, Step, Types
<1>3. CASE First(t)
  BY <1>3 DEF First, GoTo, Step, Types
<1>4. CASE Follow(t)
  BY <1>4 DEF Follow, GoTo, Step, Types
<1>5. CASE Refuse(t) \/ Flush(t)
  BY <1>5 DEF Refuse, Flush, Step, Types
<1>6. CASE Output(t)
  BY <1>6 DEF Output, Step, Types
<1>. QED  BY <1>1, <1>2, <1>3, <1>4, <1>5, <1>6
          DEF Walks, ulog_output_to_all_backend, ulog_flush

\* A walk at a prefix of the list stays at one.
LEMMA WalkOnList ==
  ASSUME Types, KnownClosed, NEW s, ChainOf(s), NEW t \in Tasks, OnChain(t, s), Walks(t)
  PROVE  OnChain(t, s)'
<1>. SUFFICES ASSUME ~ removed'[t]
              PROVE  /\ Len(walk'[t]) <= Len(s)
                     /\ \A i \in 1 .. Len(walk'[t]) : walk'[t][i] = s[i]
                     /\ pc'[t] \in {"visit", "follow"} =>
                          Len(walk'[t]) >= 1 /\ node'[t] = walk'[t][Len(walk'[t])]
                     /\ pc'[t] \in {"test", "first"} => Len(walk'[t]) = 0
                     /\ pc'[t] = "idle" =>
                          \A b \in stayed'[t] : \E i \in 1 .. Len(walk'[t]) : walk'[t][i] = b
  BY DEF OnChain, Stands
<1>1. /\ s \in Seq(Backends) /\ Len(s) \in Nat
      /\ At(s, 0) = backend_list
      /\ \A k \in 1 .. Len(s) : At(s, k) = s[k] /\ s[k] \in Backends
      /\ At(s, Len(s) + 1) = None
      /\ \A k \in 0 .. Len(s) : next[At(s, k)] = At(s, k + 1)
      /\ \A b \in Listed : \E i \in 1 .. Len(s) : s[i] = b
  BY AtTyped DEF ChainOf, Listed
<1>2. stayed[t] \subseteq Listed
  BY DEF KnownClosed
<1>3. walk[t] \in Seq(Backends) /\ Len(walk[t]) \in Nat
  BY LenProperties DEF Types
<1>4. CASE /\ pc'[t] \in {"test", "first"} /\ Len(walk'[t]) = 0
  BY <1>4, <1>1
<1>5. CASE /\ pc[t] = "test" /\ UNCHANGED <<node, walk, history>>
           /\ pc'[t] = IF next[backend_list] = None THEN "idle" ELSE "first"
  <2>1. ~ removed[t] /\ Len(walk[t]) = 0
    BY <1>5 DEF OnChain, history
  <2>2. next[backend_list] = None => Len(s) = 0
    <3>. SUFFICES ASSUME next[backend_list] = None, Len(s) # 0 PROVE FALSE
      OBVIOUS
    <3>1. 0 \in 0 .. Len(s) /\ 1 \in 1 .. Len(s) /\ 0 + 1 = 1
      BY <1>1
    <3>2. next[backend_list] = s[1] /\ s[1] \in Backends
      BY <3>1, <1>1
    <3>. QED  BY <3>2, NodesDiffer
  <2>3. next[backend_list] = None => stayed[t] = {}
    BY <2>2, <1>1, <1>2
  <2>. QED  BY <1>5, <2>1, <2>3, <1>1 DEF history
<1>6. CASE /\ pc[t] \in {"first", "follow"} /\ UNCHANGED history
           /\ LET n == IF pc[t] = "first" THEN next[backend_list] ELSE next[node[t]]
              IN /\ pc'[t] = IF n = None THEN "idle" ELSE "visit"
                 /\ node'[t] = n
                 /\ walk'[t] = IF n = None THEN walk[t] ELSE walk[t] \o <<n>>
  <2>1. ~ removed[t]
    BY <1>6 DEF history
  <2>2. PICK m \in 0 .. Len(s) : m = Len(walk[t])
    BY <2>1, <1>1, <1>3 DEF OnChain
  <2>3. \A i \in 1 .. m : walk[t][i] = s[i]
    BY <2>1, <2>2 DEF OnChain
  <2>4. PICK n : n = IF pc[t] = "first" THEN next[backend_list] ELSE next[node[t]]
    OBVIOUS
  <2>5. /\ pc'[t] = IF n = None THEN "idle" ELSE "visit"
        /\ node'[t] = n
        /\ walk'[t] = IF n = None THEN walk[t] ELSE walk[t] \o <<n>>
    BY <1>6, <2>4
  <2>6. n = At(s, m + 1)
    <3>1. CASE pc[t] = "first"
      <4>1. m = 0
        BY <3>1, <2>1, <2>2 DEF OnChain
      <4>2. 0 \in 0 .. Len(s)
        BY <1>1
      <4>. QED  BY <3>1, <4>1, <4>2, <2>4, <1>1
    <3>2. CASE pc[t] = "follow"
      <4>1. m >= 1 /\ node[t] = walk[t][m]
        BY <3>2, <2>1, <2>2 DEF OnChain, Stands
      <4>2. m \in 1 .. m /\ m \in 1 .. Len(s) /\ m \in 0 .. Len(s)
        BY <4>1, <2>2, <1>1
      <4>3. node[t] = At(s, m)
        BY <4>1, <4>2, <2>3, <1>1
      <4>. QED  BY <3>2, <4>2, <4>3, <2>4, <1>1
    <3>. QED  BY <1>6, <3>1, <3>2
  <2>7. CASE m = Len(s)
    <3>1. n = None
      BY <2>6, <2>7, <1>1
    <3>2. pc'[t] = "idle" /\ walk'[t] = walk[t] /\ stayed' = stayed
      BY <1>6, <2>5, <3>1 DEF history
    <3>3. \A b \in stayed[t] : \E i \in 1 .. m : walk[t][i] = b
      BY <1>1, <1>2, <2>3, <2>7
    <3>4. Len(walk'[t]) = m /\ \A i \in 1 .. m : walk'[t][i] = s[i]
      BY <3>2, <2>2, <2>3
    <3>5. \A b \in stayed'[t] : \E i \in 1 .. Len(walk'[t]) : walk'[t][i] = b
      <4>1. stayed'[t] = stayed[t] /\ walk'[t] = walk[t] /\ m = Len(walk[t])
        BY <3>2, <2>2
      <4>. QED  BY <4>1, <3>3, Zenon
    <3>. QED  BY <3>2, <3>4, <3>5, <2>7, <1>1
  <2>8. CASE m < Len(s)
    <3>1. m + 1 \in 1 .. Len(s)
      BY <2>8, <1>1
    <3>2. n = s[m + 1] /\ n \in Backends /\ n # None
      BY <2>6, <3>1, <1>1, NodesDiffer
    <3>3. pc'[t] = "visit" /\ walk'[t] = walk[t] \o <<n>> /\ node'[t] = n
      BY <2>5, <3>2
    <3>4. /\ Len(walk'[t]) = m + 1 /\ walk'[t][m + 1] = n
          /\ \A i \in 1 .. m : walk'[t][i] = walk[t][i]
      <4>1. walk[t] \o <<n>> = Append(walk[t], n)
        BY <1>3, <3>2, AppendProperties
      <4>2. PICK w : w = walk'[t]
        OBVIOUS
      <4>3. w = Append(walk[t], n)
        BY <3>3, <4>1, <4>2
      <4>4. Len(w) = Len(walk[t]) + 1 /\ w[Len(walk[t]) + 1] = n
            /\ \A i \in 1 .. Len(walk[t]) : w[i] = walk[t][i]
        BY <1>3, <3>2, <4>3, AppendProperties
      <4>. QED  BY <4>2, <4>4, <2>2
    <3>5. \A i \in 1 .. m + 1 : i \in 1 .. m \/ i = m + 1
      BY <2>2
    <3>6. \A i \in 1 .. m + 1 : walk'[t][i] = s[i]
      BY <3>2, <3>4, <3>5, <2>3
    <3>7. m + 1 <= Len(s) /\ m + 1 >= 1
      BY <2>8, <1>1
    <3>8. /\ Len(walk'[t]) >= 1 /\ node'[t] = walk'[t][Len(walk'[t])] /\ Len(walk'[t]) <= Len(s)
          /\ \A i \in 1 .. Len(walk'[t]) : walk'[t][i] = s[i]
      <4>1. PICK w : w = walk'[t]
        OBVIOUS
      <4>2. Len(w) = m + 1 /\ w[m + 1] = n /\ node'[t] = n /\ \A i \in 1 .. m + 1 : w[i] = s[i]
        BY <3>3, <3>4, <3>6, <4>1
      <4>3. /\ Len(w) >= 1 /\ node'[t] = w[Len(w)] /\ Len(w) <= Len(s)
            /\ \A i \in 1 .. Len(w) : w[i] = s[i]
        BY <4>2, <3>7
      <4>. QED  BY <4>1, <4>3, Zenon
    <3>. QED  BY <3>3, <3>8
  <2>9. m = Len(s) \/ m < Len(s)
    BY <1>1
  <2>. QED  BY <2>7, <2>8, <2>9, Zenon
<1>7. CASE /\ pc[t] = "visit" /\ pc'[t] = "follow" /\ UNCHANGED <<node, walk, history>>
  <2>1. ~ removed[t] /\ node'[t] = node[t] /\ walk'[t] = walk[t]
    BY <1>7 DEF history
  <2>2. /\ Len(walk[t]) <= Len(s) /\ \A i \in 1 .. Len(walk[t]) : walk[t][i] = s[i]
        /\ Len(walk[t]) >= 1 /\ node[t] = walk[t][Len(walk[t])]
    BY <1>7, <2>1 DEF OnChain, Stands
  <2>3. /\ Len(walk'[t]) <= Len(s) /\ \A i \in 1 .. Len(walk'[t]) : walk'[t][i] = s[i]
        /\ Len(walk'[t]) >= 1 /\ node'[t] = walk'[t][Len(walk'[t])]
    BY <2>1, <2>2, Zenon
  <2>. QED  BY <1>7, <2>3
<1>. QED  BY <1>4, <1>5, <1>6, <1>7, WalkMoves

\* The bound on changes is inductive.
LEMMA NextBounded == BackendsInv /\ [Next]_vars => Bounded'
<1>. SUFFICES ASSUME BackendsInv, [Next]_vars PROVE Bounded'
  OBVIOUS
<1>1. Types /\ Bounded
  BY DEF BackendsInv
<1>2. ASSUME NEW t \in Tasks, Walks(t) PROVE UNCHANGED <<where, changes>>
  BY <1>1, <1>2, WalkFrame
<1>3. UNCHANGED vars => UNCHANGED <<where, changes>>
  BY DEF vars, list
<1>4. UNCHANGED <<where, changes>> => Bounded'
  BY <1>1 DEF Bounded, Occupied
<1>. QED  BY <1>1, <1>2, <1>3, <1>4, NextOrStutter, ChangeBounded

\* The links from the head stay a list without repetition, and what a walk has seen
\* stays a beginning of it unless a backend is removed.
LEMMA NextList == BackendsInv /\ [Next]_vars => ListInv'
<1>. SUFFICES ASSUME BackendsInv, [Next]_vars PROVE ListInv'
  OBVIOUS
<1>1. Types /\ Bounded /\ KnownClosed /\ Types'
  BY NextTypes DEF BackendsInv
<1>2. PICK s \in Seq(Backends) : ChainOf(s) /\ \A t \in Tasks : OnChain(t, s)
  BY DEF BackendsInv, ListInv
<1>3. ASSUME UNCHANGED next, Listed' = Listed PROVE ChainOf(s)'
  BY <1>2, <1>3 DEF ChainOf, At
<1>4. ASSUME NEW t \in Tasks, pc'[t] = pc[t], node'[t] = node[t], walk'[t] = walk[t],
             stayed'[t] = stayed[t], removed'[t] = removed[t]
      PROVE  OnChain(t, s)'
  <2>1. OnChain(t, s)
    BY <1>2
  <2>. QED  BY <2>1, <1>4 DEF OnChain, Stands
<1>5. CASE UNCHANGED vars
  <2>1. UNCHANGED <<next, where, pc, node, walk, stayed, removed>>
    BY <1>5 DEF vars, list, progress, history
  <2>2. Listed' = Listed
    BY <2>1 DEF Listed
  <2>. QED  BY <2>1, <2>2, <1>3, <1>4 DEF ListInv
<1>6. ASSUME NEW b \in Backends, Changes(b), ~ Link(b), ~ Unlink(b) PROVE ListInv'
  <2>1. Listed' = Listed /\ UNCHANGED <<next, pc, node, walk, stayed, removed>>
    BY <1>1, <1>6, QuietChange
  <2>. QED  BY <2>1, <1>3, <1>4 DEF ListInv
<1>7. ASSUME NEW b \in Backends, Link(b) PROVE ListInv'
  <2>1. PICK u : u = Append(s, b)
    OBVIOUS
  <2>2. ChainOf(u)' /\ u \in Seq(Backends)
    <3>1. ChainOf(Append(s, b))'
      BY <1>1, <1>2, <1>7, LinkedChain
    <3>2. u \in Seq(Backends)
      BY <2>1, <1>2, AppendProperties
    <3>. QED  BY <3>1, <3>2, <2>1
  <2>3. Len(s) \in Nat /\ Len(u) = Len(s) + 1 /\ \A i \in 1 .. Len(s) : u[i] = s[i]
    BY <2>1, <1>2, AppendProperties, LenProperties
  <2>4. ASSUME NEW t \in Tasks PROVE OnChain(t, u)'
    <3>1. OnChain(t, s)'
      BY <1>1, <1>4, <1>7, LinkEffect
    <3>2. Len(walk'[t]) \in Nat
      BY <1>1, LenProperties DEF Types
    <3>3. Len(walk'[t]) <= Len(s) => Len(walk'[t]) <= Len(u)
                                     /\ \A i \in 1 .. Len(walk'[t]) : i \in 1 .. Len(s)
      BY <2>3, <3>2
    <3>. QED  BY <2>3, <3>1, <3>3 DEF OnChain
  <2>. QED  BY <2>2, <2>4 DEF ListInv
<1>8. ASSUME NEW b \in Backends, Unlink(b) PROVE ListInv'
  <2>1. PICK u \in Seq(Backends) : ChainOf(u)'
    BY <1>1, <1>2, <1>8, UnlinkedChain
  <2>2. \A t \in Tasks : OnChain(t, u)'
    BY <1>1, <1>8, UnlinkEffect DEF OnChain
  <2>. QED  BY <2>1, <2>2 DEF ListInv
<1>9. ASSUME NEW t \in Tasks, Walks(t) PROVE ListInv'
  <2>1. ChainOf(s)'
    BY <1>1, <1>3, <1>9, WalkFrame
  <2>2. OnChain(t, s)'
    BY <1>1, <1>2, <1>9, WalkOnList
  <2>3. \A u \in Tasks : u # t => OnChain(u, s)'
    BY <1>1, <1>4, <1>9, WalkFrame
  <2>. QED  BY <2>1, <2>2, <2>3 DEF ListInv
<1>. QED  BY <1>5, <1>6, <1>7, <1>8, <1>9, NextOrStutter

-----------------------------------------------------------------------------
\* What a walk can come to.

\* The list is closed under the links, and so is what was on it.
LEMMA ListClosed ==
  ASSUME Types, NEW s, ChainOf(s), NEW n \in Listed \cup {backend_list}
  PROVE  next[n] \in Listed \cup {None}
<1>1. /\ s \in Seq(Backends) /\ Len(s) \in Nat
      /\ \A k \in 1 .. Len(s) : At(s, k) = s[k] /\ s[k] \in Listed
      /\ At(s, 0) = backend_list /\ At(s, Len(s) + 1) = None
      /\ \A k \in 0 .. Len(s) : next[At(s, k)] = At(s, k + 1)
      /\ \A b \in Listed : \E k \in 1 .. Len(s) : s[k] = b
  BY AtTyped DEF ChainOf, Listed
<1>2. PICK k \in 0 .. Len(s) : n = At(s, k)
  <2>1. 0 \in 0 .. Len(s) /\ \A k \in 1 .. Len(s) : k \in 0 .. Len(s)
    BY <1>1
  <2>. QED  BY <1>1, <2>1
<1>3. k + 1 \in 1 .. Len(s) \/ k + 1 = Len(s) + 1
  BY <1>1
<1>. QED  BY <1>1, <1>2, <1>3

\* The link of a backend known to a walk leads to a known one, also if the backend
\* was removed.
LEMMA NextKnown == BackendsInv /\ [Next]_vars => KnownClosed'
<1>. SUFFICES ASSUME BackendsInv, [Next]_vars PROVE KnownClosed'
  OBVIOUS
<1>1. Types /\ Bounded /\ KnownClosed
  BY DEF BackendsInv
<1>2. PICK s \in Seq(Backends) : ChainOf(s)
  BY DEF BackendsInv, ListInv
<1>. DEFINE Closed(t) ==
       /\ stayed[t] \subseteq Listed /\ Listed \subseteq known[t]
       /\ \A n \in known[t] \cup {backend_list} : next[n] \in known[t] \cup {None}
       /\ Stands(t) => node[t] \in known[t]
       /\ \A i \in 1 .. Len(walk[t]) : walk[t][i] \in known[t]
<1>3. \A t \in Tasks : Closed(t)
  BY <1>1 DEF KnownClosed
<1>4. ASSUME UNCHANGED next, Listed' = Listed,
             NEW t \in Tasks, pc'[t] = pc[t], node'[t] = node[t], walk'[t] = walk[t],
             stayed'[t] = stayed[t], known'[t] = known[t]
      PROVE  Closed(t)'
  <2>1. Closed(t)
    BY <1>3
  <2>. QED  BY <2>1, <1>4 DEF Stands
<1>5. CASE UNCHANGED vars
  <2>1. UNCHANGED <<next, where, pc, node, walk, stayed, known>>
    BY <1>5 DEF vars, list, progress, history
  <2>2. Listed' = Listed
    BY <2>1 DEF Listed
  <2>. QED  BY <2>1, <2>2, <1>4 DEF KnownClosed
<1>6. ASSUME NEW b \in Backends, Changes(b), ~ Link(b), ~ Unlink(b) PROVE KnownClosed'
  <2>1. Listed' = Listed /\ UNCHANGED <<next, pc, node, walk, stayed, known>>
    BY <1>1, <1>6, QuietChange
  <2>. QED  BY <2>1, <1>4 DEF KnownClosed
<1>7. ASSUME NEW b \in Backends, Link(b), NEW t \in Tasks PROVE Closed(t)'
  <2>1. /\ Listed' = Listed \cup {b} /\ known'[t] = known[t] \cup {b}
        /\ UNCHANGED <<pc, node, walk, stayed>>
        /\ next' = [next EXCEPT ![At(s, Len(s))] = b, ![b] = None]
    BY <1>1, <1>2, <1>7, LinkEffect, AppendLinks
  <2>2. \A n \in Nodes : next'[n] = next[n] \/ next'[n] = b \/ next'[n] = None
    BY <2>1, <1>1 DEF Types
  <2>3. next'[b] = None
    BY <2>1, <1>1, NodesDiffer DEF Types
  <2>4. known[t] \subseteq Nodes /\ backend_list \in Nodes
    BY <1>1, NodesDiffer DEF Types
  <2>5. \A n \in known'[t] \cup {backend_list} : next'[n] \in known'[t] \cup {None}
    BY <2>1, <2>2, <2>3, <2>4, <1>3
  <2>6. Closed(t)
    BY <1>3
  <2>. QED  BY <2>1, <2>5, <2>6 DEF Stands
<1>8. ASSUME NEW b \in Backends, Unlink(b), NEW t \in Tasks PROVE Closed(t)'
  <2>1. /\ b \in Listed /\ Listed' = Listed \ {b} /\ slist_remove(b)
        /\ UNCHANGED <<pc, node, walk, known>> /\ stayed'[t] = stayed[t] \ {b}
    BY <1>1, <1>8, UnlinkEffect
  <2>2. Closed(t)
    BY <1>3
  <2>3. next[b] \in known[t] \cup {None}
    BY <2>1, <2>2
  <2>4. \A n \in Nodes : next'[n] = next[n] \/ next'[n] = next[b]
    BY <2>1, <1>1 DEF slist_remove, Types
  <2>5. known[t] \subseteq Nodes /\ backend_list \in Nodes
    BY <1>1, NodesDiffer DEF Types
  <2>6. \A n \in known'[t] \cup {backend_list} : next'[n] \in known'[t] \cup {None}
    BY <2>1, <2>2, <2>3, <2>4, <2>5
  <2>. QED  BY <2>1, <2>2, <2>6 DEF Stands
<1>9. ASSUME NEW t \in Tasks, Walks(t), NEW u \in Tasks PROVE Closed(u)'
  <2>1. Listed' = Listed /\ UNCHANGED next
    BY <1>1, <1>9, WalkFrame
  <2>2. CASE u # t
    BY <2>1, <2>2, <1>1, <1>4, <1>9, WalkFrame
  <2>. SUFFICES ASSUME u = t PROVE Closed(t)'
    BY <2>2
  <2>3. Closed(t)
    BY <1>3
  <2>4. CASE /\ pc'[t] \in {"test", "first"} /\ Len(walk'[t]) = 0
             /\ stayed'[t] = Listed /\ known'[t] = Listed
    <3>1. \A n \in Listed \cup {backend_list} : next[n] \in Listed \cup {None}
      BY <1>1, <1>2, ListClosed
    <3>. QED  BY <2>1, <2>4, <3>1 DEF Stands
  <2>5. CASE /\ pc[t] = "test" /\ UNCHANGED <<node, walk, history>>
             /\ pc'[t] = IF next[backend_list] = None THEN "idle" ELSE "first"
    BY <2>1, <2>3, <2>5 DEF Stands, history
  <2>6. CASE /\ pc[t] \in {"first", "follow"} /\ UNCHANGED history
             /\ LET n == IF pc[t] = "first" THEN next[backend_list] ELSE next[node[t]]
                IN /\ pc'[t] = IF n = None THEN "idle" ELSE "visit"
                   /\ node'[t] = n
                   /\ walk'[t] = IF n = None THEN walk[t] ELSE walk[t] \o <<n>>
    <3>1. PICK n : n = IF pc[t] = "first" THEN next[backend_list] ELSE next[node[t]]
      OBVIOUS
    <3>2. /\ pc'[t] = IF n = None THEN "idle" ELSE "visit"
          /\ node'[t] = n
          /\ walk'[t] = IF n = None THEN walk[t] ELSE walk[t] \o <<n>>
      BY <2>6, <3>1
    <3>3. n \in known[t] \cup {None}
      <4>1. CASE pc[t] = "first"
        BY <3>1, <4>1, <2>3
      <4>2. CASE pc[t] = "follow"
        <5>1. node[t] \in known[t]
          BY <4>2, <2>3 DEF Stands
        <5>. QED  BY <3>1, <4>2, <5>1, <2>3
      <4>. QED  BY <2>6, <4>1, <4>2
    <3>4. walk[t] \in Seq(Backends) /\ Len(walk[t]) \in Nat /\ known[t] \subseteq Backends
      BY <1>1, LenProperties DEF Types
    <3>5. ASSUME NEW i \in 1 .. Len(walk'[t]) PROVE walk'[t][i] \in known[t]
      <4>1. CASE n = None
        <5>1. walk'[t] = walk[t]
          BY <4>1, <3>2
        <5>2. i \in 1 .. Len(walk[t]) /\ walk'[t][i] = walk[t][i]
          BY <5>1
        <5>. QED  BY <5>2, <2>3
      <4>2. CASE n # None
        <5>1. walk'[t] = walk[t] \o <<n>> /\ n \in known[t] /\ n \in Backends
          BY <4>2, <3>2, <3>3, <3>4
        <5>2. walk[t] \o <<n>> = Append(walk[t], n)
          BY <3>4, <5>1, AppendProperties
        <5>3. PICK w : w = walk'[t]
          OBVIOUS
        <5>4. w = Append(walk[t], n)
          BY <5>1, <5>2, <5>3
        <5>5. Len(w) = Len(walk[t]) + 1 /\ w[Len(walk[t]) + 1] = n
              /\ \A j \in 1 .. Len(walk[t]) : w[j] = walk[t][j]
          BY <3>4, <5>1, <5>4, AppendProperties
        <5>6. i \in 1 .. Len(walk[t]) \/ i = Len(walk[t]) + 1
          BY <5>3, <5>5, <3>4
        <5>. QED  BY <5>1, <5>3, <5>5, <5>6, <2>3
      <4>. QED  BY <4>1, <4>2
    <3>6. stayed'[t] = stayed[t] /\ known'[t] = known[t]
      BY <2>6 DEF history
    <3>7. Stands(t)' => node'[t] \in known'[t]
      BY <3>2, <3>3, <3>6 DEF Stands
    <3>. QED  BY <2>1, <2>3, <3>5, <3>6, <3>7
  <2>7. CASE /\ pc[t] = "visit" /\ pc'[t] = "follow" /\ UNCHANGED <<node, walk, history>>
    <3>1. Stands(t) /\ known' = known /\ stayed' = stayed
      BY <2>7 DEF Stands, history
    <3>. QED  BY <2>1, <2>3, <2>7, <3>1 DEF Stands
  <2>. QED  BY <2>4, <2>5, <2>6, <2>7, <1>1, <1>9, WalkMoves
<1>10. (\A t \in Tasks : Closed(t)') => KnownClosed'
  BY DEF KnownClosed
<1>. QED  BY <1>5, <1>6, <1>7, <1>8, <1>9, <1>10, NextOrStutter DEF Changes

-----------------------------------------------------------------------------
\* How often the colour is cut off.

\* What an output is given and what it leaves of the line.
LEMMA OutputStep ==
  ASSUME Types, CutInv, NEW t \in Tasks, Output(t)
  PROVE  \E o \in [color : BOOLEAN, cut : Nat] :
           /\ line[t] # None /\ outputs'[t] = Append(outputs[t], o)
           /\ o.color => cut'[t] = cut[t] /\ o.cut = 0
           /\ ~ o.color /\ line[t].is_raw => cut'[t] = cut[t] /\ o.cut = 0
           /\ ~ o.color /\ ~ line[t].is_raw => o.cut = cut'[t]
           /\ ~ o.color /\ Coloured(t) => cut'[t] = cut[t] + 1
           /\ ~ Coloured(t) => cut'[t] = cut[t]
<1>1. node[t] \in Backends /\ support_color[node[t]] \in BOOLEAN /\ cut[t] \in Nat
      /\ outputs[t] \in Seq([color : BOOLEAN, cut : Nat])
  BY DEF Output, Step, Stands, Types
<1>2. PICK color \in BOOLEAN : color = support_color[node[t]]
  BY <1>1
<1>3. PICK monochrome \in BOOLEAN : monochrome <=> (~ color /\ ~ line[t].is_raw)
  OBVIOUS
<1>4. line[t] # None /\ line[t].is_raw \in BOOLEAN
  BY DEF Output, Types
<1>5. cut'[t] = IF monochrome /\ Coloured(t) THEN cut[t] + 1 ELSE cut[t]
  BY <1>1, <1>2, <1>3 DEF Output, Types
<1>6. cut'[t] \in Nat
  BY <1>1, <1>5
<1>7. outputs'[t] = outputs[t] \o <<[color |-> color, cut |-> IF monochrome THEN cut'[t] ELSE 0]>>
  BY <1>1, <1>2, <1>3 DEF Output, Types
<1>8. PICK o : o = [color |-> color, cut |-> IF monochrome THEN cut'[t] ELSE 0]
  OBVIOUS
<1>9. /\ o \in [color : BOOLEAN, cut : Nat] /\ o.color = color
      /\ o.cut = IF monochrome THEN cut'[t] ELSE 0
  BY <1>6, <1>8
<1>10. outputs'[t] = Append(outputs[t], o)
  BY <1>1, <1>7, <1>8, <1>9, AppendProperties
<1>11. Coloured(t) => ~ line[t].is_raw
  BY DEF Coloured
<1>. QED  BY <1>3, <1>4, <1>5, <1>9, <1>10, <1>11

\* The two statements about the cuts of one line.
CutFor(t) ==
  /\ line[t] = None => Len(outputs[t]) = 0
  /\ /\ line[t] # None
     /\ ~ Coloured(t) \/ \A i \in 1 .. Len(outputs[t]) : outputs[t][i].color
     => cut[t] = 0
  /\ \A i \in 1 .. Len(outputs[t]) :
       \/ outputs[t][i].cut = RightCut(t, outputs[t][i])
       \/ \E j \in 1 .. (i - 1) : ~ outputs[t][i].color /\ ~ outputs[t][j].color

\* What is claimed of the cut, task by task,
LEMMA CutsSplit == CutInv /\ FirstCutRight <=> \A t \in Tasks : CutFor(t)
BY DEF CutInv, FirstCutRight, CutFor

\* before and after a step.
LEMMA CutsSplitNext == (CutInv /\ FirstCutRight)' <=> \A t \in Tasks : CutFor(t)'
BY DEF CutInv, FirstCutRight, CutFor

\* A visit cuts the line once, at the first backend without colour.
LEMMA OutputCut ==
  ASSUME Types, CutInv, FirstCutRight, NEW t \in Tasks, Output(t)
  PROVE  CutFor(t)'
<1>1. PICK o \in [color : BOOLEAN, cut : Nat] :
           /\ line[t] # None /\ outputs'[t] = Append(outputs[t], o)
           /\ o.color => cut'[t] = cut[t] /\ o.cut = 0
           /\ ~ o.color /\ line[t].is_raw => cut'[t] = cut[t] /\ o.cut = 0
           /\ ~ o.color /\ ~ line[t].is_raw => o.cut = cut'[t]
           /\ ~ o.color /\ Coloured(t) => cut'[t] = cut[t] + 1
           /\ ~ Coloured(t) => cut'[t] = cut[t]
  BY OutputStep
<1>2. line' = line /\ cut[t] \in Nat /\ outputs[t] \in Seq([color : BOOLEAN, cut : Nat])
      /\ o.color \in BOOLEAN /\ line[t].is_raw \in BOOLEAN
  BY <1>1 DEF Output, Types
<1>3. CutFor(t)
  BY CutsSplit
<1>4. PICK n \in Nat : n = Len(outputs[t])
  BY <1>2, LenProperties
<1>5. PICK os : os = outputs'[t]
  OBVIOUS
<1>6. Len(os) = n + 1 /\ os[n + 1] = o /\ \A i \in 1 .. n : os[i] = outputs[t][i]
  BY <1>1, <1>2, <1>4, <1>5, AppendProperties
<1>7. \A i \in 1 .. n + 1 : i \in 1 .. n \/ i = n + 1
  BY <1>4
<1>8. n + 1 \in 1 .. n + 1 /\ \A i \in 1 .. n : i \in 1 .. n + 1
  BY <1>4
<1>9. Coloured(t)' <=> Coloured(t)
  BY <1>2 DEF Coloured
<1>10. \A p : RightCut(t, p)' = RightCut(t, p)
  BY <1>2 DEF RightCut, Coloured
<1>11. ASSUME ~ Coloured(t) \/ \A i \in 1 .. n + 1 : os[i].color PROVE cut'[t] = 0
  <2>1. CASE ~ Coloured(t)
    BY <2>1, <1>1, <1>3 DEF CutFor
  <2>2. CASE \A i \in 1 .. n + 1 : os[i].color
    <3>1. o.color /\ \A i \in 1 .. n : outputs[t][i].color
      BY <2>2, <1>6, <1>8
    <3>. QED  BY <3>1, <1>1, <1>3, <1>4 DEF CutFor
  <2>. QED  BY <1>11, <2>1, <2>2
<1>12. o.cut = RightCut(t, o) \/ \E j \in 1 .. n : ~ o.color /\ ~ os[j].color
  <2>1. CASE o.color
    BY <2>1, <1>1 DEF RightCut
  <2>2. CASE ~ o.color /\ ~ Coloured(t)
    <3>1. cut[t] = 0 /\ cut'[t] = 0
      BY <2>2, <1>1, <1>3 DEF CutFor
    <3>2. o.cut = 0
      BY <3>1, <2>2, <1>1, <1>2
    <3>. QED  BY <3>2, <2>2 DEF RightCut
  <2>3. CASE ~ o.color /\ Coloured(t)
    <3>1. ~ line[t].is_raw
      BY <2>3 DEF Coloured
    <3>2. CASE \A i \in 1 .. n : outputs[t][i].color
      <4>1. cut[t] = 0
        BY <3>2, <1>1, <1>3, <1>4 DEF CutFor
      <4>2. o.cut = 1
        BY <4>1, <3>1, <2>3, <1>1
      <4>. QED  BY <4>2, <2>3 DEF RightCut
    <3>3. CASE \E i \in 1 .. n : ~ outputs[t][i].color
      BY <2>3, <3>3, <1>6
    <3>. QED  BY <3>2, <3>3
  <2>. QED  BY <2>1, <2>2, <2>3, <1>2
<1>13. ASSUME NEW i \in 1 .. n + 1
       PROVE  \/ os[i].cut = RightCut(t, os[i])
              \/ \E j \in 1 .. (i - 1) : ~ os[i].color /\ ~ os[j].color
  <2>1. CASE i = n + 1
    <3>1. i - 1 = n /\ os[i] = o
      BY <2>1, <1>4, <1>6
    <3>. QED  BY <3>1, <1>12
  <2>2. CASE i \in 1 .. n
    <3>1. \/ outputs[t][i].cut = RightCut(t, outputs[t][i])
          \/ \E j \in 1 .. (i - 1) : ~ outputs[t][i].color /\ ~ outputs[t][j].color
      BY <2>2, <1>3, <1>4 DEF CutFor
    <3>2. \A j \in 1 .. (i - 1) : os[j] = outputs[t][j]
      BY <2>2, <1>6
    <3>3. os[i] = outputs[t][i]
      BY <2>2, <1>6
    <3>. QED  BY <3>1, <3>2, <3>3
  <2>. QED  BY <2>1, <2>2, <1>7
<1>14. line'[t] # None
  BY <1>1, <1>2
<1>15. (~ Coloured(t)' \/ \A i \in 1 .. Len(os) : os[i].color) => cut'[t] = 0
  BY <1>6, <1>9, <1>11
<1>16. \A i \in 1 .. Len(os) :
         \/ os[i].cut = RightCut(t, os[i])'
         \/ \E j \in 1 .. (i - 1) : ~ os[i].color /\ ~ os[j].color
  BY <1>6, <1>10, <1>13
<1>. QED  BY <1>5, <1>14, <1>15, <1>16, Zenon DEF CutFor, RightCut, Coloured

\* What is claimed of the cut is inductive.
LEMMA NextCut == BackendsInv /\ [Next]_vars => CutInv' /\ FirstCutRight'
<1>. SUFFICES ASSUME BackendsInv, [Next]_vars PROVE \A t \in Tasks : CutFor(t)'
  BY CutsSplitNext
<1>1. Types /\ CutInv /\ FirstCutRight /\ \A t \in Tasks : CutFor(t)
  BY CutsSplit DEF BackendsInv
<1>2. ASSUME NEW t \in Tasks, line'[t] = line[t], cut'[t] = cut[t], outputs'[t] = outputs[t]
      PROVE  CutFor(t)'
  <2>1. CutFor(t)
    BY <1>1
  <2>. QED  BY <2>1, <1>2 DEF CutFor, RightCut, Coloured
<1>3. CASE UNCHANGED vars
  BY <1>2, <1>3 DEF vars, progress
<1>4. CASE \E b \in Backends : Changes(b)
  <2>1. UNCHANGED <<line, cut, outputs>>
    BY <1>4 DEF Changes, StartRegister, Link, StartUnregister, Unlink, ulog_backend_set_filter,
       ulog_be_lvl_filter_set, progress
  <2>. QED  BY <2>1, <1>2
<1>5. ASSUME NEW t \in Tasks, Walks(t), NEW u \in Tasks PROVE CutFor(u)'
  <2>1. CASE u # t
    BY <2>1, <1>1, <1>2, <1>5, WalkFrame
  <2>2. CASE Output(t)
    BY <2>1, <2>2, <1>1, OutputCut
  <2>3. CASE Len(outputs'[t]) = 0 /\ cut'[t] = 0
    <3>1. CutFor(t)'
      BY <2>3 DEF CutFor
    <3>. QED  BY <2>1, <3>1
  <2>4. CASE UNCHANGED <<outputs, cut, line>>
    BY <2>4, <1>2
  <2>. QED  BY <2>2, <2>3, <2>4, <1>1, <1>5, WalkMoves
<1>. QED  BY <1>3, <1>4, <1>5, NextOrStutter

-----------------------------------------------------------------------------
\* What holds of the list and of each walk, at any time: the invariant the
\* theorems below need.

\* No backend is registered at the beginning.
LEMMA InitBackends == Init => BackendsInv
<1>. SUFFICES ASSUME Init PROVE BackendsInv
  OBVIOUS
<1>1. << >> \in Seq(Backends) /\ Len(<< >>) = 0 /\ << >> \in Seq([color : BOOLEAN, cut : Nat])
  BY EmptySeq
<1>2. Types
  BY <1>1, BoundAssumption DEF Init, Types, Places, Stands
<1>3. Listed = {} /\ Occupied = {}
  BY DEF Init, Listed, Occupied
<1>4. Bounded
  BY <1>3, FS_EmptySet DEF Init, Bounded
<1>5. \A t \in Tasks : Len(walk[t]) = 0 /\ Len(outputs[t]) = 0 /\ stayed[t] = {} /\ cut[t] = 0
                       /\ ~ Stands(t)
  BY <1>1 DEF Init, Stands
<1>6. ListInv
  <2>1. ChainOf(<< >>)
    <3>1. \A k \in 0 .. 0 : next[At(<< >>, k)] = At(<< >>, k + 1)
      BY <1>1, NodesDiffer DEF Init, At
    <3>. QED  BY <1>1, <1>3, <3>1 DEF ChainOf
  <2>2. \A t \in Tasks : OnChain(t, << >>)
    BY <1>1, <1>5 DEF OnChain
  <2>. QED  BY <1>1, <2>1, <2>2 DEF ListInv
<1>7. KnownClosed
  BY <1>3, <1>5, NodesDiffer DEF Init, KnownClosed
<1>8. CutInv /\ FirstCutRight
  BY <1>5 DEF CutInv, FirstCutRight
<1>. QED  BY <1>2, <1>4, <1>6, <1>7, <1>8 DEF BackendsInv

\* Of ulog_backend_register, ulog_backend_unregister and the walks beside them: the
\* list, what the walks know of it and the cut, together inductive.
THEOREM BackendsInvariant == Spec => []BackendsInv
<1>1. BackendsInv /\ [Next]_vars => BackendsInv'
  BY NextTypes, NextBounded, NextList, NextKnown, NextCut DEF BackendsInv
<1>. QED  BY InitBackends, <1>1, PTL DEF Spec

\* The links spell out the registered backends, each once, and end.
THEOREM LinksAreTheList == Spec => []ListIsRegistered
<1>1. ASSUME BackendsInv PROVE ListIsRegistered
  <2>1. PICK s \in Seq(Backends) : ChainOf(s)
    BY <1>1 DEF BackendsInv, ListInv
  <2>2. Len(s) \in Nat /\ Len(s) <= MaxChanges /\ MaxChanges \in Nat
    BY <1>1, <2>1, AtTyped, LenBound, BoundAssumption DEF BackendsInv
  <2>3. DOMAIN Walk = 0 .. (MaxChanges + 1) /\ \A k \in 0 .. (MaxChanges + 1) : Walk[k] = At(s, k)
    BY <2>1, WalkOnChain
  <2>4. Len(s) \in DOMAIN Walk
    BY <2>2, <2>3
  <2>. DEFINE chain == [i \in 1 .. Len(s) |-> Walk[i]]
  <2>5. \A i \in 1 .. Len(s) : chain[i] = s[i]
    <3>1. \A i \in 1 .. Len(s) : i \in 0 .. (MaxChanges + 1)
      BY <2>2
    <3>2. \A i \in 1 .. Len(s) : At(s, i) = s[i]
      BY <2>1, AtTyped
    <3>. QED  BY <3>1, <3>2, <2>3
  <2>6. DOMAIN chain = 1 .. Len(s)
    OBVIOUS
  <2>7. Range(chain) = Listed
    <3>1. \A b : b \in Listed <=> \E i \in 1 .. Len(s) : s[i] = b
      BY <2>1, ElementOfSeq DEF ChainOf, Listed
    <3>2. \A b : b \in Range(chain) <=> \E i \in 1 .. Len(s) : chain[i] = b
      BY DEF Range
    <3>. QED  BY <3>1, <3>2, <2>5
  <2>8. IsInjective(chain)
    <3>1. \A i, j \in 1 .. Len(s) : chain[i] = chain[j] => i = j
      BY <2>1, <2>5 DEF ChainOf
    <3>. QED  BY <3>1, <2>6 DEF IsInjective
  <2>9. next[Walk[Len(s)]] = None
    <3>1. Len(s) \in 0 .. Len(s) /\ Len(s) \in 0 .. (MaxChanges + 1)
      BY <2>2
    <3>2. next[At(s, Len(s))] = At(s, Len(s) + 1) /\ At(s, Len(s) + 1) = None
      BY <3>1, <2>1, AtTyped DEF ChainOf
    <3>. QED  BY <3>1, <3>2, <2>3
  <2>. QED  BY <2>4, <2>7, <2>8, <2>9 DEF ListIsRegistered
<1>. QED  BY <1>1, BackendsInvariant, PTL

\* A walk only comes to backends that were registered since its line was started.
THEOREM NoneCalledUnknown == Spec => []OnlyKnownCalled
<1>1. ASSUME BackendsInv PROVE OnlyKnownCalled
  <2>. SUFFICES ASSUME NEW t \in Tasks PROVE Range(walk[t]) \subseteq known[t]
    BY DEF OnlyKnownCalled
  <2>1. walk[t] \in Seq(Backends)
    BY <1>1 DEF BackendsInv, Types
  <2>2. \A i \in 1 .. Len(walk[t]) : walk[t][i] \in known[t]
    BY <1>1 DEF BackendsInv, KnownClosed
  <2>. QED  BY <2>1, <2>2, RangeByPosition
<1>. QED  BY <1>1, BackendsInvariant, PTL

\* Unless one is removed, all that were registered from the start are served, each
\* once.
THEOREM EachServedOnce == Spec => []AllServedOnce
<1>1. ASSUME BackendsInv PROVE AllServedOnce
  <2>. SUFFICES ASSUME NEW t \in Tasks, ~ removed[t]
                PROVE  /\ IsInjective(walk[t])
                       /\ pc[t] = "idle" => stayed[t] \subseteq Range(walk[t])
    BY DEF AllServedOnce
  <2>1. walk[t] \in Seq(Backends) /\ Len(walk[t]) \in Nat
    BY <1>1, LenProperties DEF BackendsInv, Types
  <2>2. PICK s \in Seq(Backends) : ChainOf(s) /\ OnChain(t, s)
    BY <1>1 DEF BackendsInv, ListInv
  <2>3. Len(s) \in Nat /\ Len(walk[t]) <= Len(s)
        /\ \A i \in 1 .. Len(walk[t]) : walk[t][i] = s[i]
    BY <2>2, LenProperties DEF OnChain
  <2>4. \A i \in 1 .. Len(walk[t]) : i \in 1 .. Len(s)
    BY <2>1, <2>3
  <2>5. \A i, j \in 1 .. Len(walk[t]) : walk[t][i] = walk[t][j] => i = j
    BY <2>2, <2>3, <2>4 DEF ChainOf
  <2>6. pc[t] = "idle" => \A b \in stayed[t] : \E i \in 1 .. Len(walk[t]) : walk[t][i] = b
    BY <2>2 DEF OnChain
  <2>. QED  BY <2>1, <2>5, <2>6, InjectiveByPosition, RangeByPosition
<1>. QED  BY <1>1, BackendsInvariant, PTL

\* A backend with colour gets every line as it is, and the first one without gets
\* it with its colour cut off once.
THEOREM FirstIsCutRight == Spec => []FirstCutRight
<1>1. BackendsInv => FirstCutRight
  BY DEF BackendsInv
<1>. QED  BY <1>1, BackendsInvariant, PTL
=============================================================================
