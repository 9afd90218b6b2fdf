---------------------------- MODULE RingBlkProofs ----------------------------
(***************************************************************************)
(* Proofs about the ring block buffer and its queues, for every number of  *)
(* descriptors, arena length, set of requested sizes and lengths of        *)
(* queues, whatever other tasks do meanwhile.                              *)
(*                                                                         *)
(* The inductive invariant is built in two layers.  ListInv (types, the    *)
(* two chains, the tail pointer) needs no assumption on the sizes.         *)
(* ArenaInv (placement of the blocks) rests on ListInv and on SizesFit,    *)
(* without which the first block may exceed the arena.  Each step is then  *)
(* a step of the abstract pool, or a stutter.                              *)
(*                                                                         *)
(* The blocks of a queue are a run of neighbours on blk_list (QueueOnChain)*)
(* at a place that moves as other tasks free blocks before it.  ArenaInv   *)
(* turns the comparison of neighbours in rbb_blk_queue_get into an order   *)
(* of all blocks.  Taking a queue is a step of the abstract pool as well.  *)
(***************************************************************************)
EXTENDS RingBlkQueue, SequenceFacts

-----------------------------------------------------------------------------
\* First layer: the types, the two chains and rbb->tail.

ListInv == TypeOK /\ ListsConsistent /\ TailIsLast

\* ListsConsistent in terms of positions in the chains, which is the form the
\* provers work with.
Positions ==
  /\ \A i, j \in 1 .. Len(blk_list) : blk_list[i] = blk_list[j] => i = j
  /\ \A i, j \in 1 .. Len(free_list) : free_list[i] = free_list[j] => i = j
  /\ \A b \in blk_set :
        status[b] # "UNUSED" <=> \E i \in 1 .. Len(blk_list) : blk_list[i] = b
  /\ \A i \in 1 .. Len(free_list) : status[free_list[i]] = "UNUSED"

\* The two chains, by position: no repetition, no common block, and the status says
\* on which chain a block is.
LEMMA ListsByPosition ==
  /\ TypeOK => (ListsConsistent <=> Positions)
  /\ TypeOK' => (ListsConsistent' <=> Positions')
<1>1. ASSUME TypeOK PROVE ListsConsistent <=> Positions
  <2>1. IsInjective(blk_list) <=> \A i, j \in 1 .. Len(blk_list) : blk_list[i] = blk_list[j] => i = j
    BY <1>1, InjectiveByPosition DEF TypeOK
  <2>2. IsInjective(free_list) <=> \A i, j \in 1 .. Len(free_list) : free_list[i] = free_list[j] => i = j
    BY <1>1, InjectiveByPosition DEF TypeOK
  <2>3. \A b : b \in Range(blk_list) <=> \E i \in 1 .. Len(blk_list) : blk_list[i] = b
    BY <1>1, RangeByPosition DEF TypeOK
  <2>4. (\A b \in Range(free_list) : status[b] = "UNUSED")
           <=> \A i \in 1 .. Len(free_list) : status[free_list[i]] = "UNUSED"
    <3>1. \A b : b \in Range(free_list) <=> \E i \in 1 .. Len(free_list) : free_list[i] = b
      BY <1>1, RangeByPosition DEF TypeOK
    <3>. QED  BY <3>1, Zenon
  <2>5. (\A b \in blk_set : status[b] # "UNUSED" <=> b \in Range(blk_list))
           <=> \A b \in blk_set :
                  status[b] # "UNUSED" <=> \E i \in 1 .. Len(blk_list) : blk_list[i] = b
    BY <2>3, Zenon
  <2>. QED  BY <2>1, <2>2, <2>4, <2>5, Zenon DEF ListsConsistent, Positions
<1>2. ASSUME TypeOK' PROVE ListsConsistent' <=> Positions'
  <2>1. IsInjective(blk_list') <=> \A i, j \in 1 .. Len(blk_list') : blk_list'[i] = blk_list'[j] => i = j
    BY <1>2, InjectiveByPosition DEF TypeOK
  <2>2. IsInjective(free_list') <=> \A i, j \in 1 .. Len(free_list') : free_list'[i] = free_list'[j] => i = j
    BY <1>2, InjectiveByPosition DEF TypeOK
  <2>3. \A b : b \in Range(blk_list') <=> \E i \in 1 .. Len(blk_list') : blk_list'[i] = b
    BY <1>2, RangeByPosition DEF TypeOK
  <2>4. (\A b \in Range(free_list') : status'[b] = "UNUSED")
           <=> \A i \in 1 .. Len(free_list') : status'[free_list'[i]] = "UNUSED"
    <3>1. \A b : b \in Range(free_list') <=> \E i \in 1 .. Len(free_list') : free_list'[i] = b
      BY <1>2, RangeByPosition DEF TypeOK
    <3>. QED  BY <3>1, Zenon
  <2>5. (\A b \in blk_set : status'[b] # "UNUSED" <=> b \in Range(blk_list'))
           <=> \A b \in blk_set :
                  status'[b] # "UNUSED" <=> \E i \in 1 .. Len(blk_list') : blk_list'[i] = b
    BY <2>3, Zenon
  <2>. QED  BY <2>1, <2>2, <2>4, <2>5, Zenon DEF ListsConsistent, Positions
<1>. QED  BY <1>1, <1>2

\* rbb_list_append adds at the end of the whole chain, because rbb->tail is
\* its last node.
LEMMA AppendAtTail ==
  ASSUME ListInv, NEW b \in blk_set, rbb_list_append(b)
  PROVE  blk_list' = Append(blk_list, b) /\ tail' = b
<1>1. PICK k \in 0 .. Len(blk_list) :
         /\ tail = IF k = 0 THEN ListHead ELSE blk_list[k]
         /\ blk_list' = Append(SubSeq(blk_list, 1, k), b)
  BY DEF rbb_list_append
<1>2. /\ Len(blk_list) \in Nat
      /\ \A i \in 1 .. Len(blk_list) : blk_list[i] \in blk_set
  BY LenProperties, ElementOfSeq DEF ListInv, TypeOK
<1>3. \A i, j \in 1 .. Len(blk_list) : blk_list[i] = blk_list[j] => i = j
  BY ListsByPosition DEF ListInv, Positions
<1>4. blk_list # << >> => Len(blk_list) # 0
  BY EmptySeq DEF ListInv, TypeOK
<1>5. k = Len(blk_list)
  <2>1. CASE blk_list = << >>
    BY <2>1, <1>1
  <2>2. CASE blk_list # << >>
    <3>1. tail = blk_list[Len(blk_list)]
      BY <2>2 DEF ListInv, TailIsLast
    <3>2. k # 0
      <4>1. blk_list[Len(blk_list)] \in blk_set
        BY <1>2, <1>4, <2>2
      <4>2. ListHead \notin blk_set
        BY BlkMaxNumAssumption DEF ListHead, blk_set
      <4>. QED  BY <3>1, <4>1, <4>2, <1>1, Zenon
    <3>3. blk_list[k] = blk_list[Len(blk_list)]
      BY <3>1, <3>2, <1>1, Zenon
    <3>. QED  BY <3>2, <3>3, <1>2, <1>3
  <2>. QED  BY <2>1, <2>2
<1>6. SubSeq(blk_list, 1, Len(blk_list)) = blk_list
  BY SubSeqFull DEF ListInv, TypeOK
<1>. QED  BY <1>1, <1>5, <1>6 DEF rbb_list_append

\* A placement is an offset.
LEMMA RoomIsNat ==
  ASSUME ListInv, NEW n \in BlkSizes, NEW at \in Room(n)
  PROVE  at \in Nat
<1>1. CASE blk_list = << >>
  BY <1>1 DEF Room
<1>2. CASE blk_list # << >>
  <2>1. tail \in blk_set
    <3>1. Len(blk_list) \in 1 .. Len(blk_list)
      BY <1>2, EmptySeq DEF ListInv, TypeOK
    <3>. QED  BY <3>1, <1>2, ElementOfSeq DEF ListInv, TypeOK, TailIsLast
  <2>2. End(tail) \in Nat
    BY <2>1 DEF ListInv, TypeOK, End
  <2>3. at = End(tail) \/ at = 0
    BY <1>2 DEF Room
  <2>. QED  BY <2>2, <2>3
<1>. QED  BY <1>1, <1>2

\* What a successful rbb_blk_alloc does, in positions.
LEMMA AllocStep ==
  ASSUME ListInv, NEW n \in BlkSizes, NEW at, AllocBlock(n, at)
  PROVE  \E new \in blk_set :
            /\ status[new] = "UNUSED"
            /\ \A i \in 1 .. Len(blk_list) : blk_list[i] # new
            /\ new = free_list[1]
            /\ at \in Nat /\ n \in Nat \ {0}
            /\ free_list # << >> /\ free_list' = Tail(free_list)
            /\ blk_list' = Append(blk_list, new) /\ tail' = new
            /\ status' = [status EXCEPT ![new] = "INITED"]
            /\ buf' = [buf EXCEPT ![new] = at]
            /\ size' = [size EXCEPT ![new] = n]
<1>1. PICK new : new = Head(free_list)
  OBVIOUS
<1>2. /\ free_list # << >> /\ free_list' = Tail(free_list)
      /\ at \in Room(n)
      /\ rbb_list_append(new)
      /\ status' = [status EXCEPT ![new] = "INITED"]
      /\ buf' = [buf EXCEPT ![new] = at]
      /\ size' = [size EXCEPT ![new] = n]
  BY <1>1 DEF AllocBlock
<1>3. new \in blk_set /\ new = free_list[1] /\ 1 \in 1 .. Len(free_list)
  <2>1. new \in blk_set
    BY <1>1, <1>2, HeadTailProperties DEF ListInv, TypeOK
  <2>2. 1 \in 1 .. Len(free_list)
    BY <1>2, EmptySeq DEF ListInv, TypeOK
  <2>. QED  BY <2>1, <2>2, <1>1, <1>2 DEF ListInv, TypeOK
<1>4. Positions
  BY ListsByPosition DEF ListInv
<1>5. status[new] = "UNUSED"
  BY <1>3, <1>4 DEF Positions
<1>6. \A i \in 1 .. Len(blk_list) : blk_list[i] # new
  BY <1>3, <1>4, <1>5 DEF Positions
<1>7. blk_list' = Append(blk_list, new) /\ tail' = new
  BY <1>2, <1>3, AppendAtTail
<1>8. at \in Nat /\ n \in Nat \ {0}
  BY <1>2, RoomIsNat, BlkSizesAssumption
<1>. QED  BY <1>2, <1>3, <1>5, <1>6, <1>7, <1>8

\* rbb_blk_alloc moves a block from one chain to the end of the other, in front of
\* which tail must be.
LEMMA AllocKeepsListInv ==
  ASSUME ListInv, NEW n \in BlkSizes, NEW at, AllocBlock(n, at)
  PROVE  ListInv'
<1>1. PICK new \in blk_set :
         /\ status[new] = "UNUSED"
         /\ \A i \in 1 .. Len(blk_list) : blk_list[i] # new
         /\ new = free_list[1]
         /\ at \in Nat /\ n \in Nat \ {0}
         /\ free_list # << >> /\ free_list' = Tail(free_list)
         /\ blk_list' = Append(blk_list, new) /\ tail' = new
         /\ status' = [status EXCEPT ![new] = "INITED"]
         /\ buf' = [buf EXCEPT ![new] = at]
         /\ size' = [size EXCEPT ![new] = n]
  BY AllocStep
<1>2. Positions /\ TypeOK
  BY ListsByPosition DEF ListInv
<1>3. /\ blk_list' \in Seq(blk_set)
      /\ blk_list' # << >>
      /\ Len(blk_list') = Len(blk_list) + 1
      /\ \A i \in 1 .. Len(blk_list) : blk_list'[i] = blk_list[i]
      /\ blk_list'[Len(blk_list) + 1] = new
      /\ Len(blk_list) \in Nat
  BY <1>1, <1>2, AppendProperties, LenProperties DEF TypeOK
<1>4. /\ free_list' \in Seq(blk_set)
      /\ Len(free_list') = Len(free_list) - 1
      /\ \A i \in 1 .. Len(free_list') : free_list'[i] = free_list[i + 1]
      /\ Len(free_list) \in Nat
      /\ 1 \in 1 .. Len(free_list)
  BY <1>1, <1>2, HeadTailProperties, LenProperties, EmptySeq DEF TypeOK
<1>5. TypeOK'
  BY <1>1, <1>2, <1>3, <1>4 DEF TypeOK, rbb_status
<1>6. Positions'
  <2>1. \A i, j \in 1 .. Len(blk_list') : blk_list'[i] = blk_list'[j] => i = j
    BY <1>1, <1>2, <1>3 DEF Positions
  <2>2. \A i, j \in 1 .. Len(free_list') : free_list'[i] = free_list'[j] => i = j
    BY <1>1, <1>2, <1>4 DEF Positions
  <2>3. ASSUME NEW b \in blk_set
        PROVE  status'[b] # "UNUSED" <=> \E i \in 1 .. Len(blk_list') : blk_list'[i] = b
    <3>1. CASE b = new
      <4>1. status'[b] = "INITED"
        BY <3>1, <1>1, <1>2 DEF TypeOK
      <4>2. Len(blk_list) + 1 \in 1 .. Len(blk_list') /\ blk_list'[Len(blk_list) + 1] = b
        BY <3>1, <1>3
      <4>3. \E i \in 1 .. Len(blk_list') : blk_list'[i] = b
        BY <4>2, Zenon
      <4>. QED  BY <4>1, <4>3
    <3>2. CASE b # new
      <4>1. status'[b] = status[b]
        BY <3>2, <1>1, <1>2 DEF TypeOK
      <4>2. (\E i \in 1 .. Len(blk_list') : blk_list'[i] = b)
               <=> \E i \in 1 .. Len(blk_list) : blk_list[i] = b
        BY <3>2, <1>3
      <4>. QED  BY <4>1, <4>2, <1>2, Zenon DEF Positions
    <3>. QED  BY <3>1, <3>2
  <2>4. ASSUME NEW i \in 1 .. Len(free_list')
        PROVE  status'[free_list'[i]] = "UNUSED"
    <3>1. i + 1 \in 1 .. Len(free_list) /\ free_list'[i] = free_list[i + 1]
      BY <1>4
    <3>2. free_list[i + 1] # new /\ free_list[i + 1] \in blk_set
      BY <3>1, <1>1, <1>2, <1>4, ElementOfSeq DEF Positions, TypeOK
    <3>. QED  BY <3>1, <3>2, <1>1, <1>2 DEF Positions, TypeOK
  <2>. QED  BY <2>1, <2>2, <2>3, <2>4, Zenon DEF Positions
<1>7. TailIsLast'
  BY <1>1, <1>3 DEF TailIsLast
<1>. QED  BY <1>5, <1>6, <1>7, ListsByPosition DEF ListInv
\* What rbb_blk_free does, in positions.
LEMMA FreeStep ==
  ASSUME ListInv, NEW b \in blk_set, rbb_blk_free(b)
  PROVE  \E r \in 1 .. Len(blk_list) :
            /\ blk_list[r] = b
            /\ blk_list' \in Seq(blk_set)
            /\ Len(blk_list') = Len(blk_list) - 1
            /\ \A i \in 1 .. Len(blk_list) - 1 :
                  blk_list'[i] = IF i < r THEN blk_list[i] ELSE blk_list[i + 1]
            /\ tail' = IF tail # b THEN tail
                       ELSE IF r = 1 THEN ListHead ELSE blk_list[r - 1]
            /\ status[b] # "UNUSED"
            /\ status' = [status EXCEPT ![b] = "UNUSED"]
            /\ free_list' = <<b>> \o free_list
            /\ UNCHANGED <<buf, size>>
<1>1. PICK r \in 1 .. Len(blk_list) : blk_list[r] = b /\ rbb_list_remove(r)
  BY DEF rbb_blk_free
<1>2. /\ blk_list' \in Seq(blk_set)
      /\ Len(blk_list') = Len(blk_list) - 1
      /\ \A i \in 1 .. Len(blk_list) - 1 :
            blk_list'[i] = IF i < r THEN blk_list[i] ELSE blk_list[i + 1]
  <2>1. blk_list \in Seq(blk_set) /\ blk_list' = RemoveAt(blk_list, r)
    BY <1>1 DEF rbb_list_remove, ListInv, TypeOK
  <2>2. /\ RemoveAt(blk_list, r) \in Seq(blk_set)
        /\ Len(RemoveAt(blk_list, r)) = Len(blk_list) - 1
        /\ \A i \in 1 .. Len(blk_list) - 1 :
               RemoveAt(blk_list, r)[i] = IF i < r THEN blk_list[i] ELSE blk_list[i + 1]
    BY <2>1, RemoveAtProperties
  <2>. QED  BY <2>1, <2>2, Zenon
<1>3. tail' = IF tail # b THEN tail
              ELSE IF r = 1 THEN ListHead ELSE blk_list[r - 1]
  BY <1>1 DEF rbb_list_remove
<1>. QED  BY <1>1, <1>2, <1>3, Zenon DEF rbb_blk_free

\* rbb_blk_free moves a block back, and tail to the block before if it was the last.
LEMMA FreeKeepsListInv ==
  ASSUME ListInv, NEW b \in blk_set, rbb_blk_free(b)
  PROVE  ListInv'
<1>1. PICK r \in 1 .. Len(blk_list) :
         /\ blk_list[r] = b
         /\ blk_list' \in Seq(blk_set)
         /\ Len(blk_list') = Len(blk_list) - 1
         /\ \A i \in 1 .. Len(blk_list) - 1 :
               blk_list'[i] = IF i < r THEN blk_list[i] ELSE blk_list[i + 1]
         /\ tail' = IF tail # b THEN tail
                    ELSE IF r = 1 THEN ListHead ELSE blk_list[r - 1]
         /\ status[b] # "UNUSED"
         /\ status' = [status EXCEPT ![b] = "UNUSED"]
         /\ free_list' = <<b>> \o free_list
         /\ UNCHANGED <<buf, size>>
  BY FreeStep
<1>2. Positions /\ TypeOK /\ TailIsLast
  BY ListsByPosition DEF ListInv
<1>3. /\ Len(blk_list) \in Nat /\ Len(free_list) \in Nat
      /\ \A i \in 1 .. Len(blk_list) : blk_list[i] \in blk_set
      /\ \A i \in 1 .. Len(free_list) : free_list[i] \in blk_set
  BY <1>2, LenProperties, ElementOfSeq DEF TypeOK
<1>4. /\ free_list' \in Seq(blk_set)
      /\ Len(free_list') = Len(free_list) + 1
      /\ free_list'[1] = b
      /\ \A i \in 2 .. Len(free_list) + 1 : free_list'[i] = free_list[i - 1]
  <2>1. <<b>> \in Seq(blk_set) /\ Len(<<b>>) = 1 /\ <<b>>[1] = b
    OBVIOUS
  <2>2. /\ <<b>> \o free_list \in Seq(blk_set)
        /\ Len(<<b>> \o free_list) = Len(<<b>>) + Len(free_list)
        /\ \A i \in 1 .. Len(<<b>>) + Len(free_list) :
              (<<b>> \o free_list)[i] = IF i <= Len(<<b>>) THEN <<b>>[i]
                                        ELSE free_list[i - Len(<<b>>)]
    BY <2>1, <1>2, ConcatProperties DEF TypeOK
  <2>. QED  BY <1>1, <1>3, <2>1, <2>2
<1>5. TypeOK'
  <2>1. status' \in [blk_set -> rbb_status]
    BY <1>1, <1>2 DEF TypeOK, rbb_status
  <2>2. tail' \in blk_set \cup {ListHead}
    <3>1. tail' = IF tail # b THEN tail ELSE IF r = 1 THEN ListHead ELSE blk_list[r - 1]
      BY <1>1
    <3>2. tail \in blk_set \cup {ListHead}
      BY <1>2 DEF TypeOK
    <3>3. r # 1 => r - 1 \in 1 .. Len(blk_list)
      BY <1>3
    <3>. QED  BY <3>1, <3>2, <3>3, <1>3
  <2>. QED  BY <2>1, <2>2, <1>1, <1>2, <1>4 DEF TypeOK
<1>6. Positions'
  <2>1. \A i, j \in 1 .. Len(blk_list') : blk_list'[i] = blk_list'[j] => i = j
    <3>. DEFINE Before(i) == IF i < r THEN i ELSE i + 1
    <3>1. PICK n \in Nat : n = Len(blk_list) /\ n - 1 = Len(blk_list')
      BY <1>1, <1>3
    <3>2. \A i \in 1 .. n - 1 : Before(i) \in 1 .. n /\ blk_list'[i] = blk_list[Before(i)]
      BY <3>1, <1>1
    <3>3. \A i, j \in 1 .. n - 1 : Before(i) = Before(j) => i = j
      BY <3>1
    <3>4. \A i, j \in 1 .. n : blk_list[i] = blk_list[j] => i = j
      BY <3>1, <1>2 DEF Positions
    <3>. HIDE DEF Before
    <3>. QED  BY <3>1, <3>2, <3>3, <3>4
  <2>2. \A i \in 1 .. Len(free_list) : free_list[i] # b
    BY <1>1, <1>2 DEF Positions
  <2>3. \A i, j \in 1 .. Len(free_list') : free_list'[i] = free_list'[j] => i = j
    <3>1. ASSUME NEW i \in 1 .. Len(free_list'), NEW j \in 1 .. Len(free_list'),
                 free_list'[i] = free_list'[j], i < j
          PROVE  FALSE
      BY <3>1, <2>2, <1>2, <1>3, <1>4 DEF Positions
    <3>. QED  BY <3>1, <1>3, <1>4
  <2>4. ASSUME NEW c \in blk_set
        PROVE  status'[c] # "UNUSED" <=> \E i \in 1 .. Len(blk_list') : blk_list'[i] = c
    <3>1. CASE c = b
      <4>1. status'[c] = "UNUSED"
        BY <3>1, <1>1, <1>2 DEF TypeOK
      <4>2. ASSUME NEW i \in 1 .. Len(blk_list')
            PROVE  blk_list'[i] # c
        <5>1. CASE i < r
          <6>1. i \in 1 .. Len(blk_list) /\ i # r
            BY <5>1, <1>1, <1>3
          <6>2. blk_list'[i] = blk_list[i]
            BY <5>1, <6>1, <1>1, <1>3
          <6>3. blk_list[i] # blk_list[r]
            BY <6>1, <1>2 DEF Positions
          <6>. QED  BY <6>2, <6>3, <3>1, <1>1
        <5>2. CASE ~ (i < r)
          <6>1. i + 1 \in 1 .. Len(blk_list) /\ i + 1 # r
            BY <5>2, <1>1, <1>3
          <6>2. blk_list'[i] = blk_list[i + 1]
            BY <5>2, <1>1, <1>3
          <6>. QED  BY <6>1, <6>2, <3>1, <1>1, <1>2 DEF Positions
        <5>. QED  BY <5>1, <5>2
      <4>. QED  BY <4>1, <4>2, Zenon
    <3>2. CASE c # b
      <4>1. status'[c] = status[c]
        BY <3>2, <1>1, <1>2 DEF TypeOK
      <4>2. ASSUME NEW i \in 1 .. Len(blk_list'), blk_list'[i] = c
            PROVE  \E k \in 1 .. Len(blk_list) : blk_list[k] = c
        <5>1. CASE i < r
          BY <5>1, <4>2, <1>1, <1>3
        <5>2. CASE ~ (i < r)
          BY <5>2, <4>2, <1>1, <1>3
        <5>. QED  BY <5>1, <5>2
      <4>3. ASSUME NEW k \in 1 .. Len(blk_list), blk_list[k] = c
            PROVE  \E i \in 1 .. Len(blk_list') : blk_list'[i] = c
        <5>1. CASE k < r
          <6>1. k \in 1 .. Len(blk_list') /\ blk_list'[k] = c
            BY <5>1, <4>3, <1>1, <1>3
          <6>. QED  BY <6>1
        <5>2. CASE k > r
          <6>1. k - 1 \in 1 .. Len(blk_list') /\ blk_list'[k - 1] = blk_list[(k - 1) + 1]
            BY <5>2, <1>1, <1>3
          <6>2. blk_list'[k - 1] = c
            BY <6>1, <4>3, <1>3
          <6>. QED  BY <6>1, <6>2
        <5>3. CASE k = r
          BY <5>3, <4>3, <3>2, <1>1
        <5>. QED  BY <5>1, <5>2, <5>3, <1>3
      <4>. QED  BY <4>1, <4>2, <4>3, <1>2, Zenon DEF Positions
    <3>. QED  BY <3>1, <3>2
  <2>5. ASSUME NEW i \in 1 .. Len(free_list')
        PROVE  status'[free_list'[i]] = "UNUSED"
    <3>1. CASE i = 1
      BY <3>1, <1>1, <1>2, <1>4 DEF TypeOK
    <3>2. CASE i # 1
      <4>1. i - 1 \in 1 .. Len(free_list) /\ free_list'[i] = free_list[i - 1]
        BY <3>2, <1>3, <1>4
      <4>2. free_list[i - 1] # b /\ free_list[i - 1] \in blk_set
        BY <4>1, <2>2, <1>3
      <4>3. status[free_list[i - 1]] = "UNUSED"
        BY <4>1, <1>2 DEF Positions
      <4>4. status'[free_list[i - 1]] = status[free_list[i - 1]]
        BY <4>2, <1>1, <1>2 DEF TypeOK
      <4>. QED  BY <4>1, <4>3, <4>4, Zenon
    <3>. QED  BY <3>1, <3>2
  <2>. QED  BY <2>1, <2>3, <2>4, <2>5, Zenon DEF Positions
<1>7. TailIsLast'
  <2>1. Len(blk_list) >= 1 /\ blk_list # << >>
    BY <1>1, <1>3
  <2>2. tail = blk_list[Len(blk_list)]
    BY <2>1, <1>2 DEF TailIsLast
  <2>3. blk_list' = << >> <=> Len(blk_list) = 1
    <3>1. Len(blk_list') = Len(blk_list) - 1 /\ blk_list' \in Seq(blk_set)
      BY <1>1
    <3>2. blk_list' = << >> <=> Len(blk_list') = 0
      BY <3>1, EmptySeq
    <3>. QED  BY <3>1, <3>2, <1>3
  <2>4. CASE r = Len(blk_list)
    BY <2>4, <2>1, <2>2, <2>3, <1>1, <1>3 DEF TailIsLast
  <2>5. CASE r # Len(blk_list)
    <3>1. tail # b /\ Len(blk_list) \in 2 .. Len(blk_list)
      BY <2>5, <2>2, <1>1, <1>2, <1>3 DEF Positions
    <3>2. blk_list'[Len(blk_list')] = blk_list[(Len(blk_list) - 1) + 1]
      BY <2>5, <3>1, <1>1, <1>3
    <3>3. blk_list'[Len(blk_list')] = blk_list[Len(blk_list)]
      BY <3>2, <1>3
    <3>. QED  BY <3>1, <3>3, <2>2, <2>3, <1>1, <1>3 DEF TailIsLast
  <2>. QED  BY <2>4, <2>5
<1>. QED  BY <1>5, <1>6, <1>7, ListsByPosition DEF ListInv
\* rbb_blk_put and rbb_blk_get only change the status of a block in use to
\* another one in use.
LEMMA StatusKeepsListInv ==
  ASSUME ListInv, NEW b \in blk_set, NEW st \in rbb_status \ {"UNUSED"},
         status[b] # "UNUSED",
         status' = [status EXCEPT ![b] = st],
         UNCHANGED <<buf, size, blk_list, free_list, tail>>
  PROVE  ListInv'
<1>1. Positions /\ TypeOK /\ TailIsLast
  BY ListsByPosition DEF ListInv
<1>2. TypeOK'
  BY <1>1 DEF TypeOK
<1>3. \A c \in blk_set : status'[c] = "UNUSED" <=> status[c] = "UNUSED"
  BY <1>1 DEF TypeOK
<1>4. Positions'
  <2>1. \A i \in 1 .. Len(free_list) : free_list[i] \in blk_set
    BY <1>1, ElementOfSeq DEF TypeOK
  <2>2. \A i \in 1 .. Len(free_list) : status'[free_list[i]] = "UNUSED"
    BY <2>1, <1>1, <1>3 DEF Positions
  <2>3. \A c \in blk_set :
           status'[c] # "UNUSED" <=> \E i \in 1 .. Len(blk_list) : blk_list[i] = c
    BY <1>1, <1>3, Zenon DEF Positions
  <2>4. /\ \A i, j \in 1 .. Len(blk_list) : blk_list[i] = blk_list[j] => i = j
        /\ \A i, j \in 1 .. Len(free_list) : free_list[i] = free_list[j] => i = j
    BY <1>1, Zenon DEF Positions
  <2>5. blk_list' = blk_list /\ free_list' = free_list
    OBVIOUS
  <2>. QED  BY <2>2, <2>3, <2>4, <2>5, Zenon DEF Positions
<1>5. TailIsLast'
  BY <1>1 DEF TailIsLast
<1>. QED  BY <1>2, <1>4, <1>5, ListsByPosition DEF ListInv

\* rbb_blk_alloc without room: the descriptor that was taken is on no chain
\* any more, and stays UNUSED.
LEMMA NoSpaceKeepsListInv ==
  ASSUME ListInv, NEW n \in BlkSizes, AllocNoSpace(n)
  PROVE  ListInv'
<1>1. Positions /\ TypeOK /\ TailIsLast
  BY ListsByPosition DEF ListInv
<1>2. /\ free_list' \in Seq(blk_set)
      /\ Len(free_list') = Len(free_list) - 1
      /\ \A i \in 1 .. Len(free_list') : free_list'[i] = free_list[i + 1]
      /\ Len(free_list) \in Nat
  BY <1>1, HeadTailProperties, LenProperties DEF TypeOK, AllocNoSpace
<1>3. UNCHANGED <<status, buf, size, blk_list, tail>>
  BY DEF AllocNoSpace
<1>4. TypeOK'
  BY <1>1, <1>2, <1>3 DEF TypeOK
<1>5. Positions'
  <2>1. \A i, j \in 1 .. Len(free_list') : free_list'[i] = free_list'[j] => i = j
    <3>1. \A i, j \in 1 .. Len(free_list) : free_list[i] = free_list[j] => i = j
      BY <1>1 DEF Positions
    <3>2. ASSUME NEW i \in 1 .. Len(free_list'), NEW j \in 1 .. Len(free_list'),
                 free_list'[i] = free_list'[j]
          PROVE  i = j
      <4>1. i + 1 \in 1 .. Len(free_list) /\ j + 1 \in 1 .. Len(free_list)
        BY <1>2
      <4>2. free_list[i + 1] = free_list[j + 1]
        BY <3>2, <1>2
      <4>3. i + 1 = j + 1
        BY <3>1, <4>1, <4>2
      <4>. QED  BY <4>3, <1>2
    <3>. QED  BY <3>2
  <2>2. \A i \in 1 .. Len(free_list') : status'[free_list'[i]] = "UNUSED"
    BY <1>1, <1>2, <1>3 DEF Positions
  <2>. QED  BY <2>1, <2>2, <1>1, <1>3, Zenon DEF Positions
<1>6. TailIsLast'
  BY <1>1, <1>3 DEF TailIsLast
<1>. QED  BY <1>4, <1>5, <1>6, ListsByPosition DEF ListInv

\* All blocks on the free chain at the beginning.
LEMMA InitListInv == Init => ListInv
<1>. SUFFICES ASSUME Init PROVE ListInv
  OBVIOUS
<1>1. /\ status = [b \in blk_set |-> "UNUSED"]
      /\ buf = [b \in blk_set |-> 0]
      /\ size = [b \in blk_set |-> 0]
      /\ blk_list = << >>
      /\ free_list = [i \in 1 .. BlkMaxNum |-> BlkMaxNum - i]
      /\ tail = ListHead
  BY DEF Init, rbb_init
<1>2. \A i \in 1 .. BlkMaxNum : BlkMaxNum - i \in blk_set
  BY BlkMaxNumAssumption DEF blk_set
<1>3. free_list \in Seq(blk_set)
  BY <1>1, <1>2, BlkMaxNumAssumption, IsASeq
<1>4. Len(free_list) = BlkMaxNum
  BY <1>1, BlkMaxNumAssumption
<1>5. TypeOK
  BY <1>1, <1>3 DEF TypeOK, rbb_status
<1>6. Positions
  BY <1>1, <1>2, <1>4, BlkMaxNumAssumption DEF Positions
<1>7. TailIsLast
  BY <1>1 DEF TailIsLast
<1>. QED  BY <1>5, <1>6, <1>7, ListsByPosition DEF ListInv

\* The first layer is inductive, whatever sizes are asked for.
LEMMA NextListInv == ListInv /\ [Next]_vars => ListInv'
<1>. SUFFICES ASSUME ListInv, [Next]_vars PROVE ListInv'
  OBVIOUS
<1>1. ASSUME NEW n \in BlkSizes, NEW at, AllocBlock(n, at) PROVE ListInv'
  BY <1>1, AllocKeepsListInv
<1>2. ASSUME NEW n \in BlkSizes, AllocNoSpace(n) PROVE ListInv'
  BY <1>2, NoSpaceKeepsListInv
<1>3. ASSUME NEW b \in blk_set, rbb_blk_put(b) PROVE ListInv'
  BY <1>3, StatusKeepsListInv DEF rbb_blk_put, rbb_status
<1>4. ASSUME NEW b \in blk_set, rbb_blk_get(b) PROVE ListInv'
  <2>1. status[b] = "PUT"
    BY <1>4 DEF rbb_blk_get, IsFirstPut
  <2>. QED  BY <1>4, <2>1, StatusKeepsListInv DEF rbb_blk_get, rbb_status
<1>5. ASSUME NEW b \in blk_set, rbb_blk_free(b) PROVE ListInv'
  BY <1>5, FreeKeepsListInv
<1>6. CASE UNCHANGED vars
  BY <1>6 DEF vars, ListInv, TypeOK, ListsConsistent, TailIsLast
<1>. QED  BY <1>1, <1>2, <1>3, <1>4, <1>5, <1>6 DEF Next, rbb_blk_alloc, AllocNoDescriptor

\* The first layer is an invariant of the ring block buffer.
THEOREM ListInvariant == Spec => []ListInv
BY InitListInv, NextListInv, PTL DEF Spec

\* Type correctness of the ring block buffer.
THEOREM TypeCorrect == Spec => []TypeOK
<1>1. ListInv => TypeOK
  BY DEF ListInv
<1>. QED  BY <1>1, ListInvariant, PTL

\* The chain of used blocks and the chain of free descriptors never share a
\* descriptor nor hold one twice, whatever the sizes asked for and the order
\* of the frees.
THEOREM ListsCorrect == Spec => []ListsConsistent
<1>1. ListInv => ListsConsistent
  BY DEF ListInv
<1>. QED  BY <1>1, ListInvariant, PTL

\* rbb->tail is always the last node of the chain, so that rbb_list_append
\* never cuts the chain.
THEOREM TailCorrect == Spec => []TailIsLast
<1>1. ListInv => TailIsLast
  BY DEF ListInv
<1>. QED  BY <1>1, ListInvariant, PTL
-----------------------------------------------------------------------------
\* Second layer: where the blocks lie.  The two lemmas below are about bare
\* start and end offsets p[i], e[i] of L > 0 blocks in ring order.

\* Blocks in ring order either ascend, when the first does not lie behind the
\* last, or ascend to the end of the arena and go on from its start.
LEMMA RingShape ==
  ASSUME NEW L \in Nat \ {0}, NEW p \in [1 .. L -> Nat],
         \A i, j \in 1 .. L : i # j => p[i] # p[j],
         \A i, j, k \in 1 .. L : i < j /\ j < k => Cyclic(p[i], p[j], p[k])
  PROVE  /\ p[1] <= p[L] => \A i, j \in 1 .. L : i < j => p[i] < p[j]
         /\ p[1] > p[L] =>
              /\ \A i \in 1 .. L : p[1] <= p[i] \/ p[i] <= p[L]
              /\ \A i, j \in 1 .. L : i < j =>
                    \/ p[1] <= p[i] /\ p[i] < p[j]
                    \/ p[i] < p[j] /\ p[j] <= p[L]
                    \/ p[1] <= p[i] /\ p[j] <= p[L]
<1>1. 1 \in 1 .. L /\ L \in 1 .. L /\ \A i \in 1 .. L : p[i] \in Nat
  OBVIOUS
<1>2. ASSUME NEW i \in 1 .. L, i # 1, i # L PROVE Cyclic(p[1], p[i], p[L])
  BY <1>1, <1>2
<1>3. ASSUME NEW i \in 1 .. L, NEW j \in 1 .. L, i # 1, i < j PROVE Cyclic(p[1], p[i], p[j])
  BY <1>1, <1>3
<1>4. ASSUME p[1] <= p[L], NEW i \in 1 .. L, NEW j \in 1 .. L, i < j
      PROVE  p[i] < p[j]
  <2>1. p[1] < p[j]
    BY <1>1, <1>2, <1>4 DEF Cyclic
  <2>2. CASE i = 1
    BY <2>1, <2>2
  <2>3. CASE i # 1
    <3>1. p[1] < p[i]
      BY <1>1, <1>2, <1>4, <2>3 DEF Cyclic
    <3>. QED  BY <3>1, <2>1, <2>3, <1>1, <1>3, <1>4 DEF Cyclic
  <2>. QED  BY <2>2, <2>3
<1>5. ASSUME p[1] > p[L], NEW i \in 1 .. L
      PROVE  p[1] <= p[i] \/ p[i] <= p[L]
  BY <1>1, <1>2, <1>5 DEF Cyclic
<1>6. ASSUME p[1] > p[L], NEW i \in 1 .. L, NEW j \in 1 .. L, i < j
      PROVE  \/ p[1] <= p[i] /\ p[i] < p[j]
             \/ p[i] < p[j] /\ p[j] <= p[L]
             \/ p[1] <= p[i] /\ p[j] <= p[L]
  <2>1. p[1] <= p[j] \/ p[j] <= p[L]
    BY <1>5, <1>6
  <2>2. CASE i = 1
    BY <2>1, <2>2, <1>1, <1>6
  <2>3. CASE i # 1
    <3>1. Cyclic(p[1], p[i], p[j])
      BY <2>3, <1>3, <1>6
    <3>2. p[1] <= p[i] \/ p[i] <= p[L]
      BY <1>5, <1>6
    <3>. QED  BY <2>1, <3>1, <3>2, <1>1, <1>6 DEF Cyclic
  <2>. QED  BY <2>2, <2>3
<1>. QED  BY <1>4, <1>5, <1>6

\* The two comparisons of rbb_blk_alloc, with the first and with the last
\* block only, keep the new block clear of all blocks and in ring order.
LEMMA Placement ==
  ASSUME NEW L \in Nat \ {0}, NEW p \in [1 .. L -> Nat], NEW e \in [1 .. L -> Nat],
         NEW n \in Nat \ {0}, NEW at \in Nat,
         \A i \in 1 .. L : p[i] < e[i] /\ e[i] <= BufSize,
         \A i, j \in 1 .. L : i # j => e[i] <= p[j] \/ e[j] <= p[i],
         \A i, j, k \in 1 .. L : i < j /\ j < k => Cyclic(p[i], p[j], p[k]),
         \/ p[1] <= p[L] /\ at = e[L] /\ at + n <= BufSize
         \/ p[1] <= p[L] /\ at = 0 /\ n <= p[1]
         \/ p[1] > p[L] /\ at = e[L] /\ at + n <= p[1]
  PROVE  /\ at + n <= BufSize
         /\ \A i \in 1 .. L : e[i] <= at \/ at + n <= p[i]
         /\ \A i, j \in 1 .. L : i < j => Cyclic(p[i], p[j], at)
<1>1. /\ 1 \in 1 .. L /\ L \in 1 .. L /\ BufSize \in Nat
      /\ \A i \in 1 .. L : p[i] \in Nat /\ e[i] \in Nat
  BY BufSizeAssumption
<1>2. ASSUME NEW i \in 1 .. L, NEW j \in 1 .. L, i # j PROVE p[i] # p[j]
  <2>1. e[i] <= p[j] \/ e[j] <= p[i]
    BY <1>2
  <2>2. p[i] < e[i] /\ p[j] < e[j]
    OBVIOUS
  <2>. QED  BY <2>1, <2>2, <1>1
<1>3. /\ p[1] <= p[L] => \A i, j \in 1 .. L : i < j => p[i] < p[j]
      /\ p[1] > p[L] =>
           /\ \A i \in 1 .. L : p[1] <= p[i] \/ p[i] <= p[L]
           /\ \A i, j \in 1 .. L : i < j =>
                 \/ p[1] <= p[i] /\ p[i] < p[j]
                 \/ p[i] < p[j] /\ p[j] <= p[L]
                 \/ p[1] <= p[i] /\ p[j] <= p[L]
  BY <1>2, RingShape
<1>4. \A i \in 1 .. L : p[i] <= p[L] => e[i] <= e[L]
  <2>1. ASSUME NEW i \in 1 .. L, p[i] <= p[L], i # L PROVE e[i] <= e[L]
    BY <2>1, <1>1
  <2>. QED  BY <2>1, <1>1
<1>5. \A i \in 1 .. L : p[1] <= p[L] => p[1] <= p[i] /\ p[i] <= p[L]
  <2>1. ASSUME NEW i \in 1 .. L, p[1] <= p[L] PROVE p[1] <= p[i] /\ p[i] <= p[L]
    <3>1. \A j, k \in 1 .. L : j < k => p[j] < p[k]
      BY <2>1, <1>3
    <3>2. (i = 1 \/ p[1] < p[i]) /\ (i = L \/ p[i] < p[L])
      BY <3>1, <1>1
    <3>. QED  BY <3>2, <1>1
  <2>. QED  BY <2>1
<1>6. at + n <= BufSize
  BY <1>1
<1>7. ASSUME NEW i \in 1 .. L PROVE e[i] <= at \/ at + n <= p[i]
  BY <1>1, <1>3, <1>4, <1>5
<1>8. ASSUME NEW i \in 1 .. L, NEW j \in 1 .. L, i < j PROVE Cyclic(p[i], p[j], at)
  <2>1. CASE p[1] <= p[L]
    <3>1. p[i] < p[j] /\ p[1] <= p[i] /\ p[j] <= p[L]
      BY <2>1, <1>3, <1>5, <1>8
    <3>. QED  BY <2>1, <3>1, <1>1 DEF Cyclic
  <2>2. CASE p[1] > p[L]
    <3>1. \/ p[1] <= p[i] /\ p[i] < p[j]
          \/ p[i] < p[j] /\ p[j] <= p[L]
          \/ p[1] <= p[i] /\ p[j] <= p[L]
      BY <2>2, <1>3, <1>8
    <3>2. p[L] < at /\ at < p[1]
      BY <2>2, <1>1
    <3>. QED  BY <3>1, <3>2, <1>1 DEF Cyclic
  <2>. QED  BY <2>1, <2>2, <1>1
<1>. QED  BY <1>6, <1>7, <1>8
SizesPositive == \A i \in 1 .. Len(blk_list) : size[blk_list[i]] > 0

Layout == SizesPositive /\ BlocksInArena /\ BlocksDisjoint /\ RingOrder

ArenaInv == ListInv /\ Layout

\* A chain obtained by leaving blocks out keeps its layout.
LEMMA SubchainKeepsLayout ==
  ASSUME ListInv, Layout, ListInv',
         UNCHANGED <<buf, size>>,
         NEW m \in [1 .. Len(blk_list') -> 1 .. Len(blk_list)],
         \A i, j \in 1 .. Len(blk_list') : i < j => m[i] < m[j],
         \A i \in 1 .. Len(blk_list') : blk_list'[i] = blk_list[m[i]]
  PROVE  Layout'
<1>1. Len(blk_list) \in Nat /\ Len(blk_list') \in Nat
  BY LenProperties DEF ListInv, TypeOK
<1>2. ASSUME NEW i \in 1 .. Len(blk_list')
      PROVE  /\ m[i] \in 1 .. Len(blk_list)
             /\ buf'[blk_list'[i]] = buf[blk_list[m[i]]]
             /\ size'[blk_list'[i]] = size[blk_list[m[i]]]
  OBVIOUS
<1>3. SizesPositive'
  BY <1>2 DEF Layout, SizesPositive
<1>4. BlocksInArena'
  <2>1. \A i \in 1 .. Len(blk_list') : buf'[blk_list'[i]] + size'[blk_list'[i]] <= BufSize
    BY <1>2 DEF Layout, BlocksInArena, End
  <2>. QED  BY <2>1 DEF BlocksInArena, End
<1>5. BlocksDisjoint'
  <2>1. ASSUME NEW i \in 1 .. Len(blk_list'), NEW j \in 1 .. Len(blk_list'), i # j
        PROVE  \/ buf'[blk_list'[i]] + size'[blk_list'[i]] <= buf'[blk_list'[j]]
               \/ buf'[blk_list'[j]] + size'[blk_list'[j]] <= buf'[blk_list'[i]]
    <3>1. m[i] # m[j] /\ m[i] \in 1 .. Len(blk_list) /\ m[j] \in 1 .. Len(blk_list)
      BY <2>1, <1>1, <1>2
    <3>. QED  BY <3>1, <1>2 DEF Layout, BlocksDisjoint, End
  <2>. QED  BY <2>1 DEF BlocksDisjoint, End
<1>6. RingOrder'
  <2>1. ASSUME NEW i \in 1 .. Len(blk_list'), NEW j \in 1 .. Len(blk_list'),
               NEW k \in 1 .. Len(blk_list'), i < j, j < k
        PROVE  Cyclic(buf'[blk_list'[i]], buf'[blk_list'[j]], buf'[blk_list'[k]])
    <3>1. Cyclic(buf[blk_list[m[i]]], buf[blk_list[m[j]]], buf[blk_list[m[k]]])
      BY <2>1, <1>2 DEF Layout, RingOrder
    <3>. QED  BY <3>1, <1>2
  <2>. QED  BY <2>1 DEF RingOrder
<1>. QED  BY <1>3, <1>4, <1>5, <1>6 DEF Layout

\* The blocks left on the chain keep their order in the arena.
LEMMA FreeKeepsLayout ==
  ASSUME ArenaInv, NEW b \in blk_set, rbb_blk_free(b)
  PROVE  Layout'
<1>1. PICK r \in 1 .. Len(blk_list) :
         /\ blk_list[r] = b
         /\ Len(blk_list') = Len(blk_list) - 1
         /\ \A i \in 1 .. Len(blk_list) - 1 :
               blk_list'[i] = IF i < r THEN blk_list[i] ELSE blk_list[i + 1]
         /\ UNCHANGED <<buf, size>>
  BY FreeStep DEF ArenaInv
<1>2. Len(blk_list) \in Nat
  BY LenProperties DEF ArenaInv, ListInv, TypeOK
<1>3. PICK m : m = [i \in 1 .. Len(blk_list') |-> IF i < r THEN i ELSE i + 1]
  OBVIOUS
<1>4. m \in [1 .. Len(blk_list') -> 1 .. Len(blk_list)]
  BY <1>1, <1>2, <1>3
<1>5. \A i, j \in 1 .. Len(blk_list') : i < j => m[i] < m[j]
  BY <1>1, <1>2, <1>3
<1>6. \A i \in 1 .. Len(blk_list') : blk_list'[i] = blk_list[m[i]]
  BY <1>1, <1>2, <1>3
<1>7. ListInv'
  BY FreeKeepsListInv DEF ArenaInv
<1>. QED  BY <1>1, <1>4, <1>5, <1>6, <1>7, SubchainKeepsLayout DEF ArenaInv

\* The new block is placed behind the last, or at the start of the arena in front of
\* the first.
LEMMA AllocKeepsLayout ==
  ASSUME SizesFit, ArenaInv, NEW n \in BlkSizes, NEW at, AllocBlock(n, at)
  PROVE  Layout'
<1>1. PICK new \in blk_set :
         /\ \A i \in 1 .. Len(blk_list) : blk_list[i] # new
         /\ at \in Nat /\ n \in Nat \ {0}
         /\ blk_list' = Append(blk_list, new)
         /\ buf' = [buf EXCEPT ![new] = at]
         /\ size' = [size EXCEPT ![new] = n]
  BY AllocStep DEF ArenaInv
<1>. DEFINE L == Len(blk_list)
<1>2. TypeOK /\ L \in Nat /\ \A i \in 1 .. L : blk_list[i] \in blk_set
  BY LenProperties, ElementOfSeq DEF ArenaInv, ListInv, TypeOK
<1>3. /\ Len(blk_list') = L + 1
      /\ \A i \in 1 .. L : blk_list'[i] = blk_list[i]
      /\ blk_list'[L + 1] = new
  BY <1>1, <1>2, AppendProperties DEF TypeOK
<1>4. \A i \in 1 .. L :
         /\ buf'[blk_list'[i]] = buf[blk_list[i]]
         /\ size'[blk_list'[i]] = size[blk_list[i]]
         /\ buf[blk_list[i]] \in Nat /\ size[blk_list[i]] \in Nat
  BY <1>1, <1>2, <1>3 DEF TypeOK
<1>5. buf'[blk_list'[L + 1]] = at /\ size'[blk_list'[L + 1]] = n
  BY <1>1, <1>2, <1>3 DEF TypeOK
<1>6. \A i \in 1 .. L :
         /\ size[blk_list[i]] > 0
         /\ buf[blk_list[i]] + size[blk_list[i]] <= BufSize
  BY DEF ArenaInv, Layout, SizesPositive, BlocksInArena, End
<1>7. \A i, j \in 1 .. L : i # j =>
         \/ buf[blk_list[i]] + size[blk_list[i]] <= buf[blk_list[j]]
         \/ buf[blk_list[j]] + size[blk_list[j]] <= buf[blk_list[i]]
  BY DEF ArenaInv, Layout, BlocksDisjoint, End
<1>8. \A i, j, k \in 1 .. L : i < j /\ j < k =>
         Cyclic(buf[blk_list[i]], buf[blk_list[j]], buf[blk_list[k]])
  BY DEF ArenaInv, Layout, RingOrder
<1>9. /\ at + n <= BufSize
      /\ \A i \in 1 .. L : \/ buf[blk_list[i]] + size[blk_list[i]] <= at
                            \/ at + n <= buf[blk_list[i]]
      /\ \A i, j \in 1 .. L : i < j =>
            Cyclic(buf[blk_list[i]], buf[blk_list[j]], at)
  <2>1. at \in Room(n)
    BY DEF AllocBlock
  <2>2. CASE blk_list = << >>
    <3>1. at = 0 /\ L = 0 /\ n <= BufSize
      BY <2>1, <2>2 DEF Room, SizesFit
    <3>. QED  BY <3>1, <1>1
  <2>3. CASE blk_list # << >>
    <3>. DEFINE p == [i \in 1 .. L |-> buf[blk_list[i]]]
                e == [i \in 1 .. L |-> buf[blk_list[i]] + size[blk_list[i]]]
    <3>1. L \in Nat \ {0}
      BY <2>3, EmptySeq, <1>2 DEF TypeOK
    <3>2. p \in [1 .. L -> Nat] /\ e \in [1 .. L -> Nat]
      BY <1>4
    <3>3. /\ 1 \in 1 .. L /\ L \in 1 .. L /\ tail = blk_list[L]
          /\ p[1] = buf[blk_list[1]] /\ p[L] = buf[tail] /\ e[L] = End(tail)
      BY <3>1, <2>3 DEF ArenaInv, ListInv, TailIsLast, End
    <3>4. \/ p[1] <= p[L] /\ at = e[L] /\ at + n <= BufSize
          \/ p[1] <= p[L] /\ at = 0 /\ n <= p[1]
          \/ p[1] > p[L] /\ at = e[L] /\ at + n <= p[1]
      <4>1. p[1] \in Nat /\ p[L] \in Nat /\ e[L] \in Nat /\ BufSize \in Nat
        BY <3>2, <3>3, BufSizeAssumption
      <4>. HIDE DEF p, e
      <4>. QED  BY <4>1, <3>3, <2>1, <2>3, <1>1 DEF Room
    <3>5. \A i \in 1 .. L : p[i] < e[i] /\ e[i] <= BufSize
      BY <1>4, <1>6
    <3>6. \A i, j \in 1 .. L : i # j => e[i] <= p[j] \/ e[j] <= p[i]
      BY <1>7
    <3>7. \A i, j, k \in 1 .. L : i < j /\ j < k => Cyclic(p[i], p[j], p[k])
      BY <1>8
    <3>8. /\ at + n <= BufSize
          /\ \A i \in 1 .. L : e[i] <= at \/ at + n <= p[i]
          /\ \A i, j \in 1 .. L : i < j => Cyclic(p[i], p[j], at)
      <4>. HIDE DEF p, e, L
      <4>. QED  BY <3>1, <3>2, <3>4, <3>5, <3>6, <3>7, <1>1, Placement
    <3>. QED  BY <3>8
  <2>. QED  BY <2>2, <2>3
<1>. HIDE DEF L
<1>10. SizesPositive'
  <2>1. ASSUME NEW i \in 1 .. L + 1 PROVE size'[blk_list'[i]] > 0
    <3>1. CASE i \in 1 .. L
      BY <3>1, <1>4, <1>6
    <3>2. CASE i = L + 1
      <4>1. size'[blk_list'[i]] = n
        BY <3>2, <1>5, Zenon
      <4>2. n > 0
        BY <1>1
      <4>. QED  BY <4>1, <4>2
    <3>. QED  BY <3>1, <3>2, <1>2
  <2>. QED  BY <2>1, <1>3 DEF SizesPositive
<1>11. BlocksInArena'
  <2>1. ASSUME NEW i \in 1 .. L + 1
        PROVE  buf'[blk_list'[i]] + size'[blk_list'[i]] <= BufSize
    <3>1. CASE i \in 1 .. L
      BY <3>1, <1>4, <1>6
    <3>2. CASE i = L + 1
      BY <3>2, <1>5, <1>9
    <3>. QED  BY <3>1, <3>2, <1>2
  <2>. QED  BY <2>1, <1>3 DEF BlocksInArena, End
<1>12. BlocksDisjoint'
  <2>1. ASSUME NEW i \in 1 .. L + 1, NEW j \in 1 .. L + 1, i # j
        PROVE  \/ buf'[blk_list'[i]] + size'[blk_list'[i]] <= buf'[blk_list'[j]]
               \/ buf'[blk_list'[j]] + size'[blk_list'[j]] <= buf'[blk_list'[i]]
    <3>1. CASE i \in 1 .. L /\ j \in 1 .. L
      BY <3>1, <2>1, <1>4, <1>7
    <3>2. CASE i = L + 1 /\ j \in 1 .. L
      BY <3>2, <1>4, <1>5, <1>9
    <3>3. CASE j = L + 1 /\ i \in 1 .. L
      BY <3>3, <1>4, <1>5, <1>9
    <3>. QED  BY <3>1, <3>2, <3>3, <2>1, <1>2
  <2>. QED  BY <2>1, <1>3 DEF BlocksDisjoint, End
<1>13. RingOrder'
  <2>1. ASSUME NEW i \in 1 .. L + 1, NEW j \in 1 .. L + 1, NEW k \in 1 .. L + 1,
               i < j, j < k
        PROVE  Cyclic(buf'[blk_list'[i]], buf'[blk_list'[j]], buf'[blk_list'[k]])
    <3>1. i \in 1 .. L /\ j \in 1 .. L
      BY <2>1, <1>2
    <3>2. CASE k \in 1 .. L
      BY <3>1, <3>2, <2>1, <1>4, <1>8
    <3>3. CASE k = L + 1
      BY <3>1, <3>3, <2>1, <1>4, <1>5, <1>9
    <3>. QED  BY <3>2, <3>3, <1>2
  <2>. QED  BY <2>1, <1>3 DEF RingOrder
<1>. QED  BY <1>10, <1>11, <1>12, <1>13 DEF Layout

\* The second layer is inductive when nobody asks for more than the arena.
LEMMA NextLayout ==
  ASSUME SizesFit
  PROVE  ArenaInv /\ [Next]_vars => ArenaInv'
<1>. SUFFICES ASSUME ArenaInv, [Next]_vars PROVE ArenaInv'
  OBVIOUS
<1>1. ListInv'
  BY NextListInv DEF ArenaInv
<1>2. ASSUME UNCHANGED <<buf, size, blk_list>> PROVE Layout'
  BY <1>2 DEF ArenaInv, Layout, SizesPositive, BlocksInArena, BlocksDisjoint,
              RingOrder, End
<1>3. ASSUME NEW n \in BlkSizes, NEW at, AllocBlock(n, at) PROVE Layout'
  BY <1>3, AllocKeepsLayout
<1>4. ASSUME NEW n \in BlkSizes, AllocNoSpace(n) PROVE Layout'
  BY <1>2, <1>4 DEF AllocNoSpace
<1>5. ASSUME NEW b \in blk_set, rbb_blk_put(b) PROVE Layout'
  BY <1>2, <1>5 DEF rbb_blk_put
<1>6. ASSUME NEW b \in blk_set, rbb_blk_get(b) PROVE Layout'
  BY <1>2, <1>6 DEF rbb_blk_get
<1>7. ASSUME NEW b \in blk_set, rbb_blk_free(b) PROVE Layout'
  BY <1>7, FreeKeepsLayout
<1>8. ASSUME UNCHANGED vars PROVE Layout'
  BY <1>2, <1>8 DEF vars
<1>9. Layout'
  BY <1>2, <1>3, <1>4, <1>5, <1>6, <1>7, <1>8
     DEF Next, rbb_blk_alloc, AllocNoDescriptor, vars
<1>. QED  BY <1>1, <1>9 DEF ArenaInv

\* The layout of the blocks is an invariant when no caller asks for more than
\* the arena.
THEOREM ArenaInvariant ==
  ASSUME SizesFit
  PROVE  Spec => []ArenaInv
<1>1. Init => ArenaInv
  <2>1. Init => blk_list = << >>
    BY DEF Init, rbb_init
  <2>2. blk_list = << >> => Layout
    BY DEF Layout, SizesPositive, BlocksInArena, BlocksDisjoint, RingOrder
  <2>. QED  BY <2>1, <2>2, InitListInv DEF ArenaInv
<1>2. ArenaInv /\ [Next]_vars => ArenaInv'
  BY NextLayout
<1>. QED  BY <1>1, <1>2, PTL DEF Spec

\* No block of rbb_blk_alloc reaches beyond the arena.
THEOREM ArenaRespected ==
  ASSUME SizesFit
  PROVE  Spec => []BlocksInArena
<1>1. ArenaInv => BlocksInArena
  BY DEF ArenaInv, Layout
<1>. QED  BY <1>1, ArenaInvariant, PTL

\* No two blocks in use overlap, although rbb_blk_alloc compares the new block
\* with the first and the last one only.
THEOREM NoOverlap ==
  ASSUME SizesFit
  PROVE  Spec => []BlocksDisjoint
<1>1. ArenaInv => BlocksDisjoint
  BY DEF ArenaInv, Layout
<1>. QED  BY <1>1, ArenaInvariant, PTL

\* The chain is in ring order whatever the order in which blocks are freed.
THEOREM ChainInRingOrder ==
  ASSUME SizesFit
  PROVE  Spec => []RingOrder
<1>1. ArenaInv => RingOrder
  BY DEF ArenaInv, Layout
<1>. QED  BY <1>1, ArenaInvariant, PTL

\* What HeldBlocksStable says of a step.
Kept == \A b \in blk_set :
          status[b] # "UNUSED" /\ status'[b] # "UNUSED"
            => buf'[b] = buf[b] /\ size'[b] = size[b]

\* Only an allocation places a block, and it takes one that is UNUSED.
LEMMA StepKeepsHeld == ListInv /\ [Next]_vars => [Kept]_vars
<1>. SUFFICES ASSUME ListInv, Next PROVE Kept
  OBVIOUS
<1>1. ASSUME NEW n \in BlkSizes, NEW at, AllocBlock(n, at) PROVE Kept
  <2>1. PICK new \in blk_set :
           /\ status[new] = "UNUSED"
           /\ \A i \in 1 .. Len(blk_list) : blk_list[i] # new
           /\ new = free_list[1]
           /\ at \in Nat /\ n \in Nat \ {0}
           /\ free_list # << >> /\ free_list' = Tail(free_list)
           /\ blk_list' = Append(blk_list, new) /\ tail' = new
           /\ status' = [status EXCEPT ![new] = "INITED"]
           /\ buf' = [buf EXCEPT ![new] = at]
           /\ size' = [size EXCEPT ![new] = n]
    BY <1>1, AllocStep
  <2>. QED  BY <2>1 DEF ListInv, TypeOK, Kept
<1>2. ASSUME UNCHANGED <<buf, size>> PROVE Kept
  BY <1>2 DEF Kept
<1>. QED  BY <1>1, <1>2 DEF Next, rbb_blk_alloc, AllocNoDescriptor, AllocNoSpace,
             rbb_blk_put, rbb_blk_get, rbb_blk_free, vars

\* A block in use is neither moved nor resized by any operation: the producer
\* may fill it outside the critical sections.
THEOREM HeldBlocksDoNotMove == Spec => HeldBlocksStable
BY StepKeepsHeld, ListInvariant, PTL DEF Spec, HeldBlocksStable, Kept

-----------------------------------------------------------------------------
\* The abstract pool.

ClaimOf(b) == [state |-> status[b], lo |-> buf[b], hi |-> End(b)]

Claim == [state : rbb_status, lo : Nat, hi : Nat]

\* The claims are the blocks of the chain, position by position.
LEMMA ClaimsByPosition ==
  /\ TypeOK =>
       /\ claims \in Seq(Claim) /\ Len(claims) = Len(blk_list)
       /\ DOMAIN claims = 1 .. Len(blk_list)
       /\ \A i \in 1 .. Len(blk_list) : claims[i] = ClaimOf(blk_list[i])
  /\ TypeOK' =>
       /\ claims' \in Seq(Claim) /\ Len(claims') = Len(blk_list')
       /\ \A i \in 1 .. Len(blk_list') :
             claims'[i] = [state |-> status'[blk_list'[i]], lo |-> buf'[blk_list'[i]],
                           hi |-> buf'[blk_list'[i]] + size'[blk_list'[i]]]
<1>1. ASSUME NEW n \in Nat, NEW f \in [1 .. n -> Claim]
      PROVE  f \in Seq(Claim) /\ Len(f) = n
  <2>1. f \in Seq(Claim)
    BY <1>1
  <2>. QED  BY <2>1, <1>1, LenProperties
<1>2. ASSUME TypeOK
      PROVE  /\ claims \in Seq(Claim) /\ Len(claims) = Len(blk_list)
             /\ DOMAIN claims = 1 .. Len(blk_list)
             /\ \A i \in 1 .. Len(blk_list) : claims[i] = ClaimOf(blk_list[i])
  <2>1. Len(blk_list) \in Nat /\ \A i \in 1 .. Len(blk_list) : blk_list[i] \in blk_set
    BY <1>2, LenProperties, ElementOfSeq DEF TypeOK
  <2>2. \A b \in blk_set : ClaimOf(b) \in Claim
    BY <1>2 DEF ClaimOf, Claim, End, TypeOK
  <2>3. claims = [i \in 1 .. Len(blk_list) |-> ClaimOf(blk_list[i])]
    BY DEF claims, ClaimOf
  <2>4. claims \in [1 .. Len(blk_list) -> Claim]
    BY <2>1, <2>2, <2>3
  <2>. QED  BY <1>1, <2>1, <2>3, <2>4
<1>3. ASSUME TypeOK'
      PROVE  /\ claims' \in Seq(Claim) /\ Len(claims') = Len(blk_list')
             /\ \A i \in 1 .. Len(blk_list') :
                   claims'[i] = [state |-> status'[blk_list'[i]], lo |-> buf'[blk_list'[i]],
                                 hi |-> buf'[blk_list'[i]] + size'[blk_list'[i]]]
  <2>1. Len(blk_list') \in Nat /\ \A i \in 1 .. Len(blk_list') : blk_list'[i] \in blk_set
    BY <1>3, LenProperties, ElementOfSeq DEF TypeOK
  <2>2. \A b \in blk_set : [state |-> status'[b], lo |-> buf'[b], hi |-> buf'[b] + size'[b]] \in Claim
    BY <1>3 DEF Claim, TypeOK
  <2>3. claims' = [i \in 1 .. Len(blk_list') |->
                     [state |-> status'[blk_list'[i]], lo |-> buf'[blk_list'[i]],
                      hi |-> buf'[blk_list'[i]] + size'[blk_list'[i]]]]
    BY DEF claims, End
  <2>4. claims' \in [1 .. Len(blk_list') -> Claim]
    BY <2>1, <2>2, <2>3
  <2>. QED  BY <1>1, <2>1, <2>3, <2>4
<1>. QED  BY <1>2, <1>3

\* The pool starts empty.
LEMMA InitPool == Init => Pool!Init
<1>. SUFFICES ASSUME Init PROVE claims = << >>
  BY DEF Pool!Init
<1>1. TypeOK /\ blk_list = << >>
  BY InitListInv DEF ListInv, Init, rbb_init
<1>2. claims \in Seq(Claim) /\ Len(claims) = 0
  BY <1>1, ClaimsByPosition
<1>. QED  BY <1>2, EmptySeq

\* A block that rbb_blk_alloc returns is granted.
LEMMA AllocGrants ==
  ASSUME SizesFit, ArenaInv, ArenaInv', NEW n \in BlkSizes, NEW at, AllocBlock(n, at)
  PROVE  Pool!Next
<1>1. PICK new \in blk_set :
         /\ \A i \in 1 .. Len(blk_list) : blk_list[i] # new
         /\ at \in Nat /\ n \in Nat \ {0}
         /\ blk_list' = Append(blk_list, new)
         /\ status' = [status EXCEPT ![new] = "INITED"]
         /\ buf' = [buf EXCEPT ![new] = at]
         /\ size' = [size EXCEPT ![new] = n]
  BY AllocStep DEF ArenaInv
<1>2. TypeOK /\ TypeOK'
  BY DEF ArenaInv, ListInv
<1>. DEFINE L == Len(blk_list)
            c == [state |-> "INITED", lo |-> at, hi |-> at + n]
<1>3. L \in Nat /\ \A i \in 1 .. L : blk_list[i] \in blk_set /\ blk_list[i] # new
  BY <1>1, <1>2, LenProperties, ElementOfSeq DEF TypeOK
<1>4. /\ Len(blk_list') = L + 1
      /\ \A i \in 1 .. L : blk_list'[i] = blk_list[i]
      /\ blk_list'[L + 1] = new
  BY <1>1, <1>2, AppendProperties DEF TypeOK
<1>5. /\ claims \in Seq(Claim) /\ Len(claims) = L
      /\ \A i \in 1 .. L : claims[i] = ClaimOf(blk_list[i])
  BY <1>2, ClaimsByPosition
<1>6. /\ claims' \in Seq(Claim) /\ Len(claims') = L + 1
      /\ \A i \in 1 .. L + 1 :
            claims'[i] = [state |-> status'[blk_list'[i]], lo |-> buf'[blk_list'[i]],
                          hi |-> buf'[blk_list'[i]] + size'[blk_list'[i]]]
  BY <1>2, <1>4, ClaimsByPosition
<1>7. ASSUME NEW i \in 1 .. L PROVE claims'[i] = claims[i]
  <2>1. PICK b \in blk_set : b = blk_list[i] /\ b # new /\ b = blk_list'[i]
    BY <1>3, <1>4
  <2>2. status'[b] = status[b] /\ buf'[b] = buf[b] /\ size'[b] = size[b]
    BY <2>1, <1>1, <1>2 DEF TypeOK
  <2>3. /\ claims[i] = ClaimOf(b)
        /\ claims'[i] = [state |-> status'[b], lo |-> buf'[b], hi |-> buf'[b] + size'[b]]
    <3>1. i \in 1 .. L + 1
      BY <1>3
    <3>. QED  BY <3>1, <2>1, <1>5, <1>6
  <2>. QED  BY <2>2, <2>3 DEF ClaimOf, End
<1>8. claims'[L + 1] = c
  <2>1. status'[new] = "INITED" /\ buf'[new] = at /\ size'[new] = n
    BY <1>1, <1>2 DEF TypeOK
  <2>. QED  BY <2>1, <1>3, <1>4, <1>6 DEF ClaimOf, End
<1>9. c \in Claim
  BY <1>1 DEF Claim, rbb_status
<1>. HIDE DEF c
<1>10. claims' = Append(claims, c)
  <2>1. PICK s : s = Append(claims, c)
    OBVIOUS
  <2>2. /\ s \in Seq(Claim) /\ Len(s) = L + 1
        /\ \A i \in 1 .. L : s[i] = claims[i]
        /\ s[L + 1] = c
    BY <2>1, <1>5, <1>9, AppendProperties
  <2>3. \A i \in 1 .. L + 1 : claims'[i] = s[i]
    BY <2>2, <1>3, <1>7, <1>8
  <2>4. claims' = s
    BY <2>2, <2>3, <1>6, SeqEqual
  <2>. QED  BY <2>1, <2>4
<1>11. at + n <= BufSize
  <2>1. buf'[blk_list'[L + 1]] + size'[blk_list'[L + 1]] <= BufSize
    BY <1>3, <1>4 DEF ArenaInv, Layout, BlocksInArena, End
  <2>. QED  BY <2>1, <1>1, <1>2, <1>4 DEF TypeOK
<1>12. ASSUME NEW i \in 1 .. L PROVE Pool!Disjoint(claims[i], c)
  <2>1. \/ buf'[blk_list'[i]] + size'[blk_list'[i]] <= buf'[blk_list'[L + 1]]
        \/ buf'[blk_list'[L + 1]] + size'[blk_list'[L + 1]] <= buf'[blk_list'[i]]
    <3>1. i \in 1 .. L + 1 /\ L + 1 \in 1 .. L + 1 /\ i # L + 1
      BY <1>3
    <3>. QED  BY <3>1, <1>4 DEF ArenaInv, Layout, BlocksDisjoint, End
  <2>2. /\ claims'[i].hi = buf'[blk_list'[i]] + size'[blk_list'[i]]
        /\ claims'[i].lo = buf'[blk_list'[i]]
    BY <1>3, <1>6
  <2>3. /\ claims'[L + 1].hi = buf'[blk_list'[L + 1]] + size'[blk_list'[L + 1]]
        /\ claims'[L + 1].lo = buf'[blk_list'[L + 1]]
    BY <1>3, <1>6
  <2>. QED  BY <2>1, <2>2, <2>3, <1>7, <1>8 DEF Pool!Disjoint
<1>13. at \in 0 .. BufSize
  BY <1>1, <1>11, BufSizeAssumption
<1>14. Pool!Grant(n, at)
  BY <1>5, <1>10, <1>11, <1>12 DEF Pool!Grant, c
<1>. QED  BY <1>13, <1>14 DEF Pool!Next

\* rbb_blk_put publishes a claim.
LEMMA PutPublishes ==
  ASSUME ListInv, ListInv', NEW b \in blk_set, rbb_blk_put(b)
  PROVE  Pool!Next
<1>1. TypeOK /\ TypeOK' /\ Positions
  BY ListsByPosition DEF ListInv
<1>2. PICK i \in 1 .. Len(blk_list) : blk_list[i] = b
  BY <1>1 DEF Positions, rbb_blk_put
<1>3. /\ DOMAIN claims = 1 .. Len(blk_list)
      /\ claims \in Seq(Claim) /\ Len(claims) = Len(blk_list)
      /\ \A j \in 1 .. Len(blk_list) : claims[j] = ClaimOf(blk_list[j])
  BY <1>1, ClaimsByPosition
<1>4. claims' = [j \in 1 .. Len(blk_list) |-> ClaimOf(blk_list[j])']
  BY DEF claims, ClaimOf, rbb_blk_put
<1>5. ASSUME NEW j \in 1 .. Len(blk_list)
      PROVE  ClaimOf(blk_list[j])' = IF j = i THEN [claims[j] EXCEPT !.state = "PUT"] ELSE claims[j]
  <2>1. blk_list'[j] = blk_list[j] /\ blk_list[j] \in blk_set /\ (j # i => blk_list[j] # b)
    BY <1>1, <1>2, ElementOfSeq DEF rbb_blk_put, Positions, TypeOK
  <2>2. status'[blk_list[j]] = IF j = i THEN "PUT" ELSE status[blk_list[j]]
    BY <2>1, <1>1, <1>2 DEF rbb_blk_put, TypeOK
  <2>3. claims[j] = ClaimOf(blk_list[j])
    BY <1>3
  <2>. QED  BY <2>1, <2>2, <2>3 DEF ClaimOf, End, rbb_blk_put
<1>6. claims' = [claims EXCEPT ![i].state = "PUT"]
  BY <1>3, <1>4, <1>5
<1>7. claims[i].state = "INITED"
  BY <1>2, <1>3 DEF ClaimOf, rbb_blk_put
<1>8. Pool!Publish(i)
  BY <1>6, <1>7 DEF Pool!Publish
<1>. QED  BY <1>3, <1>8 DEF Pool!Next

\* rbb_blk_get takes the oldest claim among those put.
LEMMA GetTakes ==
  ASSUME ListInv, ListInv', NEW b \in blk_set, rbb_blk_get(b)
  PROVE  Pool!Next
<1>1. TypeOK /\ TypeOK' /\ Positions
  BY ListsByPosition DEF ListInv
<1>2. PICK i \in 1 .. Len(blk_list) : IsFirstPut(i) /\ b = blk_list[i]
  BY DEF rbb_blk_get
<1>3. /\ DOMAIN claims = 1 .. Len(blk_list)
      /\ claims \in Seq(Claim) /\ Len(claims) = Len(blk_list)
      /\ \A j \in 1 .. Len(blk_list) : claims[j] = ClaimOf(blk_list[j])
  BY <1>1, ClaimsByPosition
<1>4. claims' = [j \in 1 .. Len(blk_list) |-> ClaimOf(blk_list[j])']
  BY DEF claims, ClaimOf, rbb_blk_get
<1>5. i .. i = {i} /\ Len(blk_list) \in Nat
  BY <1>1, LenProperties DEF TypeOK
<1>6. ASSUME NEW j \in 1 .. Len(blk_list)
      PROVE  ClaimOf(blk_list[j])' = IF j \in i .. i THEN [claims[j] EXCEPT !.state = "GET"] ELSE claims[j]
  <2>1. blk_list'[j] = blk_list[j] /\ blk_list[j] \in blk_set /\ (j # i => blk_list[j] # b)
    BY <1>1, <1>2, ElementOfSeq DEF rbb_blk_get, Positions, TypeOK
  <2>2. status'[blk_list[j]] = IF j \in i .. i THEN "GET" ELSE status[blk_list[j]]
    BY <2>1, <1>1, <1>2, <1>5 DEF rbb_blk_get, TypeOK
  <2>3. claims[j] = ClaimOf(blk_list[j])
    BY <1>3
  <2>. QED  BY <2>1, <2>2, <2>3 DEF ClaimOf, End, rbb_blk_get
<1>7. claims' = [j \in DOMAIN claims |-> IF j \in i .. i THEN [claims[j] EXCEPT !.state = "GET"]
                                        ELSE claims[j]]
  BY <1>3, <1>4, <1>6
<1>8. \A j \in 1 .. Len(blk_list) : claims[j].state = status[blk_list[j]]
  BY <1>3 DEF ClaimOf
<1>9. Pool!Take(i, i)
  BY <1>2, <1>5, <1>7, <1>8 DEF Pool!Take, IsFirstPut
<1>. QED  BY <1>3, <1>5, <1>9 DEF Pool!Next

\* rbb_blk_free releases a claim, wherever its block is on the chain.
LEMMA FreeReleases ==
  ASSUME ListInv, ListInv', NEW b \in blk_set, rbb_blk_free(b)
  PROVE  Pool!Next
<1>1. PICK r \in 1 .. Len(blk_list) :
         /\ blk_list[r] = b
         /\ Len(blk_list') = Len(blk_list) - 1
         /\ \A i \in 1 .. Len(blk_list) - 1 :
               blk_list'[i] = IF i < r THEN blk_list[i] ELSE blk_list[i + 1]
         /\ status' = [status EXCEPT ![b] = "UNUSED"]
         /\ UNCHANGED <<buf, size>>
  BY FreeStep
<1>2. TypeOK /\ TypeOK' /\ Positions
  BY ListsByPosition DEF ListInv
<1>3. Len(blk_list) \in Nat /\ \A i \in 1 .. Len(blk_list) : blk_list[i] \in blk_set
  BY <1>2, LenProperties, ElementOfSeq DEF TypeOK
<1>4. /\ claims \in Seq(Claim) /\ Len(claims) = Len(blk_list)
      /\ \A j \in 1 .. Len(blk_list) : claims[j] = ClaimOf(blk_list[j])
  BY <1>2, ClaimsByPosition
<1>5. /\ claims' \in Seq(Claim) /\ Len(claims') = Len(blk_list) - 1
      /\ \A j \in 1 .. Len(blk_list) - 1 :
            claims'[j] = [state |-> status'[blk_list'[j]], lo |-> buf'[blk_list'[j]],
                          hi |-> buf'[blk_list'[j]] + size'[blk_list'[j]]]
  BY <1>1, <1>2, ClaimsByPosition
<1>6. \A d \in blk_set : d # b =>
         ClaimOf(d) = [state |-> status'[d], lo |-> buf'[d], hi |-> buf'[d] + size'[d]]
  BY <1>1, <1>2 DEF ClaimOf, End, TypeOK
<1>7. ASSUME NEW j \in 1 .. Len(blk_list) - 1
      PROVE  claims'[j] = IF j < r THEN claims[j] ELSE claims[j + 1]
  <2>1. PICK k \in 1 .. Len(blk_list) : k = IF j < r THEN j ELSE j + 1
    BY <1>3
  <2>2. PICK d \in blk_set : d = blk_list[k]
    BY <1>3
  <2>3. blk_list'[j] = d /\ d # b
    BY <2>1, <2>2, <1>1, <1>2, <1>3 DEF Positions
  <2>4. claims'[j] = claims[k]
    BY <2>2, <2>3, <1>4, <1>5, <1>6
  <2>. QED  BY <2>1, <2>4
<1>8. claims' = RemoveAt(claims, r)
  <2>1. PICK s : s = RemoveAt(claims, r)
    OBVIOUS
  <2>2. /\ s \in Seq(Claim) /\ Len(s) = Len(blk_list) - 1
        /\ \A i \in 1 .. Len(blk_list) - 1 : s[i] = IF i < r THEN claims[i] ELSE claims[i + 1]
    BY <2>1, <1>4, RemoveAtProperties
  <2>3. claims' = s
    BY <2>2, <1>5, <1>7, SeqEqual
  <2>. QED  BY <2>1, <2>3
<1>9. Pool!Release(r)
  BY <1>8, Zenon DEF Pool!Release, Pool!RemoveAt, RemoveAt
<1>. QED  BY <1>4, <1>9 DEF Pool!Next

\* Each step of the buffer is a step of the pool or leaves the claims alone.
LEMMA StepOfThePool ==
  ASSUME SizesFit
  PROVE  ArenaInv /\ ArenaInv' /\ [Next]_vars => [Pool!Next]_claims
<1>. SUFFICES ASSUME ArenaInv, ArenaInv', [Next]_vars PROVE [Pool!Next]_claims
  OBVIOUS
<1>1. ListInv /\ ListInv'
  BY DEF ArenaInv
<1>2. ASSUME UNCHANGED <<status, buf, size, blk_list>> PROVE claims' = claims
  BY <1>2 DEF claims, End
<1>3. ASSUME NEW n \in BlkSizes, NEW at, AllocBlock(n, at) PROVE Pool!Next
  BY <1>3, AllocGrants
<1>4. ASSUME NEW n \in BlkSizes, AllocNoSpace(n) PROVE claims' = claims
  BY <1>2, <1>4 DEF AllocNoSpace
<1>5. ASSUME UNCHANGED vars PROVE claims' = claims
  BY <1>2, <1>5 DEF vars
<1>6. ASSUME NEW b \in blk_set, rbb_blk_put(b) PROVE Pool!Next
  BY <1>1, <1>6, PutPublishes
<1>7. ASSUME NEW b \in blk_set, rbb_blk_get(b) PROVE Pool!Next
  BY <1>1, <1>7, GetTakes
<1>8. ASSUME NEW b \in blk_set, rbb_blk_free(b) PROVE Pool!Next
  BY <1>1, <1>8, FreeReleases
<1>. QED  BY <1>3, <1>4, <1>5, <1>6, <1>7, <1>8
          DEF Next, rbb_blk_alloc, AllocNoDescriptor

\* The ring block buffer implements the abstract pool.
THEOREM RingBlkIsAPool ==
  ASSUME SizesFit
  PROVE  Spec => PoolSpec
BY StepOfThePool, InitPool, ArenaInvariant, PTL DEF Spec, PoolSpec, Pool!Spec

-----------------------------------------------------------------------------
\* The queues.

QueueCounted ==
  /\ taken \in Seq(blk_set)
  /\ blk_queue.blk_num = Len(taken)
  /\ taken # << >> => blk_queue.blocks = taken[1]

\* While a block is freed the pointer to the next one is kept.
QueueLooksAhead ==
  /\ stage \in {"next", "free"}
  /\ stage = "free" => taken # << >> /\ (Len(taken) > 1 => next_blk = taken[2])

TakenFrom(i) ==
  /\ i + Len(taken) - 1 <= Len(blk_list)
  /\ \A d \in 1 .. Len(taken) : blk_list[i + d - 1] = taken[d] /\ status[taken[d]] = "GET"

\* The blocks of the queue are neighbours on the chain.
QueueOnChain == taken # << >> => \E i \in 1 .. Len(blk_list) : TakenFrom(i)

WalkInv == QueueCounted /\ QueueLooksAhead /\ QueueOnChain

\* What rbb_blk_queue_get does, in positions.
LEMMA QueueGetStep ==
  ASSUME ListInv, WalkInv, NEW queue_data_len, rbb_blk_queue_get(queue_data_len)
  PROVE  \E i, k \in 1 .. Len(blk_list) :
            /\ i <= k
            /\ taken' \in Seq(blk_set) /\ Len(taken') = k - i + 1
            /\ \A d \in 1 .. k - i + 1 : taken'[d] = blk_list[i + d - 1]
            /\ blk_queue'.blocks = blk_list[i] /\ blk_queue'.blk_num = k - i + 1
            /\ taken = << >> /\ stage = "next"
            /\ status' \in [blk_set -> rbb_status]
            /\ \A d \in 1 .. k - i + 1 : status'[taken'[d]] = "GET"
            /\ \A b \in blk_set : status'[b] = "UNUSED" <=> status[b] = "UNUSED"
            /\ \A j \in (i + 1) .. k : buf[blk_list[j - 1]] <= buf[blk_list[j]]
            /\ UNCHANGED <<buf, size, blk_list, free_list, tail, next_blk, stage>>
<1>1. PICK i, k \in 1 .. Len(blk_list) :
         /\ IsFirstPut(i)
         /\ i <= k
         /\ \A j \in (i + 1) .. k : CanFollow(i, j, queue_data_len)
         /\ blk_queue' = [blocks |-> blk_list[i], blk_num |-> k - i + 1]
         /\ taken' = SubSeq(blk_list, i, k)
         /\ status' = [b \in blk_set |-> IF b \in Range(taken') THEN "GET" ELSE status[b]]
  BY DEF rbb_blk_queue_get
<1>2. /\ blk_queue.blk_num = 0
      /\ UNCHANGED <<buf, size, blk_list, free_list, tail, next_blk, stage>>
  BY DEF rbb_blk_queue_get
<1>3. /\ Positions /\ TypeOK /\ Len(blk_list) \in Nat
      /\ \A j \in 1 .. Len(blk_list) : blk_list[j] \in blk_set
  BY ListsByPosition, LenProperties, ElementOfSeq DEF ListInv, TypeOK
<1>4. /\ taken' \in Seq(blk_set) /\ Len(taken') = k - i + 1
      /\ \A d \in 1 .. k - i + 1 : taken'[d] = blk_list[i + d - 1]
  <2>1. i \in Int /\ k \in Int /\ \A j \in i .. k : blk_list[j] \in blk_set
    BY <1>3
  <2>2. /\ taken' \in Seq(blk_set)
        /\ Len(taken') = IF i <= k THEN k - i + 1 ELSE 0
        /\ \A d \in 1 .. k - i + 1 : taken'[d] = blk_list[i + d - 1]
    BY <2>1, <1>1, SubSeqProperties
  <2>. QED  BY <2>2, <1>1
<1>5. taken = << >> /\ stage = "next"
  <2>1. taken = << >>
    BY <1>2, EmptySeq DEF WalkInv, QueueCounted
  <2>. QED  BY <2>1 DEF WalkInv, QueueLooksAhead
<1>6. \A b : b \in Range(taken') <=> \E d \in 1 .. Len(taken') : taken'[d] = b
  BY <1>4, RangeByPosition
<1>7. status[blk_list[i]] = "PUT" /\ \A j \in (i + 1) .. k : status[blk_list[j]] = "PUT"
  BY <1>1 DEF IsFirstPut, CanFollow
<1>8. ASSUME NEW d \in 1 .. k - i + 1
      PROVE  /\ taken'[d] \in blk_set /\ taken'[d] \in Range(taken')
             /\ status[taken'[d]] = "PUT"
  <2>1. i + d - 1 \in 1 .. Len(blk_list) /\ (i + d - 1 = i \/ i + d - 1 \in (i + 1) .. k)
    BY <1>3
  <2>2. taken'[d] = blk_list[i + d - 1] /\ d \in 1 .. Len(taken')
    BY <1>4
  <2>. QED  BY <2>1, <2>2, <1>3, <1>6, <1>7
<1>9. \A d \in 1 .. k - i + 1 : status'[taken'[d]] = "GET"
  BY <1>1, <1>8
<1>10. \A b \in blk_set : status'[b] = "UNUSED" <=> status[b] = "UNUSED"
  <2>1. ASSUME NEW b \in blk_set
        PROVE  status'[b] = "UNUSED" <=> status[b] = "UNUSED"
    <3>1. CASE b \in Range(taken')
      <4>1. PICK d \in 1 .. Len(taken') : taken'[d] = b
        BY <3>1, <1>6
      <4>2. status[b] = "PUT"
        BY <4>1, <1>4, <1>8
      <4>3. status'[b] = "GET"
        BY <3>1, <1>1
      <4>. QED  BY <4>2, <4>3
    <3>2. CASE b \notin Range(taken')
      BY <3>2, <1>1
    <3>. QED  BY <3>1, <3>2
  <2>. QED  BY <2>1
<1>11. status' \in [blk_set -> rbb_status]
  BY <1>1, <1>3 DEF TypeOK, rbb_status
<1>12. \A j \in (i + 1) .. k : buf[blk_list[j - 1]] <= buf[blk_list[j]]
  BY <1>1 DEF CanFollow
<1>. QED  BY <1>1, <1>2, <1>4, <1>5, <1>9, <1>10, <1>11, <1>12

\* Marking the blocks of a queue leaves both chains as they are.
LEMMA QueueGetKeepsListInv ==
  ASSUME ListInv, WalkInv, NEW queue_data_len, rbb_blk_queue_get(queue_data_len)
  PROVE  ListInv'
<1>1. /\ status' \in [blk_set -> rbb_status]
      /\ \A b \in blk_set : status'[b] = "UNUSED" <=> status[b] = "UNUSED"
      /\ UNCHANGED <<buf, size, blk_list, free_list, tail>>
  BY QueueGetStep
<1>2. Positions /\ TypeOK /\ TailIsLast
  BY ListsByPosition DEF ListInv
<1>3. TypeOK'
  BY <1>1, <1>2 DEF TypeOK
<1>4. Positions'
  <2>1. \A i \in 1 .. Len(free_list) : free_list[i] \in blk_set
    BY <1>2, ElementOfSeq DEF TypeOK
  <2>2. \A i \in 1 .. Len(free_list) : status'[free_list[i]] = "UNUSED"
    BY <2>1, <1>1, <1>2 DEF Positions
  <2>3. \A c \in blk_set :
           status'[c] # "UNUSED" <=> \E i \in 1 .. Len(blk_list) : blk_list[i] = c
    BY <1>1, <1>2, Zenon DEF Positions
  <2>4. /\ \A i, j \in 1 .. Len(blk_list) : blk_list[i] = blk_list[j] => i = j
        /\ \A i, j \in 1 .. Len(free_list) : free_list[i] = free_list[j] => i = j
    BY <1>2, Zenon DEF Positions
  <2>5. blk_list' = blk_list /\ free_list' = free_list
    BY <1>1
  <2>. QED  BY <2>2, <2>3, <2>4, <2>5, Zenon DEF Positions
<1>5. TailIsLast'
  BY <1>1, <1>2 DEF TailIsLast
<1>. QED  BY <1>3, <1>4, <1>5, ListsByPosition DEF ListInv

\* The queue as it was taken.
LEMMA GetKeepsWalkInv ==
  ASSUME ListInv, WalkInv, NEW queue_data_len, rbb_blk_queue_get(queue_data_len)
  PROVE  WalkInv'
<1>1. PICK i, k \in 1 .. Len(blk_list) :
         /\ i <= k
         /\ taken' \in Seq(blk_set) /\ Len(taken') = k - i + 1
         /\ \A d \in 1 .. k - i + 1 : taken'[d] = blk_list[i + d - 1]
         /\ blk_queue'.blocks = blk_list[i] /\ blk_queue'.blk_num = k - i + 1
         /\ stage = "next"
         /\ \A d \in 1 .. k - i + 1 : status'[taken'[d]] = "GET"
         /\ UNCHANGED <<blk_list, stage>>
  BY QueueGetStep
<1>2. Len(blk_list) \in Nat
  BY LenProperties DEF ListInv, TypeOK
<1>3. QueueCounted'
  <2>1. taken'[1] = blk_list[i]
    BY <1>1, <1>2
  <2>. QED  BY <2>1, <1>1 DEF QueueCounted
<1>4. QueueLooksAhead'
  BY <1>1 DEF QueueLooksAhead
<1>5. TakenFrom(i)'
  BY <1>1, <1>2 DEF TakenFrom
<1>6. i \in 1 .. Len(blk_list')
  BY <1>1
<1>. QED  BY <1>3, <1>4, <1>5, <1>6 DEF WalkInv, QueueOnChain

\* The pointer to the next block, looked up outside the critical section.
LEMMA LookKeepsWalkInv ==
  ASSUME ListInv, WalkInv, NextBlk
  PROVE  WalkInv'
<1>1. /\ Positions /\ Len(blk_list) \in Nat
      /\ \A j \in 1 .. Len(blk_list) : blk_list[j] \in blk_set
      /\ \A b : b \in Range(blk_list) <=> \E j \in 1 .. Len(blk_list) : blk_list[j] = b
  BY ListsByPosition, LenProperties, ElementOfSeq, RangeByPosition DEF ListInv, TypeOK
<1>2. /\ taken \in Seq(blk_set) /\ Len(taken) \in Nat /\ Len(taken) > 0
      /\ blk_queue.blocks = taken[1] /\ taken # << >>
  BY LenProperties DEF NextBlk, WalkInv, QueueCounted
<1>3. PICK i \in 1 .. Len(blk_list) : TakenFrom(i)
  BY <1>2 DEF WalkInv, QueueOnChain
<1>4. blk_list[i] = taken[1]
  BY <1>1, <1>2, <1>3 DEF TakenFrom
<1>5. ASSUME Len(taken) > 1 PROVE NextOf(taken[1]) = taken[2]
  <2>1. i + 1 \in 1 .. Len(blk_list) /\ blk_list[i + 1] = taken[2]
    <3>1. 2 \in 1 .. Len(taken) /\ i + 2 - 1 = i + 1 /\ i + 1 <= Len(blk_list)
      BY <1>1, <1>2, <1>3, <1>5 DEF TakenFrom
    <3>. QED  BY <3>1, <1>3 DEF TakenFrom
  <2>2. taken[1] # blk_list[Len(blk_list)]
    BY <2>1, <1>1, <1>4 DEF Positions
  <2>3. taken[1] \in Range(blk_list)
    BY <1>1, <1>4
  <2>4. (CHOOSE j \in 1 .. Len(blk_list) : blk_list[j] = taken[1]) = i
    <3>1. \A j \in 1 .. Len(blk_list) : blk_list[j] = taken[1] <=> j = i
      BY <1>1, <1>4 DEF Positions
    <3>. QED  BY <3>1
  <2>. QED  BY <2>1, <2>2, <2>3, <2>4 DEF NextOf
<1>6. /\ next_blk' = NextOf(taken[1]) /\ stage' = "free"
      /\ UNCHANGED <<taken, blk_queue, blk_list, status>>
  BY <1>2 DEF NextBlk, vars
<1>7. QueueLooksAhead'
  BY <1>2, <1>5, <1>6 DEF QueueLooksAhead
<1>. QED  BY <1>6, <1>7 DEF WalkInv, QueueCounted, QueueOnChain, TakenFrom

\* The first block of the queue is freed, and the one found before is the first.
LEMMA FreeKeepsWalkInv ==
  ASSUME ListInv, WalkInv, FreeBlk
  PROVE  WalkInv'
<1>1. /\ Positions /\ TypeOK /\ Len(blk_list) \in Nat
      /\ \A j \in 1 .. Len(blk_list) : blk_list[j] \in blk_set
  BY ListsByPosition, LenProperties, ElementOfSeq DEF ListInv, TypeOK
<1>2. /\ taken \in Seq(blk_set) /\ Len(taken) \in Nat \ {0} /\ taken # << >>
      /\ blk_queue.blk_num = Len(taken) /\ blk_queue.blocks = taken[1]
      /\ taken[1] \in blk_set
      /\ Len(taken) > 1 => next_blk = taken[2]
  <2>1. taken # << >> /\ taken \in Seq(blk_set)
    BY DEF FreeBlk, WalkInv, QueueLooksAhead, QueueCounted
  <2>2. Len(taken) \in Nat \ {0}
    BY <2>1, LenProperties, EmptySeq
  <2>3. taken[1] \in blk_set
    BY <2>1, <2>2, ElementOfSeq
  <2>. QED  BY <2>1, <2>2, <2>3 DEF FreeBlk, WalkInv, QueueLooksAhead, QueueCounted
<1>3. PICK i \in 1 .. Len(blk_list) : TakenFrom(i)
  BY <1>2 DEF WalkInv, QueueOnChain
<1>4. /\ rbb_blk_free(taken[1])
      /\ blk_queue'.blocks = next_blk /\ blk_queue'.blk_num = Len(taken) - 1
      /\ taken' = Tail(taken) /\ stage' = "next"
  BY <1>2 DEF FreeBlk
<1>5. PICK r \in 1 .. Len(blk_list) :
         /\ blk_list[r] = taken[1]
         /\ Len(blk_list') = Len(blk_list) - 1
         /\ \A j \in 1 .. Len(blk_list) - 1 :
               blk_list'[j] = IF j < r THEN blk_list[j] ELSE blk_list[j + 1]
         /\ status' = [status EXCEPT ![taken[1]] = "UNUSED"]
  BY <1>2, <1>4, FreeStep
<1>6. r = i
  BY <1>1, <1>2, <1>3, <1>5 DEF TakenFrom, Positions
<1>7. /\ taken' \in Seq(blk_set) /\ Len(taken') = Len(taken) - 1
      /\ \A d \in 1 .. Len(taken') : taken'[d] = taken[d + 1]
  BY <1>2, <1>4, HeadTailProperties
<1>8. QueueCounted'
  <2>1. ASSUME taken' # << >> PROVE blk_queue'.blocks = taken'[1]
    <3>1. Len(taken') # 0
      BY <2>1, <1>7, EmptySeq
    <3>. QED  BY <3>1, <1>2, <1>4, <1>7
  <2>. QED  BY <2>1, <1>4, <1>7 DEF QueueCounted
<1>9. QueueLooksAhead'
  BY <1>4 DEF QueueLooksAhead
<1>10. ASSUME taken' # << >> PROVE i \in 1 .. Len(blk_list') /\ TakenFrom(i)'
  <2>1. Len(taken') # 0
    BY <1>10, <1>7, EmptySeq
  <2>2. i + Len(taken) - 1 <= Len(blk_list)
    BY <1>3 DEF TakenFrom
  <2>3. i \in 1 .. Len(blk_list') /\ i + Len(taken') - 1 <= Len(blk_list')
    BY <2>1, <2>2, <1>1, <1>2, <1>5, <1>7
  <2>4. ASSUME NEW d \in 1 .. Len(taken')
        PROVE  blk_list'[i + d - 1] = taken'[d] /\ status'[taken'[d]] = "GET"
    <3>1. /\ d + 1 \in 1 .. Len(taken) /\ taken'[d] = taken[d + 1]
          /\ i + d - 1 \in 1 .. Len(blk_list) - 1 /\ ~ (i + d - 1 < r)
          /\ i + (d + 1) - 1 = (i + d - 1) + 1 /\ i + (d + 1) - 1 \in 1 .. Len(blk_list)
          /\ i + (d + 1) - 1 # i
      <4>1. d \in Nat /\ 1 <= d /\ d + 1 <= Len(taken) /\ taken'[d] = taken[d + 1]
        BY <1>2, <1>7
      <4>2. i \in Nat /\ 1 <= i /\ i + d <= Len(blk_list)
        BY <4>1, <2>2, <1>1, <1>2
      <4>. QED  BY <4>1, <4>2, <1>1, <1>2, <1>6
    <3>2. blk_list[i + (d + 1) - 1] = taken[d + 1] /\ status[taken[d + 1]] = "GET"
      BY <3>1, <1>3 DEF TakenFrom
    <3>3. blk_list'[i + d - 1] = taken'[d]
      BY <3>1, <3>2, <1>5
    <3>4. taken[d + 1] # taken[1] /\ taken[d + 1] \in blk_set
      BY <3>1, <3>2, <1>1, <1>5, <1>6 DEF Positions
    <3>. QED  BY <3>1, <3>2, <3>3, <3>4, <1>1, <1>2, <1>5 DEF TypeOK
  <2>. QED  BY <2>3, <2>4 DEF TakenFrom
<1>. QED  BY <1>8, <1>9, <1>10 DEF WalkInv, QueueOnChain

\* Where the chain keeps the blocks of the queue together and their status,
\* they are still a queue.
LEMMA ChainKeepsWalkInv ==
  ASSUME WalkInv, UNCHANGED walk,
         taken # << >> => \E i \in 1 .. Len(blk_list') : TakenFrom(i)'
  PROVE  WalkInv'
<1>1. UNCHANGED <<blk_queue, next_blk, stage, taken>>
  BY DEF walk
<1>2. QueueCounted' /\ QueueLooksAhead'
  BY <1>1 DEF WalkInv, QueueCounted, QueueLooksAhead
<1>3. QueueOnChain'
  BY <1>1 DEF QueueOnChain
<1>. QED  BY <1>2, <1>3 DEF WalkInv

\* A block allocated meanwhile is appended behind the queue.
LEMMA AllocKeepsWalkInv ==
  ASSUME ListInv, WalkInv, NEW n \in BlkSizes, rbb_blk_alloc(n), UNCHANGED walk
  PROVE  WalkInv'
<1>1. /\ TypeOK /\ Len(blk_list) \in Nat /\ taken' = taken /\ Len(taken) \in Nat
      /\ \A d \in 1 .. Len(taken) : taken[d] \in blk_set
  BY LenProperties, ElementOfSeq DEF ListInv, TypeOK, WalkInv, QueueCounted, walk
<1>2. ASSUME NEW at, AllocBlock(n, at), NEW i \in 1 .. Len(blk_list), TakenFrom(i)
      PROVE  i \in 1 .. Len(blk_list') /\ TakenFrom(i)'
  <2>1. PICK new \in blk_set :
           /\ \A j \in 1 .. Len(blk_list) : blk_list[j] # new
           /\ blk_list' = Append(blk_list, new)
           /\ status' = [status EXCEPT ![new] = "INITED"]
    BY <1>2, AllocStep
  <2>2. /\ Len(blk_list') = Len(blk_list) + 1
        /\ \A j \in 1 .. Len(blk_list) : blk_list'[j] = blk_list[j]
    BY <2>1, <1>1, AppendProperties DEF TypeOK
  <2>3. ASSUME NEW d \in 1 .. Len(taken)
        PROVE  blk_list'[i + d - 1] = taken[d] /\ status'[taken[d]] = "GET"
    <3>1. blk_list[i + d - 1] = taken[d] /\ status[taken[d]] = "GET"
      BY <1>2 DEF TakenFrom
    <3>2. i + d - 1 \in 1 .. Len(blk_list)
      BY <1>1, <1>2 DEF TakenFrom
    <3>. QED  BY <3>1, <3>2, <2>1, <2>2, <1>1 DEF TypeOK
  <2>4. i + Len(taken) - 1 <= Len(blk_list')
    BY <2>2, <1>1, <1>2 DEF TakenFrom
  <2>. QED  BY <2>2, <2>3, <2>4, <1>1 DEF TakenFrom
<1>3. ASSUME UNCHANGED <<status, blk_list>>, NEW i \in 1 .. Len(blk_list), TakenFrom(i)
      PROVE  i \in 1 .. Len(blk_list') /\ TakenFrom(i)'
  BY <1>1, <1>3 DEF TakenFrom
<1>4. \/ \E at : AllocBlock(n, at)
      \/ UNCHANGED <<status, blk_list>>
  BY DEF rbb_blk_alloc, AllocNoSpace, AllocNoDescriptor, vars
<1>5. taken # << >> => \E i \in 1 .. Len(blk_list') : TakenFrom(i)'
  <2>. SUFFICES ASSUME taken # << >> PROVE \E i \in 1 .. Len(blk_list') : TakenFrom(i)'
    OBVIOUS
  <2>1. PICK i \in 1 .. Len(blk_list) : TakenFrom(i)
    BY DEF WalkInv, QueueOnChain
  <2>2. i \in 1 .. Len(blk_list') /\ TakenFrom(i)'
    BY <2>1, <1>2, <1>3, <1>4
  <2>. QED  BY <2>2
<1>. QED  BY <1>5, ChainKeepsWalkInv

\* Putting a block and taking a single one concern blocks that are not GET.
LEMMA MarkKeepsWalkInv ==
  ASSUME ListInv, WalkInv, NEW b \in blk_set, rbb_blk_put(b) \/ rbb_blk_get(b),
         UNCHANGED walk
  PROVE  WalkInv'
<1>1. TypeOK /\ taken' = taken /\ \A d \in 1 .. Len(taken) : taken[d] \in blk_set
  BY ElementOfSeq DEF ListInv, WalkInv, QueueCounted, walk
<1>2. /\ status[b] # "GET" /\ blk_list' = blk_list
      /\ \A c \in blk_set : c # b => status'[c] = status[c]
  <2>1. CASE rbb_blk_put(b)
    BY <2>1, <1>1 DEF rbb_blk_put, TypeOK
  <2>2. CASE rbb_blk_get(b)
    BY <2>2, <1>1 DEF rbb_blk_get, IsFirstPut, TypeOK
  <2>. QED  BY <2>1, <2>2
<1>3. \A i : TakenFrom(i) => TakenFrom(i)'
  BY <1>1, <1>2 DEF TakenFrom
<1>. QED  BY <1>2, <1>3, ChainKeepsWalkInv DEF WalkInv, QueueOnChain

\* A block that another task frees stood before the queue or behind it.
LEMMA OtherFreeKeepsWalkInv ==
  ASSUME ListInv, WalkInv, NEW b \in blk_set \ Range(taken), rbb_blk_free(b),
         UNCHANGED walk
  PROVE  WalkInv'
<1>1. /\ TypeOK /\ Len(blk_list) \in Nat /\ taken' = taken /\ taken \in Seq(blk_set)
      /\ Len(taken) \in Nat /\ \A d \in 1 .. Len(taken) : taken[d] \in blk_set
  BY LenProperties, ElementOfSeq DEF ListInv, TypeOK, WalkInv, QueueCounted, walk
<1>2. PICK r \in 1 .. Len(blk_list) :
         /\ blk_list[r] = b
         /\ Len(blk_list') = Len(blk_list) - 1
         /\ \A j \in 1 .. Len(blk_list) - 1 :
               blk_list'[j] = IF j < r THEN blk_list[j] ELSE blk_list[j + 1]
         /\ status' = [status EXCEPT ![b] = "UNUSED"]
  BY FreeStep
<1>3. \A d \in 1 .. Len(taken) : taken[d] # b
  BY <1>1, RangeByPosition
<1>4. ASSUME taken # << >> PROVE \E i \in 1 .. Len(blk_list') : TakenFrom(i)'
  <2>1. PICK i \in 1 .. Len(blk_list) : TakenFrom(i)
    BY <1>4 DEF WalkInv, QueueOnChain
  <2>2. /\ i + Len(taken) - 1 <= Len(blk_list)
        /\ \A d \in 1 .. Len(taken) :
              blk_list[i + d - 1] = taken[d] /\ status[taken[d]] = "GET"
    BY <2>1 DEF TakenFrom
  <2>3. Len(taken) # 0
    BY <1>1, <1>4, EmptySeq
  <2>4. ~ (i <= r /\ r <= i + Len(taken) - 1)
    <3>. SUFFICES ASSUME i <= r, r <= i + Len(taken) - 1 PROVE FALSE
      OBVIOUS
    <3>1. r - i + 1 \in 1 .. Len(taken) /\ i + (r - i + 1) - 1 = r
      BY <1>1
    <3>2. blk_list[i + (r - i + 1) - 1] = taken[r - i + 1]
      BY <3>1, <2>2
    <3>. QED  BY <3>1, <3>2, <1>2, <1>3
  <2>5. \A d \in 1 .. Len(taken) : status'[taken[d]] = "GET"
    BY <2>2, <1>1, <1>2, <1>3 DEF TypeOK
  <2>6. CASE r < i
    <3>1. i - 1 \in 1 .. Len(blk_list') /\ (i - 1) + Len(taken) - 1 <= Len(blk_list')
      BY <2>2, <2>3, <2>6, <1>1, <1>2
    <3>2. ASSUME NEW d \in 1 .. Len(taken) PROVE blk_list'[(i - 1) + d - 1] = taken[d]
      <4>1. /\ (i - 1) + d - 1 \in 1 .. Len(blk_list) - 1 /\ ~ ((i - 1) + d - 1 < r)
            /\ (i - 1) + d - 1 + 1 = i + d - 1
        BY <2>2, <2>6, <1>1
      <4>. QED  BY <4>1, <2>2, <1>2
    <3>3. TakenFrom(i - 1)'
      BY <3>1, <3>2, <2>5, <1>1 DEF TakenFrom
    <3>. QED  BY <3>1, <3>3
  <2>7. CASE i + Len(taken) - 1 < r
    <3>1. i \in 1 .. Len(blk_list') /\ i + Len(taken) - 1 <= Len(blk_list')
      BY <2>3, <2>7, <1>1, <1>2
    <3>2. ASSUME NEW d \in 1 .. Len(taken) PROVE blk_list'[i + d - 1] = taken[d]
      <4>1. i + d - 1 \in 1 .. Len(blk_list) - 1 /\ i + d - 1 < r
        BY <2>7, <1>1
      <4>. QED  BY <4>1, <2>2, <1>2
    <3>3. TakenFrom(i)'
      BY <3>1, <3>2, <2>5, <1>1 DEF TakenFrom
    <3>. QED  BY <3>1, <3>3
  <2>8. r < i \/ i + Len(taken) - 1 < r
    BY <2>4, <1>1
  <2>. QED  BY <2>6, <2>7, <2>8
<1>. QED  BY <1>4, ChainKeepsWalkInv

\* Both chains and the queue at once: ListInv for the steps of the consumer.
QueueInv == ListInv /\ WalkInv

\* No queue is taken at the beginning.
LEMMA InitQueueInv == QInit => QueueInv
<1>1. QInit => ListInv
  BY InitListInv DEF QInit
<1>2. QInit => WalkInv
  BY DEF QInit, WalkInv, QueueCounted, QueueLooksAhead, QueueOnChain
<1>. QED  BY <1>1, <1>2 DEF QueueInv

\* The walk along a queue is inductive, other tasks' steps included.
LEMMA NextQueueInv == QueueInv /\ [QNext]_qvars => QueueInv'
<1>. SUFFICES ASSUME ListInv, WalkInv, [QNext]_qvars PROVE ListInv' /\ WalkInv'
  BY DEF QueueInv
<1>1. ASSUME NEW queue_data_len \in QueueDataLens, rbb_blk_queue_get(queue_data_len)
      PROVE  ListInv' /\ WalkInv'
  BY <1>1, QueueGetKeepsListInv, GetKeepsWalkInv
<1>2. ASSUME NextBlk PROVE ListInv' /\ WalkInv'
  <2>1. UNCHANGED vars
    BY <1>2 DEF NextBlk
  <2>. QED  BY <2>1, <1>2, NextListInv, LookKeepsWalkInv
<1>3. ASSUME FreeBlk PROVE ListInv' /\ WalkInv'
  <2>1. blk_queue.blocks \in blk_set /\ rbb_blk_free(blk_queue.blocks)
    <3>1. taken # << >> /\ taken \in Seq(blk_set) /\ blk_queue.blocks = taken[1]
      BY <1>3 DEF FreeBlk, WalkInv, QueueLooksAhead, QueueCounted
    <3>2. 1 \in 1 .. Len(taken)
      BY <3>1, LenProperties, EmptySeq
    <3>. QED  BY <3>1, <3>2, <1>3, ElementOfSeq DEF FreeBlk
  <2>. QED  BY <2>1, <1>3, FreeKeepsListInv, FreeKeepsWalkInv
<1>4. ASSUME OtherTask PROVE ListInv' /\ WalkInv'
  <2>1. UNCHANGED walk
    BY <1>4 DEF OtherTask
  <2>2. ASSUME NEW n \in BlkSizes, rbb_blk_alloc(n) PROVE ListInv' /\ WalkInv'
    BY <2>1, <2>2, AllocKeepsWalkInv, NextListInv DEF Next
  <2>3. ASSUME NEW b \in blk_set, rbb_blk_put(b) \/ rbb_blk_get(b)
        PROVE  ListInv' /\ WalkInv'
    BY <2>1, <2>3, MarkKeepsWalkInv, NextListInv DEF Next
  <2>4. ASSUME NEW b \in blk_set \ Range(taken), rbb_blk_free(b)
        PROVE  ListInv' /\ WalkInv'
    BY <2>1, <2>4, OtherFreeKeepsWalkInv, FreeKeepsListInv
  <2>. QED  BY <1>4, <2>2, <2>3, <2>4 DEF OtherTask
<1>5. ASSUME UNCHANGED qvars PROVE ListInv' /\ WalkInv'
  <2>1. UNCHANGED vars /\ UNCHANGED walk
    BY <1>5 DEF qvars
  <2>2. WalkInv'
    BY <2>1 DEF vars, walk, WalkInv, QueueCounted, QueueLooksAhead, QueueOnChain, TakenFrom
  <2>. QED  BY <2>1, <2>2, NextListInv
<1>. QED  BY <1>1, <1>2, <1>3, <1>4, <1>5 DEF QNext

\* The queue is a part of the chain.
LEMMA RunIsSubSeq ==
  ASSUME ListInv, WalkInv, NEW i \in 1 .. Len(blk_list), TakenFrom(i)
  PROVE  taken = SubSeq(blk_list, i, i + Len(taken) - 1)
<1>1. /\ Len(blk_list) \in Nat /\ taken \in Seq(blk_set) /\ Len(taken) \in Nat
      /\ \A j \in 1 .. Len(blk_list) : blk_list[j] \in blk_set
  BY LenProperties, ElementOfSeq DEF ListInv, TypeOK, WalkInv, QueueCounted
<1>2. /\ i + Len(taken) - 1 <= Len(blk_list)
      /\ \A d \in 1 .. Len(taken) : blk_list[i + d - 1] = taken[d]
  BY DEF TakenFrom
<1>3. PICK k : k = i + Len(taken) - 1 /\ k \in Int
  <2>1. i + Len(taken) - 1 \in Int
    BY <1>1
  <2>. QED  BY <2>1
<1>4. PICK s : s = SubSeq(blk_list, i, k)
  OBVIOUS
<1>5. /\ s \in Seq(blk_set)
      /\ Len(s) = IF i <= k THEN k - i + 1 ELSE 0
      /\ \A d \in 1 .. k - i + 1 : s[d] = blk_list[i + d - 1]
  <2>1. i \in Int /\ \A j \in i .. k : blk_list[j] \in blk_set
    BY <1>1, <1>2, <1>3
  <2>. QED  BY <2>1, <1>3, <1>4, SubSeqProperties
<1>6. Len(s) = Len(taken) /\ \A d \in 1 .. Len(taken) : s[d] = taken[d]
  BY <1>1, <1>2, <1>3, <1>5
<1>7. s = taken
  BY <1>1, <1>5, <1>6, SeqEqual
<1>. QED  BY <1>3, <1>4, <1>7

\* A queue that is found again block by block along blk_list is the queue that
\* was taken, whatever other tasks allocate, take and free in between.
THEOREM QueueIsFoundAgain == QSpec => []QueueWalk
<1>1. QueueInv => QueueWalk
  <2>. SUFFICES ASSUME ListInv, WalkInv, blk_queue.blk_num > 0
                PROVE  \E i \in 1 .. Len(blk_list) :
                         /\ blk_list[i] = blk_queue.blocks
                         /\ taken = SubSeq(blk_list, i, i + blk_queue.blk_num - 1)
                         /\ \A b \in Range(taken) : status[b] = "GET"
                         /\ stage = "free" /\ Len(taken) > 1 => next_blk = taken[2]
    BY DEF QueueInv, QueueWalk
  <2>1. /\ taken \in Seq(blk_set) /\ Len(taken) \in Nat /\ blk_queue.blk_num = Len(taken)
        /\ taken # << >> /\ blk_queue.blocks = taken[1]
        /\ Len(blk_list) \in Nat
    BY LenProperties DEF WalkInv, QueueCounted, ListInv, TypeOK
  <2>2. PICK i \in 1 .. Len(blk_list) : TakenFrom(i)
    BY <2>1 DEF WalkInv, QueueOnChain
  <2>3. blk_list[i] = blk_queue.blocks
    BY <2>1, <2>2 DEF TakenFrom
  <2>4. taken = SubSeq(blk_list, i, i + blk_queue.blk_num - 1)
    BY <2>1, <2>2, RunIsSubSeq
  <2>5. \A b \in Range(taken) : status[b] = "GET"
    <3>1. \A b : b \in Range(taken) <=> \E d \in 1 .. Len(taken) : taken[d] = b
      BY <2>1, RangeByPosition
    <3>. QED  BY <3>1, <2>2 DEF TakenFrom
  <2>6. stage = "free" /\ Len(taken) > 1 => next_blk = taken[2]
    BY DEF WalkInv, QueueLooksAhead
  <2>. QED  BY <2>3, <2>4, <2>5, <2>6
<1>. QED  BY <1>1, InitQueueInv, NextQueueInv, PTL DEF QSpec

-----------------------------------------------------------------------------
\* The queue in the arena.

\* Ranges p[j] .. e[j] of which each ends before the next begins are in order.
LEMMA NeighboursAscend ==
  ASSUME NEW i \in Nat, NEW k \in Nat,
         NEW p \in [i .. k -> Nat], NEW e \in [i .. k -> Nat],
         \A j \in i .. k : p[j] < e[j],
         \A j \in (i + 1) .. k : e[j - 1] <= p[j]
  PROVE  \A a, b \in i .. k : a < b => e[a] <= p[b]
<1>. DEFINE Near == {d \in Nat : \A a, b \in i .. k : b = a + d + 1 => e[a] <= p[b]}
<1>1. 0 \in Near
  <2>1. ASSUME NEW a \in i .. k, NEW b \in i .. k, b = a + 0 + 1 PROVE e[a] <= p[b]
    <3>1. b \in (i + 1) .. k /\ b - 1 = a
      BY <2>1
    <3>. QED  BY <3>1
  <2>. QED  BY <2>1
<1>2. ASSUME NEW d \in Nat, d \in Near PROVE d + 1 \in Near
  <2>1. ASSUME NEW a \in i .. k, NEW b \in i .. k, b = a + (d + 1) + 1 PROVE e[a] <= p[b]
    <3>1. b - 1 \in i .. k /\ b \in (i + 1) .. k /\ b - 1 = a + d + 1
      BY <2>1
    <3>2. e[a] <= p[b - 1]
      BY <3>1, <1>2
    <3>3. p[b - 1] < e[b - 1] /\ e[b - 1] <= p[b]
      BY <3>1
    <3>4. e[a] \in Nat /\ p[b - 1] \in Nat /\ e[b - 1] \in Nat /\ p[b] \in Nat
      BY <3>1
    <3>. QED  BY <3>2, <3>3, <3>4
  <2>. QED  BY <2>1
<1>3. Nat \subseteq Near
  <2>. HIDE DEF Near
  <2>. QED  BY <1>1, <1>2, SetInduction
<1>4. ASSUME NEW a \in i .. k, NEW b \in i .. k, a < b PROVE e[a] <= p[b]
  <2>1. b - a - 1 \in Nat /\ b = a + (b - a - 1) + 1
    BY <1>4
  <2>. QED  BY <2>1, <1>3
<1>. QED  BY <1>4

QueueArenaInv == QueueInv /\ Layout /\ QueueAscending

\* The neighbours that are compared when the queue is taken stand in order, as
\* they do not overlap.
LEMMA GetIsAscending ==
  ASSUME QueueArenaInv, NEW queue_data_len, rbb_blk_queue_get(queue_data_len)
  PROVE  Layout' /\ QueueAscending'
<1>1. PICK i, k \in 1 .. Len(blk_list) :
         /\ i <= k
         /\ Len(taken') = k - i + 1
         /\ \A d \in 1 .. k - i + 1 : taken'[d] = blk_list[i + d - 1]
         /\ \A j \in (i + 1) .. k : buf[blk_list[j - 1]] <= buf[blk_list[j]]
         /\ UNCHANGED <<buf, size, blk_list>>
  BY QueueGetStep DEF QueueArenaInv, QueueInv
<1>2. /\ TypeOK /\ Len(blk_list) \in Nat
      /\ \A j \in 1 .. Len(blk_list) : blk_list[j] \in blk_set
  BY LenProperties, ElementOfSeq DEF QueueArenaInv, QueueInv, ListInv, TypeOK
<1>3. PICK p : p = [j \in i .. k |-> buf[blk_list[j]]]
  OBVIOUS
<1>4. PICK e : e = [j \in i .. k |-> End(blk_list[j])]
  OBVIOUS
<1>5. ASSUME NEW j \in i .. k
      PROVE  /\ j \in 1 .. Len(blk_list)
             /\ p[j] = buf[blk_list[j]] /\ e[j] = buf[blk_list[j]] + size[blk_list[j]]
             /\ p[j] \in Nat /\ e[j] \in Nat /\ p[j] < e[j]
  <2>1. j \in 1 .. Len(blk_list)
    BY <1>2
  <2>2. size[blk_list[j]] > 0
    BY <2>1 DEF QueueArenaInv, Layout, SizesPositive
  <2>3. blk_list[j] \in blk_set
    BY <2>1, <1>2
  <2>4. PICK c \in blk_set : c = blk_list[j]
    BY <2>3
  <2>5. buf[c] \in Nat /\ size[c] \in Nat /\ size[c] > 0
    BY <2>2, <2>4, <1>2 DEF TypeOK
  <2>6. p[j] = buf[c] /\ e[j] = buf[c] + size[c]
    BY <2>4, <1>3, <1>4 DEF End
  <2>. QED  BY <2>1, <2>4, <2>5, <2>6
<1>6. ASSUME NEW j \in (i + 1) .. k PROVE e[j - 1] <= p[j]
  <2>1. j \in i .. k /\ j - 1 \in i .. k /\ j # j - 1
    OBVIOUS
  <2>2. j \in 1 .. Len(blk_list) /\ j - 1 \in 1 .. Len(blk_list)
    BY <2>1, <1>5
  <2>3. \/ End(blk_list[j - 1]) <= buf[blk_list[j]]
        \/ End(blk_list[j]) <= buf[blk_list[j - 1]]
    BY <2>1, <2>2 DEF QueueArenaInv, Layout, BlocksDisjoint
  <2>4. \/ e[j - 1] <= p[j]
        \/ e[j] <= p[j - 1]
    BY <2>1, <2>3, <1>5 DEF End
  <2>5. p[j - 1] <= p[j]
    BY <2>1, <1>1, <1>5
  <2>6. /\ p[j - 1] \in Nat /\ e[j - 1] \in Nat /\ p[j] \in Nat /\ e[j] \in Nat
        /\ p[j] < e[j]
    BY <2>1, <1>5
  <2>. QED  BY <2>4, <2>5, <2>6
<1>7. \A a, b \in i .. k : a < b => e[a] <= p[b]
  <2>1. p \in [i .. k -> Nat] /\ e \in [i .. k -> Nat] /\ i \in Nat /\ k \in Nat
    BY <1>2, <1>3, <1>4, <1>5
  <2>2. \A j \in i .. k : p[j] < e[j]
    BY <1>5
  <2>. QED  BY <2>1, <2>2, <1>6, NeighboursAscend
<1>8. QueueAscending'
  <2>1. ASSUME NEW a \in 1 .. Len(taken'), NEW b \in 1 .. Len(taken'), a < b
        PROVE  buf'[taken'[a]] + size'[taken'[a]] <= buf'[taken'[b]]
    <3>1. i + a - 1 \in i .. k /\ i + b - 1 \in i .. k /\ i + a - 1 < i + b - 1
      BY <2>1, <1>1, <1>2
    <3>2. e[i + a - 1] <= p[i + b - 1]
      BY <3>1, <1>7
    <3>3. taken'[a] = blk_list[i + a - 1] /\ taken'[b] = blk_list[i + b - 1]
      BY <1>1
    <3>4. /\ e[i + a - 1] = buf[taken'[a]] + size[taken'[a]]
          /\ p[i + b - 1] = buf[taken'[b]]
      BY <3>1, <3>3, <1>5
    <3>. QED  BY <3>2, <3>4, <1>1
  <2>. QED  BY <2>1 DEF QueueAscending, End
<1>9. Layout'
  BY <1>1 DEF QueueArenaInv, Layout, SizesPositive, BlocksInArena, BlocksDisjoint, RingOrder, End
<1>. QED  BY <1>8, <1>9

\* The blocks of a queue keep their place and size while other blocks change.
LEMMA QueueStaysAscending ==
  ASSUME QueueArenaInv, [Next]_vars, UNCHANGED taken
  PROVE  QueueAscending'
<1>1. /\ TypeOK /\ Len(blk_list) \in Nat /\ Len(taken) \in Nat
      /\ taken \in Seq(blk_set) /\ \A d \in 1 .. Len(taken) : taken[d] \in blk_set
  BY LenProperties, ElementOfSeq
     DEF QueueArenaInv, QueueInv, ListInv, TypeOK, WalkInv, QueueCounted
<1>2. ASSUME NEW d \in 1 .. Len(taken) PROVE \E j \in 1 .. Len(blk_list) : blk_list[j] = taken[d]
  <2>1. taken # << >>
    BY <1>1, <1>2
  <2>2. PICK i \in 1 .. Len(blk_list) : TakenFrom(i)
    BY <2>1 DEF QueueArenaInv, QueueInv, WalkInv, QueueOnChain
  <2>3. i + d - 1 \in 1 .. Len(blk_list) /\ blk_list[i + d - 1] = taken[d]
    BY <2>2, <1>1 DEF TakenFrom
  <2>. QED  BY <2>3
<1>3. ASSUME NEW n \in BlkSizes, NEW at, AllocBlock(n, at), NEW d \in 1 .. Len(taken)
      PROVE  buf'[taken[d]] = buf[taken[d]] /\ size'[taken[d]] = size[taken[d]]
  <2>1. PICK new \in blk_set :
           /\ \A j \in 1 .. Len(blk_list) : blk_list[j] # new
           /\ buf' = [buf EXCEPT ![new] = at]
           /\ size' = [size EXCEPT ![new] = n]
    BY <1>3, AllocStep DEF QueueArenaInv, QueueInv
  <2>2. taken[d] # new /\ taken[d] \in blk_set
    BY <2>1, <1>1, <1>2
  <2>. QED  BY <2>1, <2>2, <1>1 DEF TypeOK
<1>4. (\E n \in BlkSizes : \E at : AllocBlock(n, at)) \/ UNCHANGED <<buf, size>>
  BY DEF Next, rbb_blk_alloc, AllocNoSpace, AllocNoDescriptor, rbb_blk_put, rbb_blk_get,
         rbb_blk_free, vars
<1>5. \A d \in 1 .. Len(taken) :
         buf'[taken[d]] = buf[taken[d]] /\ size'[taken[d]] = size[taken[d]]
  BY <1>3, <1>4
<1>6. \A a, b \in 1 .. Len(taken) : a < b => buf[taken[a]] + size[taken[a]] <= buf[taken[b]]
  BY DEF QueueArenaInv, QueueAscending, End
<1>7. \A a, b \in 1 .. Len(taken') : a < b => buf'[taken'[a]] + size'[taken'[a]] <= buf'[taken'[b]]
  BY <1>5, <1>6
<1>. QED  BY <1>7 DEF QueueAscending, End

\* And so it is together with the placement of the blocks.
LEMMA NextQueueArenaInv ==
  ASSUME SizesFit
  PROVE  QueueArenaInv /\ [QNext]_qvars => QueueArenaInv'
<1>. SUFFICES ASSUME QueueArenaInv, [QNext]_qvars PROVE QueueArenaInv'
  OBVIOUS
<1>1. QueueInv'
  BY NextQueueInv DEF QueueArenaInv
<1>2. ArenaInv
  BY DEF QueueArenaInv, QueueInv, ArenaInv
<1>3. ASSUME [Next]_vars, UNCHANGED taken PROVE Layout' /\ QueueAscending'
  <2>1. Layout'
    BY <1>2, <1>3, NextLayout DEF ArenaInv
  <2>. QED  BY <2>1, <1>3, QueueStaysAscending
<1>4. ASSUME FreeBlk PROVE Layout' /\ QueueAscending'
  <2>1. /\ taken # << >> /\ taken \in Seq(blk_set) /\ blk_queue.blocks = taken[1]
        /\ taken' = Tail(taken)
    BY <1>4 DEF FreeBlk, QueueArenaInv, QueueInv, WalkInv, QueueLooksAhead, QueueCounted
  <2>2. taken[1] \in blk_set /\ rbb_blk_free(taken[1])
    <3>1. 1 \in 1 .. Len(taken)
      BY <2>1, LenProperties, EmptySeq
    <3>2. rbb_blk_free(blk_queue.blocks)
      BY <1>4 DEF FreeBlk
    <3>. QED  BY <3>1, <3>2, <2>1, ElementOfSeq
  <2>3. Layout'
    BY <2>2, <1>2, FreeKeepsLayout
  <2>4. buf' = buf /\ size' = size
    BY <2>2 DEF rbb_blk_free
  <2>5. /\ Len(taken) \in Nat /\ Len(taken') = Len(taken) - 1
        /\ \A d \in 1 .. Len(taken') : taken'[d] = taken[d + 1]
    BY <2>1, LenProperties, HeadTailProperties
  <2>6. \A a, b \in 1 .. Len(taken) : a < b => buf[taken[a]] + size[taken[a]] <= buf[taken[b]]
    BY DEF QueueArenaInv, QueueAscending, End
  <2>7. ASSUME NEW a \in 1 .. Len(taken'), NEW b \in 1 .. Len(taken'), a < b
        PROVE  buf'[taken'[a]] + size'[taken'[a]] <= buf'[taken'[b]]
    <3>1. a + 1 \in 1 .. Len(taken) /\ b + 1 \in 1 .. Len(taken) /\ a + 1 < b + 1
      BY <2>5, <2>7
    <3>2. taken'[a] = taken[a + 1] /\ taken'[b] = taken[b + 1]
      BY <2>5
    <3>. QED  BY <3>1, <3>2, <2>4, <2>6
  <2>8. QueueAscending'
    BY <2>7 DEF QueueAscending, End
  <2>. QED  BY <2>3, <2>8
<1>5. ASSUME OtherTask PROVE Layout' /\ QueueAscending'
  <2>1. Next /\ UNCHANGED taken
    BY <1>5 DEF OtherTask, Next, walk
  <2>. QED  BY <2>1, <1>3
<1>6. ASSUME NextBlk \/ UNCHANGED qvars PROVE Layout' /\ QueueAscending'
  <2>1. UNCHANGED vars /\ UNCHANGED taken
    BY <1>6 DEF NextBlk, qvars, walk
  <2>. QED  BY <2>1, <1>3
<1>7. Layout' /\ QueueAscending'
  BY <1>4, <1>5, <1>6, GetIsAscending DEF QNext
<1>. QED  BY <1>1, <1>7 DEF QueueArenaInv

-----------------------------------------------------------------------------
\* The buffer with queues is a pool as well.

\* rbb_blk_queue_get takes a run of the claims that were put, from the first.
LEMMA QueueGetTakes ==
  ASSUME ListInv, WalkInv, NEW queue_data_len, rbb_blk_queue_get(queue_data_len)
  PROVE  Pool!Next
<1>1. PICK i, k \in 1 .. Len(blk_list) :
         /\ IsFirstPut(i)
         /\ i <= k
         /\ \A j \in (i + 1) .. k : CanFollow(i, j, queue_data_len)
         /\ taken' = SubSeq(blk_list, i, k)
         /\ status' = [b \in blk_set |-> IF b \in Range(taken') THEN "GET" ELSE status[b]]
         /\ UNCHANGED <<buf, size, blk_list>>
  BY DEF rbb_blk_queue_get
<1>2. /\ TypeOK /\ Positions /\ Len(blk_list) \in Nat
      /\ \A j \in 1 .. Len(blk_list) : blk_list[j] \in blk_set
  BY ListsByPosition, LenProperties, ElementOfSeq DEF ListInv, TypeOK
<1>3. /\ DOMAIN claims = 1 .. Len(blk_list)
      /\ claims \in Seq(Claim) /\ Len(claims) = Len(blk_list)
      /\ \A j \in 1 .. Len(blk_list) : claims[j] = ClaimOf(blk_list[j])
  BY <1>2, ClaimsByPosition
<1>4. claims' = [j \in 1 .. Len(blk_list) |-> ClaimOf(blk_list[j])']
  BY <1>1 DEF claims, ClaimOf
<1>5. ASSUME NEW j \in 1 .. Len(blk_list)
      PROVE  blk_list[j] \in Range(taken') <=> j \in i .. k
  <2>1. i \in Int /\ k \in Int /\ \A m \in i .. k : blk_list[m] \in blk_set
    BY <1>2
  <2>2. /\ taken' \in Seq(blk_set)
        /\ Len(taken') = k - i + 1
        /\ \A d \in 1 .. k - i + 1 : taken'[d] = blk_list[i + d - 1]
    <3>1. /\ taken' \in Seq(blk_set)
          /\ Len(taken') = IF i <= k THEN k - i + 1 ELSE 0
          /\ \A d \in 1 .. k - i + 1 : taken'[d] = blk_list[i + d - 1]
      BY <2>1, <1>1, SubSeqProperties
    <3>. QED  BY <3>1, <1>1
  <2>3. blk_list[j] \in Range(taken') <=> \E d \in 1 .. Len(taken') : taken'[d] = blk_list[j]
    BY <2>2, RangeByPosition
  <2>4. ASSUME NEW d \in 1 .. Len(taken'), taken'[d] = blk_list[j] PROVE j \in i .. k
    <3>1. /\ i + d - 1 \in 1 .. Len(blk_list) /\ i + d - 1 \in i .. k
          /\ blk_list[i + d - 1] = blk_list[j]
      BY <2>2, <2>4, <1>2
    <3>. QED  BY <3>1, <1>2 DEF Positions
  <2>5. ASSUME j \in i .. k PROVE \E d \in 1 .. Len(taken') : taken'[d] = blk_list[j]
    <3>1. j - i + 1 \in 1 .. Len(taken') /\ i + (j - i + 1) - 1 = j
      BY <2>2, <2>5
    <3>2. taken'[j - i + 1] = blk_list[j]
      BY <3>1, <2>2
    <3>. QED  BY <3>1, <3>2
  <2>. QED  BY <2>3, <2>4, <2>5
<1>6. ASSUME NEW j \in 1 .. Len(blk_list)
      PROVE  ClaimOf(blk_list[j])' = IF j \in i .. k THEN [claims[j] EXCEPT !.state = "GET"] ELSE claims[j]
  <2>1. blk_list'[j] = blk_list[j] /\ blk_list[j] \in blk_set
    BY <1>1, <1>2
  <2>2. status'[blk_list[j]] = IF j \in i .. k THEN "GET" ELSE status[blk_list[j]]
    BY <2>1, <1>1, <1>5
  <2>3. claims[j] = ClaimOf(blk_list[j])
    BY <1>3
  <2>4. buf' = buf /\ size' = size
    BY <1>1
  <2>. QED  BY <2>1, <2>2, <2>3, <2>4 DEF ClaimOf, End
<1>7. claims' = [j \in DOMAIN claims |-> IF j \in i .. k THEN [claims[j] EXCEPT !.state = "GET"]
                                        ELSE claims[j]]
  BY <1>3, <1>4, <1>6
<1>8. \A j \in 1 .. Len(blk_list) : claims[j].state = status[blk_list[j]]
  BY <1>3 DEF ClaimOf
<1>9. /\ \A j \in i .. k : claims[j].state = "PUT"
      /\ \A j \in 1 .. (i - 1) : claims[j].state # "PUT"
  <2>1. \A j \in i .. k : j \in 1 .. Len(blk_list) /\ (j = i \/ j \in (i + 1) .. k)
    BY <1>2
  <2>2. \A j \in 1 .. (i - 1) : j \in 1 .. Len(blk_list)
    BY <1>2
  <2>. QED  BY <2>1, <2>2, <1>1, <1>8 DEF IsFirstPut, CanFollow
<1>10. Pool!Take(i, k)
  BY <1>7, <1>9 DEF Pool!Take
<1>11. i \in 1 .. Len(claims) /\ k \in i .. Len(claims)
  BY <1>1, <1>2, <1>3
<1>. QED  BY <1>10, <1>11 DEF Pool!Next

\* A step of the consumer that frees a block of its queue is one of the buffer.
LEMMA FreeBlkIsAFree ==
  ASSUME WalkInv, FreeBlk
  PROVE  Next
<1>1. taken # << >> /\ taken \in Seq(blk_set) /\ blk_queue.blocks = taken[1]
  BY DEF FreeBlk, WalkInv, QueueLooksAhead, QueueCounted
<1>2. 1 \in 1 .. Len(taken)
  BY <1>1, LenProperties, EmptySeq
<1>3. blk_queue.blocks \in blk_set
  BY <1>1, <1>2, ElementOfSeq
<1>. QED  BY <1>3 DEF FreeBlk, Next

\* Apart from rbb_blk_queue_get every step is one of the buffer, or leaves it
\* alone.
LEMMA StepOfTheBuffer ==
  ASSUME WalkInv, [QNext]_qvars
  PROVE  \/ \E queue_data_len \in QueueDataLens : rbb_blk_queue_get(queue_data_len)
         \/ [Next]_vars
<1>1. CASE NextBlk
  BY <1>1 DEF NextBlk
<1>2. CASE FreeBlk
  BY <1>2, FreeBlkIsAFree
<1>3. CASE OtherTask
  BY <1>3 DEF OtherTask, Next
<1>4. CASE UNCHANGED qvars
  BY <1>4 DEF qvars
<1>. QED  BY <1>1, <1>2, <1>3, <1>4 DEF QNext

\* With queues, too, the chains stay consistent and the blocks keep clear of
\* each other and in ring order.
THEOREM QueuesKeepArena ==
  ASSUME SizesFit
  PROVE  QSpec => []QueueArenaInv
<1>1. QInit => QueueArenaInv
  <2>1. QInit => blk_list = << >> /\ taken = << >>
    BY DEF QInit, Init, rbb_init
  <2>2. blk_list = << >> /\ taken = << >> => Layout /\ QueueAscending
    BY DEF Layout, SizesPositive, BlocksInArena, BlocksDisjoint, RingOrder, QueueAscending
  <2>. QED  BY <2>1, <2>2, InitQueueInv DEF QueueArenaInv
<1>2. QueueArenaInv /\ [QNext]_qvars => QueueArenaInv'
  BY NextQueueArenaInv
<1>. QED  BY <1>1, <1>2, PTL DEF QSpec

\* The blocks of a queue ascend in the arena, each behind the end of the one
\* before, as long as the queue is held: it never reaches around the end of the
\* arena.
THEOREM QueueKeepsOrder ==
  ASSUME SizesFit
  PROVE  QSpec => []QueueAscending
<1>1. QueueArenaInv => QueueAscending
  BY DEF QueueArenaInv
<1>. QED  BY <1>1, QueuesKeepArena, PTL

\* The buffer whose blocks are also taken in queues implements the abstract
\* pool: a queue takes the oldest blocks that were put, none passed over.
THEOREM QueuesTakeFromThePool ==
  ASSUME SizesFit
  PROVE  QSpec => PoolSpec
<1>1. QInit => Pool!Init
  BY InitPool DEF QInit
<1>2. QueueArenaInv /\ QueueArenaInv' /\ [QNext]_qvars => [Pool!Next]_claims
  <2>. SUFFICES ASSUME QueueArenaInv, QueueArenaInv', [QNext]_qvars PROVE [Pool!Next]_claims
    OBVIOUS
  <2>1. ArenaInv /\ ArenaInv' /\ ListInv /\ WalkInv
    BY DEF QueueArenaInv, QueueInv, ArenaInv
  <2>. QED  BY <2>1, StepOfTheBuffer, StepOfThePool, QueueGetTakes
<1>. QED  BY <1>1, <1>2, QueuesKeepArena, PTL DEF QSpec, PoolSpec, Pool!Spec

\* Taking and freeing queues moves no block in use, so that the consumer reads
\* the frames of its queue where they were filled.
THEOREM QueuesMoveNoBlock == QSpec => HeldBlocksStable
<1>1. QueueInv /\ [QNext]_qvars => [Kept]_vars
  <2>. SUFFICES ASSUME ListInv, WalkInv, [QNext]_qvars PROVE [Kept]_vars
    BY DEF QueueInv
  <2>1. ASSUME NEW queue_data_len, rbb_blk_queue_get(queue_data_len) PROVE Kept
    BY <2>1 DEF rbb_blk_queue_get, Kept
  <2>. QED  BY <2>1, StepOfTheBuffer, StepKeepsHeld
<1>. QED  BY <1>1, InitQueueInv, NextQueueInv, PTL DEF QSpec, HeldBlocksStable, Kept
=============================================================================
