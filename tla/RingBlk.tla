------------------------------- MODULE RingBlk -------------------------------
(***************************************************************************)
(* The ring block buffer of ringblk_buf.c: an arena of BufSize bytes out   *)
(* of which variable-sized blocks are carved, each described by one of     *)
(* BlkMaxNum descriptors.  Descriptors in use are chained on blk_list in   *)
(* the order of their allocation; the others wait on free_list.            *)
(*                                                                         *)
(* Every operation below runs inside taskENTER_CRITICAL/taskEXIT_CRITICAL  *)
(* (or is a single store, rbb_blk_put), so each is one action.  A chain of *)
(* slist nodes is a sequence of descriptors; rbb->tail, which the code     *)
(* maintains separately from the chain, is a variable of its own.          *)
(***************************************************************************)
EXTENDS Integers, Sequences, SequencesExt

CONSTANTS
  BlkMaxNum,   \* rbb->blk_max_num: number of descriptors
  BufSize,     \* rbb->buf_size: length of the arena, in allocation units
  BlkSizes     \* block sizes that callers ask for

ASSUME BlkMaxNumAssumption == BlkMaxNum \in Nat \ {0}
ASSUME BufSizeAssumption == BufSize \in Nat \ {0}
ASSUME BlkSizesAssumption == BlkSizes \subseteq Nat \ {0}

\* Indices into rbb->blk_set.
blk_set == 0 .. (BlkMaxNum - 1)

\* &rbb->blk_list, the value of rbb->tail while the chain is empty.
ListHead == -1

\* enum rbb_status
rbb_status == {"UNUSED", "INITED", "PUT", "GET"}

VARIABLES
  status,      \* blk->status
  buf,         \* blk->buf, as an offset from rbb->buf
  size,        \* blk->size
  blk_list,    \* the chain of blocks in use, in list order
  free_list,   \* the chain of free descriptors, in list order
  tail         \* rbb->tail

vars == <<status, buf, size, blk_list, free_list, tail>>

-----------------------------------------------------------------------------
\* First byte after a block.
End(b) == buf[b] + size[b]

\* Mutant of rbb_init: the descriptors are numbered from 1.
rbb_init_off_by_one ==
  /\ status = [b \in blk_set |-> "UNUSED"]
  /\ buf = [b \in blk_set |-> 0]
  /\ size = [b \in blk_set |-> 0]
  /\ blk_list = << >>
  /\ free_list = [i \in 1 .. BlkMaxNum |-> BlkMaxNum - i + 1]
  /\ tail = ListHead

\* rbb_init: every descriptor is inserted at the front of free_list, so the
\* last one comes first.  buf and size are set by the first allocation.
rbb_init ==
  /\ status = [b \in blk_set |-> "UNUSED"]
  /\ buf = [b \in blk_set |-> 0]
  /\ size = [b \in blk_set |-> 0]
  /\ blk_list = << >>
  /\ free_list = [i \in 1 .. BlkMaxNum |-> BlkMaxNum - i]
  /\ tail = ListHead

\* Mutant of Room: the space up to the end of the arena is taken for free
\* even when the chain has wrapped.
Room_never_wrapped(n) ==
  IF blk_list = << >> THEN {0}
  ELSE IF BufSize - End(tail) >= n THEN {End(tail)}
  ELSE IF buf[blk_list[1]] >= n THEN {0}
  ELSE {}

\* Mutant of Room: the size of the last block is forgotten.
Room_forgets_tail_size(n) ==
  IF blk_list = << >> THEN {0}
  ELSE IF BufSize - buf[tail] >= n THEN {End(tail)} ELSE {}

\* Mutant of Room: the space before the head is offered again after wrapping.
Room_front_twice(n) ==
  IF blk_list = << >> THEN {0}
  ELSE LET head == blk_list[1]
           limit == IF buf[head] > buf[tail] THEN buf[head] ELSE BufSize
       IN IF limit - End(tail) >= n THEN {End(tail)}
          ELSE IF buf[head] >= n THEN {0}
          ELSE {}

\* Where rbb_blk_alloc would place a block of n bytes: at the front of an
\* empty arena; after the tail if it fits there; else, when the chain has not
\* wrapped (head->buf <= tail->buf), before the head.  Empty: "no space".
Room(n) ==
  IF blk_list = << >> THEN {0}
  ELSE LET head == blk_list[1]
           wrapped == buf[head] > buf[tail]
           empty1 == (IF wrapped THEN buf[head] ELSE BufSize) - End(tail)
           empty2 == IF wrapped THEN 0 ELSE buf[head]
       IN IF empty1 >= n THEN {End(tail)}
          ELSE IF empty2 >= n THEN {0}
          ELSE {}

\* rbb_list_append: the node goes behind whatever rbb->tail points to, and
\* ends the chain.
rbb_list_append(b) ==
  /\ \E k \in 0 .. Len(blk_list) :
       /\ tail = IF k = 0 THEN ListHead ELSE blk_list[k]
       /\ blk_list' = Append(SubSeq(blk_list, 1, k), b)
  /\ tail' = b

\* Mutant of rbb_list_remove: rbb->tail is not updated.
rbb_list_remove_keeps_tail(i) ==
  /\ blk_list' = RemoveAt(blk_list, i)
  /\ UNCHANGED tail

\* rbb_list_remove: unlink the node at position i; if rbb->tail was that node,
\* its predecessor (the list head for the first node) becomes the tail.
rbb_list_remove(i) ==
  /\ blk_list' = RemoveAt(blk_list, i)
  /\ tail' = IF tail # blk_list[i] THEN tail
             ELSE IF i = 1 THEN ListHead ELSE blk_list[i - 1]

-----------------------------------------------------------------------------
\* Mutant of AllocBlock: the descriptor stays on free_list.
AllocBlock_keeps_free(n, at) ==
  LET new == Head(free_list)
  IN /\ free_list # << >>
     /\ at \in Room(n)
     /\ rbb_list_append(new)
     /\ status' = [status EXCEPT ![new] = "INITED"]
     /\ buf' = [buf EXCEPT ![new] = at]
     /\ size' = [size EXCEPT ![new] = n]
     /\ UNCHANGED free_list

\* rbb_blk_alloc that returns a block of n bytes at offset at.
AllocBlock(n, at) ==
  LET new == Head(free_list)
  IN /\ free_list # << >>
     /\ at \in Room(n)
     /\ free_list' = Tail(free_list)
     /\ rbb_list_append(new)
     /\ status' = [status EXCEPT ![new] = "INITED"]
     /\ buf' = [buf EXCEPT ![new] = at]
     /\ size' = [size EXCEPT ![new] = n]

\* rbb_blk_alloc without room in the arena: find_empty_blk_in_set has already
\* taken a descriptor off free_list, and NULL is returned.
AllocNoSpace(n) ==
  /\ free_list # << >>
  /\ Room(n) = {}
  /\ free_list' = Tail(free_list)
  /\ UNCHANGED <<status, buf, size, blk_list, tail>>

\* rbb_blk_alloc without a descriptor left.
AllocNoDescriptor ==
  /\ free_list = << >>
  /\ UNCHANGED vars

rbb_blk_alloc(n) ==
  \/ \E at \in Room(n) : AllocBlock(n, at)
  \/ AllocNoSpace(n)
  \/ AllocNoDescriptor

\* rbb_blk_put, by the task that filled the block.
rbb_blk_put(b) ==
  /\ status[b] = "INITED"
  /\ status' = [status EXCEPT ![b] = "PUT"]
  /\ UNCHANGED <<buf, size, blk_list, free_list, tail>>

\* Mutant of IsFirstPut: the newest block that was put is taken.
IsFirstPut_last(i) ==
  /\ status[blk_list[i]] = "PUT"
  /\ \A j \in (i + 1) .. Len(blk_list) : status[blk_list[j]] # "PUT"

\* Position i holds the block rbb_blk_get returns: the first PUT on the chain.
IsFirstPut(i) ==
  /\ status[blk_list[i]] = "PUT"
  /\ \A j \in 1 .. (i - 1) : status[blk_list[j]] # "PUT"

\* Mutant of rbb_blk_get: the block is not marked as taken.
rbb_blk_get_unmarked(b) ==
  /\ \E i \in 1 .. Len(blk_list) : IsFirstPut(i) /\ b = blk_list[i]
  /\ UNCHANGED vars

\* rbb_blk_get.  The emptiness test before the critical section only adds an
\* early NULL, which an empty chain gives inside it as well.
rbb_blk_get(b) ==
  /\ \E i \in 1 .. Len(blk_list) : IsFirstPut(i) /\ b = blk_list[i]
  /\ status' = [status EXCEPT ![b] = "GET"]
  /\ UNCHANGED <<buf, size, blk_list, free_list, tail>>

\* rbb_blk_free: any block that is not UNUSED, in any order.
rbb_blk_free(b) ==
  /\ status[b] # "UNUSED"
  /\ \E i \in 1 .. Len(blk_list) : blk_list[i] = b /\ rbb_list_remove(i)
  /\ status' = [status EXCEPT ![b] = "UNUSED"]
  /\ free_list' = <<b>> \o free_list
  /\ UNCHANGED <<buf, size>>

-----------------------------------------------------------------------------
Init == rbb_init

Next ==
  \/ \E n \in BlkSizes : rbb_blk_alloc(n)
  \/ \E b \in blk_set : rbb_blk_put(b)
  \/ \E b \in blk_set : rbb_blk_get(b)
  \/ \E b \in blk_set : rbb_blk_free(b)

Spec == Init /\ [][Next]_vars

-----------------------------------------------------------------------------
TypeOK ==
  /\ status \in [blk_set -> rbb_status]
  /\ buf \in [blk_set -> Nat]
  /\ size \in [blk_set -> Nat]
  /\ blk_list \in Seq(blk_set)
  /\ free_list \in Seq(blk_set)
  /\ tail \in blk_set \cup {ListHead}

\* Every descriptor in use is on blk_list once and not UNUSED; the ones on
\* free_list are UNUSED, each there once.  slist nodes are shared by the two
\* chains, so a descriptor on both would corrupt them.
ListsConsistent ==
  /\ IsInjective(blk_list)
  /\ IsInjective(free_list)
  /\ \A b \in blk_set : status[b] # "UNUSED" <=> b \in Range(blk_list)
  /\ \A b \in Range(free_list) : status[b] = "UNUSED"

\* rbb->tail, maintained apart from the chain by append and remove, is the
\* last node of the chain, whatever order the blocks are freed in.
TailIsLast ==
  tail = IF blk_list = << >> THEN ListHead ELSE blk_list[Len(blk_list)]

\* No block reaches beyond the arena.
BlocksInArena == \A i \in 1 .. Len(blk_list) : End(blk_list[i]) <= BufSize

\* No two blocks in use share a byte.  rbb_blk_alloc looks at the first and
\* the last block only and has to be right about all those between.
BlocksDisjoint ==
  \A i, j \in 1 .. Len(blk_list) : i # j =>
     \/ End(blk_list[i]) <= buf[blk_list[j]]
     \/ End(blk_list[j]) <= buf[blk_list[i]]

\* Going up from x, and from the end of the arena on to its start, one meets
\* y before z.
Cyclic(x, y, z) ==
  \/ x < y /\ y < z
  \/ y < z /\ z < x
  \/ z < x /\ x < y

\* The chain is in ring order: its blocks follow one another around the arena
\* with at most one wrap.  It is what makes the two comparisons of
\* rbb_blk_alloc sufficient, and freeing blocks out of order must not break it.
RingOrder ==
  \A i, j, k \in 1 .. Len(blk_list) : i < j /\ j < k =>
     Cyclic(buf[blk_list[i]], buf[blk_list[j]], buf[blk_list[k]])

\* No operation moves or resizes a block that is in use before and after it:
\* producers write through blk->buf outside the critical sections.
HeldBlocksStable ==
  [][\A b \in blk_set :
        status[b] # "UNUSED" /\ status'[b] # "UNUSED"
          => buf'[b] = buf[b] /\ size'[b] = size[b]]_vars

\* The condition under which the arena is respected: no caller asks for more
\* than the whole arena.  rbb_blk_alloc only asserts blk_size < 1 << 24.
SizesFit == \A n \in BlkSizes : n <= BufSize

\* The comment on find_empty_blk_in_set: an empty free_list shows that there
\* is no free block left, that is, all BlkMaxNum blocks are in use.
EmptyFreeListMeansNoFreeBlock ==
  free_list = << >> => Len(blk_list) = BlkMaxNum

-----------------------------------------------------------------------------
\* The chain of blocks as the abstract pool sees it.
claims ==
  [i \in 1 .. Len(blk_list) |->
     [state |-> status[blk_list[i]],
      lo |-> buf[blk_list[i]],
      hi |-> End(blk_list[i])]]

Pool == INSTANCE BlockPool

\* The ring block buffer implements the abstract pool: grants are disjoint
\* ranges, blocks are taken oldest first among those put, and nothing but its
\* release ends a grant.
PoolSpec == Pool!Spec
=============================================================================
