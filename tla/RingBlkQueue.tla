---------------------------- MODULE RingBlkQueue ----------------------------
(***************************************************************************)
(* Block queues of ringblk_buf.c: a consumer takes a whole run of blocks   *)
(* with rbb_blk_queue_get and gives them back with rbb_blk_queue_free.  A  *)
(* queue is only a pointer to its first block and a count; the others are  *)
(* found again by following blk_list, which other tasks change meanwhile:  *)
(* rbb_blk_queue_free has one critical section for each block.             *)
(***************************************************************************)
EXTENDS RingBlk

CONSTANTS
  QueueDataLens,   \* values of queue_data_len
  None             \* no block

VARIABLES
  blk_queue,   \* the queue of the consumer: [blocks, blk_num]
  next_blk,    \* next_blk of rbb_blk_queue_free
  stage,       \* what rbb_blk_queue_free does next
  taken        \* the blocks of the queue not given back yet, as they were taken

walk == <<blk_queue, next_blk, stage, taken>>
qvars == <<vars, walk>>

\* Bytes in a sequence of blocks.
DataLen(blks) == FoldLeft(LAMBDA len, b : len + size[b], 0, blks)

\* Mutant of CanFollow: blocks before the previous one are taken as well.
CanFollow_wrapped(i, k, queue_data_len) ==
  /\ status[blk_list[k]] = "PUT"
  /\ DataLen(SubSeq(blk_list, i, k)) <= queue_data_len

\* The block at position k of the chain continues a queue that starts at i.
CanFollow(i, k, queue_data_len) ==
  /\ status[blk_list[k]] = "PUT"
  /\ buf[blk_list[k - 1]] <= buf[blk_list[k]]
  /\ DataLen(SubSeq(blk_list, i, k)) <= queue_data_len

\* rbb_blk_queue_get: the first PUT block and the run of blocks after it.
rbb_blk_queue_get(queue_data_len) ==
  /\ blk_queue.blk_num = 0
  /\ \E i, k \in 1 .. Len(blk_list) :
       /\ IsFirstPut(i)
       /\ i <= k
       /\ \A j \in (i + 1) .. k : CanFollow(i, j, queue_data_len)
       /\ k < Len(blk_list) => ~ CanFollow(i, k + 1, queue_data_len)
       /\ blk_queue' = [blocks |-> blk_list[i], blk_num |-> k - i + 1]
       /\ taken' = SubSeq(blk_list, i, k)
       /\ status' = [b \in blk_set |-> IF b \in Range(taken') THEN "GET" ELSE status[b]]
  /\ UNCHANGED <<buf, size, blk_list, free_list, tail, next_blk, stage>>

\* The node after b on the chain.
NextOf(b) ==
  IF b \in Range(blk_list) /\ b # blk_list[Len(blk_list)]
  THEN blk_list[(CHOOSE i \in 1 .. Len(blk_list) : blk_list[i] = b) + 1] ELSE None

\* rbb_blk_queue_free, one round of the loop: the next block is looked up
\* outside the critical section.
NextBlk ==
  /\ blk_queue.blk_num > 0
  /\ stage = "next"
  /\ next_blk' = NextOf(blk_queue.blocks)
  /\ stage' = "free"
  /\ UNCHANGED <<vars, blk_queue, taken>>

\* Mutant of FreeBlk: the link is read after the block was freed.
FreeBlk_late_next ==
  /\ stage = "free"
  /\ rbb_blk_free(blk_queue.blocks)
  /\ blk_queue' = [blocks |-> IF free_list = << >> THEN None ELSE Head(free_list),
                   blk_num |-> blk_queue.blk_num - 1]
  /\ taken' = Tail(taken)
  /\ next_blk' = None
  /\ stage' = "next"

\* Then the block is freed.  The loop's variables blk and i are in blk_queue.
FreeBlk ==
  /\ stage = "free"
  /\ rbb_blk_free(blk_queue.blocks)
  /\ blk_queue' = [blocks |-> next_blk, blk_num |-> blk_queue.blk_num - 1]
  /\ taken' = Tail(taken)
  /\ next_blk' = None
  /\ stage' = "next"

\* Other tasks fill blocks, and take single blocks and give them back.
OtherTask ==
  /\ \/ \E n \in BlkSizes : rbb_blk_alloc(n)
     \/ \E b \in blk_set : rbb_blk_put(b) \/ rbb_blk_get(b)
     \/ \E b \in blk_set \ Range(taken) : status[b] = "GET" /\ rbb_blk_free(b)
  /\ UNCHANGED walk

QInit ==
  /\ Init
  /\ blk_queue = [blocks |-> None, blk_num |-> 0]
  /\ next_blk = None
  /\ stage = "next"
  /\ taken = << >>

QNext ==
  \/ \E queue_data_len \in QueueDataLens : rbb_blk_queue_get(queue_data_len)
  \/ NextBlk \/ FreeBlk
  \/ OtherTask

QSpec == QInit /\ [][QNext]_qvars

-----------------------------------------------------------------------------
\* Following the chain from the first block for blk_num nodes, as
\* rbb_blk_queue_free and rbb_blk_queue_len do, meets the blocks that were
\* taken, all still GET, whatever other tasks allocate and free meanwhile; so
\* does the pointer to the next one that is kept while one is freed.
QueueWalk ==
  blk_queue.blk_num > 0 =>
    \E i \in 1 .. Len(blk_list) :
      /\ blk_list[i] = blk_queue.blocks
      /\ taken = SubSeq(blk_list, i, i + blk_queue.blk_num - 1)
      /\ \A b \in Range(taken) : status[b] = "GET"
      /\ stage = "free" /\ Len(taken) > 1 => next_blk = taken[2]

\* A queue never reaches around the end of the arena, so nothing that belongs
\* to a block of the queue lies before its first block.
QueueAscending ==
  \A i, j \in 1 .. Len(taken) : i < j => End(taken[i]) <= buf[taken[j]]
=============================================================================
