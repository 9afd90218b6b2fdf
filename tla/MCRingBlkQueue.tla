--------------------------- MODULE MCRingBlkQueue ---------------------------
(* Instances of RingBlkQueue for TLC. *)
EXTENDS RingBlkQueue

\* The place and size a descriptor had before it was freed are never read
\* again: the next allocation that uses it sets both.
InUse(f) == [b \in blk_set |-> IF status[b] = "UNUSED" THEN 0 ELSE f[b]]

View == <<status, InUse(buf), InUse(size), blk_list, free_list, tail, walk>>
=============================================================================
