------------------------------ MODULE MCRingBlk ------------------------------
(* Instances of RingBlk for TLC. *)
EXTENDS RingBlk
=============================================================================
