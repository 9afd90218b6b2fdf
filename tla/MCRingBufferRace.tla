-------------------------- MODULE MCRingBufferRace --------------------------
(* Instances of RingBufferRace for TLC. *)
EXTENDS RingBufferRace
=============================================================================
