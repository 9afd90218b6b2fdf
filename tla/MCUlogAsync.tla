---------------------------- MODULE MCUlogAsync ----------------------------
(* Instances of UlogAsync for TLC. *)
EXTENDS UlogAsync
============================================================================
