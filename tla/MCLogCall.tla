------------------------------ MODULE MCLogCall ------------------------------
(* Instances of LogCall for TLC. *)
EXTENDS LogCall

\* One task logs in every way, the other sets filters.
KindsUsed == [logger |-> {"log", "hex", "raw"}, setter |-> {"set"}]
TasksUsed == DOMAIN KindsUsed
CallsMade == [logger |-> 1, setter |-> 2]
=============================================================================
