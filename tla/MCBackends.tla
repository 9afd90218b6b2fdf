----------------------------- MODULE MCBackends -----------------------------
(* Instances of Backends for TLC. *)
EXTENDS Backends, TLC

\* No filter, or one that lets only coloured levels pass.
OnlyColoured == {ColouredLevels}

\* Backends are alike.
Alike == Permutations(Backends)
=============================================================================
