------------------------------ MODULE BlockPool ------------------------------
(***************************************************************************)
(* What the ring block buffer promises the code that uses it, whatever the *)
(* placement policy: a granted block is a range of the arena that no other *)
(* holder has, the blocks that were put are handed out oldest grant first, *)
(* one or a run of them at a time, and a block keeps its range until its   *)
(* holder gives it back.                                                   *)
(*                                                                         *)
(* A request may be refused at any time (that is a stuttering step here).  *)
(***************************************************************************)
EXTENDS Integers, Sequences, SequencesExt

CONSTANTS
  BufSize,     \* length of the arena
  BlkSizes     \* sizes that may be asked for

\* The blocks granted and not yet released, oldest first:
\* [state, lo, hi] stands for the range lo .. hi - 1.
VARIABLE claims

Disjoint(c, d) == c.hi <= d.lo \/ d.hi <= c.lo

Init == claims = << >>

Grant(n, lo) ==
  LET c == [state |-> "INITED", lo |-> lo, hi |-> lo + n]
  IN /\ lo + n <= BufSize
     /\ \A i \in 1 .. Len(claims) : Disjoint(claims[i], c)
     /\ claims' = Append(claims, c)

Publish(i) ==
  /\ claims[i].state = "INITED"
  /\ claims' = [claims EXCEPT ![i].state = "PUT"]

\* The claims from i to k, all put, and none put before them.
Take(i, k) ==
  /\ \A j \in i .. k : claims[j].state = "PUT"
  /\ \A j \in 1 .. (i - 1) : claims[j].state # "PUT"
  /\ claims' = [j \in DOMAIN claims |-> IF j \in i .. k THEN [claims[j] EXCEPT !.state = "GET"]
                                        ELSE claims[j]]

Release(i) == claims' = RemoveAt(claims, i)

Next ==
  \/ \E n \in BlkSizes, lo \in 0 .. BufSize : Grant(n, lo)
  \/ \E i \in 1 .. Len(claims) : Publish(i) \/ Release(i)
  \/ \E i \in 1 .. Len(claims) : \E k \in i .. Len(claims) : Take(i, k)

Spec == Init /\ [][Next]_claims
=============================================================================
