------------------------------ MODULE LossyFifo ------------------------------
(***************************************************************************)
(* What the asynchronous path promises about formatted lines: a line is    *)
(* taken in or lost whole, nothing taken in is altered, and the lines come *)
(* out in the order in which they were taken in, each once.                *)
(***************************************************************************)
EXTENDS Sequences, SequencesExt

CONSTANT Lines

VARIABLES
  queue,      \* lines taken in and not given to the backends
  delivered   \* lines given to the backends

Init == queue = << >> /\ delivered = << >>

\* A line that was never taken in before.
Accept(m) ==
  /\ m \notin Range(queue) \cup Range(delivered)
  /\ queue' = Append(queue, m)
  /\ UNCHANGED delivered

Deliver ==
  /\ queue # << >>
  /\ delivered' = Append(delivered, Head(queue))
  /\ queue' = Tail(queue)

Next == Deliver \/ \E m \in Lines : Accept(m)

Spec == Init /\ [][Next]_<<queue, delivered>>
=============================================================================
