------------------------------ MODULE ByteFifo ------------------------------
(***************************************************************************)
(* What a ring byte buffer promises: a FIFO of at most Capacity bytes.  An *)
(* ordinary write appends bytes that fit, a forced write drops the oldest  *)
(* bytes for new ones, a read returns the oldest bytes.  Which of the      *)
(* bytes offered a write takes is not said.                                *)
(***************************************************************************)
EXTENDS Integers, Sequences

CONSTANTS
  Capacity,   \* size of the buffer
  Bytes       \* values of a byte

VARIABLES
  data,   \* the bytes written and not read yet, oldest first
  out     \* the bytes returned by the last read

Init == data = << >> /\ out = << >>

\* The newest bytes of s that fit.
Newest(s) == IF Len(s) <= Capacity THEN s ELSE SubSeq(s, Len(s) - Capacity + 1, Len(s))

Write(bytes) ==
  /\ Len(data) + Len(bytes) <= Capacity
  /\ data' = data \o bytes
  /\ UNCHANGED out

WriteForced(bytes) ==
  /\ data' = Newest(data \o bytes)
  /\ UNCHANGED out

Read(n) ==
  /\ out' = SubSeq(data, 1, n)
  /\ data' = SubSeq(data, n + 1, Len(data))

\* Emptying it is the user's explicit request, and no step of its own.
Clear == data' = << >> /\ UNCHANGED out

Next ==
  \/ \E bytes \in UNION {[1 .. n -> Bytes] : n \in 0 .. Capacity} : Write(bytes)
  \/ \E bytes \in UNION {[1 .. n -> Bytes] : n \in 0 .. Capacity} : WriteForced(bytes)
  \/ \E n \in 1 .. Len(data) : Read(n)

Spec == Init /\ [][Next]_<<data, out>>
=============================================================================
