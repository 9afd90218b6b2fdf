----------------------------- MODULE RingBuffer -----------------------------
(***************************************************************************)
(* The ring byte buffer of ringbuffer.c, used by one task at a time.  The  *)
(* indices run over 0 .. BufferSize - 1 and each has a mirror bit, flipped *)
(* whenever the index passes the end: equal indices mean empty when the    *)
(* bits agree and full when they differ, so all BufferSize bytes are used. *)
(***************************************************************************)
EXTENDS Integers, Sequences

CONSTANTS
  BufferSize,   \* rb->buffer_size
  Bytes,        \* values of a byte
  MaxLength     \* bound: the largest length given to a call

ASSUME BufferSizeAssumption == BufferSize \in Nat \ {0}
ASSUME MaxLengthAssumption == MaxLength \in Nat

VARIABLES
  read_mirror, read_index, write_mirror, write_index,
  pool,   \* the bytes at rb->buffer_ptr
  out     \* the bytes the last read returned

reader == <<read_mirror, read_index>>
writer == <<write_mirror, write_index>>
vars == <<reader, writer, pool, out>>

Offsets == 0 .. (BufferSize - 1)
Inputs == UNION {[1 .. n -> Bytes] : n \in 0 .. MaxLength}
Min2(m, n) == IF m <= n THEN m ELSE n

-----------------------------------------------------------------------------
\* Mutant of ringbuffer_status: the mirror bits are not looked at.
ringbuffer_status_no_mirror ==
  IF read_index = write_index THEN "EMPTY" ELSE "HALFFULL"

ringbuffer_status ==
  IF read_index # write_index THEN "HALFFULL"
  ELSE IF read_mirror = write_mirror THEN "EMPTY" ELSE "FULL"

ringbuffer_data_len ==
  CASE ringbuffer_status = "EMPTY" -> 0
    [] ringbuffer_status = "FULL" -> BufferSize
    [] OTHER -> IF write_index > read_index THEN write_index - read_index
                ELSE BufferSize - (read_index - write_index)

ringbuffer_space_len == BufferSize - ringbuffer_data_len

\* Mutant of Wraps: exactly reaching the end does not count as passing it.
Wraps_late(index, n) == BufferSize - index < n

\* Whether n bytes from index on reach the end of the buffer.
Wraps(index, n) == BufferSize - index <= n

\* The index and the mirror bit n bytes further on.
Forward(index, n) == IF Wraps(index, n) THEN n - (BufferSize - index) ELSE index + n
Flip(mirror, index, n) == IF Wraps(index, n) THEN 1 - mirror ELSE mirror

\* The offset k bytes after index.
Offset(index, k) == IF index + k < BufferSize THEN index + k ELSE index + k - BufferSize

\* How many bytes after index an offset lies.
Distance(index, o) == IF o >= index THEN o - index ELSE o + BufferSize - index

\* The memcpys of a write: up to the end, and what is left from the start on.
Stored(bytes) ==
  [o \in Offsets |-> IF Distance(write_index, o) < Len(bytes)
                     THEN bytes[Distance(write_index, o) + 1] ELSE pool[o]]

\* The memcpys of a read.
Stretch(n) == [i \in 1 .. n |-> pool[Offset(read_index, i - 1)]]

-----------------------------------------------------------------------------
ringbuffer_init ==
  /\ read_mirror = 0 /\ write_mirror = 0
  /\ read_index = 0 /\ write_index = 0
  /\ pool \in [Offsets -> Bytes]
  /\ out = << >>

WriteForward(n) ==
  /\ write_index' = Forward(write_index, n)
  /\ write_mirror' = Flip(write_mirror, write_index, n)

\* Mutant of ReadForward: the read index wraps, its mirror bit stays.
ReadForward_no_flip(n) ==
  /\ read_index' = Forward(read_index, n)
  /\ read_mirror' = read_mirror

ReadForward(n) ==
  /\ read_index' = Forward(read_index, n)
  /\ read_mirror' = Flip(read_mirror, read_index, n)

\* ringbuffer_put: as much as there is space for, nothing when it is full.
ringbuffer_put(ptr) ==
  LET length == Min2(Len(ptr), ringbuffer_space_len)
  IN /\ pool' = Stored(SubSeq(ptr, 1, length))
     /\ WriteForward(length)
     /\ UNCHANGED <<reader, out>>

\* Mutant of ringbuffer_put_force: read_mirror stays when the write passes the
\* end of the buffer and the read index.
ringbuffer_put_force_no_flip(ptr) ==
  LET length == Min2(Len(ptr), BufferSize)
  IN /\ pool' = Stored(SubSeq(ptr, Len(ptr) - length + 1, Len(ptr)))
     /\ WriteForward(length)
     /\ read_index' = IF length > ringbuffer_space_len THEN write_index' ELSE read_index
     /\ UNCHANGED <<read_mirror, out>>

\* ringbuffer_put_force: the last BufferSize bytes of what is offered; when
\* they do not fit, the read index moves to the write index.
ringbuffer_put_force(ptr) ==
  LET length == Min2(Len(ptr), BufferSize)
      overwritten == length > ringbuffer_space_len
  IN /\ pool' = Stored(SubSeq(ptr, Len(ptr) - length + 1, Len(ptr)))
     /\ WriteForward(length)
     /\ read_index' = IF overwritten THEN write_index' ELSE read_index
     /\ read_mirror' =
          IF overwritten /\ Wraps(write_index, length) /\ write_index' <= read_index
          THEN 1 - read_mirror ELSE read_mirror
     /\ UNCHANGED out

\* ringbuffer_get: at most length bytes, copied to the caller.
ringbuffer_get(length) ==
  LET n == Min2(length, ringbuffer_data_len)
  IN /\ ringbuffer_data_len > 0
     /\ out' = Stretch(n)
     /\ ReadForward(n)
     /\ UNCHANGED <<writer, pool>>

\* ringbuffer_peek: a pointer to the bytes up to the end of the buffer, which
\* are consumed at once.
ringbuffer_peek ==
  LET n == Min2(ringbuffer_data_len, BufferSize - read_index)
  IN /\ n > 0
     /\ out' = Stretch(n)
     /\ ReadForward(n)
     /\ UNCHANGED <<writer, pool>>

ringbuffer_putchar(ch) ==
  /\ ringbuffer_space_len > 0
  /\ pool' = [pool EXCEPT ![write_index] = ch]
  /\ WriteForward(1)
  /\ UNCHANGED <<reader, out>>

\* ringbuffer_putchar_force: on a full buffer the oldest byte is dropped.
ringbuffer_putchar_force(ch) ==
  /\ pool' = [pool EXCEPT ![write_index] = ch]
  /\ WriteForward(1)
  /\ IF ringbuffer_status = "FULL"
     THEN /\ read_index' = write_index'
          /\ read_mirror' = Flip(read_mirror, write_index, 1)
     ELSE UNCHANGED reader
  /\ UNCHANGED out

ringbuffer_getchar ==
  /\ ringbuffer_data_len > 0
  /\ out' = <<pool[read_index]>>
  /\ ReadForward(1)
  /\ UNCHANGED <<writer, pool>>

ringbuffer_reset ==
  /\ read_mirror' = 0 /\ write_mirror' = 0
  /\ read_index' = 0 /\ write_index' = 0
  /\ UNCHANGED <<pool, out>>

-----------------------------------------------------------------------------
Init == ringbuffer_init

Next ==
  \/ \E ptr \in Inputs : ringbuffer_put(ptr) \/ ringbuffer_put_force(ptr)
  \/ \E length \in 1 .. MaxLength : ringbuffer_get(length)
  \/ \E ch \in Bytes : ringbuffer_putchar(ch) \/ ringbuffer_putchar_force(ch)
  \/ ringbuffer_peek \/ ringbuffer_getchar \/ ringbuffer_reset

Spec == Init /\ [][Next]_vars

-----------------------------------------------------------------------------
TypeOK ==
  /\ read_mirror \in {0, 1} /\ write_mirror \in {0, 1}
  /\ read_index \in Offsets /\ write_index \in Offsets
  /\ pool \in [Offsets -> Bytes]
  /\ out \in Seq(Bytes)

\* The writer is ahead of the reader by at most one lap: on the reader's side
\* of the mirror it is not behind it, on the other side not in front of it.
\* ringbuffer_data_len and every forced write rely on it.
WithinOneLap ==
  IF read_mirror = write_mirror THEN read_index <= write_index
  ELSE write_index <= read_index

-----------------------------------------------------------------------------
\* The bytes between the read and the write index.
data == Stretch(ringbuffer_data_len)

Fifo == INSTANCE ByteFifo WITH Capacity <- BufferSize

\* The ring buffer is a FIFO of BufferSize bytes: whatever the positions of
\* the indices, the bytes read are the bytes written, in order, a forced write
\* loses the oldest bytes only, and nothing but a reset empties it otherwise.
FifoSpec ==
  Fifo!Init /\ [][Fifo!Next \/ (ringbuffer_reset /\ Fifo!Clear)]_<<data, out>>
=============================================================================
