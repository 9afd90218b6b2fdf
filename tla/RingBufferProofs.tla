-------------------------- MODULE RingBufferProofs --------------------------
(***************************************************************************)
(* Proofs about the ring byte buffer, for every size of the buffer, every  *)
(* set of byte values and every bound on the lengths of calls.             *)
(*                                                                         *)
(* First one task alone: the types, WithinOneLap, and the refinement of the*)
(* byte FIFO.  Inv is inductive.  The refinement rests on three lemmas that*)
(* say what a write with enough space, a forced write without and a read do*)
(* to the sequence data of the bytes between the indices; every operation  *)
(* is one of the three or a reset.                                         *)
(*                                                                         *)
(* Then a writer and a reader without a lock.  RaceTypes holds in every    *)
(* build and says that no copy leaves the buffer.  In a build with whole   *)
(* words RaceInv holds as well: a length a side has measured is on the safe*)
(* side of what the buffer holds by the time it is used, and the bytes are *)
(* numbered through from the last one got to the last one accepted.        *)
(***************************************************************************)
EXTENDS RingBufferRace, SequenceFacts

Inv == TypeOK /\ WithinOneLap

-----------------------------------------------------------------------------
\* Lengths, offsets and copies.

\* ringbuffer_data_len in terms of the indices and the mirror bits.
LEMMA LengthByIndices ==
  /\ Inv => ringbuffer_data_len =
               IF read_mirror = write_mirror THEN write_index - read_index
               ELSE BufferSize - (read_index - write_index)
  /\ Inv' => ringbuffer_data_len' =
                IF read_mirror' = write_mirror' THEN write_index' - read_index'
                ELSE BufferSize - (read_index' - write_index')
BY BufferSizeAssumption
DEF Inv, TypeOK, WithinOneLap, Offsets, ringbuffer_data_len, ringbuffer_status

\* The number of bytes in the buffer lies between 0 and its size, which it has
\* exactly when ringbuffer_status says so.
LEMMA LengthBounds ==
  ASSUME Inv
  PROVE  /\ ringbuffer_data_len \in 0 .. BufferSize
         /\ ringbuffer_space_len \in 0 .. BufferSize
         /\ ringbuffer_data_len = BufferSize <=> ringbuffer_status = "FULL"
<1>1. PICK used : used = ringbuffer_data_len
  OBVIOUS
<1>2. used = IF read_mirror = write_mirror THEN write_index - read_index
            ELSE BufferSize - (read_index - write_index)
  BY <1>1, LengthByIndices
<1>3. used \in 0 .. BufferSize /\ BufferSize - used \in 0 .. BufferSize
  BY <1>2, BufferSizeAssumption DEF Inv, TypeOK, WithinOneLap, Offsets
<1>4. used = BufferSize <=> read_index = write_index /\ read_mirror # write_mirror
  BY <1>2, BufferSizeAssumption DEF Inv, TypeOK, WithinOneLap, Offsets
<1>5. ringbuffer_status = "FULL" <=> read_index = write_index /\ read_mirror # write_mirror
  BY DEF ringbuffer_status
<1>. QED  BY <1>1, <1>3, <1>4, <1>5 DEF ringbuffer_space_len

\* A write stores bytes, whatever was there.
LEMMA StoredIsPool ==
  ASSUME Inv, NEW bytes \in Seq(Bytes)
  PROVE  Stored(bytes) \in [Offsets -> Bytes]
<1>1. Len(bytes) \in Nat /\ \A i \in 1 .. Len(bytes) : bytes[i] \in Bytes
  BY LenProperties, ElementOfSeq
<1>2. ASSUME NEW o \in Offsets, Distance(write_index, o) < Len(bytes)
      PROVE  Distance(write_index, o) + 1 \in 1 .. Len(bytes)
  BY <1>1, <1>2, BufferSizeAssumption DEF Inv, TypeOK, Offsets, Distance
<1>3. \A o \in Offsets : pool[o] \in Bytes
  BY DEF Inv, TypeOK
<1>. QED  BY <1>1, <1>2, <1>3 DEF Stored

\* The n bytes of a pool from an index on, around its end.
LEMMA CopyIsSeq ==
  ASSUME NEW p \in [Offsets -> Bytes], NEW r \in Offsets, NEW n \in 0 .. BufferSize,
         NEW c, c = [i \in 1 .. n |-> p[Offset(r, i - 1)]]
  PROVE  /\ c \in Seq(Bytes)
         /\ Len(c) = n
         /\ \A i \in 1 .. n : c[i] = p[Offset(r, i - 1)]
<1>1. \A i \in 1 .. n : Offset(r, i - 1) \in Offsets
  BY BufferSizeAssumption DEF Offsets, Offset
<1>2. \A i \in 1 .. n : p[Offset(r, i - 1)] \in Bytes
  BY <1>1
<1>3. n \in Nat
  BY BufferSizeAssumption
<1>. QED  BY <1>2, <1>3

\* The bytes that a read of n bytes returns.
LEMMA StretchIsSeq ==
  ASSUME Inv, NEW n \in 0 .. BufferSize
  PROVE  /\ Stretch(n) \in Seq(Bytes)
         /\ Len(Stretch(n)) = n
         /\ \A i \in 1 .. n : Stretch(n)[i] = pool[Offset(read_index, i - 1)]
<1>1. \A i \in 1 .. n : Offset(read_index, i - 1) \in Offsets
  BY BufferSizeAssumption DEF Inv, TypeOK, Offsets, Offset
<1>2. \A i \in 1 .. n : pool[Offset(read_index, i - 1)] \in Bytes
  BY <1>1 DEF Inv, TypeOK
<1>3. n \in Nat
  BY BufferSizeAssumption
<1>. QED  BY <1>2, <1>3 DEF Stretch

\* The bytes in the buffer, before and after a step.
LEMMA DataIsSeq ==
  /\ Inv => /\ data \in Seq(Bytes)
            /\ Len(data) = ringbuffer_data_len
            /\ \A i \in 1 .. ringbuffer_data_len : data[i] = pool[Offset(read_index, i - 1)]
  /\ Inv' => /\ data' \in Seq(Bytes)
             /\ Len(data') = ringbuffer_data_len'
             /\ \A i \in 1 .. ringbuffer_data_len' :
                    data'[i] = pool'[Offset(read_index', i - 1)]
<1>1. Inv => ringbuffer_data_len \in 0 .. BufferSize
  BY LengthBounds
<1>2. Inv' => ringbuffer_data_len' \in 0 .. BufferSize
  BY LengthByIndices, BufferSizeAssumption DEF Inv, TypeOK, WithinOneLap, Offsets
<1>3. ASSUME Inv PROVE data = [i \in 1 .. ringbuffer_data_len |-> pool[Offset(read_index, i - 1)]]
  BY DEF data, Stretch
<1>4. ASSUME Inv'
      PROVE  data' = [i \in 1 .. ringbuffer_data_len' |-> pool'[Offset(read_index', i - 1)]]
  BY DEF data, Stretch
<1>5. Inv => pool \in [Offsets -> Bytes] /\ read_index \in Offsets
  BY DEF Inv, TypeOK
<1>6. Inv' => pool' \in [Offsets -> Bytes] /\ read_index' \in Offsets
  BY DEF Inv, TypeOK
<1>7. ASSUME Inv
      PROVE  /\ data \in Seq(Bytes)
             /\ Len(data) = ringbuffer_data_len
             /\ \A i \in 1 .. ringbuffer_data_len : data[i] = pool[Offset(read_index, i - 1)]
  BY <1>1, <1>3, <1>5, <1>7, CopyIsSeq
<1>8. ASSUME Inv'
      PROVE  /\ data' \in Seq(Bytes)
             /\ Len(data') = ringbuffer_data_len'
             /\ \A i \in 1 .. ringbuffer_data_len' :
                    data'[i] = pool'[Offset(read_index', i - 1)]
  BY <1>2, <1>4, <1>6, <1>8, CopyIsSeq
<1>. QED  BY <1>7, <1>8

\* The part of the input that ringbuffer_put takes.
LEMMA FrontIsSeq ==
  ASSUME NEW s \in Seq(Bytes), NEW n \in 0 .. Len(s)
  PROVE  /\ SubSeq(s, 1, n) \in Seq(Bytes)
         /\ Len(SubSeq(s, 1, n)) = n
         /\ \A i \in 1 .. n : SubSeq(s, 1, n)[i] = s[i]
<1>1. Len(s) \in Nat /\ \A i \in 1 .. Len(s) : s[i] \in Bytes
  BY LenProperties, ElementOfSeq
<1>2. \A i \in 1 .. n : s[i] \in Bytes
  BY <1>1
<1>3. /\ SubSeq(s, 1, n) \in Seq(Bytes)
      /\ Len(SubSeq(s, 1, n)) = IF 1 <= n THEN n - 1 + 1 ELSE 0
      /\ \A i \in 1 .. n - 1 + 1 : SubSeq(s, 1, n)[i] = s[1 + i - 1]
  BY <1>1, <1>2, SubSeqProperties
<1>. QED  BY <1>1, <1>3

\* The part of a sequence from some position on.
LEMMA BackIsSeq ==
  ASSUME NEW s \in Seq(Bytes), NEW n \in 0 .. Len(s)
  PROVE  /\ SubSeq(s, n + 1, Len(s)) \in Seq(Bytes)
         /\ Len(SubSeq(s, n + 1, Len(s))) = Len(s) - n
         /\ \A i \in 1 .. Len(s) - n : SubSeq(s, n + 1, Len(s))[i] = s[n + i]
<1>1. Len(s) \in Nat /\ \A i \in 1 .. Len(s) : s[i] \in Bytes
  BY LenProperties, ElementOfSeq
<1>2. \A i \in n + 1 .. Len(s) : s[i] \in Bytes
  BY <1>1
<1>3. /\ SubSeq(s, n + 1, Len(s)) \in Seq(Bytes)
      /\ Len(SubSeq(s, n + 1, Len(s))) = IF n + 1 <= Len(s) THEN Len(s) - (n + 1) + 1 ELSE 0
      /\ \A i \in 1 .. Len(s) - (n + 1) + 1 :
            SubSeq(s, n + 1, Len(s))[i] = s[n + 1 + i - 1]
  BY <1>1, <1>2, SubSeqProperties
<1>. QED  BY <1>1, <1>3

\* An input is a sequence of at most MaxLength bytes.
LEMMA InputIsSeq ==
  ASSUME NEW ptr \in Inputs
  PROVE  ptr \in Seq(Bytes) /\ Len(ptr) \in 0 .. MaxLength
BY MaxLengthAssumption DEF Inputs

-----------------------------------------------------------------------------
\* The three kinds of steps.

\* A write for which there is space appends its bytes.
LEMMA WriteAppends ==
  ASSUME Inv, NEW bytes \in Seq(Bytes), Len(bytes) <= ringbuffer_space_len,
         pool' = Stored(bytes), WriteForward(Len(bytes)), UNCHANGED <<reader, out>>
  PROVE  Inv' /\ data' = data \o bytes
<1>1. PICK n \in Nat : n = Len(bytes)
  BY LenProperties
<1>2. PICK used \in 0 .. BufferSize : used = ringbuffer_data_len /\ n <= BufferSize - used
  BY <1>1, LengthBounds DEF ringbuffer_space_len
<1>3. used = IF read_mirror = write_mirror THEN write_index - read_index
            ELSE BufferSize - (read_index - write_index)
  BY <1>2, LengthByIndices
<1>4. /\ write_index' = IF BufferSize - write_index <= n
                        THEN n - (BufferSize - write_index) ELSE write_index + n
      /\ write_mirror' = IF BufferSize - write_index <= n THEN 1 - write_mirror ELSE write_mirror
  BY <1>1 DEF WriteForward, Forward, Flip, Wraps
<1>5. read_index' = read_index /\ read_mirror' = read_mirror /\ out' = out
  BY DEF reader
<1>6. /\ read_mirror \in {0, 1} /\ write_mirror \in {0, 1}
      /\ read_index \in 0 .. (BufferSize - 1) /\ write_index \in 0 .. (BufferSize - 1)
      /\ WithinOneLap
  BY DEF Inv, TypeOK, Offsets
<1>7. Inv'
  <2>1. write_mirror' \in {0, 1} /\ write_index' \in 0 .. (BufferSize - 1) /\ WithinOneLap'
    BY <1>2, <1>3, <1>4, <1>5, <1>6, BufferSizeAssumption DEF WithinOneLap
  <2>2. pool' \in [Offsets -> Bytes]
    BY StoredIsPool
  <2>. QED  BY <1>5, <2>1, <2>2 DEF Inv, TypeOK, Offsets
<1>8. ringbuffer_data_len' = used + n
  <2>1. ringbuffer_data_len' = IF read_mirror' = write_mirror' THEN write_index' - read_index'
                               ELSE BufferSize - (read_index' - write_index')
    BY <1>7, LengthByIndices
  <2>. QED  BY <2>1, <1>2, <1>3, <1>4, <1>5, <1>6, BufferSizeAssumption DEF WithinOneLap
<1>9. /\ data \in Seq(Bytes) /\ Len(data) = used
      /\ \A i \in 1 .. used : data[i] = pool[Offset(read_index, i - 1)]
  BY <1>2, DataIsSeq
<1>10. /\ data' \in Seq(Bytes) /\ Len(data') = used + n
       /\ \A i \in 1 .. used + n : data'[i] = pool'[Offset(read_index, i - 1)]
  BY <1>5, <1>7, <1>8, DataIsSeq
<1>11. /\ data \o bytes \in Seq(Bytes) /\ Len(data \o bytes) = used + n
       /\ \A i \in 1 .. used + n :
              (data \o bytes)[i] = IF i <= used THEN data[i] ELSE bytes[i - used]
  BY <1>1, <1>9, ConcatProperties
<1>12. ASSUME NEW i \in 1 .. used + n
       PROVE  data'[i] = (data \o bytes)[i]
  <2>0. Offset(read_index, i - 1) \in Offsets
    BY <1>2, <1>6, BufferSizeAssumption DEF Offset, Offsets
  <2>1. PICK o \in Offsets : o = Offset(read_index, i - 1)
    BY <2>0
  <2>2. pool'[o] = IF Distance(write_index, o) < n
                   THEN bytes[Distance(write_index, o) + 1] ELSE pool[o]
    BY <1>1 DEF Stored
  <2>3. CASE i <= used
    <3>1. ~ (Distance(write_index, o) < n)
      BY <2>1, <2>3, <1>2, <1>3, <1>6, BufferSizeAssumption
      DEF Offset, Offsets, Distance, WithinOneLap
    <3>2. data'[i] = pool[o] /\ data[i] = pool[o]
      BY <2>1, <2>2, <2>3, <3>1, <1>2, <1>9, <1>10
    <3>. QED  BY <2>3, <3>2, <1>11
  <2>4. CASE ~ (i <= used)
    <3>1. Distance(write_index, o) = i - used - 1
      BY <2>1, <2>4, <1>2, <1>3, <1>6, BufferSizeAssumption
      DEF Offset, Offsets, Distance, WithinOneLap
    <3>2. i - used - 1 < n /\ (i - used - 1) + 1 = i - used
      BY <1>2, <2>4
    <3>3. pool'[o] = bytes[i - used]
      BY <2>2, <3>1, <3>2
    <3>4. data'[i] = bytes[i - used]
      BY <2>1, <3>3, <1>10
    <3>. QED  BY <2>4, <3>4, <1>11
  <2>. QED  BY <2>3, <2>4
<1>13. data' = data \o bytes
  BY <1>2, <1>10, <1>11, <1>12, SeqEqual
<1>. QED  BY <1>7, <1>13

\* A forced write for which there is not enough space fills the buffer with
\* its own bytes and the newest of those that were there.
LEMMA ForcedWriteKeepsNewest ==
  ASSUME Inv, NEW bytes \in Seq(Bytes),
         Len(bytes) <= BufferSize, Len(bytes) > ringbuffer_space_len,
         pool' = Stored(bytes), WriteForward(Len(bytes)), read_index' = write_index',
         read_mirror' \in {0, 1}, read_mirror' # write_mirror', UNCHANGED out
  PROVE  Inv' /\ data' = Fifo!Newest(data \o bytes)
<1>1. PICK n \in Nat : n = Len(bytes)
  BY LenProperties
<1>2. PICK used \in 0 .. BufferSize :
        used = ringbuffer_data_len /\ n <= BufferSize /\ n > BufferSize - used
  BY <1>1, LengthBounds DEF ringbuffer_space_len
<1>3. used = IF read_mirror = write_mirror THEN write_index - read_index
            ELSE BufferSize - (read_index - write_index)
  BY <1>2, LengthByIndices
<1>4. /\ write_index' = IF BufferSize - write_index <= n
                        THEN n - (BufferSize - write_index) ELSE write_index + n
      /\ write_mirror' = IF BufferSize - write_index <= n THEN 1 - write_mirror ELSE write_mirror
  BY <1>1 DEF WriteForward, Forward, Flip, Wraps
<1>5. /\ read_mirror \in {0, 1} /\ write_mirror \in {0, 1}
      /\ read_index \in 0 .. (BufferSize - 1) /\ write_index \in 0 .. (BufferSize - 1)
      /\ WithinOneLap
  BY DEF Inv, TypeOK, Offsets
<1>6. write_mirror' \in {0, 1} /\ write_index' \in 0 .. (BufferSize - 1)
  BY <1>2, <1>4, <1>5, BufferSizeAssumption
<1>7. Inv'
  <2>1. pool' \in [Offsets -> Bytes]
    BY StoredIsPool
  <2>2. out' \in Seq(Bytes) /\ WithinOneLap'
    BY <1>6, BufferSizeAssumption DEF Inv, TypeOK, WithinOneLap
  <2>. QED  BY <1>6, <2>1, <2>2 DEF Inv, TypeOK, Offsets
<1>8. ringbuffer_data_len' = BufferSize
  <2>1. ringbuffer_data_len' = BufferSize - (read_index' - write_index')
    BY <1>7, LengthByIndices
  <2>2. PICK w \in Int : w = write_index' /\ w = read_index'
    BY <1>6
  <2>3. ringbuffer_data_len' = BufferSize - (w - w)
    BY <2>1, <2>2, Zenon
  <2>. QED  BY <2>3, BufferSizeAssumption
<1>9. /\ data \in Seq(Bytes) /\ Len(data) = used
      /\ \A i \in 1 .. used : data[i] = pool[Offset(read_index, i - 1)]
  BY <1>2, DataIsSeq
<1>10. /\ data' \in Seq(Bytes) /\ Len(data') = BufferSize
       /\ \A i \in 1 .. BufferSize : data'[i] = pool'[Offset(write_index', i - 1)]
  BY <1>7, <1>8, DataIsSeq
<1>11. PICK all : all = data \o bytes
  OBVIOUS
<1>12. /\ all \in Seq(Bytes) /\ Len(all) = used + n
       /\ \A i \in 1 .. used + n : all[i] = IF i <= used THEN data[i] ELSE bytes[i - used]
  BY <1>1, <1>9, <1>11, ConcatProperties
<1>13. PICK cut \in Nat : cut = used + n - BufferSize /\ cut \in 0 .. Len(all)
  <2>1. used + n - BufferSize \in Nat /\ used + n - BufferSize \in 0 .. Len(all)
    BY <1>2, <1>12, BufferSizeAssumption
  <2>. QED  BY <2>1
<1>14. PICK kept : kept = SubSeq(all, cut + 1, Len(all))
  OBVIOUS
<1>15. /\ kept \in Seq(Bytes) /\ Len(kept) = Len(all) - cut
       /\ \A i \in 1 .. Len(all) - cut : kept[i] = all[cut + i]
  BY <1>12, <1>13, <1>14, BackIsSeq
<1>16. kept \in Seq(Bytes) /\ Len(kept) = BufferSize /\ Len(all) - cut = BufferSize
  BY <1>2, <1>12, <1>13, <1>15, BufferSizeAssumption
<1>17. Fifo!Newest(all) = kept
  <2>1. ~ (Len(all) <= BufferSize) /\ Len(all) - BufferSize + 1 = cut + 1
    BY <1>2, <1>12, <1>13, BufferSizeAssumption
  <2>. QED  BY <2>1, <1>14 DEF Fifo!Newest
<1>18. ASSUME NEW i \in 1 .. BufferSize
       PROVE  data'[i] = kept[i]
  <2>0. PICK w \in 0 .. (BufferSize - 1) : w = write_index'
    BY <1>6
  <2>1. Offset(write_index', i - 1) \in Offsets
    <3>1. Offset(w, i - 1) \in Offsets
      BY BufferSizeAssumption DEF Offset, Offsets
    <3>. QED  BY <3>1, <2>0, Zenon
  <2>2. PICK o \in Offsets : o = Offset(write_index', i - 1)
    BY <2>1
  <2>3. pool'[o] = IF Distance(write_index, o) < n
                   THEN bytes[Distance(write_index, o) + 1] ELSE pool[o]
    BY <1>1 DEF Stored
  <2>4. data'[i] = pool'[o]
    BY <2>2, <1>10
  <2>5. kept[i] = all[cut + i] /\ cut + i \in 1 .. used + n
    <3>1. i \in 1 .. Len(all) - cut
      BY <1>16
    <3>2. cut = used + n - BufferSize /\ cut \in Nat /\ used + n \in Nat
      BY <1>2, <1>13
    <3>. QED  BY <3>1, <3>2, <1>15, BufferSizeAssumption
  <2>6. CASE cut + i <= used
    <3>1. ~ (Distance(write_index, o) < n)
      BY <2>2, <2>6, <1>2, <1>4, <1>5, <1>13, BufferSizeAssumption
      DEF Offset, Offsets, Distance
    <3>2. o = Offset(read_index, cut + i - 1) /\ cut + i \in 1 .. used
      BY <2>2, <2>6, <1>2, <1>3, <1>4, <1>5, <1>13, BufferSizeAssumption
      DEF Offset, Offsets, WithinOneLap
    <3>3. data[cut + i] = pool[o]
      BY <3>2, <1>9
    <3>4. all[cut + i] = data[cut + i]
      BY <2>5, <2>6, <1>12
    <3>. QED  BY <2>3, <2>4, <2>5, <3>1, <3>3, <3>4
  <2>7. CASE ~ (cut + i <= used)
    <3>1. Distance(write_index, o) = cut + i - used - 1
      BY <2>2, <2>7, <1>2, <1>4, <1>5, <1>13, BufferSizeAssumption
      DEF Offset, Offsets, Distance
    <3>2. cut + i - used - 1 < n /\ (cut + i - used - 1) + 1 = cut + i - used
      BY <1>2, <1>13, <2>7, BufferSizeAssumption
    <3>3. pool'[o] = bytes[cut + i - used]
      BY <2>3, <3>1, <3>2
    <3>4. all[cut + i] = bytes[cut + i - used]
      BY <2>5, <2>7, <1>12
    <3>. QED  BY <2>4, <2>5, <3>3, <3>4
  <2>. QED  BY <2>6, <2>7
<1>19. data' = kept
  BY <1>10, <1>16, <1>18, SeqEqual
<1>. QED  BY <1>7, <1>11, <1>17, <1>19

\* A read returns the oldest bytes and removes them.
LEMMA ReadRemoves ==
  ASSUME Inv, NEW n \in 0 .. ringbuffer_data_len,
         out' = Stretch(n), ReadForward(n), UNCHANGED <<writer, pool>>
  PROVE  Inv' /\ Fifo!Read(n) /\ n <= Len(data)
<1>1. PICK used \in 0 .. BufferSize : used = ringbuffer_data_len /\ n \in 0 .. used
  BY LengthBounds
<1>2. used = IF read_mirror = write_mirror THEN write_index - read_index
            ELSE BufferSize - (read_index - write_index)
  BY <1>1, LengthByIndices
<1>3. /\ read_index' = IF BufferSize - read_index <= n
                       THEN n - (BufferSize - read_index) ELSE read_index + n
      /\ read_mirror' = IF BufferSize - read_index <= n THEN 1 - read_mirror ELSE read_mirror
  BY DEF ReadForward, Forward, Flip, Wraps
<1>4. write_index' = write_index /\ write_mirror' = write_mirror /\ pool' = pool
  BY DEF writer
<1>5. /\ read_mirror \in {0, 1} /\ write_mirror \in {0, 1}
      /\ read_index \in 0 .. (BufferSize - 1) /\ write_index \in 0 .. (BufferSize - 1)
      /\ WithinOneLap
  BY DEF Inv, TypeOK, Offsets
<1>6. /\ Stretch(n) \in Seq(Bytes) /\ Len(Stretch(n)) = n
      /\ \A i \in 1 .. n : Stretch(n)[i] = pool[Offset(read_index, i - 1)]
  BY <1>1, BufferSizeAssumption, StretchIsSeq
<1>7. Inv'
  <2>1. read_mirror' \in {0, 1} /\ read_index' \in 0 .. (BufferSize - 1) /\ WithinOneLap'
    BY <1>1, <1>2, <1>3, <1>4, <1>5, BufferSizeAssumption DEF WithinOneLap
  <2>2. out' \in Seq(Bytes) /\ pool' \in [Offsets -> Bytes]
    BY <1>4, <1>6 DEF Inv, TypeOK
  <2>. QED  BY <1>4, <1>5, <2>1, <2>2 DEF Inv, TypeOK, Offsets
<1>8. ringbuffer_data_len' = used - n
  <2>1. ringbuffer_data_len' = IF read_mirror' = write_mirror' THEN write_index' - read_index'
                               ELSE BufferSize - (read_index' - write_index')
    BY <1>7, LengthByIndices
  <2>. QED  BY <2>1, <1>1, <1>2, <1>3, <1>4, <1>5, BufferSizeAssumption DEF WithinOneLap
<1>9. /\ data \in Seq(Bytes) /\ Len(data) = used
      /\ \A i \in 1 .. used : data[i] = pool[Offset(read_index, i - 1)]
  BY <1>1, DataIsSeq
<1>10. /\ data' \in Seq(Bytes) /\ Len(data') = used - n
       /\ \A i \in 1 .. used - n : data'[i] = pool[Offset(read_index', i - 1)]
  BY <1>4, <1>7, <1>8, DataIsSeq
<1>11. out' = SubSeq(data, 1, n)
  <2>1. PICK front : front = SubSeq(data, 1, n)
    OBVIOUS
  <2>2. /\ front \in Seq(Bytes) /\ Len(front) = n
        /\ \A i \in 1 .. n : front[i] = data[i]
    BY <2>1, <1>1, <1>9, FrontIsSeq
  <2>3. \A i \in 1 .. n : Stretch(n)[i] = front[i]
    BY <2>2, <1>1, <1>6, <1>9
  <2>4. Stretch(n) = front
    BY <2>2, <2>3, <1>6, SeqEqual
  <2>. QED  BY <2>1, <2>4
<1>12. data' = SubSeq(data, n + 1, Len(data))
  <2>1. PICK back : back = SubSeq(data, n + 1, Len(data))
    OBVIOUS
  <2>2. /\ back \in Seq(Bytes) /\ Len(back) = Len(data) - n
        /\ \A i \in 1 .. Len(data) - n : back[i] = data[n + i]
    BY <2>1, <1>1, <1>9, BackIsSeq
  <2>3. ASSUME NEW i \in 1 .. used - n
        PROVE  data'[i] = back[i]
    <3>1. Offset(read_index', i - 1) = Offset(read_index, n + i - 1)
      BY <1>1, <1>2, <1>3, <1>5, BufferSizeAssumption DEF Offset
    <3>2. n + i \in 1 .. used
      BY <1>1
    <3>3. back[i] = data[n + i]
      BY <2>2, <1>9
    <3>4. data[n + i] = pool[Offset(read_index, n + i - 1)]
      BY <3>2, <1>9
    <3>. QED  BY <3>1, <3>3, <3>4, <1>10
  <2>. QED  BY <2>1, <2>2, <2>3, <1>9, <1>10, SeqEqual
<1>. QED  BY <1>1, <1>7, <1>9, <1>11, <1>12 DEF Fifo!Read

-----------------------------------------------------------------------------
\* The operations, each an instance of one of the three.

FifoStep == [Fifo!Next \/ (ringbuffer_reset /\ Fifo!Clear)]_<<data, out>>

\* A write for which there is space is a put of the FIFO.
LEMMA WriteIsFifoStep ==
  ASSUME Inv, NEW bytes \in Seq(Bytes), Len(bytes) <= ringbuffer_space_len,
         pool' = Stored(bytes), WriteForward(Len(bytes)), UNCHANGED <<reader, out>>
  PROVE  Inv' /\ FifoStep
<1>1. Inv' /\ data' = data \o bytes /\ out' = out
  BY WriteAppends
<1>2. Len(data) = ringbuffer_data_len
  BY DataIsSeq
<1>3. Len(bytes) \in 0 .. BufferSize /\ bytes \in [1 .. Len(bytes) -> Bytes]
  BY LengthBounds, LenProperties, BufferSizeAssumption
<1>4. Len(data) + Len(bytes) <= BufferSize
  BY <1>2, <1>3, LengthBounds, BufferSizeAssumption DEF ringbuffer_space_len
<1>5. Fifo!Write(bytes)
  BY <1>1, <1>4 DEF Fifo!Write
<1>6. bytes \in UNION {[1 .. n -> Bytes] : n \in 0 .. BufferSize}
  BY <1>3
<1>7. Fifo!Next
  BY <1>5, <1>6 DEF Fifo!Next
<1>. QED  BY <1>1, <1>7 DEF FifoStep

\* A forced write for which there is no space is a put that drops the oldest bytes.
LEMMA ForcedWriteIsFifoStep ==
  ASSUME Inv, NEW bytes \in Seq(Bytes),
         Len(bytes) <= BufferSize, Len(bytes) > ringbuffer_space_len,
         pool' = Stored(bytes), WriteForward(Len(bytes)), read_index' = write_index',
         read_mirror' \in {0, 1}, read_mirror' # write_mirror', UNCHANGED out
  PROVE  Inv' /\ FifoStep
<1>1. Inv' /\ data' = Fifo!Newest(data \o bytes)
  BY ForcedWriteKeepsNewest
<1>2. Fifo!WriteForced(bytes)
  BY <1>1 DEF Fifo!WriteForced
<1>3. Len(bytes) \in 0 .. BufferSize /\ bytes \in [1 .. Len(bytes) -> Bytes]
  BY LenProperties, BufferSizeAssumption
<1>4. bytes \in UNION {[1 .. n -> Bytes] : n \in 0 .. BufferSize}
  BY <1>3
<1>5. Fifo!Next
  BY <1>2, <1>4 DEF Fifo!Next
<1>. QED  BY <1>1, <1>5 DEF FifoStep

\* A read is a get of the FIFO.
LEMMA ReadIsFifoStep ==
  ASSUME Inv, NEW n \in 1 .. ringbuffer_data_len,
         out' = Stretch(n), ReadForward(n), UNCHANGED <<writer, pool>>
  PROVE  Inv' /\ FifoStep
<1>1. n \in 0 .. ringbuffer_data_len /\ ringbuffer_data_len \in Nat
  BY LengthBounds, BufferSizeAssumption
<1>2. Inv' /\ Fifo!Read(n) /\ n \in 1 .. Len(data)
  BY <1>1, ReadRemoves, DataIsSeq
<1>3. Fifo!Next
  BY <1>2 DEF Fifo!Next
<1>. QED  BY <1>2, <1>3 DEF FifoStep

\* One byte stored at the write index is a write of one byte.
LEMMA OneByteStored ==
  ASSUME Inv, NEW ch \in Bytes
  PROVE  /\ <<ch>> \in Seq(Bytes) /\ Len(<<ch>>) = 1
         /\ [pool EXCEPT ![write_index] = ch] = Stored(<<ch>>)
<1>1. write_index \in Offsets /\ pool \in [Offsets -> Bytes]
  BY DEF Inv, TypeOK
<1>2. ASSUME NEW o \in Offsets
      PROVE  [pool EXCEPT ![write_index] = ch][o] = Stored(<<ch>>)[o]
  <2>1. CASE o = write_index
    <3>1. Distance(write_index, o) = 0
      BY <2>1, <1>1, BufferSizeAssumption DEF Distance, Offsets
    <3>. QED  BY <2>1, <3>1, <1>1 DEF Stored
  <2>2. CASE o # write_index
    <3>1. ~ (Distance(write_index, o) < 1)
      BY <2>2, <1>1, BufferSizeAssumption DEF Distance, Offsets
    <3>. QED  BY <2>2, <3>1, <1>1 DEF Stored
  <2>. QED  BY <2>1, <2>2
<1>3. [pool EXCEPT ![write_index] = ch] = Stored(<<ch>>)
  BY <1>1, <1>2 DEF Stored
<1>. QED  BY <1>3

\* The operations, one lemma each: ringbuffer_put cuts what does not fit,
LEMMA PutStep ==
  ASSUME Inv, NEW ptr \in Inputs, ringbuffer_put(ptr)
  PROVE  Inv' /\ FifoStep
<1>1. PICK asked : asked = Min2(Len(ptr), ringbuffer_space_len)
  OBVIOUS
<1>2. asked \in 0 .. Len(ptr) /\ asked <= ringbuffer_space_len /\ ptr \in Seq(Bytes)
  BY <1>1, InputIsSeq, LengthBounds, MaxLengthAssumption, BufferSizeAssumption DEF Min2
<1>3. PICK bytes : bytes = SubSeq(ptr, 1, asked)
  OBVIOUS
<1>4. bytes \in Seq(Bytes) /\ Len(bytes) = asked
  BY <1>2, <1>3, FrontIsSeq
<1>5. pool' = Stored(bytes) /\ WriteForward(Len(bytes)) /\ UNCHANGED <<reader, out>>
  BY <1>1, <1>3, <1>4 DEF ringbuffer_put
<1>. QED  BY <1>2, <1>4, <1>5, WriteIsFifoStep

\* ringbuffer_put_force moves the reader on, and keeps the end of what is longer than
\* the buffer,
LEMMA PutForceStep ==
  ASSUME Inv, NEW ptr \in Inputs, ringbuffer_put_force(ptr)
  PROVE  Inv' /\ FifoStep
<1>1. PICK n : n = Min2(Len(ptr), BufferSize)
  OBVIOUS
<1>2. /\ n \in Nat /\ n <= BufferSize /\ ptr \in Seq(Bytes)
      /\ Len(ptr) \in Nat /\ Len(ptr) - n \in 0 .. Len(ptr)
  BY <1>1, InputIsSeq, MaxLengthAssumption, BufferSizeAssumption DEF Min2
<1>3. PICK bytes : bytes = SubSeq(ptr, Len(ptr) - n + 1, Len(ptr))
  OBVIOUS
<1>4. bytes \in Seq(Bytes) /\ Len(bytes) = n
  BY <1>2, <1>3, BackIsSeq
<1>5. /\ pool' = Stored(bytes) /\ WriteForward(Len(bytes)) /\ UNCHANGED out
      /\ read_index' = IF n > ringbuffer_space_len THEN write_index' ELSE read_index
      /\ read_mirror' =
           IF n > ringbuffer_space_len /\ Wraps(write_index, n) /\ write_index' <= read_index
           THEN 1 - read_mirror ELSE read_mirror
  BY <1>1, <1>3, <1>4 DEF ringbuffer_put_force
<1>6. CASE ~ (n > ringbuffer_space_len)
  <2>1. Len(bytes) <= ringbuffer_space_len
    BY <1>2, <1>4, <1>6, LengthBounds, BufferSizeAssumption
  <2>2. UNCHANGED <<reader, out>>
    BY <1>5, <1>6 DEF reader
  <2>. QED  BY <1>4, <1>5, <2>1, <2>2, WriteIsFifoStep
<1>7. CASE n > ringbuffer_space_len
  <2>1. PICK used \in 0 .. BufferSize : used = ringbuffer_data_len /\ n > BufferSize - used
    BY <1>7, LengthBounds DEF ringbuffer_space_len
  <2>2. used = IF read_mirror = write_mirror THEN write_index - read_index
              ELSE BufferSize - (read_index - write_index)
    BY <2>1, LengthByIndices
  <2>3. /\ write_index' = IF BufferSize - write_index <= n
                          THEN n - (BufferSize - write_index) ELSE write_index + n
        /\ write_mirror' = IF BufferSize - write_index <= n
                           THEN 1 - write_mirror ELSE write_mirror
    BY <1>4, <1>5 DEF WriteForward, Forward, Flip, Wraps
  <2>4. /\ read_mirror \in {0, 1} /\ write_mirror \in {0, 1}
        /\ read_index \in 0 .. (BufferSize - 1) /\ write_index \in 0 .. (BufferSize - 1)
        /\ WithinOneLap
    BY DEF Inv, TypeOK, Offsets
  <2>5. read_mirror' = IF BufferSize - write_index <= n /\ write_index' <= read_index
                       THEN 1 - read_mirror ELSE read_mirror
    BY <1>5, <1>7 DEF Wraps
  <2>6. read_mirror' \in {0, 1} /\ read_mirror' # write_mirror'
    <3>1. CASE ~ (BufferSize - write_index <= n)
      BY <3>1, <1>2, <2>1, <2>2, <2>3, <2>4, <2>5, BufferSizeAssumption DEF WithinOneLap
    <3>2. CASE BufferSize - write_index <= n /\ read_mirror = write_mirror
      <4>1. write_index' = n - (BufferSize - write_index) /\ write_index' > read_index
        BY <3>2, <1>2, <2>1, <2>2, <2>3, <2>4, BufferSizeAssumption
      <4>. QED  BY <3>2, <4>1, <2>3, <2>4, <2>5
    <3>3. CASE BufferSize - write_index <= n /\ read_mirror # write_mirror
      <4>1. write_index' = n - (BufferSize - write_index) /\ write_index' <= read_index
        BY <3>3, <1>2, <2>3, <2>4, BufferSizeAssumption DEF WithinOneLap
      <4>. QED  BY <3>3, <4>1, <2>3, <2>4, <2>5
    <3>. QED  BY <3>1, <3>2, <3>3
  <2>7. read_index' = write_index'
    BY <1>5, <1>7
  <2>. QED  BY <1>2, <1>4, <1>5, <1>7, <2>6, <2>7, ForcedWriteIsFifoStep
<1>. QED  BY <1>6, <1>7

\* ringbuffer_get gives at most what is there,
LEMMA GetStep ==
  ASSUME Inv, NEW asked \in 1 .. MaxLength, ringbuffer_get(asked)
  PROVE  Inv' /\ FifoStep
<1>1. PICK n : n = Min2(asked, ringbuffer_data_len)
  OBVIOUS
<1>2. n \in 1 .. ringbuffer_data_len
  BY <1>1, LengthBounds, MaxLengthAssumption, BufferSizeAssumption DEF Min2, ringbuffer_get
<1>3. out' = Stretch(n) /\ ReadForward(n) /\ UNCHANGED <<writer, pool>>
  BY <1>1 DEF ringbuffer_get
<1>. QED  BY <1>2, <1>3, ReadIsFifoStep

\* ringbuffer_peek gives the bytes to the end of the memory,
LEMMA PeekStep ==
  ASSUME Inv, ringbuffer_peek
  PROVE  Inv' /\ FifoStep
<1>1. PICK n : n = Min2(ringbuffer_data_len, BufferSize - read_index)
  OBVIOUS
<1>2. n \in 1 .. ringbuffer_data_len
  BY <1>1, LengthBounds, BufferSizeAssumption DEF Inv, TypeOK, Offsets, Min2, ringbuffer_peek
<1>3. out' = Stretch(n) /\ ReadForward(n) /\ UNCHANGED <<writer, pool>>
  BY <1>1 DEF ringbuffer_peek
<1>. QED  BY <1>2, <1>3, ReadIsFifoStep

\* ringbuffer_putchar refuses a byte when the buffer is full,
LEMMA PutcharStep ==
  ASSUME Inv, NEW ch \in Bytes, ringbuffer_putchar(ch)
  PROVE  Inv' /\ FifoStep
<1>1. PICK bytes \in Seq(Bytes) : Len(bytes) = 1 /\ pool' = Stored(bytes)
  BY OneByteStored DEF ringbuffer_putchar
<1>2. Len(bytes) <= ringbuffer_space_len
  BY <1>1, LengthBounds, BufferSizeAssumption DEF ringbuffer_putchar
<1>3. WriteForward(Len(bytes)) /\ UNCHANGED <<reader, out>>
  BY <1>1 DEF ringbuffer_putchar
<1>. QED  BY <1>1, <1>2, <1>3, WriteIsFifoStep

\* ringbuffer_putchar_force overwrites the oldest,
LEMMA PutcharForceStep ==
  ASSUME Inv, NEW ch \in Bytes, ringbuffer_putchar_force(ch)
  PROVE  Inv' /\ FifoStep
<1>1. PICK bytes \in Seq(Bytes) : Len(bytes) = 1 /\ pool' = Stored(bytes)
  BY OneByteStored DEF ringbuffer_putchar_force
<1>2. WriteForward(Len(bytes)) /\ UNCHANGED out
  BY <1>1 DEF ringbuffer_putchar_force
<1>3. CASE ringbuffer_status # "FULL"
  <2>1. ringbuffer_space_len \in 0 .. BufferSize /\ ringbuffer_space_len # 0
    BY <1>3, LengthBounds, BufferSizeAssumption DEF ringbuffer_space_len
  <2>2. Len(bytes) <= ringbuffer_space_len
    BY <1>1, <2>1, BufferSizeAssumption
  <2>3. UNCHANGED <<reader, out>>
    BY <1>2, <1>3 DEF ringbuffer_putchar_force
  <2>. QED  BY <1>1, <1>2, <2>2, <2>3, WriteIsFifoStep
<1>4. CASE ringbuffer_status = "FULL"
  <2>1. ringbuffer_space_len = 0
    BY <1>4, LengthBounds, BufferSizeAssumption DEF ringbuffer_space_len
  <2>2. Len(bytes) <= BufferSize /\ Len(bytes) > ringbuffer_space_len
    BY <1>1, <2>1, BufferSizeAssumption
  <2>3. read_index' = write_index' /\ read_mirror' = Flip(read_mirror, write_index, 1)
    BY <1>4 DEF ringbuffer_putchar_force
  <2>4. read_mirror \in {0, 1} /\ write_mirror \in {0, 1} /\ read_mirror # write_mirror
    BY <1>4 DEF Inv, TypeOK, ringbuffer_status
  <2>5. write_mirror' = Flip(write_mirror, write_index, 1)
    BY DEF ringbuffer_putchar_force, WriteForward
  <2>6. read_mirror' \in {0, 1} /\ read_mirror' # write_mirror'
    BY <2>3, <2>4, <2>5 DEF Flip
  <2>. QED  BY <1>1, <1>2, <2>2, <2>3, <2>6, ForcedWriteIsFifoStep
<1>. QED  BY <1>3, <1>4

\* ringbuffer_getchar takes the oldest,
LEMMA GetcharStep ==
  ASSUME Inv, ringbuffer_getchar
  PROVE  Inv' /\ FifoStep
<1>1. 1 \in 1 .. ringbuffer_data_len
  BY LengthBounds, BufferSizeAssumption DEF ringbuffer_getchar
<1>2. Offset(read_index, 1 - 1) = read_index
  BY BufferSizeAssumption DEF Inv, TypeOK, Offsets, Offset
<1>3. 1 \in 0 .. BufferSize
  BY BufferSizeAssumption
<1>4. Stretch(1) \in Seq(Bytes) /\ Len(Stretch(1)) = 1 /\ Stretch(1)[1] = pool[read_index]
  <2>1. /\ Stretch(1) \in Seq(Bytes) /\ Len(Stretch(1)) = 1
        /\ \A i \in 1 .. 1 : Stretch(1)[i] = pool[Offset(read_index, i - 1)]
    BY <1>3, StretchIsSeq
  <2>2. 1 \in 1 .. 1
    OBVIOUS
  <2>3. Stretch(1)[1] = pool[Offset(read_index, 1 - 1)]
    BY <2>1, <2>2, Zenon
  <2>. QED  BY <2>1, <2>3, <1>2, Zenon
<1>5. <<pool[read_index]>> \in Seq(Bytes) /\ Len(<<pool[read_index]>>) = 1
  BY DEF Inv, TypeOK
<1>6. <<pool[read_index]>> = Stretch(1)
  BY <1>4, <1>5, SeqEqual
<1>7. out' = Stretch(1) /\ ReadForward(1) /\ UNCHANGED <<writer, pool>>
  BY <1>6 DEF ringbuffer_getchar
<1>. QED  BY <1>1, <1>7, ReadIsFifoStep

\* ringbuffer_reset empties the buffer,
LEMMA ResetStep ==
  ASSUME Inv, ringbuffer_reset
  PROVE  Inv' /\ FifoStep
<1>1. Inv'
  BY BufferSizeAssumption DEF Inv, TypeOK, WithinOneLap, Offsets, ringbuffer_reset
<1>2. ringbuffer_data_len' = 0
  BY <1>1, LengthByIndices DEF ringbuffer_reset
<1>3. data' \in Seq(Bytes) /\ Len(data') = 0
  BY <1>1, <1>2, DataIsSeq
<1>4. data' = << >>
  BY <1>3, EmptySeq
<1>5. Fifo!Clear
  BY <1>4 DEF Fifo!Clear, ringbuffer_reset
<1>. QED  BY <1>1, <1>5 DEF FifoStep

\* and nothing at all is a stutter of the FIFO.
LEMMA StutterStep ==
  ASSUME Inv, UNCHANGED vars
  PROVE  Inv' /\ FifoStep
<1>1. /\ read_mirror' = read_mirror /\ read_index' = read_index
      /\ write_mirror' = write_mirror /\ write_index' = write_index
      /\ pool' = pool /\ out' = out
  BY DEF vars, reader, writer
<1>2. Inv'
  BY <1>1 DEF Inv, TypeOK, WithinOneLap
<1>3. data' = data
  BY <1>1 DEF data, Stretch, ringbuffer_data_len, ringbuffer_status
<1>. QED  BY <1>1, <1>2, <1>3 DEF FifoStep

-----------------------------------------------------------------------------
\* The empty buffer is the empty FIFO.
LEMMA InitStep == Init => Inv /\ Fifo!Init
<1>1. ASSUME Init PROVE Inv
  BY <1>1, BufferSizeAssumption, EmptySeq
  DEF Init, ringbuffer_init, Inv, TypeOK, WithinOneLap, Offsets
<1>2. ASSUME Init PROVE data = << >>
  <2>1. ringbuffer_data_len = 0
    BY <1>1, <1>2, LengthByIndices DEF Init, ringbuffer_init
  <2>2. data \in Seq(Bytes) /\ Len(data) = 0
    BY <1>1, <1>2, <2>1, DataIsSeq
  <2>. QED  BY <2>2, EmptySeq
<1>. QED  BY <1>1, <1>2 DEF Fifo!Init, Init, ringbuffer_init

\* Every step keeps the invariant and is a step or a stutter of the FIFO.
LEMMA NextStep == Inv /\ [Next]_vars => Inv' /\ FifoStep
<1> SUFFICES ASSUME Inv, [Next]_vars PROVE Inv' /\ FifoStep
  OBVIOUS
<1>1. CASE \E ptr \in Inputs : ringbuffer_put(ptr)
  BY <1>1, PutStep
<1>2. CASE \E ptr \in Inputs : ringbuffer_put_force(ptr)
  BY <1>2, PutForceStep
<1>3. CASE \E asked \in 1 .. MaxLength : ringbuffer_get(asked)
  BY <1>3, GetStep
<1>4. CASE \E ch \in Bytes : ringbuffer_putchar(ch)
  BY <1>4, PutcharStep
<1>5. CASE \E ch \in Bytes : ringbuffer_putchar_force(ch)
  BY <1>5, PutcharForceStep
<1>6. CASE ringbuffer_peek
  BY <1>6, PeekStep
<1>7. CASE ringbuffer_getchar
  BY <1>7, GetcharStep
<1>8. CASE ringbuffer_reset
  BY <1>8, ResetStep
<1>9. CASE UNCHANGED vars
  BY <1>9, StutterStep
<1>. QED  BY <1>1, <1>2, <1>3, <1>4, <1>5, <1>6, <1>7, <1>8, <1>9 DEF Next

\* The indices, mirror bits and bytes keep their types.
THEOREM TypeCorrect == Spec => []TypeOK
<1>1. Inv => TypeOK
  BY DEF Inv
<1>. QED  BY <1>1, InitStep, NextStep, PTL DEF Spec

\* The writer is never more than one lap ahead of the reader, forced writes
\* included.
THEOREM LapCorrect == Spec => []WithinOneLap
<1>1. Inv => WithinOneLap
  BY DEF Inv
<1>. QED  BY <1>1, InitStep, NextStep, PTL DEF Spec

\* The ring buffer of any size is a FIFO of that many bytes.
THEOREM FifoCorrect == Spec => FifoSpec
<1>1. Inv /\ [Next]_vars =>
        [Fifo!Next \/ (ringbuffer_reset /\ Fifo!Clear)]_<<data, out>>
  BY NextStep DEF FifoStep
<1>2. Init => Inv /\ Fifo!Init
  BY InitStep
<1>3. Inv /\ [Next]_vars => Inv'
  BY NextStep
<1>. QED  BY <1>1, <1>2, <1>3, PTL DEF Spec, FifoSpec

-----------------------------------------------------------------------------
\* The writer and the reader without a lock.


Places == {"idle", "load", "status", "mirror", "returned", "store", "store_index"}

RaceTypes ==
  /\ read_mirror \in {0, 1} /\ write_mirror \in {0, 1}
  /\ read_index \in Offsets /\ write_index \in Offsets
  /\ pc \in [Sides -> Places]
  /\ seen \in [Sides -> Offsets]
  /\ len \in [Sides -> 0 .. BufferSize]
  /\ length \in [Sides -> Nat]

\* The bytes copied in and not yet counted by write_index, and those copied
\* out and still counted by read_index.
Putting == IF pc[Writer] = "store" THEN len[Writer] ELSE 0
Getting == IF pc[Reader] = "store" THEN len[Reader] ELSE 0

WholeSteps == \A t \in Sides : pc[t] \in {"idle", "load", "returned", "store"}

\* The writer may think the buffer fuller than it is, the reader emptier.
Margins ==
  /\ pc[Writer] = "returned" => ringbuffer_data_len <= len[Writer]
  /\ pc[Reader] = "returned" => len[Reader] <= ringbuffer_data_len
  /\ ringbuffer_data_len + Putting <= BufferSize
  /\ Getting <= ringbuffer_data_len

Counted(s) == s \in Seq(Nat) /\ \A i \in 1 .. Len(s) : s[i] = i

\* The bytes from the read index on follow the last one got.
Numbered ==
  /\ Counted(accepted) /\ Counted(got)
  /\ Len(accepted) + Getting = Len(got) + ringbuffer_data_len + Putting
  /\ pool \in [Offsets -> Nat]
  /\ \A k \in 1 .. (ringbuffer_data_len + Putting) :
        pool[Offset(read_index, k - 1)] = Len(got) - Getting + k

RaceInv == RaceTypes /\ WithinOneLap /\ WholeSteps /\ Margins /\ Numbered

WholeInv == WholeWords => RaceInv

-----------------------------------------------------------------------------
\* Every build: types.

\* Writer and reader are two.
LEMMA SidesDiffer == Writer \in Sides /\ Reader \in Sides /\ Writer # Reader
BY SidesAssumption DEF Sides

\* What both sides of ringbuffer_data_len can return, whatever they have seen.
LEMMA LengthsFit ==
  /\ RaceTypes => ringbuffer_data_len \in 0 .. BufferSize
  /\ \A wi, ri \in Offsets : Between(wi, ri) \in 0 .. BufferSize
<1>1. RaceTypes => ringbuffer_data_len \in 0 .. BufferSize
  BY BufferSizeAssumption DEF RaceTypes, Offsets, ringbuffer_data_len, ringbuffer_status
<1>2. \A wi, ri \in Offsets : Between(wi, ri) \in 0 .. BufferSize
  BY BufferSizeAssumption DEF Between, Offsets
<1>. QED  BY <1>1, <1>2

\* An index moves on within the buffer.
LEMMA ForwardFits ==
  ASSUME NEW index \in Offsets, NEW n \in 0 .. BufferSize, NEW mirror \in {0, 1}
  PROVE  Forward(index, n) \in Offsets /\ Flip(mirror, index, n) \in {0, 1}
BY BufferSizeAssumption DEF Forward, Flip, Wraps, Offsets

\* An offset, counted on around the end, is in the memory.
LEMMA OffsetFits ==
  ASSUME NEW index \in Offsets, NEW k \in 0 .. (BufferSize - 1)
  PROVE  Offset(index, k) \in Offsets
BY BufferSizeAssumption DEF Offset, Offsets

\* A step moves one side from one place to another.
LEMMA StepMoves ==
  ASSUME RaceTypes, NEW t \in Sides, NEW from, NEW to \in Places, Step(t, from, to)
  PROVE  /\ pc[t] = from /\ pc' \in [Sides -> Places] /\ pc'[t] = to
         /\ \A u \in Sides : u # t => pc'[u] = pc[u]
BY DEF RaceTypes, Step

\* A step that moves neither index.
LEMMA IndicesStay ==
  ASSUME RaceTypes, UNCHANGED <<reader, writer>>,
         pc' \in [Sides -> Places], seen' \in [Sides -> Offsets],
         len' \in [Sides -> 0 .. BufferSize], length' \in [Sides -> Nat]
  PROVE  RaceTypes'
BY DEF RaceTypes, reader, writer, Offsets

\* The loads that measure what is in the buffer keep the types and change nothing
\* else.
LEMMA DataLenTypes ==
  ASSUME RaceTypes, NEW t \in Sides, DataLen(t)
  PROVE  RaceTypes' /\ UNCHANGED <<vars, build, length, measured, accepted, got>>
<1>1. /\ UNCHANGED <<vars, build, length, measured, accepted, got>>
      /\ UNCHANGED <<reader, writer>>
  BY DEF DataLen, Load, StatusIndex, StatusMirror, LoadOnce, vars
<1>2. pc' \in [Sides -> Places]
  BY DEF DataLen, Load, StatusIndex, StatusMirror, LoadOnce, Step, RaceTypes, Places
<1>3. Other(t) \in Offsets
  BY DEF Other, RaceTypes
<1>4. seen' \in [Sides -> Offsets]
  BY <1>3 DEF DataLen, Load, StatusIndex, StatusMirror, LoadOnce, RaceTypes
<1>5. len' \in [Sides -> 0 .. BufferSize]
  <2>1. len \in [Sides -> 0 .. BufferSize]
    BY DEF RaceTypes
  <2>2. ASSUME NEW n \in 0 .. BufferSize, len' = [len EXCEPT ![t] = n]
        PROVE  len' \in [Sides -> 0 .. BufferSize]
    BY <2>1, <2>2
  <2>3. CASE Load(t)
    BY <2>1, <2>3 DEF Load
  <2>4. CASE LoadOnce(t)
    BY <2>2, <2>4, LengthsFit DEF LoadOnce
  <2>5. CASE StatusMirror(t)
    <3>1. 0 \in 0 .. BufferSize /\ BufferSize \in 0 .. BufferSize
      BY BufferSizeAssumption
    <3>. QED  BY <2>2, <2>5, <3>1 DEF StatusMirror
  <2>6. CASE StatusIndex(t)
    <3>1. /\ Between(write_index, seen[t]) \in 0 .. BufferSize
          /\ Between(seen[t], read_index) \in 0 .. BufferSize
      BY LengthsFit DEF RaceTypes
    <3>. QED  BY <2>1, <2>2, <2>6, <3>1 DEF StatusIndex
  <2>. QED  BY <2>3, <2>4, <2>5, <2>6 DEF DataLen
<1>. QED  BY <1>1, <1>2, <1>4, <1>5, IndicesStay DEF RaceTypes

\* The writer copies at most as many bytes as there are places, also if it measured a
\* mixture of old and new.
LEMMA CopyInTypes ==
  ASSUME RaceTypes, CopyIn
  PROVE  RaceTypes'
<1>1. Writer \in Sides
  BY SidesDiffer
<1>2. PICK n : n = Min2(length[Writer], BufferSize - len[Writer])
  OBVIOUS
<1>3. n \in 0 .. BufferSize
  BY <1>1, <1>2, BufferSizeAssumption DEF RaceTypes, Min2
<1>4. len' = [len EXCEPT ![Writer] = n]
  BY <1>2 DEF CopyIn
<1>5. len' \in [Sides -> 0 .. BufferSize]
  BY <1>3, <1>4 DEF RaceTypes
<1>6. pc' \in [Sides -> Places]
  BY DEF CopyIn, Step, RaceTypes, Places
<1>. QED  BY <1>5, <1>6, IndicesStay DEF CopyIn, RaceTypes

\* The reader copies at most as many bytes as there are places, likewise.
LEMMA CopyOutTypes ==
  ASSUME RaceTypes, CopyOut
  PROVE  RaceTypes'
<1>1. Reader \in Sides
  BY SidesDiffer
<1>2. PICK n : n = Min2(length[Reader], len[Reader])
  OBVIOUS
<1>3. n \in 0 .. BufferSize
  BY <1>1, <1>2, BufferSizeAssumption DEF RaceTypes, Min2
<1>4. len' = [len EXCEPT ![Reader] = n]
  BY <1>2 DEF CopyOut
<1>5. len' \in [Sides -> 0 .. BufferSize]
  BY <1>3, <1>4 DEF RaceTypes
<1>6. pc' \in [Sides -> Places]
  BY DEF CopyOut, Step, RaceTypes, Places
<1>. QED  BY <1>5, <1>6, IndicesStay DEF CopyOut, RaceTypes

\* A store leaves an index in the memory and a mirror bit.
LEMMA StoreTypes ==
  ASSUME RaceTypes, NEW t \in Sides, Store(t)
  PROVE  RaceTypes'
<1>1. UNCHANGED <<seen, len, length>>
  BY DEF Store, StoreWord, StoreMirror, StoreIndex
<1>2. pc' \in [Sides -> Places]
  BY DEF Store, StoreWord, StoreMirror, StoreIndex, Step, RaceTypes, Places
<1>3. PICK n \in 0 .. BufferSize : n = len[t]
  BY DEF RaceTypes
<1>4. /\ Forward(write_index, n) \in Offsets /\ Forward(read_index, n) \in Offsets
      /\ Flip(write_mirror, write_index, n) \in {0, 1}
      /\ Flip(read_mirror, read_index, n) \in {0, 1}
  BY ForwardFits DEF RaceTypes
<1>5. read_index' \in Offsets /\ write_index' \in Offsets
  BY <1>3, <1>4 DEF RaceTypes, Store, StoreWord, StoreMirror, StoreIndex, reader, writer,
       WriteForward, ReadForward
<1>6. read_mirror' \in {0, 1} /\ write_mirror' \in {0, 1}
  BY <1>3, <1>4 DEF RaceTypes, Store, StoreWord, StoreMirror, StoreIndex, reader, writer,
       WriteForward, ReadForward
<1>. QED  BY <1>1, <1>2, <1>5, <1>6 DEF RaceTypes, Offsets

\* The types are inductive for every build.
LEMMA NextTypes == RaceTypes /\ [RNext]_rvars => RaceTypes'
<1>. SUFFICES ASSUME RaceTypes, [RNext]_rvars PROVE RaceTypes'
  OBVIOUS
<1>1. ASSUME StartPut PROVE RaceTypes'
  <2>1. length' \in [Sides -> Nat]
    <3>1. PICK n \in 1 .. MaxLength : length' = [length EXCEPT ![Writer] = n]
      BY <1>1 DEF StartPut
    <3>2. n \in Nat
      BY MaxLengthAssumption
    <3>. QED  BY <3>1, <3>2 DEF RaceTypes
  <2>2. pc' \in [Sides -> Places]
    BY <1>1 DEF StartPut, Step, RaceTypes, Places
  <2>. QED  BY <1>1, <2>1, <2>2, IndicesStay DEF StartPut, vars, RaceTypes
<1>2. ASSUME StartOutput \/ NoMemory PROVE RaceTypes'
  <2>1. pc' \in [Sides -> Places]
    BY <1>2 DEF StartOutput, NoMemory, Step, RaceTypes, Places
  <2>. QED  BY <1>2, <2>1, IndicesStay DEF StartOutput, NoMemory, vars, RaceTypes
<1>3. ASSUME KeepLength PROVE RaceTypes'
  <2>1. length' \in [Sides -> Nat]
    BY <1>3, SidesDiffer, BufferSizeAssumption DEF KeepLength, RaceTypes
  <2>2. pc' \in [Sides -> Places]
    BY <1>3 DEF KeepLength, Step, RaceTypes, Places
  <2>. QED  BY <1>3, <2>1, <2>2, IndicesStay DEF KeepLength, vars, RaceTypes
<1>4. UNCHANGED rvars => RaceTypes'
  BY DEF rvars, vars, reader, writer, RaceTypes, Offsets
<1>. QED  BY <1>1, <1>2, <1>3, <1>4, DataLenTypes, CopyInTypes, CopyOutTypes, StoreTypes
          DEF RNext

\* The buffer is empty at the beginning.
LEMMA InitTypes == RInit => RaceTypes
BY BufferSizeAssumption DEF RInit, RaceTypes, Offsets, Places

\* Whatever the build and the interleaving, the indices stay in the buffer and
\* no copy is longer than it.
THEOREM CopiesStayInBuffer == RSpec => []CopiesInBuffer
<1>1. RaceTypes => CopiesInBuffer
  BY DEF RaceTypes, CopiesInBuffer
<1>. QED  BY <1>1, InitTypes, NextTypes, PTL DEF RSpec

-----------------------------------------------------------------------------
\* Builds with whole words: what a side has measured stays safe to use.

\* The length of the data, from indices and mirror bits.
LEMMA LengthNow ==
  /\ RaceTypes /\ WithinOneLap => ringbuffer_data_len =
        IF read_mirror = write_mirror THEN write_index - read_index
        ELSE BufferSize - (read_index - write_index)
  /\ RaceTypes' /\ WithinOneLap' => ringbuffer_data_len' =
        IF read_mirror' = write_mirror' THEN write_index' - read_index'
        ELSE BufferSize - (read_index' - write_index')
BY BufferSizeAssumption
   DEF RaceTypes, WithinOneLap, Offsets, ringbuffer_data_len, ringbuffer_status

\* The write index moves over bytes that were free.
LEMMA WriterMoves ==
  ASSUME RaceTypes, RaceTypes', WithinOneLap, NEW n \in Nat,
         ringbuffer_data_len + n <= BufferSize, WriteForward(n), UNCHANGED reader
  PROVE  WithinOneLap' /\ ringbuffer_data_len' = ringbuffer_data_len + n
<1>1. PICK d \in 0 .. BufferSize : d = ringbuffer_data_len
  BY LengthsFit
<1>2. d = IF read_mirror = write_mirror THEN write_index - read_index
          ELSE BufferSize - (read_index - write_index)
  BY <1>1, LengthNow
<1>3. /\ write_index' = IF BufferSize - write_index <= n
                        THEN n - (BufferSize - write_index) ELSE write_index + n
      /\ write_mirror' = IF BufferSize - write_index <= n THEN 1 - write_mirror ELSE write_mirror
      /\ read_index' = read_index /\ read_mirror' = read_mirror
  BY DEF WriteForward, Forward, Flip, Wraps, reader
<1>4. /\ read_mirror \in {0, 1} /\ write_mirror \in {0, 1}
      /\ read_index \in 0 .. (BufferSize - 1) /\ write_index \in 0 .. (BufferSize - 1)
      /\ WithinOneLap /\ d + n <= BufferSize
  BY <1>1 DEF RaceTypes, Offsets
<1>5. WithinOneLap'
  BY <1>2, <1>3, <1>4, BufferSizeAssumption DEF WithinOneLap
<1>6. ringbuffer_data_len' = IF read_mirror' = write_mirror' THEN write_index' - read_index'
                             ELSE BufferSize - (read_index' - write_index')
  BY <1>5, LengthNow
<1>7. ringbuffer_data_len' = d + n
  BY <1>2, <1>3, <1>4, <1>6, BufferSizeAssumption DEF WithinOneLap
<1>. QED  BY <1>1, <1>5, <1>7

\* The read index moves over bytes that were there.
LEMMA ReaderMoves ==
  ASSUME RaceTypes, RaceTypes', WithinOneLap, NEW n \in Nat,
         n <= ringbuffer_data_len, ReadForward(n), UNCHANGED writer
  PROVE  /\ WithinOneLap' /\ ringbuffer_data_len' = ringbuffer_data_len - n
         /\ \A k \in 1 .. (BufferSize - n) :
               Offset(read_index', k - 1) = Offset(read_index, n + k - 1)
<1>1. PICK d \in 0 .. BufferSize : d = ringbuffer_data_len
  BY LengthsFit
<1>2. d = IF read_mirror = write_mirror THEN write_index - read_index
          ELSE BufferSize - (read_index - write_index)
  BY <1>1, LengthNow
<1>3. /\ read_index' = IF BufferSize - read_index <= n
                       THEN n - (BufferSize - read_index) ELSE read_index + n
      /\ read_mirror' = IF BufferSize - read_index <= n THEN 1 - read_mirror ELSE read_mirror
      /\ write_index' = write_index /\ write_mirror' = write_mirror
  BY DEF ReadForward, Forward, Flip, Wraps, writer
<1>4. /\ read_mirror \in {0, 1} /\ write_mirror \in {0, 1}
      /\ read_index \in 0 .. (BufferSize - 1) /\ write_index \in 0 .. (BufferSize - 1)
      /\ WithinOneLap /\ n <= d
  BY <1>1 DEF RaceTypes, Offsets
<1>5. WithinOneLap'
  BY <1>2, <1>3, <1>4, BufferSizeAssumption DEF WithinOneLap
<1>6. ringbuffer_data_len' = IF read_mirror' = write_mirror' THEN write_index' - read_index'
                             ELSE BufferSize - (read_index' - write_index')
  BY <1>5, LengthNow
<1>7. ringbuffer_data_len' = d - n
  BY <1>2, <1>3, <1>4, <1>6, BufferSizeAssumption DEF WithinOneLap
<1>8. ASSUME NEW k \in 1 .. (BufferSize - n)
      PROVE  Offset(read_index', k - 1) = Offset(read_index, n + k - 1)
  BY <1>3, <1>4, BufferSizeAssumption DEF Offset
<1>. QED  BY <1>1, <1>5, <1>7, <1>8

\* The bytes put are numbered on, in the buffer and in accepted.
LEMMA CopyInKeepsRace ==
  ASSUME RaceInv, RaceTypes', CopyIn
  PROVE  RaceInv'
<1>1. /\ pc[Writer] = "returned"
      /\ UNCHANGED <<read_index, read_mirror, write_index, write_mirror, got>>
      /\ pc' = [pc EXCEPT ![Writer] = IF len'[Writer] = 0 THEN "idle" ELSE "store"]
  BY DEF CopyIn, Step, reader, writer
<1>2. ringbuffer_data_len' = ringbuffer_data_len /\ WithinOneLap'
  BY <1>1 DEF ringbuffer_data_len, ringbuffer_status, RaceInv, WithinOneLap
<1>3. PICK d \in 0 .. BufferSize : d = ringbuffer_data_len
  BY LengthsFit DEF RaceInv
<1>4. PICK n : n = Min2(length[Writer], BufferSize - len[Writer])
  OBVIOUS
<1>5. n \in Nat /\ d + n <= BufferSize
  <2>1. length[Writer] \in Nat /\ len[Writer] \in 0 .. BufferSize /\ d <= len[Writer]
    BY <1>1, <1>3, SidesDiffer DEF RaceInv, RaceTypes, Margins
  <2>. QED  BY <1>3, <1>4, <2>1, BufferSizeAssumption DEF Min2
<1>6. len' = [len EXCEPT ![Writer] = n]
  BY <1>4 DEF CopyIn
<1>7. len'[Writer] = n /\ len'[Reader] = len[Reader]
  BY <1>6, SidesDiffer DEF RaceInv, RaceTypes
<1>8. /\ pc'[Writer] = IF n = 0 THEN "idle" ELSE "store"
      /\ pc'[Reader] = pc[Reader] /\ \A t \in Sides : t = Writer \/ t = Reader
  BY <1>1, <1>7, SidesDiffer DEF RaceInv, RaceTypes, Sides
<1>9. Putting = 0 /\ Putting' = n /\ Getting' = Getting
  BY <1>1, <1>7, <1>8 DEF Putting, Getting
<1>10. WholeSteps'
  BY <1>8 DEF RaceInv, WholeSteps
<1>11. Margins'
  BY <1>2, <1>3, <1>5, <1>7, <1>8, <1>9 DEF RaceInv, Margins
<1>12. PICK old \in Seq(Nat) : old = accepted /\ \A i \in 1 .. Len(old) : old[i] = i
  BY DEF RaceInv, Numbered, Counted
<1>13. PICK N \in Nat : N = Len(old)
  BY LenProperties
<1>14. PICK bytes : bytes = [i \in 1 .. n |-> N + i]
  OBVIOUS
<1>15. bytes \in Seq(Nat) /\ Len(bytes) = n /\ \A i \in 1 .. n : bytes[i] = N + i
  BY <1>5, <1>13, <1>14
<1>16. pool' = Stored(bytes) /\ accepted' = old \o bytes
  BY <1>7, <1>12, <1>13, <1>14 DEF CopyIn
<1>17. Counted(accepted') /\ Len(accepted') = N + n
  <2>1. /\ accepted' \in Seq(Nat) /\ Len(accepted') = N + n
        /\ \A i \in 1 .. N + n : accepted'[i] = IF i <= N THEN old[i] ELSE bytes[i - N]
    BY <1>13, <1>15, <1>16, ConcatProperties
  <2>2. ASSUME NEW i \in 1 .. N + n PROVE accepted'[i] = i
    <3>1. CASE i <= N
      BY <2>1, <3>1, <1>12, <1>13
    <3>2. CASE ~ (i <= N)
      <4>1. i - N \in 1 .. n
        BY <3>2, <1>5
      <4>. QED  BY <2>1, <3>2, <4>1, <1>15
    <3>. QED  BY <3>1, <3>2
  <2>. QED  BY <2>1, <2>2 DEF Counted
<1>18. PICK G \in Nat : G = Len(got)
  BY LenProperties DEF RaceInv, Numbered, Counted
<1>19. PICK g \in 0 .. BufferSize : g = Getting
  BY SidesDiffer, BufferSizeAssumption DEF Getting, RaceInv, RaceTypes
<1>20. N + g = G + d
  BY <1>3, <1>9, <1>12, <1>13, <1>18, <1>19 DEF RaceInv, Numbered
<1>21. pool \in [Offsets -> Nat] /\ \A k \in 1 .. d : pool[Offset(read_index, k - 1)] = G - g + k
  BY <1>3, <1>9, <1>18, <1>19 DEF RaceInv, Numbered
<1>22. /\ read_index \in 0 .. (BufferSize - 1) /\ write_index \in 0 .. (BufferSize - 1)
       /\ read_mirror \in {0, 1} /\ write_mirror \in {0, 1} /\ WithinOneLap
  BY DEF RaceInv, RaceTypes, Offsets
<1>23. d = IF read_mirror = write_mirror THEN write_index - read_index
           ELSE BufferSize - (read_index - write_index)
  BY <1>3, LengthNow DEF RaceInv
<1>24. pool' \in [Offsets -> Nat]
  <2>1. ASSUME NEW o \in Offsets, Distance(write_index, o) < n
        PROVE  Distance(write_index, o) + 1 \in 1 .. n
    BY <2>1, <1>5, <1>22, BufferSizeAssumption DEF Offsets, Distance
  <2>2. ASSUME NEW o \in Offsets
        PROVE  (IF Distance(write_index, o) < n THEN bytes[Distance(write_index, o) + 1]
                ELSE pool[o]) \in Nat
    <3>1. CASE Distance(write_index, o) < n
      BY <2>1, <3>1, <1>5, <1>15
    <3>2. CASE ~ (Distance(write_index, o) < n)
      BY <3>2, <1>21
    <3>. QED  BY <3>1, <3>2
  <2>. QED  BY <2>2, <1>15, <1>16 DEF Stored
<1>25. ASSUME NEW k \in 1 .. d + n
       PROVE  pool'[Offset(read_index, k - 1)] = G - g + k
  <2>0. k \in 1 .. BufferSize
    BY <1>3, <1>5, BufferSizeAssumption
  <2>1. PICK o \in Offsets : o = Offset(read_index, k - 1)
    <3>1. read_index \in Offsets /\ k - 1 \in 0 .. (BufferSize - 1)
      BY <2>0, <1>22, BufferSizeAssumption DEF Offsets
    <3>2. Offset(read_index, k - 1) \in Offsets
      BY <3>1, OffsetFits
    <3>. QED  BY <3>2
  <2>2. pool'[o] = IF Distance(write_index, o) < n THEN bytes[Distance(write_index, o) + 1]
                   ELSE pool[o]
    BY <1>15, <1>16 DEF Stored
  <2>3. o = IF read_index + (k - 1) < BufferSize THEN read_index + (k - 1)
            ELSE read_index + (k - 1) - BufferSize
    BY <2>1 DEF Offset
  <2>4. Distance(write_index, o) = IF o >= write_index THEN o - write_index
                                   ELSE o + BufferSize - write_index
    BY DEF Distance
  <2>5. CASE k <= d
    <3>1. ~ (Distance(write_index, o) < n)
      BY <2>3, <2>4, <2>5, <1>3, <1>5, <1>22, <1>23, BufferSizeAssumption DEF WithinOneLap
    <3>. QED  BY <2>1, <2>2, <2>5, <3>1, <1>3, <1>21
  <2>6. CASE ~ (k <= d)
    <3>1. Distance(write_index, o) = k - 1 - d
      BY <2>3, <2>4, <2>6, <1>3, <1>5, <1>22, <1>23, BufferSizeAssumption DEF WithinOneLap
    <3>2. k - d \in 1 .. n
      BY <2>6, <1>3, <1>5
    <3>3. pool'[o] = bytes[k - d]
      BY <2>2, <3>1, <3>2, <1>3, <1>5
    <3>4. pool'[o] = N + (k - d)
      BY <3>2, <3>3, <1>15
    <3>. QED  BY <2>1, <3>4, <1>3, <1>18, <1>19, <1>20
  <2>. QED  BY <2>5, <2>6
<1>26. Numbered'
  <2>1. Counted(got')
    BY <1>1 DEF RaceInv, Numbered
  <2>2. Len(accepted') + Getting' = Len(got') + ringbuffer_data_len' + Putting'
    <3>1. /\ Len(accepted') = N + n /\ Getting' = g /\ Len(got') = G
          /\ ringbuffer_data_len' = d /\ Putting' = n
      BY <1>1, <1>2, <1>3, <1>9, <1>17, <1>18, <1>19
    <3>2. (N + n) + g = (G + d) + n
      BY <1>3, <1>5, <1>13, <1>18, <1>19, <1>20
    <3>. QED  BY <3>1, <3>2
  <2>. QED  BY <2>1, <2>2, <1>1, <1>2, <1>3, <1>9, <1>17, <1>18, <1>19, <1>24, <1>25
            DEF Numbered, Counted
<1>. QED  BY <1>2, <1>10, <1>11, <1>26 DEF RaceInv

\* The bytes got are those the numbering says.
LEMMA CopyOutKeepsRace ==
  ASSUME RaceInv, RaceTypes', CopyOut
  PROVE  RaceInv'
<1>1. /\ pc[Reader] = "returned"
      /\ UNCHANGED <<read_index, read_mirror, write_index, write_mirror, pool, accepted>>
      /\ pc' = [pc EXCEPT ![Reader] = IF len'[Reader] = 0 THEN "idle" ELSE "store"]
  BY DEF CopyOut, Step, reader, writer
<1>2. ringbuffer_data_len' = ringbuffer_data_len /\ WithinOneLap'
  BY <1>1 DEF ringbuffer_data_len, ringbuffer_status, RaceInv, WithinOneLap
<1>3. PICK d \in 0 .. BufferSize : d = ringbuffer_data_len
  BY LengthsFit DEF RaceInv
<1>4. PICK n : n = Min2(length[Reader], len[Reader])
  OBVIOUS
<1>5. n \in Nat /\ n <= d
  <2>1. length[Reader] \in Nat /\ len[Reader] \in 0 .. BufferSize /\ len[Reader] <= d
    BY <1>1, <1>3, SidesDiffer DEF RaceInv, RaceTypes, Margins
  <2>. QED  BY <1>3, <1>4, <2>1, BufferSizeAssumption DEF Min2
<1>6. len' = [len EXCEPT ![Reader] = n]
  BY <1>4 DEF CopyOut
<1>7. len'[Reader] = n /\ len'[Writer] = len[Writer]
  BY <1>6, SidesDiffer DEF RaceInv, RaceTypes
<1>8. /\ pc'[Reader] = IF n = 0 THEN "idle" ELSE "store"
      /\ pc'[Writer] = pc[Writer] /\ \A t \in Sides : t = Writer \/ t = Reader
  BY <1>1, <1>7, SidesDiffer DEF RaceInv, RaceTypes, Sides
<1>9. Getting = 0 /\ Getting' = n /\ Putting' = Putting
  BY <1>1, <1>7, <1>8 DEF Putting, Getting
<1>10. WholeSteps'
  BY <1>8 DEF RaceInv, WholeSteps
<1>11. Margins'
  BY <1>2, <1>3, <1>5, <1>7, <1>8, <1>9 DEF RaceInv, Margins
<1>12. PICK old \in Seq(Nat) : old = got /\ \A i \in 1 .. Len(old) : old[i] = i
  BY DEF RaceInv, Numbered, Counted
<1>13. PICK G \in Nat : G = Len(old)
  BY LenProperties
<1>14. PICK p \in 0 .. BufferSize : p = Putting
  BY SidesDiffer, BufferSizeAssumption DEF Putting, RaceInv, RaceTypes
<1>15. /\ \A k \in 1 .. d + p : pool[Offset(read_index, k - 1)] = G + k
       /\ Len(accepted) = G + d + p
       /\ Len(accepted) \in Nat
  <2>1. Len(accepted) \in Nat
    BY LenProperties DEF RaceInv, Numbered, Counted
  <2>2. Len(accepted) + 0 = G + d + p
    BY <1>3, <1>9, <1>12, <1>13, <1>14 DEF RaceInv, Numbered
  <2>3. \A k \in 1 .. d + p : pool[Offset(read_index, k - 1)] = G - 0 + k
    BY <1>3, <1>9, <1>12, <1>13, <1>14 DEF RaceInv, Numbered
  <2>. QED  BY <2>1, <2>2, <2>3, <1>3, <1>14
<1>16. PICK bytes : bytes = [i \in 1 .. n |-> pool[Offset(read_index, i - 1)]]
  OBVIOUS
<1>17. \A i \in 1 .. n : pool[Offset(read_index, i - 1)] = G + i
  BY <1>3, <1>5, <1>14, <1>15
<1>18. bytes \in Seq(Nat) /\ Len(bytes) = n /\ \A i \in 1 .. n : bytes[i] = G + i
  BY <1>5, <1>13, <1>16, <1>17
<1>19. got' = old \o bytes
  BY <1>7, <1>12, <1>16 DEF CopyOut, Stretch
<1>20. Counted(got') /\ Len(got') = G + n
  <2>1. /\ got' \in Seq(Nat) /\ Len(got') = G + n
        /\ \A i \in 1 .. G + n : got'[i] = IF i <= G THEN old[i] ELSE bytes[i - G]
    BY <1>13, <1>18, <1>19, ConcatProperties
  <2>2. ASSUME NEW i \in 1 .. G + n PROVE got'[i] = i
    <3>1. CASE i <= G
      BY <2>1, <3>1, <1>12, <1>13
    <3>2. CASE ~ (i <= G)
      <4>1. i - G \in 1 .. n
        BY <3>2, <1>5
      <4>. QED  BY <2>1, <3>2, <4>1, <1>18
    <3>. QED  BY <3>1, <3>2
  <2>. QED  BY <2>1, <2>2 DEF Counted
<1>21. Numbered'
  <2>1. /\ Getting' = n /\ Len(got') = G + n /\ ringbuffer_data_len' = d /\ Putting' = p
        /\ accepted' = accepted /\ pool' = pool /\ read_index' = read_index
    BY <1>1, <1>2, <1>3, <1>9, <1>14, <1>20
  <2>2. Len(accepted') + Getting' = Len(got') + ringbuffer_data_len' + Putting'
    <3>1. (G + d + p) + n = ((G + n) + d) + p
      BY <1>3, <1>5, <1>13, <1>14
    <3>. QED  BY <2>1, <3>1, <1>15
  <2>3. ASSUME NEW k \in 1 .. (d + p)
        PROVE  pool[Offset(read_index, k - 1)] = (G + n) - n + k
    BY <1>3, <1>5, <1>13, <1>14, <1>15
  <2>4. Counted(accepted') /\ pool' \in [Offsets -> Nat]
    BY <2>1 DEF RaceInv, Numbered
  <2>. QED  BY <2>1, <2>2, <2>3, <2>4, <1>20 DEF Numbered, Counted
<1>. QED  BY <1>2, <1>10, <1>11, <1>21 DEF RaceInv

\* What has been copied in counts from now on.
LEMMA WriterStoreKeepsRace ==
  ASSUME RaceInv, RaceTypes', StoreWord(Writer)
  PROVE  RaceInv'
<1>1. /\ pc[Writer] = "store" /\ WriteForward(len[Writer]) /\ UNCHANGED reader
      /\ pc' = [pc EXCEPT ![Writer] = "idle"]
      /\ UNCHANGED <<pool, len, accepted, got, read_index>>
  BY DEF StoreWord, Step, reader
<1>2. /\ pc'[Writer] = "idle" /\ pc'[Reader] = pc[Reader]
      /\ \A t \in Sides : t = Writer \/ t = Reader
  BY <1>1, SidesDiffer DEF RaceInv, RaceTypes, Sides
<1>3. PICK d \in 0 .. BufferSize : d = ringbuffer_data_len
  BY LengthsFit DEF RaceInv
<1>4. PICK n \in 0 .. BufferSize : n = len[Writer]
  BY SidesDiffer DEF RaceInv, RaceTypes
<1>5. Putting = n /\ Putting' = 0 /\ Getting' = Getting
  BY <1>1, <1>2, <1>4 DEF Putting, Getting
<1>6. n \in Nat /\ d + n <= BufferSize
  BY <1>3, <1>4, <1>5, BufferSizeAssumption DEF RaceInv, Margins
<1>7. WithinOneLap' /\ ringbuffer_data_len' = d + n
  BY <1>1, <1>3, <1>4, <1>6, WriterMoves DEF RaceInv
<1>8. WholeSteps'
  BY <1>2 DEF RaceInv, WholeSteps
<1>9. PICK g \in 0 .. BufferSize : g = Getting
  BY SidesDiffer, BufferSizeAssumption DEF Getting, RaceInv, RaceTypes
<1>10. PICK r \in 0 .. BufferSize : r = len[Reader]
  BY SidesDiffer DEF RaceInv, RaceTypes
<1>11. g <= d /\ (pc[Reader] = "returned" => r <= d)
  BY <1>3, <1>9, <1>10 DEF RaceInv, Margins
<1>12. Margins'
  <2>1. g <= d + n /\ (pc[Reader] = "returned" => r <= d + n) /\ (d + n) + 0 <= BufferSize
    BY <1>3, <1>6, <1>9, <1>10, <1>11, BufferSizeAssumption
  <2>2. pc'[Writer] # "returned" /\ len'[Reader] = r /\ Getting' = g
    BY <1>1, <1>2, <1>5, <1>9, <1>10
  <2>. QED  BY <2>1, <2>2, <1>2, <1>5, <1>7 DEF Margins
<1>13. Numbered'
  <2>1. Len(accepted) + g = Len(got) + d + n /\ Len(got) \in Nat /\ Len(accepted) \in Nat
    BY <1>3, <1>5, <1>9, LenProperties DEF RaceInv, Numbered, Counted
  <2>2. Len(accepted) + g = Len(got) + (d + n) + 0
    BY <2>1, <1>3, <1>6, <1>9
  <2>3. \A k \in 1 .. ((d + n) + 0) : pool[Offset(read_index, k - 1)] = Len(got) - g + k
    BY <1>3, <1>5, <1>6, <1>9 DEF RaceInv, Numbered
  <2>. QED  BY <2>2, <2>3, <1>1, <1>5, <1>7, <1>9 DEF RaceInv, Numbered, Counted
<1>. QED  BY <1>7, <1>8, <1>12, <1>13 DEF RaceInv

\* What has been copied out counts no longer.
LEMMA ReaderStoreKeepsRace ==
  ASSUME RaceInv, RaceTypes', StoreWord(Reader)
  PROVE  RaceInv'
<1>1. /\ pc[Reader] = "store" /\ ReadForward(len[Reader]) /\ UNCHANGED writer
      /\ pc' = [pc EXCEPT ![Reader] = "idle"]
      /\ UNCHANGED <<pool, len, accepted, got>>
  BY SidesDiffer DEF StoreWord, Step
<1>2. /\ pc'[Reader] = "idle" /\ pc'[Writer] = pc[Writer]
      /\ \A t \in Sides : t = Writer \/ t = Reader
  BY <1>1, SidesDiffer DEF RaceInv, RaceTypes, Sides
<1>3. PICK d \in 0 .. BufferSize : d = ringbuffer_data_len
  BY LengthsFit DEF RaceInv
<1>4. PICK n \in 0 .. BufferSize : n = len[Reader]
  BY SidesDiffer DEF RaceInv, RaceTypes
<1>5. Getting = n /\ Getting' = 0 /\ Putting' = Putting
  BY <1>1, <1>2, <1>4 DEF Putting, Getting
<1>6. n \in Nat /\ n <= d
  BY <1>3, <1>4, <1>5, BufferSizeAssumption DEF RaceInv, Margins
<1>7. /\ WithinOneLap' /\ ringbuffer_data_len' = d - n
      /\ \A k \in 1 .. (BufferSize - n) :
            Offset(read_index', k - 1) = Offset(read_index, n + k - 1)
  BY <1>1, <1>3, <1>4, <1>6, ReaderMoves DEF RaceInv
<1>8. WholeSteps'
  BY <1>2 DEF RaceInv, WholeSteps
<1>9. PICK p \in 0 .. BufferSize : p = Putting
  BY SidesDiffer, BufferSizeAssumption DEF Putting, RaceInv, RaceTypes
<1>10. PICK w \in 0 .. BufferSize : w = len[Writer]
  BY SidesDiffer DEF RaceInv, RaceTypes
<1>11. d + p <= BufferSize /\ (pc[Writer] = "returned" => d <= w)
  BY <1>3, <1>9, <1>10 DEF RaceInv, Margins
<1>12. Margins'
  <2>1. /\ (d - n) + p <= BufferSize /\ (pc[Writer] = "returned" => d - n <= w)
        /\ 0 <= d - n
    BY <1>3, <1>6, <1>9, <1>10, <1>11, BufferSizeAssumption
  <2>2. pc'[Reader] # "returned" /\ len'[Writer] = w /\ Putting' = p
    BY <1>1, <1>2, <1>5, <1>9, <1>10
  <2>. QED  BY <2>1, <2>2, <1>2, <1>5, <1>7 DEF Margins
<1>13. Numbered'
  <2>1. PICK G \in Nat : G = Len(got)
    BY LenProperties DEF RaceInv, Numbered, Counted
  <2>2. Len(accepted) + n = G + d + p /\ Len(accepted) \in Nat
    BY <2>1, <1>3, <1>5, <1>9, LenProperties DEF RaceInv, Numbered, Counted
  <2>3. Len(accepted) + 0 = G + (d - n) + p
    BY <2>1, <2>2, <1>3, <1>6, <1>9
  <2>4. \A k \in 1 .. d + p : pool[Offset(read_index, k - 1)] = G - n + k
    BY <2>1, <1>3, <1>5, <1>9 DEF RaceInv, Numbered
  <2>5. ASSUME NEW k \in 1 .. ((d - n) + p)
        PROVE  pool[Offset(read_index', k - 1)] = G - 0 + k
    <3>1. k \in 1 .. (BufferSize - n) /\ n + k \in 1 .. d + p
      BY <1>3, <1>6, <1>9, <1>11, BufferSizeAssumption
    <3>2. pool[Offset(read_index, n + k - 1)] = G - n + (n + k)
      BY <2>4, <3>1
    <3>. QED  BY <3>1, <3>2, <2>1, <1>6, <1>7
  <2>. QED  BY <2>1, <2>3, <2>5, <1>1, <1>5, <1>7, <1>9 DEF RaceInv, Numbered, Counted
<1>. QED  BY <1>7, <1>8, <1>12, <1>13 DEF RaceInv

\* Steps that copy nothing and move no index.
LEMMA QuietKeepsRace ==
  ASSUME RaceInv, RaceTypes', NEW t \in Sides, NEW from \in {"idle", "load", "returned"},
         NEW to \in {"idle", "load"}, Step(t, from, to),
         UNCHANGED <<vars, len, accepted, got>>
  PROVE  RaceInv'
<1>1. /\ pc[t] = from /\ pc'[t] = to /\ \A u \in Sides : u # t => pc'[u] = pc[u]
      /\ len' = len
  BY DEF Step, RaceInv, RaceTypes
<1>2. UNCHANGED <<read_index, read_mirror, write_index, write_mirror, pool, accepted, got>>
  BY DEF vars, reader, writer
<1>3. ringbuffer_data_len' = ringbuffer_data_len /\ WithinOneLap'
  BY <1>2 DEF ringbuffer_data_len, ringbuffer_status, RaceInv, WithinOneLap
<1>4. Putting' = Putting /\ Getting' = Getting
  BY <1>1, SidesDiffer DEF Putting, Getting
<1>5. WholeSteps'
  BY <1>1 DEF RaceInv, WholeSteps
<1>6. Margins'
  BY <1>1, <1>3, <1>4, SidesDiffer DEF RaceInv, Margins
<1>7. Numbered'
  BY <1>2, <1>3, <1>4 DEF RaceInv, Numbered, Counted
<1>. QED  BY <1>3, <1>5, <1>6, <1>7 DEF RaceInv

\* A load in one piece keeps what a side knows within its margin.
LEMMA LoadKeepsRace ==
  ASSUME RaceInv, RaceTypes', NEW t \in Sides, LoadOnce(t)
  PROVE  RaceInv'
<1>1. /\ pc[t] = "load" /\ pc'[t] = "returned" /\ \A u \in Sides : u # t => pc'[u] = pc[u]
      /\ len'[t] = ringbuffer_data_len /\ \A u \in Sides : u # t => len'[u] = len[u]
  BY LengthsFit DEF LoadOnce, Step, RaceInv, RaceTypes
<1>2. UNCHANGED <<read_index, read_mirror, write_index, write_mirror, pool, accepted, got>>
  BY DEF LoadOnce, vars, reader, writer
<1>3. ringbuffer_data_len' = ringbuffer_data_len /\ WithinOneLap'
  BY <1>2 DEF ringbuffer_data_len, ringbuffer_status, RaceInv, WithinOneLap
<1>4. Putting' = Putting /\ Getting' = Getting
  BY <1>1, SidesDiffer DEF Putting, Getting
<1>5. WholeSteps'
  BY <1>1 DEF RaceInv, WholeSteps
<1>6. Margins'
  <2>1. ringbuffer_data_len <= ringbuffer_data_len
    BY LengthsFit, BufferSizeAssumption DEF RaceInv
  <2>. QED  BY <2>1, <1>1, <1>3, <1>4, SidesDiffer DEF RaceInv, Margins
<1>7. Numbered'
  BY <1>2, <1>3, <1>4 DEF RaceInv, Numbered, Counted
<1>. QED  BY <1>3, <1>5, <1>6, <1>7 DEF RaceInv

\* A behaviour is of one build.
LEMMA BuildStays == [RNext]_rvars => WholeWords' = WholeWords
<1>. SUFFICES ASSUME [RNext]_rvars PROVE WholeWords' = WholeWords
  OBVIOUS
<1>1. UNCHANGED build
  BY DEF RNext, StartPut, CopyIn, StartOutput, KeepLength, NoMemory, CopyOut, DataLen, Load,
     StatusIndex, StatusMirror, LoadOnce, Store, StoreWord, StoreMirror, StoreIndex, rvars
<1>2. loads_once' = loads_once /\ stores_once' = stores_once
  BY <1>1 DEF build
<1>. QED  BY <1>2, Zenon DEF WholeWords

\* For a build that loads and stores words whole the margins are inductive.
LEMMA NextRace ==
  ASSUME RaceInv, WholeWords, [RNext]_rvars
  PROVE  RaceInv'
<1>1. RaceTypes'
  BY NextTypes DEF RaceInv
<1>2. ASSUME StartPut \/ StartOutput \/ KeepLength \/ NoMemory PROVE RaceInv'
  <2>1. UNCHANGED <<vars, len, accepted, got>>
    BY <1>2 DEF StartPut, StartOutput, KeepLength, NoMemory
  <2>2. \E t \in Sides : \E from \in {"idle", "load", "returned"}, to \in {"idle", "load"} :
           Step(t, from, to)
    BY <1>2, SidesDiffer DEF StartPut, StartOutput, KeepLength, NoMemory
  <2>. QED  BY <2>1, <2>2, <1>1, QuietKeepsRace
<1>3. ASSUME NEW t \in Sides, DataLen(t) PROVE RaceInv'
  <2>1. LoadOnce(t)
    BY <1>3, Zenon DEF DataLen, Load, StatusIndex, StatusMirror, Step, WholeWords, RaceInv,
       WholeSteps
  <2>. QED  BY <2>1, <1>1, LoadKeepsRace
<1>4. ASSUME NEW t \in Sides, Store(t) PROVE RaceInv'
  <2>1. StoreWord(t)
    BY <1>4, Zenon DEF Store, StoreMirror, StoreIndex, Step, WholeWords, RaceInv, WholeSteps
  <2>. QED  BY <2>1, <1>1, WriterStoreKeepsRace, ReaderStoreKeepsRace DEF Sides
<1>5. ASSUME UNCHANGED rvars PROVE RaceInv'
  <2>1. UNCHANGED <<read_index, read_mirror, write_index, write_mirror, pool, accepted, got,
                    pc, len>>
    BY <1>5 DEF rvars, vars, reader, writer
  <2>. QED  BY <2>1, <1>1 DEF RaceInv, WithinOneLap, WholeSteps, Margins, Numbered, Putting,
               Getting, ringbuffer_data_len, ringbuffer_status, Counted
<1>. QED  BY <1>1, <1>2, <1>3, <1>4, <1>5, CopyInKeepsRace, CopyOutKeepsRace DEF RNext

\* Nothing is measured and nothing is in the buffer at the beginning.
LEMMA InitRace == RInit => RaceInv
<1>. SUFFICES ASSUME RInit PROVE RaceInv
  OBVIOUS
<1>1. RaceTypes /\ WithinOneLap
  BY InitTypes DEF RInit, WithinOneLap
<1>2. ringbuffer_data_len = 0
  BY <1>1, LengthNow DEF RInit
<1>3. \A t \in Sides : pc[t] = "idle"
  BY DEF RInit
<1>4. Putting = 0 /\ Getting = 0
  BY <1>3, SidesDiffer DEF Putting, Getting
<1>5. WholeSteps
  BY <1>3 DEF WholeSteps
<1>6. Margins
  BY <1>2, <1>3, <1>4, SidesDiffer, BufferSizeAssumption DEF Margins
<1>7. Counted(<< >>) /\ Len(<< >>) = 0
  BY EmptySeq DEF Counted
<1>8. accepted = << >> /\ got = << >> /\ pool \in [Offsets -> Nat]
  BY DEF RInit
<1>9. Numbered
  BY <1>2, <1>4, <1>7, <1>8 DEF Numbered
<1>. QED  BY <1>1, <1>5, <1>6, <1>9 DEF RaceInv

\* Of ringbuffer_put beside ringbuffer_get in a build that accesses index and mirror
\* bit as one word: what a side has measured errs on the safe side, and every byte
\* accepted and not read is in its place.
THEOREM WholeInvariant == RSpec => []WholeInv
<1>1. RInit => WholeInv
  BY InitRace DEF WholeInv
<1>2. WholeInv /\ [RNext]_rvars => WholeInv'
  <2>. SUFFICES ASSUME WholeInv, [RNext]_rvars, WholeWords' PROVE RaceInv'
    BY DEF WholeInv
  <2>1. WholeWords
    BY BuildStays
  <2>. QED  BY <2>1, NextRace DEF WholeInv
<1>. QED  BY <1>1, <1>2, PTL DEF RSpec

\* How far the bytes got are behind those accepted.
LEMMA Distances ==
  ASSUME RaceInv
  PROVE  /\ Len(got) \in Nat /\ Len(accepted) \in Nat
         /\ Len(got) <= Len(accepted) /\ Len(accepted) - Len(got) <= BufferSize
<1>1. PICK d \in 0 .. BufferSize : d = ringbuffer_data_len
  BY LengthsFit DEF RaceInv
<1>2. PICK p \in 0 .. BufferSize : p = Putting
  BY SidesDiffer, BufferSizeAssumption DEF Putting, RaceInv, RaceTypes
<1>3. PICK g \in 0 .. BufferSize : g = Getting
  BY SidesDiffer, BufferSizeAssumption DEF Getting, RaceInv, RaceTypes
<1>4. Len(got) \in Nat /\ Len(accepted) \in Nat
  BY LenProperties DEF RaceInv, Numbered, Counted
<1>5. Len(accepted) + g = Len(got) + d + p
  BY <1>1, <1>2, <1>3 DEF RaceInv, Numbered
<1>6. g <= d /\ d + p <= BufferSize
  BY <1>1, <1>2, <1>3 DEF RaceInv, Margins
<1>. QED  BY <1>1, <1>2, <1>3, <1>4, <1>5, <1>6, BufferSizeAssumption

\* In a build with whole words no byte is stored over one still to be read.
THEOREM NothingOverwritten == RSpec => []NoOverwrite
<1>1. WholeInv => NoOverwrite
  BY Distances DEF WholeInv, NoOverwrite
<1>. QED  BY <1>1, WholeInvariant, PTL

\* In a build with whole words the reader gets the bytes accepted, in order,
\* although the two sides share no lock.
THEOREM BytesGotInOrder == RSpec => []BytesInOrder
<1>1. WholeInv => BytesInOrder
  <2>. SUFFICES ASSUME RaceInv PROVE IsPrefix(got, accepted)
    BY DEF WholeInv, BytesInOrder
  <2>1. PICK G \in Nat : G = Len(got) /\ Len(accepted) \in Nat /\ G <= Len(accepted)
    BY Distances
  <2>2. /\ got \in Seq(Nat) /\ \A i \in 1 .. G : got[i] = i
        /\ accepted \in Seq(Nat) /\ \A i \in 1 .. G : accepted[i] = i
    BY <2>1 DEF RaceInv, Numbered, Counted
  <2>3. PICK a : a = SubSeq(got, 1, G)
    OBVIOUS
  <2>4. PICK b : b = SubSeq(accepted, 1, G)
    OBVIOUS
  <2>5. a \in Seq(Nat) /\ Len(a) = G /\ \A i \in 1 .. G : a[i] = i
    BY <2>1, <2>2, <2>3, SubSeqProperties
  <2>6. b \in Seq(Nat) /\ Len(b) = G /\ \A i \in 1 .. G : b[i] = i
    BY <2>1, <2>2, <2>4, SubSeqProperties
  <2>7. a = b
    BY <2>5, <2>6, SeqEqual
  <2>. QED  BY <2>1, <2>3, <2>4, <2>7 DEF IsPrefix
<1>. QED  BY <1>1, WholeInvariant, PTL
=============================================================================
