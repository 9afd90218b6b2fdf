--------------------------- MODULE RingBufferRace ---------------------------
(***************************************************************************)
(* The byte buffer as ulog.c uses it: a task in ulog_raw writes with       *)
(* ringbuffer_put, the output thread asks for ringbuffer_data_len and then *)
(* reads that much with ringbuffer_get, and no lock is shared by the two.  *)
(*                                                                         *)
(* Index and mirror bit of a side are two bit-fields of one word, written  *)
(* by that side only.  How often a word is loaded and stored is up to the  *)
(* compiler, as the fields are not volatile: each behaviour is of one      *)
(* build, loads_once and stores_once.  Accesses happen in program order.   *)
(***************************************************************************)
EXTENDS RingBuffer, SequencesExt

CONSTANTS
  LoadModes,    \* values of loads_once
  StoreModes,   \* values of stores_once
  Writer,       \* the task in ulog_raw
  Reader,       \* the output thread
  MaxBytes      \* bound: bytes accepted, bytes got before the last read

ASSUME BuildAssumption == LoadModes \cup StoreModes \subseteq BOOLEAN
ASSUME SidesAssumption == Writer # Reader

VARIABLES
  loads_once,   \* ringbuffer_data_len loads the other side's word once
  stores_once,  \* mirror bit and index are stored together
  pc,         \* where each side is
  seen,       \* the other side's index, as ringbuffer_data_len loaded it
  len,        \* what ringbuffer_data_len returned, then the bytes being moved
  length,     \* the length given to ringbuffer_put or to ringbuffer_get
  measured,   \* the thread has log_len and is in ringbuffer_get
  accepted,   \* bytes taken by ringbuffer_put so far; the i-th is i
  got         \* bytes returned by ringbuffer_get so far

build == <<loads_once, stores_once>>
rvars == <<vars, build, pc, seen, len, length, measured, accepted, got>>
Sides == {Writer, Reader}

Step(t, from, to) == pc[t] = from /\ pc' = [pc EXCEPT ![t] = to]

RInit ==
  /\ read_mirror = 0 /\ write_mirror = 0
  /\ read_index = 0 /\ write_index = 0
  /\ pool = [o \in Offsets |-> 0]
  /\ out = << >>
  /\ loads_once \in LoadModes /\ stores_once \in StoreModes
  /\ pc = [t \in Sides |-> "idle"]
  /\ seen = [t \in Sides |-> 0]
  /\ len = [t \in Sides |-> 0]
  /\ length = [t \in Sides |-> 0]
  /\ measured = FALSE
  /\ accepted = << >>
  /\ got = << >>

-----------------------------------------------------------------------------
\* ringbuffer_put is called.
StartPut ==
  /\ Step(Writer, "idle", "load")
  /\ \E n \in 1 .. MaxLength :
       /\ Len(accepted) + n <= MaxBytes
       /\ length' = [length EXCEPT ![Writer] = n]
  /\ UNCHANGED <<vars, build, seen, len, measured, accepted, got>>

\* ulog_async_output finds a byte buffer and asks for its length.
StartOutput ==
  /\ Step(Reader, "idle", "load")
  /\ UNCHANGED <<vars, build, seen, len, length, measured, accepted, got>>

Other(t) == IF t = Writer THEN read_index ELSE write_index

\* ringbuffer_data_len, the first line: both indices are copied.
Load(t) ==
  /\ ~ loads_once
  /\ Step(t, "load", "status")
  /\ seen' = [seen EXCEPT ![t] = Other(t)]
  /\ UNCHANGED <<vars, build, len, length, measured, accepted, got>>

\* The copies are used when ringbuffer_status finds the indices different.
Between(wi, ri) == IF wi > ri THEN wi - ri ELSE BufferSize - (ri - wi)

\* ringbuffer_status loads the index again.
StatusIndex(t) ==
  /\ IF read_index # write_index
     THEN /\ Step(t, "status", "returned")
          /\ len' = [len EXCEPT ![t] = IF t = Writer THEN Between(write_index, seen[t])
                                       ELSE Between(seen[t], read_index)]
     ELSE /\ Step(t, "status", "mirror")
          /\ UNCHANGED len
  /\ UNCHANGED <<vars, build, seen, length, measured, accepted, got>>

\* ringbuffer_status loads the mirror bit.
StatusMirror(t) ==
  /\ Step(t, "mirror", "returned")
  /\ len' = [len EXCEPT ![t] = IF read_mirror = write_mirror THEN 0 ELSE BufferSize]
  /\ UNCHANGED <<vars, build, seen, length, measured, accepted, got>>

\* ringbuffer_data_len with one load of the other side's word.
LoadOnce(t) ==
  /\ loads_once
  /\ Step(t, "load", "returned")
  /\ len' = [len EXCEPT ![t] = ringbuffer_data_len]
  /\ UNCHANGED <<vars, build, seen, length, measured, accepted, got>>

-----------------------------------------------------------------------------
\* Mutant of CopyIn: the space is not looked at.
CopyIn_no_limit ==
  /\ len' = [len EXCEPT ![Writer] = Min2(length[Writer], BufferSize)]
  /\ Step(Writer, "returned", "store")
  /\ LET bytes == [i \in 1 .. len'[Writer] |-> Len(accepted) + i]
     IN pool' = Stored(bytes) /\ accepted' = accepted \o bytes
  /\ UNCHANGED <<reader, writer, out, build, seen, length, measured, got>>

\* ringbuffer_put: the length is cut to the space and the bytes are copied.
CopyIn ==
  /\ len' = [len EXCEPT ![Writer] = Min2(length[Writer], BufferSize - @)]
  /\ Step(Writer, "returned", IF len'[Writer] = 0 THEN "idle" ELSE "store")
  /\ LET bytes == [i \in 1 .. len'[Writer] |-> Len(accepted) + i]
     IN pool' = Stored(bytes) /\ accepted' = accepted \o bytes
  /\ UNCHANGED <<reader, writer, out, build, seen, length, measured, got>>

\* ulog_async_output has log_len and calls ringbuffer_get, which calls
\* ringbuffer_data_len once more.
KeepLength ==
  /\ ~ measured
  /\ Len(got) <= MaxBytes
  /\ Step(Reader, "returned", "load")
  /\ length' = [length EXCEPT ![Reader] = len[Reader]]
  /\ measured' = TRUE
  /\ UNCHANGED <<vars, build, seen, len, accepted, got>>

\* ulog_async_output gets no memory for a copy.
NoMemory ==
  /\ ~ measured
  /\ Step(Reader, "returned", "idle")
  /\ UNCHANGED <<vars, build, seen, len, length, measured, accepted, got>>

\* ringbuffer_get: the length is cut to the data and the bytes are copied.
CopyOut ==
  /\ measured
  /\ len' = [len EXCEPT ![Reader] = Min2(length[Reader], @)]
  /\ Step(Reader, "returned", IF len'[Reader] = 0 THEN "idle" ELSE "store")
  /\ out' = Stretch(len'[Reader])
  /\ got' = got \o out'
  /\ measured' = FALSE
  /\ UNCHANGED <<reader, writer, pool, build, seen, length, accepted>>

\* Both fields of the word change, or only the index has to.
StoreWord(t) ==
  /\ IF t = Writer
     THEN /\ stores_once \/ ~ Wraps(write_index, len[t])
          /\ WriteForward(len[t])
          /\ UNCHANGED reader
     ELSE /\ stores_once \/ ~ Wraps(read_index, len[t])
          /\ ReadForward(len[t])
          /\ UNCHANGED writer
  /\ Step(t, "store", "idle")
  /\ UNCHANGED <<pool, out, build, seen, len, length, measured, accepted, got>>

\* The mirror bit is flipped first.
StoreMirror(t) ==
  /\ ~ stores_once
  /\ IF t = Writer
     THEN /\ Wraps(write_index, len[t])
          /\ write_mirror' = 1 - write_mirror
          /\ UNCHANGED <<reader, write_index>>
     ELSE /\ Wraps(read_index, len[t])
          /\ read_mirror' = 1 - read_mirror
          /\ UNCHANGED <<writer, read_index>>
  /\ Step(t, "store", "store_index")
  /\ UNCHANGED <<pool, out, build, seen, len, length, measured, accepted, got>>

\* Then the index is set.
StoreIndex(t) ==
  /\ IF t = Writer
     THEN write_index' = Forward(write_index, len[t]) /\ UNCHANGED <<reader, write_mirror>>
     ELSE read_index' = Forward(read_index, len[t]) /\ UNCHANGED <<writer, read_mirror>>
  /\ Step(t, "store_index", "idle")
  /\ UNCHANGED <<pool, out, build, seen, len, length, measured, accepted, got>>

-----------------------------------------------------------------------------
DataLen(t) == Load(t) \/ StatusIndex(t) \/ StatusMirror(t) \/ LoadOnce(t)
Store(t) == StoreWord(t) \/ StoreMirror(t) \/ StoreIndex(t)

RNext ==
  \/ StartPut \/ CopyIn
  \/ StartOutput \/ KeepLength \/ NoMemory \/ CopyOut
  \/ \E t \in Sides : DataLen(t) \/ Store(t)

RSpec == RInit /\ [][RNext]_rvars

-----------------------------------------------------------------------------
\* However the two sides interleave and whatever the build does with the words,
\* no copy of ringbuffer_put or ringbuffer_get reaches beyond the buffer: the
\* indices stay below its size and what is moved fits into it.
CopiesInBuffer ==
  /\ {read_index, write_index} \subseteq Offsets
  /\ \A t \in Sides : len[t] \in 0 .. BufferSize

\* A build in which no other task can see half of an update.
WholeWords == loads_once /\ stores_once

\* With whole words the thread gets the bytes that were accepted, in that
\* order: none is read twice, skipped, or read before it was written.
BytesInOrder == WholeWords => IsPrefix(got, accepted)

\* With whole words no byte is stored over one that the thread has not read.
NoOverwrite == WholeWords => Len(accepted) - Len(got) <= BufferSize
=============================================================================
