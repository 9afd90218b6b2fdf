------------------------------ MODULE UlogAsync ------------------------------
(***************************************************************************)
(* The asynchronous output path of ulog.c.  Tasks log with ulog_output     *)
(* (formatted lines) or ulog_raw (raw data); a log call formats into the   *)
(* one line buffer ulog.log_buf_th under ulog.output_locker and hands the  *)
(* result over: a formatted line in a block of ulog.async_rbb, raw data in *)
(* the byte buffer ulog.async_rb.  The thread async_output_thread_entry,   *)
(* woken by the binary semaphore ulog.async_notice, drains both into the   *)
(* backends; any task may do the same with ulog_flush.                     *)
(*                                                                         *)
(* Blocks are those of RingBlk, placement included.  The k-th call of task *)
(* t is the line <<t, k>>; an allocation unit of the arena holds the line  *)
(* last written there.  Tag, level and backend filters, and what the       *)
(* backends do with a line, are left out: the filters drop a line before   *)
(* the lock is taken (the lookup of a tag's level, which takes and gives   *)
(* the lock for itself, included); nested calls and the lock switched off  *)
(* are in LogCall.  ulog.init_ok is TRUE throughout.                       *)
(***************************************************************************)
EXTENDS Integers, Sequences, SequencesExt

CONSTANTS
  Loggers,      \* tasks that call ulog_output
  RawLoggers,   \* tasks that call ulog_raw
  Flushers,     \* tasks that call ulog_flush
  Async,        \* the thread ulog.async_th
  None,         \* NULL, or no line
  MaxCalls,     \* bound: calls of one logger
  MaxFlushes,   \* bound: flushes of one flusher
  MaxRawCalls,  \* bound: calls of one raw logger
  MaxToggles,   \* bound: switches of the asynchronous mode
  RawSizes,     \* lengths of raw data, in bytes
  RbSize,       \* ULOG_ASYNC_OUTPUT_SIZE, in bytes
  BlkMaxNum,    \* ULOG_ASYNC_OUTPUT_STORE_LINES
  BufSize,      \* ULOG_ASYNC_OUTPUT_BUF_SIZE, in allocation units
  BlkSizes      \* sizes of a frame with its line, in allocation units

ASSUME BoundsAssumption == {MaxCalls, MaxFlushes, MaxRawCalls, MaxToggles, RbSize} \subseteq Nat
ASSUME RawSizesAssumption == RawSizes \subseteq Nat
ASSUME ArenaAssumption ==
  BlkMaxNum \in Nat \ {0} /\ BufSize \in Nat \ {0} /\ BlkSizes \subseteq Nat \ {0}

Callers == Loggers \cup RawLoggers
Tasks == Callers \cup Flushers \cup {Async}
Lines == (Loggers \X (1 .. MaxCalls)) \cup (RawLoggers \X (1 .. MaxRawCalls))

ASSUME TasksAssumption ==
  /\ Loggers \cap RawLoggers = {} /\ Flushers \cap Callers = {}
  /\ Async \notin Callers \cup Flushers
ASSUME NoneAssumption == None \notin Tasks \cup Lines \cup (0 .. (BlkMaxNum - 1))

VARIABLES
  status, buf, size, blk_list, free_list, tail,   \* ulog.async_rbb
  arena,            \* the line in each unit of async_rbb->buf
  log_buf_th,       \* ulog.log_buf_th: the line formatted last
  output_locker,    \* ulog.output_locker: its holder
  voutput_recursion,\* the static ulog_voutput_recursion
  async_notice,     \* ulog.async_notice: the count of a binary semaphore
  async_enabled,    \* ulog.async_enabled
  async_rb,         \* ulog.async_rb: the creator of the buffer stands for it
  rb_data,          \* contents of each byte buffer: the line of each byte
  pc,               \* where each task is
  blk,              \* log_blk of each task
  log_len,          \* log_len of a task in ulog_async_output
  log,              \* log of a task in ulog_async_output
  phase,            \* where async_output_thread_entry is
  calls,            \* calls each task has started
  toggles,          \* switches of the asynchronous mode so far
  raw_put,          \* raw bytes accepted so far
  delivered,        \* formatted lines given to the backends so far
  raw_delivered     \* raw bytes given to the backends so far

rbb == <<status, buf, size, blk_list, free_list, tail>>
voutput == <<log_buf_th, output_locker, voutput_recursion>>
async == <<async_notice, async_enabled, toggles>>
rb == <<async_rb, rb_data, raw_put>>
copy == <<log_len, log>>
out == <<delivered, raw_delivered>>
vars == <<rbb, arena, voutput, async, rb, pc, blk, copy, phase, calls, out>>

Rbb == INSTANCE RingBlk

Line(t) == <<t, calls[t]>>
Step(t, from, to) == pc[t] = from /\ pc' = [pc EXCEPT ![t] = to]
Min2(m, n) == IF m <= n THEN m ELSE n

\* The units of the arena that belong to block b.
Units(b) == buf[b] .. (Rbb!End(b) - 1)

\* What a reader of the frame in block b finds: its line, or None for a mixture.
Frame(b) == IF \A o \in Units(b) : arena[o] = arena[buf[b]] THEN arena[buf[b]] ELSE None

-----------------------------------------------------------------------------
\* ulog_init, with the thread created and not run yet.
Init ==
  /\ Rbb!rbb_init
  /\ arena = [o \in 0 .. (BufSize - 1) |-> None]
  /\ log_buf_th = None
  /\ output_locker = None
  /\ voutput_recursion = FALSE
  /\ async_notice = 0
  /\ async_enabled = TRUE
  /\ async_rb = None
  /\ rb_data = [t \in RawLoggers |-> << >>]
  /\ pc = [t \in Tasks |-> IF t = Async THEN "enter" ELSE "idle"]
  /\ blk = [t \in Tasks |-> None]
  /\ log_len = [t \in Tasks |-> 0]
  /\ log = [t \in Tasks |-> << >>]
  /\ phase = "entry"
  /\ calls = [t \in Tasks |-> 0]
  /\ toggles = 0
  /\ raw_put = << >>
  /\ delivered = << >>
  /\ raw_delivered = << >>

-----------------------------------------------------------------------------
\* Mutant of output_lock: the wait for the mutex times out unnoticed.
output_lock_timeout(t) == output_locker' = t

\* output_lock and output_unlock: a mutex, which is not recursive.
output_lock(t) == output_locker = None /\ output_locker' = t

output_unlock == output_locker' = None

Call(t) ==
  /\ t \in Loggers => calls[t] < MaxCalls
  /\ t \in RawLoggers => calls[t] < MaxRawCalls
  /\ t \in Flushers => calls[t] < MaxFlushes
  /\ calls' = [calls EXCEPT ![t] = @ + 1]

\* ulog_output, up to the lock.
StartLog(t) ==
  /\ t \in Loggers
  /\ Call(t)
  /\ Step(t, "idle", "lock")
  /\ UNCHANGED <<rbb, arena, voutput, async, rb, blk, copy, phase, out>>

\* ulog_raw: the byte buffer is looked for outside the lock.
StartRaw(t) ==
  /\ t \in RawLoggers
  /\ Call(t)
  /\ Step(t, "idle", IF async_rb = None THEN "create" ELSE "lock")
  /\ UNCHANGED <<rbb, arena, voutput, async, rb, blk, copy, phase, out>>

\* ulog_raw: the result of ringbuffer_create, NULL without memory, is stored.
CreateRb(t) ==
  /\ Step(t, "create", "lock")
  /\ async_rb' \in {t, None}
  /\ UNCHANGED <<rbb, arena, voutput, async, rb_data, raw_put, blk, copy, phase, calls, out>>

Lock(t) ==
  /\ Step(t, "lock", IF t \in Loggers THEN "check" ELSE "format")
  /\ output_lock(t)
  /\ UNCHANGED <<rbb, arena, log_buf_th, voutput_recursion, async, rb, blk, copy, phase,
                 calls, out>>

\* ulog_voutput: what looks like a recursive call is printed at once, unless
\* it is a hexdump.
CheckRecursion(t) ==
  /\ \/ Step(t, "check", "format")
     \/ voutput_recursion /\ Step(t, "check", "unlock")
  /\ UNCHANGED <<rbb, arena, voutput, async, rb, blk, copy, phase, calls, out>>

\* Mutant of FormatLog: a line without the keyword returns without unlocking.
FormatLog_keeps_lock(t) ==
  /\ t \in Loggers
  /\ \E next \in {"do_output", "idle"} : Step(t, "format", next)
  /\ log_buf_th' = Line(t)
  /\ UNCHANGED <<rbb, arena, output_locker, voutput_recursion, async, rb, blk, copy, phase,
                 calls, out>>

\* ulog_voutput: the line is formatted, and dropped if the keyword is not in it.
FormatLog(t) ==
  /\ t \in Loggers
  /\ \E next \in {"do_output", "return"} : Step(t, "format", next)
  /\ log_buf_th' = Line(t)
  /\ voutput_recursion' = TRUE
  /\ UNCHANGED <<rbb, arena, output_locker, async, rb, blk, copy, phase, calls, out>>

FormatRaw(t) ==
  /\ t \in RawLoggers
  /\ Step(t, "format", "do_output")
  /\ log_buf_th' = Line(t)
  /\ UNCHANGED <<rbb, arena, output_locker, voutput_recursion, async, rb, blk, copy, phase,
                 calls, out>>

\* do_output of a formatted line: ask for a block; without one the line is lost.
AllocFrame(t) ==
  /\ t \in Loggers
  /\ async_enabled
  /\ \E n \in BlkSizes :
       \/ /\ \E at \in Rbb!Room(n) : Rbb!AllocBlock(n, at)
          /\ blk' = [blk EXCEPT ![t] = Head(free_list)]
          /\ Step(t, "do_output", "fill")
       \/ /\ Rbb!AllocNoSpace(n) \/ Rbb!AllocNoDescriptor
          /\ Step(t, "do_output", "return")
          /\ UNCHANGED blk
  /\ UNCHANGED <<arena, voutput, async, rb, copy, phase, calls, out>>

\* do_output: the frame is packed and the line copied from the line buffer.
FillFrame(t) ==
  /\ Step(t, "fill", "put")
  /\ arena' = [o \in DOMAIN arena |-> IF o \in Units(blk[t]) THEN log_buf_th ELSE arena[o]]
  /\ UNCHANGED <<rbb, voutput, async, rb, blk, copy, phase, calls, out>>

PutFrame(t) ==
  /\ Step(t, "put", "give")
  /\ Rbb!rbb_blk_put(blk[t])
  /\ blk' = [blk EXCEPT ![t] = None]
  /\ UNCHANGED <<arena, voutput, async, rb, copy, phase, calls, out>>

\* do_output of raw data: ringbuffer_put takes as much as there is space for.
\* With one raw logger nobody stores async_rb between the test and the put, so they
\* are one step here; Lifecycle, with two, has them apart.
PutRaw(t) ==
  /\ t \in RawLoggers
  /\ async_enabled
  /\ async_rb # None
  /\ Step(t, "do_output", "give")
  /\ \E n \in RawSizes :
       LET taken == Min2(n, RbSize - Len(rb_data[async_rb]))
           bytes == [i \in 1 .. taken |-> log_buf_th]
       IN /\ rb_data' = [rb_data EXCEPT ![async_rb] = @ \o bytes]
          /\ raw_put' = raw_put \o bytes
  /\ UNCHANGED <<rbb, arena, voutput, async, async_rb, blk, copy, phase, calls, out>>

\* do_output of raw data when the byte buffer could not be created.
LoseRaw(t) ==
  /\ t \in RawLoggers
  /\ async_enabled
  /\ async_rb = None
  /\ Step(t, "do_output", "unlock")
  /\ UNCHANGED <<rbb, arena, voutput, async, rb, blk, copy, phase, calls, out>>

\* Mutant of GiveNotice: the semaphore counts.
GiveNotice_counting(t) ==
  /\ Step(t, "give", IF t \in Loggers THEN "return" ELSE "unlock")
  /\ async_notice' = async_notice + 1
  /\ UNCHANGED <<rbb, arena, voutput, async_enabled, toggles, rb, blk, copy, phase, calls, out>>

\* xSemaphoreGive(ulog.async_notice): a binary semaphore saturates.
GiveNotice(t) ==
  /\ Step(t, "give", IF t \in Loggers THEN "return" ELSE "unlock")
  /\ async_notice' = 1
  /\ UNCHANGED <<rbb, arena, voutput, async_enabled, toggles, rb, blk, copy, phase, calls, out>>

\* do_output while asynchronous output is off: straight to the backends.
OutputLogNow(t) ==
  /\ t \in Loggers
  /\ ~ async_enabled
  /\ Step(t, "do_output", "return")
  /\ delivered' = Append(delivered, log_buf_th)
  /\ UNCHANGED <<rbb, arena, voutput, async, rb, blk, copy, phase, calls, raw_delivered>>

OutputRawNow(t) ==
  /\ t \in RawLoggers
  /\ ~ async_enabled
  /\ Step(t, "do_output", "unlock")
  /\ \E n \in RawSizes :
       LET bytes == [i \in 1 .. n |-> log_buf_th]
       IN /\ raw_put' = raw_put \o bytes
          /\ raw_delivered' = raw_delivered \o bytes
  /\ UNCHANGED <<rbb, arena, voutput, async, async_rb, rb_data, blk, copy, phase, calls,
                 delivered>>

\* ulog_voutput after do_output or the keyword filter.
Return(t) ==
  /\ Step(t, "return", "unlock")
  /\ voutput_recursion' = FALSE
  /\ UNCHANGED <<rbb, arena, log_buf_th, output_locker, async, rb, blk, copy, phase, calls,
                 out>>

Unlock(t) ==
  /\ Step(t, "unlock", "idle")
  /\ output_unlock
  /\ UNCHANGED <<rbb, arena, log_buf_th, voutput_recursion, async, rb, blk, copy, phase,
                 calls, out>>

-----------------------------------------------------------------------------
\* ulog_async_output, by the thread or by a task that flushes.

Enter(t) ==
  /\ Step(t, "enter", IF async_enabled THEN "get" ELSE "leave")
  /\ UNCHANGED <<rbb, arena, voutput, async, rb, blk, copy, phase, calls, out>>

GetBlock(t) ==
  /\ Step(t, "get", "output")
  /\ \E b \in Rbb!blk_set : Rbb!rbb_blk_get(b) /\ blk' = [blk EXCEPT ![t] = b]
  /\ UNCHANGED <<arena, voutput, async, rb, copy, phase, calls, out>>

OutputBlock(t) ==
  /\ Step(t, "output", "free")
  /\ delivered' = Append(delivered, Frame(blk[t]))
  /\ UNCHANGED <<rbb, arena, voutput, async, rb, blk, copy, phase, calls, raw_delivered>>

FreeBlock(t) ==
  /\ Step(t, "free", "get")
  /\ Rbb!rbb_blk_free(blk[t])
  /\ blk' = [blk EXCEPT ![t] = None]
  /\ UNCHANGED <<arena, voutput, async, rb, copy, phase, calls, out>>

NoBlock(t) ==
  /\ Step(t, "get", IF async_rb = None THEN "leave" ELSE "raw_len")
  /\ \A b \in Range(blk_list) : status[b] # "PUT"
  /\ UNCHANGED <<rbb, arena, voutput, async, rb, blk, copy, phase, calls, out>>

\* log_len = ringbuffer_data_len; without memory for a copy the data stays.
RawLen(t) ==
  /\ \/ /\ Step(t, "raw_len", "raw_get")
        /\ log_len' = [log_len EXCEPT ![t] = Len(rb_data[async_rb])]
     \/ /\ Step(t, "raw_len", "leave")
        /\ UNCHANGED log_len
  /\ UNCHANGED <<rbb, arena, voutput, async, rb, blk, log, phase, calls, out>>

\* Mutant of RawGet: the data is read and not consumed.
RawGet_keeps_data(t) ==
  /\ Step(t, "raw_get", "raw_output")
  /\ LET data == rb_data[async_rb]
     IN log' = [log EXCEPT ![t] = SubSeq(data, 1, Min2(log_len[t], Len(data)))]
  /\ log_len' = [log_len EXCEPT ![t] = 0]
  /\ UNCHANGED <<rbb, arena, voutput, async, rb, blk, phase, calls, out>>

\* ringbuffer_get of at most log_len bytes into the copy.
RawGet(t) ==
  /\ Step(t, "raw_get", "raw_output")
  /\ LET data == rb_data[async_rb]
         n == Min2(log_len[t], Len(data))
     IN /\ rb_data' = [rb_data EXCEPT ![async_rb] = SubSeq(data, n + 1, Len(data))]
        /\ log' = [log EXCEPT ![t] = SubSeq(data, 1, n)]
  /\ log_len' = [log_len EXCEPT ![t] = 0]
  /\ UNCHANGED <<rbb, arena, voutput, async, async_rb, raw_put, blk, phase, calls, out>>

RawOutput(t) ==
  /\ Step(t, "raw_output", "leave")
  /\ raw_delivered' = raw_delivered \o log[t]
  /\ log' = [log EXCEPT ![t] = << >>]
  /\ UNCHANGED <<rbb, arena, voutput, async, rb, blk, log_len, phase, calls, delivered>>

-----------------------------------------------------------------------------
\* Mutant of Leave: the semaphore is reset before the thread waits.
Leave_resets_notice(t) ==
  /\ Step(t, "leave", IF t # Async THEN "idle"
                      ELSE IF phase = "loop" THEN "wait_2000" ELSE "wait_forever")
  /\ async_notice' = IF t = Async THEN 0 ELSE async_notice
  /\ UNCHANGED <<rbb, arena, voutput, async_enabled, toggles, rb, blk, copy, phase, calls, out>>

\* async_output_thread_entry: first an output, then the outer loop.
Leave(t) ==
  /\ Step(t, "leave", IF t # Async THEN "idle"
                      ELSE IF phase = "loop" THEN "wait_2000" ELSE "wait_forever")
  /\ UNCHANGED <<rbb, arena, voutput, async, rb, blk, copy, phase, calls, out>>

\* ulog_async_waiting_log returning RT_OK, from either wait.
Woken ==
  /\ \E wait \in {"wait_forever", "wait_2000"} : Step(Async, wait, "enter")
  /\ async_notice = 1
  /\ async_notice' = 0
  /\ phase' = "loop"
  /\ UNCHANGED <<rbb, arena, voutput, async_enabled, toggles, rb, blk, copy, calls, out>>

\* 2000 ticks without a notice: ulog_flush and back to the outer loop.
TimedOut ==
  /\ Step(Async, "wait_2000", "enter")
  /\ async_notice = 0
  /\ phase' = "flush"
  /\ UNCHANGED <<rbb, arena, voutput, async, rb, blk, copy, calls, out>>

\* ulog_flush by another task.
StartFlush(t) ==
  /\ t \in Flushers
  /\ Call(t)
  /\ Step(t, "idle", "enter")
  /\ UNCHANGED <<rbb, arena, voutput, async, rb, blk, copy, phase, out>>

\* A call with the value that is already set changes nothing.
ulog_async_output_enabled(enabled) ==
  /\ enabled # async_enabled
  /\ toggles < MaxToggles
  /\ toggles' = toggles + 1
  /\ async_enabled' = enabled
  /\ UNCHANGED <<rbb, arena, voutput, async_notice, rb, pc, blk, copy, phase, calls, out>>

-----------------------------------------------------------------------------
\* A log call once it has begun.
CallStep(t) ==
  \/ CreateRb(t) \/ Lock(t) \/ CheckRecursion(t) \/ FormatLog(t) \/ FormatRaw(t)
  \/ AllocFrame(t) \/ FillFrame(t) \/ PutFrame(t) \/ PutRaw(t) \/ LoseRaw(t) \/ GiveNotice(t)
  \/ OutputLogNow(t) \/ OutputRawNow(t) \/ Return(t) \/ Unlock(t)

ulog_async_output(t) ==
  \/ Enter(t) \/ GetBlock(t) \/ OutputBlock(t) \/ FreeBlock(t) \/ NoBlock(t)
  \/ RawLen(t) \/ RawGet(t) \/ RawOutput(t) \/ Leave(t)

ThreadStep == ulog_async_output(Async) \/ Woken \/ TimedOut

Next ==
  \/ \E t \in Callers : StartLog(t) \/ StartRaw(t) \/ CallStep(t)
  \/ \E t \in Flushers : StartFlush(t) \/ ulog_async_output(t)
  \/ ThreadStep
  \/ \E enabled \in BOOLEAN : ulog_async_output_enabled(enabled)

\* A call in progress goes on, and so does the thread: the scheduler starves
\* no ready task for ever.  Nothing obliges a task to log or to flush.
Fairness ==
  /\ \A t \in Callers : WF_vars(CallStep(t))
  /\ \A t \in Flushers : WF_vars(ulog_async_output(t))
  /\ WF_vars(ThreadStep)

Spec == Init /\ [][Next]_vars
FairSpec == Spec /\ Fairness

-----------------------------------------------------------------------------
TypeOK ==
  /\ Rbb!TypeOK
  /\ arena \in [0 .. (BufSize - 1) -> Lines \cup {None}]
  /\ log_buf_th \in Lines \cup {None}
  /\ output_locker \in Callers \cup {None}
  /\ voutput_recursion \in BOOLEAN
  /\ async_notice \in {0, 1}
  /\ async_enabled \in BOOLEAN
  /\ async_rb \in RawLoggers \cup {None}
  /\ \A t \in RawLoggers : rb_data[t] \in Seq(Lines) /\ Len(rb_data[t]) <= RbSize
  /\ blk \in [Tasks -> Rbb!blk_set \cup {None}]
  /\ log_len \in [Tasks -> 0 .. RbSize]
  /\ phase \in {"entry", "loop", "flush"}
  /\ calls \in [Tasks -> Nat]
  /\ delivered \in Seq(Lines \cup {None})
  /\ raw_put \in Seq(Lines)
  /\ raw_delivered \in Seq(Lines)

\* From formatting until the line has been handed over, the line buffer shared
\* by all tasks holds the line of the task at work.
LineBufferOwned ==
  \A t \in Callers : pc[t] \in {"do_output", "fill"} => log_buf_th = Line(t)

\* A block has exactly one user at a time: the task filling it while INITED,
\* the task draining it while GET, and nobody while PUT or UNUSED.  So no block
\* is drained twice, freed under its user or forgotten.
BlockOwnership ==
  \A b \in Rbb!blk_set :
    LET users == {t \in Tasks : blk[t] = b}
    IN /\ status[b] = "INITED" => \E t \in Loggers : users = {t} /\ pc[t] \in {"fill", "put"}
       /\ status[b] = "GET" => \E t \in Tasks \ Callers :
                                 users = {t} /\ pc[t] \in {"output", "free"}
       /\ status[b] \in {"PUT", "UNUSED"} => users = {}

\* No line is given to the backends twice, and none that was garbled, whoever
\* drains.
DeliveredOnce ==
  IsInjective(delivered) /\ None \notin Range(delivered)

\* While a line is waiting and may be output the thread does not sleep: a
\* notice is there for it, or the task that put the line is about to give one.
NoLostWakeup ==
  async_enabled /\ (\E b \in Range(blk_list) : status[b] = "PUT")
    => \/ pc[Async] \notin {"wait_forever", "wait_2000"}
       \/ async_notice = 1
       \/ \E t \in Loggers : pc[t] = "give"

\* The raw bytes reach the backends in the order in which they were accepted
\* and none is lost or doubled, whatever has been read and not written yet.
RawInOrder ==
  raw_put = raw_delivered \o log[Async]
              \o (IF async_rb = None THEN << >> ELSE rb_data[async_rb])

\* The frame in block b waits: b was put, or a task has taken it and not output yet.
Waits(b) == status[b] = "PUT" \/ \E t \in Tasks : blk[t] = b /\ pc[t] = "output"

frames == [b \in {c \in Rbb!blk_set : Waits(c)} |-> Frame(b)]

\* The values of f along s, where it has one.
Along(s, f) ==
  LET upto[n \in 0 .. Len(s)] ==
        IF n = 0 THEN << >>
        ELSE IF s[n] \in DOMAIN f THEN Append(upto[n - 1], f[s[n]]) ELSE upto[n - 1]
  IN upto[Len(s)]

\* The lines waiting, in the order of the chain.
queue == Along(blk_list, frames)

Fifo == INSTANCE LossyFifo

\* With one draining task, the blocks, the frames and the shared line buffer
\* together are a lossy FIFO of whole lines.
FifoSpec == Fifo!Spec

\* Every line taken in gets to the backends, unless asynchronous output is
\* switched off while it waits.
LinesGetOut ==
  \A m \in Lines : (m \in Range(queue)) ~> (m \in Range(delivered) \/ ~ async_enabled)

\* Every log call returns: no path out of it keeps the lock.
CallsReturn == \A t \in Callers : (pc[t] = "lock") ~> (pc[t] = "idle")
=============================================================================
