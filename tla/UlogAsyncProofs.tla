--------------------------- MODULE UlogAsyncProofs ---------------------------
(***************************************************************************)
(* Proofs about the asynchronous output path, for every set of tasks and   *)
(* every size of the two buffers.                                          *)
(*                                                                         *)
(* What is known of the blocks comes from RingBlkProofs: every step of     *)
(* this specification is a step of the ring block buffer or leaves it      *)
(* alone.                                                                  *)
(***************************************************************************)
EXTENDS UlogAsync, SequenceFacts

\* The logger takes single blocks: the queue of the block module stays empty.
Chain == INSTANCE RingBlkProofs WITH
  QueueDataLens <- {}, blk_queue <- [blocks |-> None, blk_num |-> 0],
  next_blk <- None, stage <- "next", taken <- << >>

\* The assumptions of RingBlk hold of the constants that UlogAsync gives it.
LEMMA Assumed ==
  Chain!BlkMaxNumAssumption /\ Chain!BufSizeAssumption /\ Chain!BlkSizesAssumption
BY ArenaAssumption
   DEF Chain!BlkMaxNumAssumption, Chain!BufSizeAssumption, Chain!BlkSizesAssumption

-----------------------------------------------------------------------------
\* The ring block buffer, as the facts of RingBlkProofs name it.

\* The instance in UlogAsync (Rbb) and the one with the proofs (Chain) are the same
\* buffer: its types,
LEMMA SameTypes ==
  /\ Rbb!blk_set = Chain!blk_set
  /\ \A b : Rbb!End(b) = Chain!End(b)
  /\ Rbb!TypeOK <=> Chain!TypeOK
BY DEF Rbb!blk_set, Chain!blk_set, Rbb!End, Chain!End, Rbb!TypeOK, Chain!TypeOK,
       Rbb!rbb_status, Chain!rbb_status, Rbb!ListHead, Chain!ListHead

\* its initial state,
LEMMA SameInit == Rbb!rbb_init <=> Chain!Init
BY SameTypes DEF Rbb!rbb_init, Chain!Init, Chain!rbb_init, Rbb!ListHead, Chain!ListHead

\* its allocations, failing ones included,
LEMMA SameAlloc ==
  /\ \A n, at : Rbb!AllocBlock(n, at) <=> Chain!AllocBlock(n, at)
  /\ \A n : Rbb!Room(n) = Chain!Room(n)
  /\ \A n : Rbb!AllocNoSpace(n) <=> Chain!AllocNoSpace(n)
  /\ Rbb!AllocNoDescriptor <=> Chain!AllocNoDescriptor
<1>1. \A n : Rbb!Room(n) = Chain!Room(n)
  BY Zenon DEF Rbb!Room, Chain!Room, Rbb!End, Chain!End
<1>2. \A n, at : Rbb!AllocBlock(n, at) <=> Chain!AllocBlock(n, at)
  BY <1>1, Zenon DEF Rbb!AllocBlock, Chain!AllocBlock, Rbb!rbb_list_append,
                     Chain!rbb_list_append, Rbb!ListHead, Chain!ListHead
<1>3. \A n : Rbb!AllocNoSpace(n) <=> Chain!AllocNoSpace(n)
  BY <1>1, Zenon DEF Rbb!AllocNoSpace, Chain!AllocNoSpace
<1>4. Rbb!AllocNoDescriptor <=> Chain!AllocNoDescriptor
  BY Zenon DEF Rbb!AllocNoDescriptor, Chain!AllocNoDescriptor, Rbb!vars, Chain!vars
<1>. QED  BY <1>1, <1>2, <1>3, <1>4

\* and what is done with a block that was allocated.
LEMMA SameUse ==
  /\ \A b : Rbb!rbb_blk_put(b) <=> Chain!rbb_blk_put(b)
  /\ \A b : Rbb!rbb_blk_get(b) <=> Chain!rbb_blk_get(b)
  /\ \A b : Rbb!rbb_blk_free(b) <=> Chain!rbb_blk_free(b)
<1>1. \A b : Rbb!rbb_blk_put(b) <=> Chain!rbb_blk_put(b)
  BY Zenon DEF Rbb!rbb_blk_put, Chain!rbb_blk_put
<1>2. \A b : Rbb!rbb_blk_get(b) <=> Chain!rbb_blk_get(b)
  BY Zenon DEF Rbb!rbb_blk_get, Chain!rbb_blk_get, Rbb!IsFirstPut, Chain!IsFirstPut
<1>3. \A b : Rbb!rbb_blk_free(b) <=> Chain!rbb_blk_free(b)
  BY Zenon DEF Rbb!rbb_blk_free, Chain!rbb_blk_free, Rbb!rbb_list_remove,
               Chain!rbb_list_remove, Chain!RemoveAt, Rbb!RemoveAt, Rbb!ListHead,
               Chain!ListHead
<1>. QED  BY <1>1, <1>2, <1>3

-----------------------------------------------------------------------------
\* Where a task can be, and which actions it takes from there.

Drainers == Flushers \cup {Async}

LogPlaces == {"idle", "lock", "check", "format", "do_output", "fill", "put", "give",
              "return", "unlock"}
RawPlaces == {"idle", "create", "lock", "format", "do_output", "give", "unlock"}
DrainPlaces == {"enter", "get", "output", "free", "raw_len", "raw_get", "raw_output", "leave"}
WaitPlaces == {"wait_forever", "wait_2000"}
Places == LogPlaces \cup RawPlaces \cup DrainPlaces \cup WaitPlaces

Control ==
  /\ pc \in [Tasks -> Places]
  /\ \A t \in Loggers : pc[t] \in LogPlaces
  /\ \A t \in RawLoggers : pc[t] \in RawPlaces
  /\ \A t \in Flushers : pc[t] \in DrainPlaces \cup {"idle"}
  /\ pc[Async] \in DrainPlaces \cup WaitPlaces

\* Which tasks play which role: a task that calls does not drain, and of two that
\* call one logs and one sends raw data.
LEMMA Roles ==
  /\ \A t \in Loggers : t \in Callers /\ t \in Tasks /\ t \notin RawLoggers /\ t \notin Drainers
  /\ \A t \in RawLoggers : t \in Callers /\ t \in Tasks /\ t \notin Loggers /\ t \notin Drainers
  /\ \A t \in Flushers : t \in Drainers /\ t # Async
  /\ \A t \in Drainers : t \in Tasks /\ t \notin Callers /\ t \notin Loggers /\ t \notin RawLoggers
  /\ Async \in Drainers
  /\ \A t \in Tasks : t \in Loggers \/ t \in RawLoggers \/ t \in Drainers
BY TasksAssumption DEF Tasks, Callers, Drainers

\* A task moves from one of its places to another.
LEMMA MoveKeepsControl ==
  ASSUME Control, NEW t \in Tasks, NEW from, NEW to, Step(t, from, to),
         t \in Loggers => to \in LogPlaces,
         t \in RawLoggers => to \in RawPlaces,
         t \in Flushers => to \in DrainPlaces \cup {"idle"},
         t = Async => to \in DrainPlaces \cup WaitPlaces
  PROVE  Control' /\ pc'[t] = to /\ \A u \in Tasks : u # t => pc'[u] = pc[u]
<1>1. to \in Places
  BY Roles DEF Places, Drainers, LogPlaces, RawPlaces, DrainPlaces
<1>2. pc' \in [Tasks -> Places] /\ pc'[t] = to /\ \A u \in Tasks : u # t => pc'[u] = pc[u]
  BY <1>1 DEF Control, Step
<1>3. \A u \in Loggers \cup RawLoggers \cup Flushers \cup {Async} : u \in Tasks
  BY DEF Tasks, Callers
<1>. QED  BY <1>2, <1>3 DEF Control

\* The actions of each kind of task.
LogStep(t) ==
  \/ StartLog(t) \/ Lock(t) \/ CheckRecursion(t) \/ FormatLog(t) \/ AllocFrame(t)
  \/ FillFrame(t) \/ PutFrame(t) \/ GiveNotice(t) \/ OutputLogNow(t) \/ Return(t) \/ Unlock(t)

RawStep(t) ==
  \/ StartRaw(t) \/ CreateRb(t) \/ Lock(t) \/ FormatRaw(t) \/ PutRaw(t) \/ LoseRaw(t)
  \/ GiveNotice(t) \/ OutputRawNow(t) \/ Unlock(t)

\* A step, told apart by the task that takes it, as its place must be one of that
\* role.
LEMMA WhichStep ==
  ASSUME Control, Next
  PROVE  \/ \E t \in Loggers : LogStep(t)
         \/ \E t \in RawLoggers : RawStep(t)
         \/ \E t \in Drainers : ulog_async_output(t)
         \/ \E t \in Flushers : StartFlush(t)
         \/ Woken
         \/ TimedOut
         \/ \E enabled \in BOOLEAN : ulog_async_output_enabled(enabled)
<1>1. ASSUME NEW t \in Callers, StartLog(t) \/ StartRaw(t) \/ CallStep(t)
      PROVE  (t \in Loggers /\ LogStep(t)) \/ (t \in RawLoggers /\ RawStep(t))
  <2>1. t \in Loggers => pc[t] \in LogPlaces
    BY DEF Control
  <2>2. t \in RawLoggers => pc[t] \in RawPlaces
    BY DEF Control
  <2>3. CASE t \in Loggers
    <3>1. t \notin RawLoggers
      BY <2>3, Roles
    <3>2. ~ StartRaw(t) /\ ~ FormatRaw(t) /\ ~ PutRaw(t) /\ ~ LoseRaw(t) /\ ~ OutputRawNow(t)
      BY <3>1 DEF StartRaw, FormatRaw, PutRaw, LoseRaw, OutputRawNow
    <3>3. ~ CreateRb(t)
      BY <2>1, <2>3 DEF CreateRb, Step, LogPlaces
    <3>. QED  BY <1>1, <2>3, <3>2, <3>3 DEF CallStep, LogStep
  <2>4. CASE t \in RawLoggers
    <3>1. t \notin Loggers
      BY <2>4, Roles
    <3>2. ~ StartLog(t) /\ ~ FormatLog(t) /\ ~ AllocFrame(t) /\ ~ OutputLogNow(t)
      BY <3>1 DEF StartLog, FormatLog, AllocFrame, OutputLogNow
    <3>3. ~ CheckRecursion(t) /\ ~ FillFrame(t) /\ ~ PutFrame(t) /\ ~ Return(t)
      BY <2>2, <2>4 DEF CheckRecursion, FillFrame, PutFrame, Return, Step, RawPlaces
    <3>. QED  BY <1>1, <2>4, <3>2, <3>3 DEF CallStep, RawStep
  <2>. QED  BY <2>3, <2>4 DEF Callers
<1>2. ASSUME NEW t \in Flushers, ulog_async_output(t)
      PROVE  \E u \in Drainers : ulog_async_output(u)
  BY <1>2 DEF Drainers
<1>3. ulog_async_output(Async) => \E u \in Drainers : ulog_async_output(u)
  BY DEF Drainers
<1>. QED  BY <1>1, <1>2, <1>3, Zenon DEF Next, ThreadStep

\* Places, phase of the thread and bounds keep their types.
LEMMA NextControl == Control /\ [Next]_vars => Control'
<1>. SUFFICES ASSUME Control, [Next]_vars PROVE Control'
  OBVIOUS
<1>1. CASE UNCHANGED vars
  BY <1>1 DEF Control, vars
<1>2. ASSUME NEW t \in Loggers, LogStep(t) PROVE Control'
  <2>1. /\ t \in Tasks /\ t \notin RawLoggers /\ t \notin Flushers /\ t # Async
    BY Roles DEF Drainers
  <2>2. \A to \in LogPlaces : \A from : Step(t, from, to) => Control'
    BY <2>1, MoveKeepsControl
  <2>. QED  BY <2>2, <1>2 DEF LogStep, LogPlaces, StartLog, Lock, CheckRecursion, FormatLog,
               AllocFrame, FillFrame, PutFrame, GiveNotice, OutputLogNow, Return, Unlock
<1>3. ASSUME NEW t \in RawLoggers, RawStep(t) PROVE Control'
  <2>1. /\ t \in Tasks /\ t \notin Loggers /\ t \notin Flushers /\ t # Async
    BY Roles DEF Drainers
  <2>2. \A to \in RawPlaces : \A from : Step(t, from, to) => Control'
    BY <2>1, MoveKeepsControl
  <2>. QED  BY <2>1, <2>2, <1>3 DEF RawStep, RawPlaces, StartRaw, CreateRb, Lock, FormatRaw,
               PutRaw, LoseRaw, GiveNotice, OutputRawNow, Unlock
<1>4. ASSUME NEW t \in Drainers, ulog_async_output(t) PROVE Control'
  <2>1. t \in Tasks /\ t \notin Loggers /\ t \notin RawLoggers
    BY Roles
  <2>2. \A to \in DrainPlaces : \A from : Step(t, from, to) => Control'
    BY <2>1, MoveKeepsControl
  <2>3. ASSUME Leave(t) PROVE Control'
    <3>1. CASE t = Async
      <4>1. PICK to \in WaitPlaces : Step(t, "leave", to)
        BY <2>3, <3>1 DEF Leave, WaitPlaces
      <4>2. t \notin Flushers
        BY <3>1, Roles
      <4>. QED  BY <4>1, <4>2, <2>1, <3>1, MoveKeepsControl
    <3>2. CASE t # Async
      <4>1. Step(t, "leave", "idle")
        BY <2>3, <3>2 DEF Leave
      <4>. QED  BY <4>1, <2>1, <3>2, MoveKeepsControl
    <3>. QED  BY <3>1, <3>2
  <2>. QED  BY <2>2, <2>3, <1>4 DEF ulog_async_output, DrainPlaces, Enter, GetBlock, OutputBlock,
               FreeBlock, NoBlock, RawLen, RawGet, RawOutput
<1>5. ASSUME NEW t \in Flushers, StartFlush(t) PROVE Control'
  <2>1. t \in Tasks /\ t \notin Loggers /\ t \notin RawLoggers /\ t # Async
    BY Roles
  <2>2. Step(t, "idle", "enter") /\ "enter" \in DrainPlaces
    BY <1>5 DEF StartFlush, DrainPlaces
  <2>. QED  BY <2>1, <2>2, MoveKeepsControl
<1>6. ASSUME Woken \/ TimedOut PROVE Control'
  <2>1. Async \in Tasks /\ Async \notin Loggers /\ Async \notin RawLoggers /\ Async \notin Flushers
    BY Roles
  <2>2. /\ \E from : Step(Async, from, "enter")
        /\ "enter" \in DrainPlaces
    BY <1>6 DEF Woken, TimedOut, DrainPlaces
  <2>. QED  BY <2>1, <2>2, MoveKeepsControl
<1>7. ASSUME NEW enabled \in BOOLEAN, ulog_async_output_enabled(enabled) PROVE Control'
  BY <1>7 DEF ulog_async_output_enabled, Control
<1>. QED  BY <1>1, <1>2, <1>3, <1>4, <1>5, <1>6, <1>7, WhichStep

-----------------------------------------------------------------------------
\* The calls: how many each task has made, the mutex and the line buffer.

Section == {"check", "format", "do_output", "fill", "put", "give", "return", "unlock"}

CallsCounted ==
  /\ calls \in [Tasks -> Nat]
  /\ \A t \in Loggers : calls[t] <= MaxCalls /\ (pc[t] # "idle" => calls[t] # 0)
  /\ \A t \in RawLoggers : calls[t] <= MaxRawCalls /\ (pc[t] # "idle" => calls[t] # 0)

\* output_locker is held exactly between the lock and the unlock of a call.
MutexHeld ==
  /\ output_locker \in Callers \cup {None}
  /\ \A t \in Callers : pc[t] \in Section <=> output_locker = t

LineHeld == log_buf_th \in Lines \cup {None} /\ LineBufferOwned

CallsInv == Control /\ CallsCounted /\ MutexHeld /\ LineHeld

\* The line of a call in progress is one of the lines there are.
LEMMA LineIsLine ==
  ASSUME CallsCounted, NEW t \in Callers, pc[t] # "idle"
  PROVE  Line(t) \in Lines
<1>1. calls[t] \in Nat \ {0}
  BY Roles DEF CallsCounted, Callers
<1>2. CASE t \in Loggers
  <2>1. calls[t] \in 1 .. MaxCalls
    BY <1>1, <1>2, BoundsAssumption DEF CallsCounted
  <2>. QED  BY <2>1, <1>2 DEF Line, Lines
<1>3. CASE t \in RawLoggers
  <2>1. calls[t] \in 1 .. MaxRawCalls
    BY <1>1, <1>3, BoundsAssumption DEF CallsCounted
  <2>. QED  BY <2>1, <1>3 DEF Line, Lines
<1>. QED  BY <1>2, <1>3 DEF Callers

\* A step of task t within the section that leaves the line buffer alone.
LEMMA InSection ==
  ASSUME CallsInv, NEW t \in Callers, pc[t] \in Section, pc'[t] \in Section,
         pc'[t] \in {"do_output", "fill"} => pc[t] = "do_output",
         \A u \in Tasks : u # t => pc'[u] = pc[u],
         UNCHANGED <<calls, output_locker, log_buf_th>>
  PROVE  CallsCounted' /\ MutexHeld' /\ LineHeld'
<1>1. \A u \in Callers : u \in Tasks
  BY DEF Tasks
<1>2. CallsCounted'
  BY <1>1 DEF CallsInv, CallsCounted, Callers, Section
<1>3. MutexHeld'
  BY <1>1 DEF CallsInv, MutexHeld
<1>4. LineHeld'
  BY <1>1 DEF CallsInv, LineHeld, LineBufferOwned, Line
<1>. QED  BY <1>2, <1>3, <1>4

\* A step that calls take no part in.
LEMMA OutsideCalls ==
  ASSUME CallsInv, calls' \in [Tasks -> Nat],
         \A u \in Callers : pc'[u] = pc[u] /\ calls'[u] = calls[u],
         UNCHANGED <<output_locker, log_buf_th>>
  PROVE  CallsCounted' /\ MutexHeld' /\ LineHeld'
<1>1. CallsCounted'
  BY DEF CallsInv, CallsCounted, Callers
<1>2. MutexHeld'
  BY DEF CallsInv, MutexHeld
<1>3. LineHeld'
  BY DEF CallsInv, LineHeld, LineBufferOwned, Line
<1>. QED  BY <1>1, <1>2, <1>3

\* A call begins.
LEMMA CallStarts ==
  ASSUME CallsInv, NEW t \in Callers, Call(t), pc[t] = "idle",
         pc'[t] \in {"lock", "create"}, \A u \in Tasks : u # t => pc'[u] = pc[u],
         UNCHANGED <<output_locker, log_buf_th>>
  PROVE  CallsCounted' /\ MutexHeld' /\ LineHeld'
<1>1. \A u \in Callers : u \in Tasks
  BY DEF Tasks
<1>2. /\ calls' \in [Tasks -> Nat] /\ calls'[t] = calls[t] + 1 /\ calls[t] \in Nat
      /\ \A u \in Tasks : u # t => calls'[u] = calls[u]
  BY <1>1 DEF Call, CallsInv, CallsCounted
<1>3. CallsCounted'
  <2>1. ASSUME NEW u \in Loggers
        PROVE  calls'[u] <= MaxCalls /\ (pc'[u] # "idle" => calls'[u] # 0)
    <3>1. CASE u = t
      <4>1. calls[t] < MaxCalls
        BY <3>1 DEF Call
      <4>. QED  BY <3>1, <4>1, <1>2, BoundsAssumption
    <3>2. CASE u # t
      BY <3>2, <1>1, <1>2 DEF CallsInv, CallsCounted, Callers
    <3>. QED  BY <3>1, <3>2
  <2>2. ASSUME NEW u \in RawLoggers
        PROVE  calls'[u] <= MaxRawCalls /\ (pc'[u] # "idle" => calls'[u] # 0)
    <3>1. CASE u = t
      <4>1. calls[t] < MaxRawCalls
        BY <3>1 DEF Call
      <4>. QED  BY <3>1, <4>1, <1>2, BoundsAssumption
    <3>2. CASE u # t
      BY <3>2, <1>1, <1>2 DEF CallsInv, CallsCounted, Callers
    <3>. QED  BY <3>1, <3>2
  <2>. QED  BY <2>1, <2>2, <1>2 DEF CallsCounted
<1>4. MutexHeld'
  BY <1>1 DEF CallsInv, MutexHeld, Section
<1>5. LineHeld'
  BY <1>1, <1>2 DEF CallsInv, LineHeld, LineBufferOwned, Line
<1>. QED  BY <1>3, <1>4, <1>5

\* Taking the mutex: nobody else is in a section, and the call still has its line.
LEMMA LockKeepsCalls ==
  ASSUME CallsInv, NEW t \in Callers, Lock(t), Control'
  PROVE  CallsCounted' /\ MutexHeld' /\ LineHeld'
<1>1. \A u \in Callers : u \in Tasks
  BY DEF Tasks
<1>2. /\ pc[t] = "lock" /\ pc'[t] \in {"check", "format"}
      /\ \A u \in Tasks : u # t => pc'[u] = pc[u]
      /\ output_locker = None /\ output_locker' = t
      /\ UNCHANGED <<log_buf_th, calls>>
  BY <1>1 DEF Lock, Step, output_lock, CallsInv, Control
<1>3. \A u \in Callers : u # None
  BY NoneAssumption DEF Tasks
<1>4. CallsCounted'
  BY <1>1, <1>2 DEF CallsInv, CallsCounted, Callers
<1>5. MutexHeld'
  BY <1>1, <1>2, <1>3 DEF CallsInv, MutexHeld, Section
<1>6. LineHeld'
  BY <1>1, <1>2 DEF CallsInv, LineHeld, LineBufferOwned, Line
<1>. QED  BY <1>4, <1>5, <1>6

\* Giving the mutex back leaves nobody in a section.
LEMMA UnlockKeepsCalls ==
  ASSUME CallsInv, NEW t \in Callers, Unlock(t), Control'
  PROVE  CallsCounted' /\ MutexHeld' /\ LineHeld'
<1>1. \A u \in Callers : u \in Tasks
  BY DEF Tasks
<1>2. /\ pc[t] = "unlock" /\ pc'[t] = "idle"
      /\ \A u \in Tasks : u # t => pc'[u] = pc[u]
      /\ output_locker' = None
      /\ UNCHANGED <<log_buf_th, calls>>
  BY <1>1 DEF Unlock, Step, output_unlock, CallsInv, Control
<1>3. \A u \in Callers : u # None
  BY NoneAssumption DEF Tasks
<1>4. output_locker = t
  BY <1>2 DEF CallsInv, MutexHeld, Section
<1>5. CallsCounted'
  BY <1>1, <1>2 DEF CallsInv, CallsCounted, Callers
<1>6. MutexHeld'
  BY <1>1, <1>2, <1>3, <1>4 DEF CallsInv, MutexHeld, Section
<1>7. LineHeld'
  BY <1>1, <1>2 DEF CallsInv, LineHeld, LineBufferOwned, Line
<1>. QED  BY <1>5, <1>6, <1>7

\* Formatting writes the line of the only task in the section.
LEMMA FormatKeepsCalls ==
  ASSUME CallsInv, NEW t \in Callers, FormatLog(t) \/ FormatRaw(t), Control'
  PROVE  CallsCounted' /\ MutexHeld' /\ LineHeld'
<1>1. \A u \in Callers : u \in Tasks
  BY DEF Tasks
<1>2. /\ pc[t] = "format" /\ pc'[t] \in {"do_output", "return"}
      /\ \A u \in Tasks : u # t => pc'[u] = pc[u]
      /\ log_buf_th' = Line(t)
      /\ UNCHANGED <<output_locker, calls>>
  BY <1>1 DEF FormatLog, FormatRaw, Step, CallsInv, Control
<1>3. CallsCounted'
  BY <1>1, <1>2 DEF CallsInv, CallsCounted, Callers
<1>4. MutexHeld'
  BY <1>1, <1>2 DEF CallsInv, MutexHeld, Section
<1>5. LineHeld'
  <2>1. log_buf_th' \in Lines
    BY <1>2, LineIsLine DEF CallsInv
  <2>2. ASSUME NEW u \in Callers, pc'[u] \in {"do_output", "fill"} PROVE u = t
    <3>1. u # t => pc[u] \in Section /\ pc[t] \in Section
      BY <2>2, <1>1, <1>2 DEF Section
    <3>2. output_locker = t
      BY <1>2 DEF CallsInv, MutexHeld, Section
    <3>. QED  BY <3>1, <3>2 DEF CallsInv, MutexHeld
  <2>. QED  BY <2>1, <2>2, <1>2 DEF LineHeld, LineBufferOwned, Line
<1>. QED  BY <1>3, <1>4, <1>5

\* The first layer is inductive: one task in the section, the line buffer its
\* holder's.
LEMMA NextCalls == CallsInv /\ [Next]_vars => CallsInv'
<1>. SUFFICES ASSUME CallsInv, [Next]_vars PROVE CallsInv'
  OBVIOUS
<1>. DEFINE Kept == CallsCounted' /\ MutexHeld' /\ LineHeld'
<1>1. Control'
  BY NextControl DEF CallsInv
<1>2. CASE UNCHANGED vars
  <2>1. UNCHANGED <<pc, calls, output_locker, log_buf_th>>
    BY <1>2 DEF vars, voutput
  <2>. QED  BY <2>1, <1>1, OutsideCalls DEF CallsInv, CallsCounted
<1>3. ASSUME NEW t \in Loggers, LogStep(t) PROVE Kept
  <2>1. t \in Callers /\ t \in Tasks
    BY Roles
  <2>2. ASSUME StartLog(t) PROVE Kept
    <3>1. /\ Call(t) /\ pc[t] = "idle" /\ pc'[t] = "lock"
          /\ \A u \in Tasks : u # t => pc'[u] = pc[u]
          /\ UNCHANGED <<output_locker, log_buf_th>>
      BY <2>1, <2>2 DEF StartLog, Step, voutput, CallsInv, Control
    <3>. QED  BY <3>1, <2>1, CallStarts
  <2>3. ASSUME \/ CheckRecursion(t) \/ AllocFrame(t) \/ FillFrame(t) \/ PutFrame(t)
               \/ GiveNotice(t) \/ OutputLogNow(t) \/ Return(t)
        PROVE  Kept
    <3>1. /\ pc[t] \in Section /\ pc'[t] \in Section
          /\ pc'[t] \in {"do_output", "fill"} => pc[t] = "do_output"
          /\ \A u \in Tasks : u # t => pc'[u] = pc[u]
      BY <2>1, <2>3 DEF CallsInv, Control, Section, Step, CheckRecursion, AllocFrame,
           FillFrame, PutFrame, GiveNotice, OutputLogNow, Return
    <3>2. UNCHANGED <<calls, output_locker, log_buf_th>>
      BY <2>3 DEF voutput, CheckRecursion, AllocFrame,
           FillFrame, PutFrame, GiveNotice, OutputLogNow, Return
    <3>. QED  BY <3>1, <3>2, <2>1, InSection
  <2>. QED  BY <2>1, <2>2, <2>3, <1>1, <1>3, LockKeepsCalls, UnlockKeepsCalls, FormatKeepsCalls
            DEF LogStep
<1>4. ASSUME NEW t \in RawLoggers, RawStep(t) PROVE Kept
  <2>1. t \in Callers /\ t \in Tasks /\ t \notin Loggers
    BY Roles
  <2>2. ASSUME StartRaw(t) PROVE Kept
    <3>1. /\ Call(t) /\ pc[t] = "idle" /\ pc'[t] \in {"lock", "create"}
          /\ \A u \in Tasks : u # t => pc'[u] = pc[u]
          /\ UNCHANGED <<output_locker, log_buf_th>>
      BY <2>1, <2>2 DEF StartRaw, Step, voutput, CallsInv, Control
    <3>. QED  BY <3>1, <2>1, CallStarts
  <2>3. ASSUME CreateRb(t) PROVE Kept
    <3>1. /\ pc[t] = "create" /\ pc'[t] = "lock"
          /\ \A u \in Tasks : u # t => pc'[u] = pc[u]
          /\ UNCHANGED <<calls, output_locker, log_buf_th>>
      BY <2>1, <2>3 DEF CreateRb, Step, voutput, CallsInv, Control
    <3>2. \A u \in Callers : u \in Tasks
      BY DEF Tasks
    <3>3. CallsCounted'
      BY <3>1, <3>2 DEF CallsInv, CallsCounted, Callers
    <3>4. MutexHeld'
      BY <3>1, <3>2 DEF CallsInv, MutexHeld, Section
    <3>5. LineHeld'
      BY <3>1, <3>2 DEF CallsInv, LineHeld, LineBufferOwned, Line
    <3>. QED  BY <3>3, <3>4, <3>5
  <2>4. ASSUME PutRaw(t) \/ LoseRaw(t) \/ GiveNotice(t) \/ OutputRawNow(t) PROVE Kept
    <3>1. /\ pc[t] \in Section /\ pc'[t] \in Section
          /\ pc'[t] \notin {"do_output", "fill"}
          /\ \A u \in Tasks : u # t => pc'[u] = pc[u]
      BY <2>1, <2>4 DEF CallsInv, Control, Section, Step, PutRaw, LoseRaw, GiveNotice,
           OutputRawNow
    <3>2. UNCHANGED <<calls, output_locker, log_buf_th>>
      BY <2>4 DEF voutput, PutRaw, LoseRaw, GiveNotice, OutputRawNow
    <3>. QED  BY <3>1, <3>2, <2>1, InSection
  <2>. QED  BY <2>1, <2>2, <2>3, <2>4, <1>1, <1>4, LockKeepsCalls, UnlockKeepsCalls,
               FormatKeepsCalls DEF RawStep
<1>5. ASSUME NEW t \in Drainers, NEW from, NEW to, Step(t, from, to),
             UNCHANGED <<calls, output_locker, log_buf_th>>
      PROVE  Kept
  <2>1. \A u \in Callers : pc'[u] = pc[u]
    BY <1>5, Roles DEF Step, CallsInv, Control, Tasks
  <2>. QED  BY <2>1, <1>5, OutsideCalls DEF CallsInv, CallsCounted
<1>6. ASSUME NEW t \in Drainers, ulog_async_output(t) PROVE Kept
  <2>1. \E from, to : Step(t, from, to)
    BY <1>6 DEF ulog_async_output, Enter, GetBlock, OutputBlock, FreeBlock, NoBlock, RawLen,
         RawGet, RawOutput, Leave
  <2>2. UNCHANGED <<calls, output_locker, log_buf_th>>
    BY <1>6 DEF voutput, ulog_async_output, Enter, GetBlock, OutputBlock, FreeBlock, NoBlock,
         RawLen, RawGet, RawOutput, Leave
  <2>. QED  BY <2>1, <2>2, <1>5
<1>7. ASSUME NEW t \in Flushers, StartFlush(t) PROVE Kept
  <2>1. t \in Tasks /\ t \notin Callers
    BY Roles
  <2>2. \A u \in Callers : u \in Tasks /\ u # t
    BY <2>1 DEF Tasks
  <2>3. /\ calls' \in [Tasks -> Nat]
        /\ \A u \in Callers : calls'[u] = calls[u] /\ pc'[u] = pc[u]
    BY <2>1, <2>2, <1>7 DEF StartFlush, Call, Step, CallsInv, CallsCounted, Control
  <2>4. UNCHANGED <<output_locker, log_buf_th>>
    BY <1>7 DEF StartFlush, voutput
  <2>. QED  BY <2>3, <2>4, OutsideCalls
<1>8. ASSUME Woken \/ TimedOut PROVE Kept
  <2>1. Async \in Drainers /\ \E from, to : Step(Async, from, to)
    BY <1>8, Roles DEF Woken, TimedOut
  <2>2. UNCHANGED <<calls, output_locker, log_buf_th>>
    BY <1>8 DEF Woken, TimedOut, voutput
  <2>. QED  BY <2>1, <2>2, <1>5
<1>9. ASSUME NEW enabled \in BOOLEAN, ulog_async_output_enabled(enabled) PROVE Kept
  <2>1. UNCHANGED <<pc, calls, output_locker, log_buf_th>>
    BY <1>9 DEF ulog_async_output_enabled, voutput
  <2>. QED  BY <2>1, OutsideCalls DEF CallsInv, CallsCounted
<1>10. Kept
  BY <1>2, <1>3, <1>4, <1>6, <1>7, <1>8, <1>9, WhichStep, Zenon DEF CallsInv
<1>. QED  BY <1>1, <1>10 DEF CallsInv

\* Nobody has called yet.
LEMMA InitCalls == Init => CallsInv
<1>. SUFFICES ASSUME Init PROVE CallsInv
  OBVIOUS
<1>1. /\ \A t \in Callers : t \in Tasks /\ t # Async /\ t # None
      /\ Async \in Tasks /\ Async \notin Flushers
      /\ \A t \in Flushers : t \in Tasks
  BY TasksAssumption, NoneAssumption DEF Tasks
<1>2. pc = [t \in Tasks |-> IF t = Async THEN "enter" ELSE "idle"]
  BY DEF Init
<1>3. Control
  BY <1>1, <1>2 DEF Control, Callers, Places, LogPlaces, RawPlaces, DrainPlaces
<1>4. CallsCounted
  BY <1>1, <1>2, BoundsAssumption DEF Init, CallsCounted, Callers
<1>5. MutexHeld
  BY <1>1, <1>2 DEF Init, MutexHeld, Section
<1>6. LineHeld
  BY <1>1, <1>2 DEF Init, LineHeld, LineBufferOwned
<1>. QED  BY <1>3, <1>4, <1>5, <1>6 DEF CallsInv

\* Of ulog_voutput, ulog_raw and their drains: who is between output_lock and
\* output_unlock holds the mutex, and the line in log_buf_th is the holder's from
\* formatting on.
THEOREM CallsInvariant == Spec => []CallsInv
BY InitCalls, NextCalls, PTL DEF Spec

\* From formatting until the line has been handed over no other task writes
\* to the line buffer, whatever the number of tasks that log.
THEOREM LineBufferIsOwned == Spec => []LineBufferOwned
<1>1. CallsInv => LineBufferOwned
  BY DEF CallsInv, LineHeld
<1>. QED  BY <1>1, CallsInvariant, PTL

-----------------------------------------------------------------------------
\* The blocks: who uses which, and the chain they are on.

Filling == {"fill", "put"}
Draining == {"output", "free"}

BlockUse ==
  /\ blk \in [Tasks -> Rbb!blk_set \cup {None}]
  /\ \A t \in Tasks : pc[t] \in Filling => blk[t] # None /\ status[blk[t]] = "INITED"
  /\ \A t \in Tasks : pc[t] \in Draining => blk[t] # None /\ status[blk[t]] = "GET"
  /\ \A t \in Tasks : blk[t] # None => pc[t] \in Filling \cup Draining
  /\ \A t, u \in Tasks : blk[t] # None /\ blk[t] = blk[u] => t = u
  /\ \A b \in Rbb!blk_set : status[b] \in {"INITED", "GET"} => \E t \in Tasks : blk[t] = b

BlocksInv == Control /\ Chain!ListInv /\ BlockUse

\* The steps as the blocks and the lines in them see them.

TakeFrame(t) ==
  /\ Step(t, "do_output", "fill")
  /\ \E n \in BlkSizes : \E at : Chain!AllocBlock(n, at)
  /\ blk' = [blk EXCEPT ![t] = Head(free_list)]
  /\ UNCHANGED <<arena, delivered, log_buf_th, calls>>

NoBlockTaken ==
  /\ \/ UNCHANGED rbb
     \/ \E n \in BlkSizes : Chain!AllocNoSpace(n)
  /\ UNCHANGED <<arena, blk>>
  /\ \A t \in Tasks : \/ pc'[t] = pc[t]
                      \/ pc[t] \notin Filling \cup Draining /\ pc'[t] \notin Filling \cup Draining

\* The six steps that touch the state of a block; all others leave every block alone.
LEMMA BlockSteps ==
  ASSUME Control, [Next]_vars
  PROVE  \/ \E t \in Loggers : TakeFrame(t) \/ FillFrame(t) \/ PutFrame(t)
         \/ \E t \in Drainers : GetBlock(t) \/ OutputBlock(t) \/ FreeBlock(t)
         \/ NoBlockTaken
<1>. DEFINE Goal == \/ \E t \in Loggers : TakeFrame(t) \/ FillFrame(t) \/ PutFrame(t)
                    \/ \E t \in Drainers : GetBlock(t) \/ OutputBlock(t) \/ FreeBlock(t)
                    \/ NoBlockTaken
<1>1. ASSUME UNCHANGED vars PROVE NoBlockTaken
  BY <1>1 DEF vars, NoBlockTaken
<1>2. ASSUME NEW t \in Tasks, NEW from \in Places, NEW to \in Places, Step(t, from, to),
             from \notin Filling \cup Draining, to \notin Filling \cup Draining,
             UNCHANGED <<rbb, arena, blk>>
      PROVE  NoBlockTaken
  BY <1>2 DEF NoBlockTaken, Step, Control
<1>3. ASSUME NEW t \in Loggers, LogStep(t) PROVE Goal
  <2>1. t \in Tasks
    BY Roles
  <2>2. ASSUME AllocFrame(t) PROVE Goal
    <3>1. PICK n \in BlkSizes :
            \/ /\ \E at \in Rbb!Room(n) : Rbb!AllocBlock(n, at)
               /\ blk' = [blk EXCEPT ![t] = Head(free_list)]
               /\ Step(t, "do_output", "fill")
            \/ /\ Rbb!AllocNoSpace(n) \/ Rbb!AllocNoDescriptor
               /\ Step(t, "do_output", "return")
               /\ UNCHANGED blk
      BY <2>2 DEF AllocFrame
    <3>2. UNCHANGED <<arena, delivered, log_buf_th, calls>>
      BY <2>2 DEF AllocFrame, voutput, out
    <3>3. CASE /\ \E at \in Rbb!Room(n) : Rbb!AllocBlock(n, at)
               /\ blk' = [blk EXCEPT ![t] = Head(free_list)]
               /\ Step(t, "do_output", "fill")
      <4>1. \E at : Chain!AllocBlock(n, at)
        BY <3>3, SameAlloc
      <4>. QED  BY <3>2, <3>3, <4>1 DEF TakeFrame
    <3>4. CASE /\ Rbb!AllocNoSpace(n) \/ Rbb!AllocNoDescriptor
               /\ Step(t, "do_output", "return")
               /\ UNCHANGED blk
      <4>1. Chain!AllocNoSpace(n) \/ UNCHANGED rbb
        BY <3>4, SameAlloc DEF Rbb!AllocNoDescriptor, Rbb!vars, rbb
      <4>2. \A u \in Tasks : \/ pc'[u] = pc[u]
                             \/ /\ pc[u] \notin Filling \cup Draining
                                /\ pc'[u] \notin Filling \cup Draining
        BY <3>4, <2>1 DEF Step, Filling, Draining, Control
      <4>. QED  BY <3>2, <3>4, <4>1, <4>2 DEF NoBlockTaken
    <3>. QED  BY <3>1, <3>3, <3>4
  <2>3. ASSUME \/ StartLog(t) \/ Lock(t) \/ CheckRecursion(t) \/ FormatLog(t)
               \/ GiveNotice(t) \/ OutputLogNow(t) \/ Return(t) \/ Unlock(t)
        PROVE  NoBlockTaken
    <3>1. UNCHANGED <<rbb, arena, blk>>
      BY <2>3 DEF StartLog, Lock, CheckRecursion, FormatLog, GiveNotice, OutputLogNow, Return,
           Unlock
    <3>2. \E from, to \in Places \ (Filling \cup Draining) : Step(t, from, to)
      BY <2>3 DEF StartLog, Lock, CheckRecursion, FormatLog, GiveNotice, OutputLogNow, Return,
           Unlock, Places, LogPlaces, Filling, Draining
    <3>. QED  BY <3>1, <3>2, <2>1, <1>2
  <2>. QED  BY <2>2, <2>3, <1>3 DEF LogStep
<1>4. ASSUME NEW t \in RawLoggers, RawStep(t) PROVE NoBlockTaken
  <2>1. t \in Tasks /\ t \notin Loggers
    BY Roles
  <2>2. UNCHANGED <<rbb, arena, blk>>
    BY <1>4 DEF RawStep, StartRaw, CreateRb, Lock, FormatRaw, PutRaw, LoseRaw, GiveNotice,
         OutputRawNow, Unlock
  <2>3. \E from, to \in Places \ (Filling \cup Draining) : Step(t, from, to)
    BY <1>4, <2>1 DEF RawStep, StartRaw, CreateRb, Lock, FormatRaw, PutRaw, LoseRaw, GiveNotice,
         OutputRawNow, Unlock, Places, RawPlaces, LogPlaces, Filling, Draining
  <2>. QED  BY <2>1, <2>2, <2>3, <1>2
<1>5. ASSUME NEW t \in Drainers, ulog_async_output(t) PROVE Goal
  <2>1. t \in Tasks
    BY Roles
  <2>2. ASSUME Enter(t) \/ NoBlock(t) \/ RawLen(t) \/ RawGet(t) \/ RawOutput(t) \/ Leave(t)
        PROVE  NoBlockTaken
    <3>1. UNCHANGED <<rbb, arena, blk>>
      BY <2>2 DEF Enter, NoBlock, RawLen, RawGet, RawOutput, Leave
    <3>2. \E from, to \in Places \ (Filling \cup Draining) : Step(t, from, to)
      BY <2>2 DEF Enter, NoBlock, RawLen, RawGet, RawOutput, Leave, Places, LogPlaces,
           DrainPlaces, WaitPlaces, Filling, Draining
    <3>. QED  BY <3>1, <3>2, <2>1, <1>2
  <2>. QED  BY <2>2, <1>5 DEF ulog_async_output
<1>6. ASSUME NEW t \in Flushers, StartFlush(t) PROVE NoBlockTaken
  <2>1. t \in Tasks /\ UNCHANGED <<rbb, arena, blk>> /\ Step(t, "idle", "enter")
    BY <1>6, Roles DEF StartFlush
  <2>. QED  BY <2>1, <1>2 DEF Places, LogPlaces, DrainPlaces, Filling, Draining
<1>7. ASSUME Woken \/ TimedOut PROVE NoBlockTaken
  <2>1. Async \in Tasks /\ UNCHANGED <<rbb, arena, blk>>
    BY <1>7, Roles DEF Woken, TimedOut
  <2>2. \E wait \in WaitPlaces : Step(Async, wait, "enter")
    BY <1>7 DEF Woken, TimedOut, WaitPlaces
  <2>. QED  BY <2>1, <2>2, <1>2 DEF Places, WaitPlaces, DrainPlaces, Filling, Draining
<1>8. ASSUME NEW enabled \in BOOLEAN, ulog_async_output_enabled(enabled) PROVE NoBlockTaken
  BY <1>8 DEF ulog_async_output_enabled, NoBlockTaken
<1>9. CASE Next
  BY <1>3, <1>4, <1>5, <1>6, <1>7, <1>8, <1>9, WhichStep, Zenon
<1>. QED  BY <1>1, <1>9

\* Every step is a step of the ring block buffer or leaves it alone.
LEMMA ChainStep ==
  ASSUME Control, BlockUse, [Next]_vars
  PROVE  [Chain!Next]_(Chain!vars)
<1>1. ASSUME NEW t \in Loggers, TakeFrame(t) PROVE Chain!Next
  BY <1>1, SameAlloc DEF TakeFrame, Chain!Next, Chain!rbb_blk_alloc, Chain!AllocBlock
<1>2. ASSUME NEW t \in Loggers, PutFrame(t) PROVE Chain!Next
  <2>1. Chain!rbb_blk_put(blk[t]) /\ pc[t] \in Filling
    BY <1>2, SameUse DEF PutFrame, Step, Filling
  <2>2. blk[t] \in Chain!blk_set
    BY <2>1, SameTypes, Roles DEF BlockUse
  <2>. QED  BY <2>1, <2>2 DEF Chain!Next
<1>3. ASSUME NEW t \in Drainers, GetBlock(t) PROVE Chain!Next
  BY <1>3, SameUse, SameTypes DEF GetBlock, Chain!Next
<1>4. ASSUME NEW t \in Drainers, FreeBlock(t) PROVE Chain!Next
  <2>1. Chain!rbb_blk_free(blk[t]) /\ pc[t] \in Draining
    BY <1>4, SameUse DEF FreeBlock, Step, Draining
  <2>2. blk[t] \in Chain!blk_set
    BY <2>1, SameTypes, Roles DEF BlockUse
  <2>. QED  BY <2>1, <2>2 DEF Chain!Next
<1>5. ASSUME UNCHANGED rbb PROVE UNCHANGED Chain!vars
  BY <1>5 DEF rbb, Chain!vars
<1>6. ASSUME NoBlockTaken PROVE [Chain!Next]_(Chain!vars)
  <2>1. ASSUME NEW n \in BlkSizes, Chain!AllocNoSpace(n) PROVE Chain!Next
    BY <2>1 DEF Chain!Next, Chain!rbb_blk_alloc
  <2>. QED  BY <2>1, <1>5, <1>6 DEF NoBlockTaken
<1>7. ASSUME NEW t, FillFrame(t) \/ OutputBlock(t) PROVE UNCHANGED Chain!vars
  BY <1>7, <1>5 DEF FillFrame, OutputBlock
<1>. QED  BY <1>1, <1>2, <1>3, <1>4, <1>6, <1>7, BlockSteps

\* A step that only moves tasks keeps the use of the blocks.
LEMMA MoveKeepsUse ==
  ASSUME BlockUse, UNCHANGED <<status, blk>>,
         \A t \in Tasks : /\ pc'[t] \in Filling <=> pc[t] \in Filling
                          /\ pc'[t] \in Draining <=> pc[t] \in Draining
  PROVE  BlockUse'
BY DEF BlockUse, Rbb!blk_set

\* The block taken by rbb_blk_alloc was nobody's.
LEMMA TakeKeepsUse ==
  ASSUME BlocksInv, NEW t \in Loggers, TakeFrame(t)
  PROVE  BlockUse'
<1>1. PICK n \in BlkSizes : \E at : Chain!AllocBlock(n, at)
  BY DEF TakeFrame
<1>2. PICK at : Chain!AllocBlock(n, at)
  BY <1>1
<1>3. PICK new \in Chain!blk_set :
        /\ status[new] = "UNUSED"
        /\ new = free_list[1]
        /\ status' = [status EXCEPT ![new] = "INITED"]
  BY <1>2, Chain!AllocStep, Assumed DEF BlocksInv
<1>4. new = Head(free_list)
  BY <1>3
<1>5. /\ t \in Tasks /\ pc[t] = "do_output" /\ pc'[t] = "fill"
      /\ \A u \in Tasks : u # t => pc'[u] = pc[u]
      /\ new \in Rbb!blk_set /\ new # None
      /\ blk' = [blk EXCEPT ![t] = new]
  BY <1>4, SameTypes, Roles, NoneAssumption DEF TakeFrame, Step, BlocksInv, Control, Rbb!blk_set
<1>6. status \in [Rbb!blk_set -> Chain!rbb_status]
  BY SameTypes DEF BlocksInv, Chain!ListInv, Chain!TypeOK
<1>7. \A u \in Tasks : blk[u] # new
  BY <1>3, <1>5 DEF BlocksInv, BlockUse, Filling, Draining
<1>8. blk[t] = None
  BY <1>5 DEF BlocksInv, BlockUse, Filling, Draining
<1>9. blk' \in [Tasks -> Rbb!blk_set \cup {None}] /\ blk'[t] = new
      /\ \A u \in Tasks : u # t => blk'[u] = blk[u]
  BY <1>5 DEF BlocksInv, BlockUse
<1>10. status'[new] = "INITED" /\ \A b \in Rbb!blk_set : b # new => status'[b] = status[b]
  BY <1>3, <1>5, <1>6
<1>11. ASSUME NEW u \in Tasks, pc'[u] \in Filling
       PROVE  blk'[u] # None /\ status'[blk'[u]] = "INITED"
  <2>1. CASE u = t
    BY <2>1, <1>5, <1>9, <1>10
  <2>2. CASE u # t
    BY <2>2, <1>5, <1>7, <1>9, <1>10, <1>11 DEF BlocksInv, BlockUse
  <2>. QED  BY <2>1, <2>2
<1>12. ASSUME NEW u \in Tasks, pc'[u] \in Draining
       PROVE  blk'[u] # None /\ status'[blk'[u]] = "GET"
  <2>1. u # t
    BY <1>5, <1>12 DEF Draining
  <2>. QED  BY <2>1, <1>5, <1>7, <1>9, <1>10, <1>12 DEF BlocksInv, BlockUse
<1>13. \A u \in Tasks : blk'[u] # None => pc'[u] \in Filling \cup Draining
  BY <1>5, <1>9 DEF BlocksInv, BlockUse, Filling
<1>14. \A u, v \in Tasks : blk'[u] # None /\ blk'[u] = blk'[v] => u = v
  BY <1>7, <1>9 DEF BlocksInv, BlockUse
<1>15. ASSUME NEW b \in Rbb!blk_set, status'[b] \in {"INITED", "GET"}
       PROVE  \E u \in Tasks : blk'[u] = b
  <2>1. CASE b = new
    BY <2>1, <1>5, <1>9
  <2>2. CASE b # new
    <3>1. PICK u \in Tasks : blk[u] = b
      BY <2>2, <1>10, <1>15 DEF BlocksInv, BlockUse
    <3>2. u # t
      BY <3>1, <1>8, NoneAssumption DEF Rbb!blk_set
    <3>. QED  BY <3>1, <3>2, <1>9
  <2>. QED  BY <2>1, <2>2
<1>. QED  BY <1>9, <1>11, <1>12, <1>13, <1>14, <1>15, SameTypes DEF BlockUse, Rbb!blk_set

\* A task that had block b gives it up.
LEMMA ReleaseKeepsUse ==
  ASSUME BlocksInv, NEW t \in Tasks, NEW b \in Rbb!blk_set, b = blk[t], NEW s,
         s \notin {"INITED", "GET"},
         status' = [status EXCEPT ![b] = s],
         blk' = [blk EXCEPT ![t] = None],
         pc'[t] \notin Filling \cup Draining,
         \A u \in Tasks : u # t => pc'[u] = pc[u]
  PROVE  BlockUse'
<1>1. status \in [Rbb!blk_set -> Chain!rbb_status]
  BY SameTypes DEF BlocksInv, Chain!ListInv, Chain!TypeOK
<1>2. /\ blk' \in [Tasks -> Rbb!blk_set \cup {None}] /\ blk'[t] = None
      /\ \A u \in Tasks : u # t => blk'[u] = blk[u]
  BY DEF BlocksInv, BlockUse
<1>3. status'[b] = s /\ \A c \in Rbb!blk_set : c # b => status'[c] = status[c]
  BY <1>1
<1>4. b # None /\ \A u \in Tasks : u # t => blk[u] # b
  BY NoneAssumption DEF BlocksInv, BlockUse, Rbb!blk_set
<1>5. \A u \in Tasks : pc'[u] \in Filling => blk'[u] # None /\ status'[blk'[u]] = "INITED"
  BY <1>2, <1>3, <1>4 DEF BlocksInv, BlockUse
<1>6. \A u \in Tasks : pc'[u] \in Draining => blk'[u] # None /\ status'[blk'[u]] = "GET"
  BY <1>2, <1>3, <1>4 DEF BlocksInv, BlockUse
<1>7. \A u \in Tasks : blk'[u] # None => pc'[u] \in Filling \cup Draining
  BY <1>2 DEF BlocksInv, BlockUse
<1>8. \A u, v \in Tasks : blk'[u] # None /\ blk'[u] = blk'[v] => u = v
  BY <1>2 DEF BlocksInv, BlockUse
<1>9. ASSUME NEW c \in Rbb!blk_set, status'[c] \in {"INITED", "GET"}
      PROVE  \E u \in Tasks : blk'[u] = c
  <2>1. c # b /\ status[c] \in {"INITED", "GET"}
    BY <1>3, <1>9
  <2>2. PICK u \in Tasks : blk[u] = c
    BY <2>1 DEF BlocksInv, BlockUse
  <2>. QED  BY <2>1, <2>2, <1>2
<1>. QED  BY <1>2, <1>5, <1>6, <1>7, <1>8, <1>9 DEF BlockUse, Rbb!blk_set

\* The block taken by rbb_blk_get was put by its task, which has let it go.
LEMMA GetKeepsUse ==
  ASSUME BlocksInv, NEW t \in Drainers, GetBlock(t)
  PROVE  BlockUse'
<1>1. PICK b \in Rbb!blk_set : Rbb!rbb_blk_get(b) /\ blk' = [blk EXCEPT ![t] = b]
  BY DEF GetBlock
<1>2. status \in [Rbb!blk_set -> Chain!rbb_status]
  BY SameTypes DEF BlocksInv, Chain!ListInv, Chain!TypeOK
<1>3. /\ t \in Tasks /\ pc[t] = "get" /\ pc'[t] = "output"
      /\ \A u \in Tasks : u # t => pc'[u] = pc[u]
  BY Roles DEF GetBlock, Step, BlocksInv, Control
<1>4. status[b] = "PUT" /\ status' = [status EXCEPT ![b] = "GET"]
  BY <1>1 DEF Rbb!rbb_blk_get, Rbb!IsFirstPut
<1>5. b # None /\ blk[t] = None /\ \A u \in Tasks : blk[u] # b
  BY <1>3, <1>4, NoneAssumption DEF BlocksInv, BlockUse, Filling, Draining, Rbb!blk_set
<1>6. /\ blk' \in [Tasks -> Rbb!blk_set \cup {None}] /\ blk'[t] = b
      /\ \A u \in Tasks : u # t => blk'[u] = blk[u]
  BY <1>1, <1>3 DEF BlocksInv, BlockUse
<1>7. status'[b] = "GET" /\ \A c \in Rbb!blk_set : c # b => status'[c] = status[c]
  BY <1>2, <1>4
<1>8. \A u \in Tasks : pc'[u] \in Filling => blk'[u] # None /\ status'[blk'[u]] = "INITED"
  BY <1>3, <1>5, <1>6, <1>7 DEF BlocksInv, BlockUse, Filling
<1>9. \A u \in Tasks : pc'[u] \in Draining => blk'[u] # None /\ status'[blk'[u]] = "GET"
  BY <1>3, <1>5, <1>6, <1>7 DEF BlocksInv, BlockUse, Draining
<1>10. \A u \in Tasks : blk'[u] # None => pc'[u] \in Filling \cup Draining
  BY <1>3, <1>6 DEF BlocksInv, BlockUse, Draining
<1>11. \A u, v \in Tasks : blk'[u] # None /\ blk'[u] = blk'[v] => u = v
  BY <1>5, <1>6 DEF BlocksInv, BlockUse
<1>12. ASSUME NEW c \in Rbb!blk_set, status'[c] \in {"INITED", "GET"}
       PROVE  \E u \in Tasks : blk'[u] = c
  <2>1. CASE c = b
    BY <2>1, <1>3, <1>6
  <2>2. CASE c # b
    <3>1. PICK u \in Tasks : blk[u] = c
      BY <2>2, <1>7, <1>12 DEF BlocksInv, BlockUse
    <3>2. u # t
      BY <3>1, <1>5, NoneAssumption DEF Rbb!blk_set
    <3>. QED  BY <3>1, <3>2, <1>6
  <2>. QED  BY <2>1, <2>2
<1>. QED  BY <1>6, <1>8, <1>9, <1>10, <1>11, <1>12 DEF BlockUse, Rbb!blk_set

\* The second layer is inductive: blocks in use have one user each, and the chains of
\* the block buffer are consistent.
LEMMA NextBlocks == BlocksInv /\ [Next]_vars => BlocksInv'
<1>. SUFFICES ASSUME BlocksInv, [Next]_vars PROVE BlocksInv'
  OBVIOUS
<1>1. Control'
  BY NextControl DEF BlocksInv
<1>2. Chain!ListInv'
  BY ChainStep, Chain!NextListInv, Assumed DEF BlocksInv
<1>3. ASSUME NEW t \in Loggers, FillFrame(t) PROVE BlockUse'
  <2>1. UNCHANGED <<status, blk>>
    BY <1>3 DEF FillFrame, rbb
  <2>2. \A u \in Tasks : /\ pc'[u] \in Filling <=> pc[u] \in Filling
                         /\ pc'[u] \in Draining <=> pc[u] \in Draining
    BY <1>3, Roles DEF FillFrame, Step, BlocksInv, Control, Filling, Draining
  <2>. QED  BY <2>1, <2>2, MoveKeepsUse DEF BlocksInv
<1>4. ASSUME NEW t \in Drainers, OutputBlock(t) PROVE BlockUse'
  <2>1. UNCHANGED <<status, blk>>
    BY <1>4 DEF OutputBlock, rbb
  <2>2. \A u \in Tasks : /\ pc'[u] \in Filling <=> pc[u] \in Filling
                         /\ pc'[u] \in Draining <=> pc[u] \in Draining
    BY <1>4, Roles DEF OutputBlock, Step, BlocksInv, Control, Filling, Draining
  <2>. QED  BY <2>1, <2>2, MoveKeepsUse DEF BlocksInv
<1>5. ASSUME NEW t \in Loggers, PutFrame(t) PROVE BlockUse'
  <2>1. /\ t \in Tasks /\ pc[t] = "put" /\ pc'[t] = "give"
        /\ \A u \in Tasks : u # t => pc'[u] = pc[u]
    BY <1>5, Roles DEF PutFrame, Step, BlocksInv, Control
  <2>2. PICK b \in Rbb!blk_set : b = blk[t]
    BY <2>1 DEF BlocksInv, BlockUse, Filling
  <2>3. /\ status' = [status EXCEPT ![b] = "PUT"]
        /\ blk' = [blk EXCEPT ![t] = None]
    BY <2>2, <1>5 DEF PutFrame, Rbb!rbb_blk_put
  <2>4. pc'[t] \notin Filling \cup Draining /\ "PUT" \notin {"INITED", "GET"}
    BY <2>1 DEF Filling, Draining
  <2>. QED  BY <2>1, <2>2, <2>3, <2>4, ReleaseKeepsUse
<1>6. ASSUME NEW t \in Drainers, FreeBlock(t) PROVE BlockUse'
  <2>1. /\ t \in Tasks /\ pc[t] = "free" /\ pc'[t] = "get"
        /\ \A u \in Tasks : u # t => pc'[u] = pc[u]
    BY <1>6, Roles DEF FreeBlock, Step, BlocksInv, Control
  <2>2. PICK b \in Rbb!blk_set : b = blk[t]
    BY <2>1 DEF BlocksInv, BlockUse, Draining
  <2>3. /\ status' = [status EXCEPT ![b] = "UNUSED"]
        /\ blk' = [blk EXCEPT ![t] = None]
    BY <2>2, <1>6 DEF FreeBlock, Rbb!rbb_blk_free
  <2>4. pc'[t] \notin Filling \cup Draining /\ "UNUSED" \notin {"INITED", "GET"}
    BY <2>1 DEF Filling, Draining
  <2>. QED  BY <2>1, <2>2, <2>3, <2>4, ReleaseKeepsUse
<1>7. ASSUME NoBlockTaken PROVE BlockUse'
  <2>1. UNCHANGED <<status, blk>>
    BY <1>7 DEF NoBlockTaken, rbb, Chain!AllocNoSpace
  <2>2. \A u \in Tasks : /\ pc'[u] \in Filling <=> pc[u] \in Filling
                         /\ pc'[u] \in Draining <=> pc[u] \in Draining
    BY <1>7 DEF NoBlockTaken
  <2>. QED  BY <2>1, <2>2, MoveKeepsUse DEF BlocksInv
<1>8. BlockUse'
  BY <1>3, <1>4, <1>5, <1>6, <1>7, BlockSteps, TakeKeepsUse, GetKeepsUse DEF BlocksInv
<1>. QED  BY <1>1, <1>2, <1>8 DEF BlocksInv

\* No block is in use at the beginning.
LEMMA InitBlocks == Init => BlocksInv
<1>. SUFFICES ASSUME Init PROVE BlocksInv
  OBVIOUS
<1>1. Control
  BY InitCalls DEF CallsInv
<1>2. Chain!Init
  BY SameInit DEF Init
<1>3. Chain!ListInv
  BY <1>2, Chain!InitListInv, Assumed
<1>4. BlockUse
  <2>1. /\ blk = [t \in Tasks |-> None]
        /\ pc = [t \in Tasks |-> IF t = Async THEN "enter" ELSE "idle"]
        /\ status = [b \in Rbb!blk_set |-> "UNUSED"]
    BY DEF Init, Rbb!rbb_init
  <2>. QED  BY <2>1 DEF BlockUse, Filling, Draining
<1>. QED  BY <1>1, <1>3, <1>4 DEF BlocksInv

\* Of do_output and ulog_async_output: every block that is INITED or GET is at work
\* in one task, and the chains of the block buffer are as RingBlk needs them.
THEOREM BlocksInvariant == Spec => []BlocksInv
BY InitBlocks, NextBlocks, PTL DEF Spec

\* Every block has one user at a time, whatever the number of tasks that log
\* and that drain: none is drained twice, freed under its user or forgotten.
THEOREM BlocksAreOwned == Spec => []BlockOwnership
<1>1. BlocksInv => BlockOwnership
  <2>. SUFFICES ASSUME BlocksInv, NEW b \in Rbb!blk_set
                PROVE  LET users == {t \in Tasks : blk[t] = b}
                       IN /\ status[b] = "INITED" =>
                               \E t \in Loggers : users = {t} /\ pc[t] \in {"fill", "put"}
                          /\ status[b] = "GET" =>
                               \E t \in Tasks \ Callers : users = {t} /\ pc[t] \in {"output", "free"}
                          /\ status[b] \in {"PUT", "UNUSED"} => users = {}
    BY Zenon DEF BlockOwnership
  <2>. DEFINE users == {t \in Tasks : blk[t] = b}
  <2>1. b # None
    BY NoneAssumption DEF Rbb!blk_set
  <2>2. ASSUME NEW t \in users PROVE users = {t} /\ t \in Tasks /\ pc[t] \in Filling \cup Draining
    BY <2>1, <2>2 DEF BlocksInv, BlockUse
  <2>3. ASSUME status[b] = "INITED"
        PROVE  \E t \in Loggers : users = {t} /\ pc[t] \in {"fill", "put"}
    <3>1. PICK t \in users : TRUE
      BY <2>3 DEF BlocksInv, BlockUse
    <3>2. t \in Tasks /\ pc[t] \in Filling
      BY <3>1, <2>2, <2>3 DEF BlocksInv, BlockUse
    <3>3. t \in Loggers
      BY <3>2, Roles DEF BlocksInv, Control, Filling, RawPlaces, DrainPlaces, WaitPlaces, Drainers
    <3>. QED  BY <3>1, <3>2, <3>3, <2>2 DEF Filling
  <2>4. ASSUME status[b] = "GET"
        PROVE  \E t \in Tasks \ Callers : users = {t} /\ pc[t] \in {"output", "free"}
    <3>1. PICK t \in users : TRUE
      BY <2>4 DEF BlocksInv, BlockUse
    <3>2. t \in Tasks /\ pc[t] \in Draining
      BY <3>1, <2>2, <2>4 DEF BlocksInv, BlockUse
    <3>3. t \notin Callers
      BY <3>2, Roles DEF Callers, BlocksInv, Control, Draining, RawPlaces, LogPlaces
    <3>. QED  BY <3>1, <3>2, <3>3, <2>2 DEF Draining
  <2>5. ASSUME status[b] \in {"PUT", "UNUSED"} PROVE users = {}
    BY <2>1, <2>5 DEF BlocksInv, BlockUse
  <2>. QED  BY <2>3, <2>4, <2>5
<1>. QED  BY <1>1, BlocksInvariant, PTL

\* The ring block buffer in use by the asynchronous output is the one of
\* RingBlk: what is proved of that holds here.
THEOREM UsesRingBlk == Spec => Chain!Spec
<1>1. BlocksInv /\ [Next]_vars => [Chain!Next]_(Chain!vars)
  BY ChainStep DEF BlocksInv
<1>2. Init => Chain!Init
  BY SameInit DEF Init
<1>. QED  BY <1>1, <1>2, BlocksInvariant, PTL DEF Spec, Chain!Spec

-----------------------------------------------------------------------------
\* The lines: in the blocks and given to the backends.

\* The frame in block b is complete and its line not yet given to the backends.
Written(b) == status[b] = "PUT" \/ \E t \in Tasks : blk[t] = b /\ pc[t] \in {"put", "output"}

LineIn(b) == arena[buf[b]]

\* A task here has begun a call whose line is nowhere yet.
Before == {"lock", "check", "format", "do_output", "fill"}

Used(m) ==
  \/ \E b \in Rbb!blk_set : Written(b) /\ LineIn(b) = m
  \/ \E i \in 1 .. Len(delivered) : delivered[i] = m

FramesWhole ==
  \A b \in Rbb!blk_set : Written(b) =>
     LineIn(b) \in Lines /\ \A o \in Units(b) : arena[o] = LineIn(b)

FramesDiffer ==
  \A b, c \in Rbb!blk_set : Written(b) /\ Written(c) /\ LineIn(b) = LineIn(c) => b = c

FramesNew ==
  \A b \in Rbb!blk_set : Written(b) => \A i \in 1 .. Len(delivered) : delivered[i] # LineIn(b)

OutputsDiffer ==
  /\ delivered \in Seq(Lines)
  /\ \A i, j \in 1 .. Len(delivered) : delivered[i] = delivered[j] => i = j

CallsAhead ==
  \A t \in Loggers : \A k \in Nat : Used(<<t, k>>) =>
     k <= calls[t] /\ (pc[t] \in Before => k # calls[t])

ArenaTyped == arena \in [0 .. (BufSize - 1) -> Lines \cup {None}]

LinesInv ==
  /\ ArenaTyped /\ FramesWhole /\ FramesDiffer /\ FramesNew /\ OutputsDiffer /\ CallsAhead

DeliveryInv == CallsInv /\ BlocksInv /\ Chain!ArenaInv /\ LinesInv

\* Two blocks in use lie apart in the arena.
LEMMA BlocksApart ==
  ASSUME Chain!ArenaInv, NEW b \in Rbb!blk_set, status[b] # "UNUSED"
  PROVE  /\ buf[b] \in Units(b) /\ Units(b) \subseteq 0 .. (BufSize - 1)
         /\ \A c \in Rbb!blk_set : c # b /\ status[c] # "UNUSED" => Units(b) \cap Units(c) = {}
<1>1. Chain!TypeOK /\ Chain!Positions /\ Chain!Layout
  BY Chain!ListsByPosition, Assumed DEF Chain!ArenaInv, Chain!ListInv
<1>2. \A c \in Rbb!blk_set : buf[c] \in Nat /\ size[c] \in Nat
  BY <1>1, SameTypes DEF Chain!TypeOK
<1>3. PICK i \in 1 .. Len(blk_list) : blk_list[i] = b
  BY <1>1, SameTypes DEF Chain!Positions
<1>4. size[b] > 0 /\ buf[b] + size[b] <= BufSize
  BY <1>1, <1>3 DEF Chain!Layout, Chain!SizesPositive, Chain!BlocksInArena, Chain!End
<1>5. ASSUME NEW c \in Rbb!blk_set, c # b, status[c] # "UNUSED"
      PROVE  Units(b) \cap Units(c) = {}
  <2>1. PICK j \in 1 .. Len(blk_list) : blk_list[j] = c
    BY <1>1, <1>5, SameTypes DEF Chain!Positions
  <2>2. buf[b] + size[b] <= buf[c] \/ buf[c] + size[c] <= buf[b]
    BY <1>1, <1>3, <1>5, <2>1 DEF Chain!Layout, Chain!BlocksDisjoint, Chain!End
  <2>. QED  BY <2>2, <1>2 DEF Units, Rbb!End
<1>. QED  BY <1>2, <1>4, <1>5, ArenaAssumption DEF Units, Rbb!End

\* A block with a complete frame is in use.
LEMMA WrittenInUse ==
  ASSUME BlockUse, NEW b \in Rbb!blk_set, Written(b)
  PROVE  status[b] # "UNUSED"
<1>1. CASE status[b] = "PUT"
  BY <1>1
<1>2. ASSUME NEW t \in Tasks, blk[t] = b, pc[t] \in {"put", "output"} PROVE status[b] # "UNUSED"
  BY <1>2 DEF BlockUse, Filling, Draining
<1>. QED  BY <1>1, <1>2 DEF Written

\* How a step moves the calls of the logging tasks on: a task before its
\* output was so already with the same call, or begins the next one.
CallsMoveOn ==
  \A t \in Loggers :
     /\ calls[t] \in Nat /\ calls'[t] \in Nat /\ calls[t] <= calls'[t]
     /\ pc'[t] \in Before => calls'[t] = calls[t] + 1 \/ (calls'[t] = calls[t] /\ pc[t] \in Before)

\* A call keeps its number until it returns, and the next call has a new one.
LEMMA StepsMoveCallsOn == CallsInv /\ [Next]_vars => CallsMoveOn
<1>. SUFFICES ASSUME CallsInv, [Next]_vars, NEW t \in Loggers
              PROVE  /\ calls[t] \in Nat /\ calls'[t] \in Nat /\ calls[t] <= calls'[t]
                     /\ pc'[t] \in Before =>
                          \/ calls'[t] = calls[t] + 1
                          \/ calls'[t] = calls[t] /\ pc[t] \in Before
  BY DEF CallsMoveOn
<1>. DEFINE Goal == \/ calls'[t] = calls[t] + 1
                    \/ calls'[t] = calls[t] /\ (pc'[t] \in Before => pc[t] \in Before)
<1>1. t \in Tasks /\ calls[t] \in Nat
  BY Roles DEF CallsInv, CallsCounted
<1>2. ASSUME UNCHANGED <<pc, calls>> PROVE Goal
  BY <1>2
<1>3. ASSUME NEW u \in Tasks, u # t, NEW from, NEW to, Step(u, from, to),
             calls' = calls \/ Call(u)
      PROVE  Goal
  <2>1. pc'[t] = pc[t]
    BY <1>1, <1>3 DEF Step, CallsInv, Control
  <2>2. calls'[t] = calls[t]
    BY <1>1, <1>3 DEF Call, CallsInv, CallsCounted
  <2>. QED  BY <2>1, <2>2
<1>4. ASSUME NEW u \in Loggers, LogStep(u) PROVE Goal
  <2>1. u \in Tasks
    BY Roles
  <2>2. calls' = calls \/ Call(u)
    BY <1>4 DEF LogStep, StartLog, Lock, CheckRecursion, FormatLog, AllocFrame, FillFrame,
         PutFrame, GiveNotice, OutputLogNow, Return, Unlock
  <2>3. \E from, to : Step(u, from, to)
    BY <1>4 DEF LogStep, StartLog, Lock, CheckRecursion, FormatLog, AllocFrame, FillFrame,
         PutFrame, GiveNotice, OutputLogNow, Return, Unlock
  <2>4. CASE u # t
    BY <2>1, <2>2, <2>3, <2>4, <1>3
  <2>5. CASE u = t /\ StartLog(t)
    BY <2>5, <1>1 DEF StartLog, Call, CallsInv, CallsCounted
  <2>6. CASE u = t /\ ~ StartLog(t)
    <3>1. calls' = calls
      BY <2>6, <1>4 DEF LogStep, Lock, CheckRecursion, FormatLog, AllocFrame, FillFrame,
           PutFrame, GiveNotice, OutputLogNow, Return, Unlock
    <3>2. pc'[t] \in Before => pc[t] \in Before
      BY <2>6, <1>1, <1>4 DEF LogStep, Lock, CheckRecursion, FormatLog, AllocFrame, FillFrame,
           PutFrame, GiveNotice, OutputLogNow, Return, Unlock, Step, Before, CallsInv, Control
    <3>. QED  BY <3>1, <3>2
  <2>. QED  BY <2>4, <2>5, <2>6
<1>5. ASSUME NEW u \in RawLoggers, RawStep(u) PROVE Goal
  <2>1. u \in Tasks /\ u # t
    BY Roles
  <2>2. calls' = calls \/ Call(u)
    BY <1>5 DEF RawStep, StartRaw, CreateRb, Lock, FormatRaw, PutRaw, LoseRaw, GiveNotice,
         OutputRawNow, Unlock
  <2>3. \E from, to : Step(u, from, to)
    BY <1>5 DEF RawStep, StartRaw, CreateRb, Lock, FormatRaw, PutRaw, LoseRaw, GiveNotice,
         OutputRawNow, Unlock
  <2>. QED  BY <2>1, <2>2, <2>3, <1>3
<1>6. ASSUME NEW u \in Drainers, ulog_async_output(u) PROVE Goal
  <2>1. u \in Tasks /\ u # t
    BY Roles
  <2>2. calls' = calls /\ \E from, to : Step(u, from, to)
    BY <1>6 DEF ulog_async_output, Enter, GetBlock, OutputBlock, FreeBlock, NoBlock, RawLen,
         RawGet, RawOutput, Leave
  <2>. QED  BY <2>1, <2>2, <1>3
<1>7. ASSUME NEW u \in Flushers, StartFlush(u) PROVE Goal
  <2>1. u \in Tasks /\ u # t
    BY Roles
  <2>2. Call(u) /\ Step(u, "idle", "enter")
    BY <1>7 DEF StartFlush
  <2>. QED  BY <2>1, <2>2, <1>3
<1>8. ASSUME Woken \/ TimedOut PROVE Goal
  <2>1. Async \in Tasks /\ Async # t
    BY Roles
  <2>2. calls' = calls /\ \E from, to : Step(Async, from, to)
    BY <1>8 DEF Woken, TimedOut
  <2>. QED  BY <2>1, <2>2, <1>3
<1>9. ASSUME NEW enabled \in BOOLEAN, ulog_async_output_enabled(enabled) PROVE Goal
  BY <1>9, <1>2 DEF ulog_async_output_enabled
<1>10. ASSUME UNCHANGED vars PROVE Goal
  BY <1>10, <1>2 DEF vars
<1>11. Goal
  BY <1>4, <1>5, <1>6, <1>7, <1>8, <1>9, <1>10, WhichStep, Zenon DEF CallsInv
<1>. QED  BY <1>1, <1>11

\* A step that completes no frame and outputs nothing keeps the lines.
LEMMA LinesStay ==
  ASSUME LinesInv, CallsMoveOn, UNCHANGED <<arena, delivered>>,
         \A b \in Rbb!blk_set : Written(b)' =>
            Written(b) /\ buf'[b] = buf[b] /\ size'[b] = size[b]
  PROVE  LinesInv'
<1>1. ASSUME NEW b \in Rbb!blk_set, Written(b)'
      PROVE  Written(b) /\ LineIn(b)' = LineIn(b) /\ Units(b)' = Units(b)
  BY <1>1 DEF LineIn, Units, Rbb!End
<1>2. ArenaTyped'
  BY DEF LinesInv, ArenaTyped
<1>3. FramesWhole'
  BY <1>1 DEF LinesInv, FramesWhole, Rbb!blk_set
<1>4. FramesDiffer'
  BY <1>1 DEF LinesInv, FramesDiffer, Rbb!blk_set
<1>5. FramesNew'
  BY <1>1 DEF LinesInv, FramesNew, Rbb!blk_set
<1>6. OutputsDiffer'
  BY DEF LinesInv, OutputsDiffer
<1>7. CallsAhead'
  <2>1. ASSUME NEW m, Used(m)' PROVE Used(m)
    BY <1>1, <2>1 DEF Used, Rbb!blk_set
  <2>2. ASSUME NEW t \in Loggers, NEW k \in Nat, Used(<<t, k>>)'
        PROVE  k <= calls'[t] /\ (pc'[t] \in Before => k # calls'[t])
    <3>1. k <= calls[t] /\ (pc[t] \in Before => k # calls[t])
      BY <2>1, <2>2 DEF LinesInv, CallsAhead
    <3>2. /\ calls[t] \in Nat /\ calls'[t] \in Nat /\ calls[t] <= calls'[t]
          /\ pc'[t] \in Before => \/ calls'[t] = calls[t] + 1
                                  \/ calls'[t] = calls[t] /\ pc[t] \in Before
      BY DEF CallsMoveOn
    <3>. QED  BY <3>1, <3>2
  <2>. QED  BY <2>2 DEF CallsAhead
<1>. QED  BY <1>2, <1>3, <1>4, <1>5, <1>6, <1>7 DEF LinesInv

\* The line of a logging task before its output is used nowhere.
LEMMA LineIsNew ==
  ASSUME LinesInv, CallsCounted, NEW t \in Loggers, pc[t] \in Before
  PROVE  ~ Used(Line(t))
<1>1. calls[t] \in Nat
  BY Roles DEF CallsCounted
<1>. QED  BY <1>1 DEF LinesInv, CallsAhead, Line

\* A new line goes to the backends.
LEMMA OutputKeepsLines ==
  ASSUME LinesInv, CallsMoveOn, UNCHANGED <<arena, buf, size>>, NEW m \in Lines,
         delivered' = Append(delivered, m),
         \A i \in 1 .. Len(delivered) : delivered[i] # m,
         \A b \in Rbb!blk_set : Written(b)' => Written(b) /\ LineIn(b) # m,
         \A t \in Loggers : \A k \in Nat : m = <<t, k>> =>
            k <= calls[t] /\ (pc'[t] \in Before => k # calls'[t])
  PROVE  LinesInv'
<1>1. ASSUME NEW b \in Rbb!blk_set, Written(b)'
      PROVE  Written(b) /\ LineIn(b)' = LineIn(b) /\ Units(b)' = Units(b)
  BY <1>1 DEF LineIn, Units, Rbb!End
<1>2. /\ delivered' \in Seq(Lines) /\ Len(delivered) \in Nat
      /\ Len(delivered') = Len(delivered) + 1
      /\ \A i \in 1 .. Len(delivered) : delivered'[i] = delivered[i]
      /\ delivered'[Len(delivered) + 1] = m
  BY AppendProperties, LenProperties DEF LinesInv, OutputsDiffer
<1>3. ArenaTyped'
  BY DEF LinesInv, ArenaTyped
<1>4. FramesWhole'
  BY <1>1 DEF LinesInv, FramesWhole, Rbb!blk_set
<1>5. FramesDiffer'
  BY <1>1 DEF LinesInv, FramesDiffer, Rbb!blk_set
<1>6. FramesNew'
  <2>1. ASSUME NEW b \in Rbb!blk_set, Written(b)', NEW i \in 1 .. Len(delivered')
        PROVE  delivered'[i] # LineIn(b)'
    <3>1. CASE i \in 1 .. Len(delivered)
      BY <1>1, <1>2, <2>1, <3>1 DEF LinesInv, FramesNew
    <3>2. CASE i = Len(delivered) + 1
      BY <1>1, <1>2, <2>1, <3>2
    <3>. QED  BY <1>2, <3>1, <3>2
  <2>. QED  BY <2>1 DEF FramesNew, Rbb!blk_set
<1>7. OutputsDiffer'
  <2>1. ASSUME NEW i \in 1 .. Len(delivered'), NEW j \in 1 .. Len(delivered'),
               delivered'[i] = delivered'[j]
        PROVE  i = j
    <3>1. CASE i \in 1 .. Len(delivered) /\ j \in 1 .. Len(delivered)
      BY <1>2, <2>1, <3>1 DEF LinesInv, OutputsDiffer
    <3>2. CASE i = Len(delivered) + 1 /\ j \in 1 .. Len(delivered)
      BY <1>2, <2>1, <3>2
    <3>3. CASE i \in 1 .. Len(delivered) /\ j = Len(delivered) + 1
      BY <1>2, <2>1, <3>3
    <3>. QED  BY <1>2, <3>1, <3>2, <3>3
  <2>. QED  BY <1>2, <2>1 DEF OutputsDiffer
<1>8. CallsAhead'
  <2>1. ASSUME NEW t \in Loggers, NEW k \in Nat, Used(<<t, k>>)'
        PROVE  k <= calls'[t] /\ (pc'[t] \in Before => k # calls'[t])
    <3>1. Used(<<t, k>>) \/ m = <<t, k>>
      <4>1. CASE \E b \in Rbb!blk_set : Written(b)' /\ LineIn(b)' = <<t, k>>
        BY <1>1, <4>1 DEF Used
      <4>2. CASE \E i \in 1 .. Len(delivered') : delivered'[i] = <<t, k>>
        <5>1. PICK i \in 1 .. Len(delivered') : delivered'[i] = <<t, k>>
          BY <4>2
        <5>2. CASE i \in 1 .. Len(delivered)
          BY <5>1, <5>2, <1>2 DEF Used
        <5>3. CASE i = Len(delivered) + 1
          BY <5>1, <5>3, <1>2
        <5>. QED  BY <5>2, <5>3, <1>2
      <4>. QED  BY <2>1, <4>1, <4>2 DEF Used, Rbb!blk_set
    <3>2. /\ calls[t] \in Nat /\ calls'[t] \in Nat /\ calls[t] <= calls'[t]
          /\ pc'[t] \in Before => \/ calls'[t] = calls[t] + 1
                                  \/ calls'[t] = calls[t] /\ pc[t] \in Before
      BY DEF CallsMoveOn
    <3>3. CASE Used(<<t, k>>)
      <4>1. k <= calls[t] /\ (pc[t] \in Before => k # calls[t])
        BY <3>3 DEF LinesInv, CallsAhead
      <4>. QED  BY <3>2, <4>1
    <3>4. CASE m = <<t, k>>
      BY <3>2, <3>4
    <3>. QED  BY <3>1, <3>3, <3>4
  <2>. QED  BY <2>1 DEF CallsAhead
<1>. QED  BY <1>3, <1>4, <1>5, <1>6, <1>7, <1>8 DEF LinesInv

\* A frame is packed: no other frame is touched, and its line is a new one.
LEMMA FillKeepsLines ==
  ASSUME DeliveryInv, CallsMoveOn, NEW t \in Loggers, FillFrame(t)
  PROVE  LinesInv'
<1>1. /\ t \in Tasks /\ t \in Callers /\ pc[t] = "fill" /\ pc'[t] = "put"
      /\ \A u \in Tasks : u # t => pc'[u] = pc[u]
      /\ UNCHANGED <<status, buf, size, blk, delivered, calls>>
  BY Roles DEF FillFrame, Step, rbb, out, DeliveryInv, CallsInv, Control
<1>2. PICK b0 \in Rbb!blk_set : b0 = blk[t] /\ status[b0] = "INITED"
  BY <1>1 DEF DeliveryInv, BlocksInv, BlockUse, Filling
<1>3. PICK m \in Lines : m = Line(t) /\ m = log_buf_th
  BY <1>1, LineIsLine DEF DeliveryInv, CallsInv, LineHeld, LineBufferOwned
<1>4. ~ Used(m)
  BY <1>1, <1>3, LineIsNew DEF DeliveryInv, CallsInv, Before
<1>5. arena' = [o \in 0 .. (BufSize - 1) |-> IF o \in Units(b0) THEN m ELSE arena[o]]
  BY <1>2, <1>3 DEF FillFrame, DeliveryInv, LinesInv, ArenaTyped
<1>6. buf[b0] \in Units(b0) /\ Units(b0) \subseteq 0 .. (BufSize - 1)
  BY <1>2, BlocksApart DEF DeliveryInv
<1>7. ~ Written(b0)
  <2>1. \A u \in Tasks : blk[u] = b0 => u = t
    BY <1>1, <1>2, NoneAssumption DEF DeliveryInv, BlocksInv, BlockUse, Rbb!blk_set
  <2>. QED  BY <1>1, <1>2, <2>1 DEF Written
<1>8. ASSUME NEW b \in Rbb!blk_set PROVE Units(b)' = Units(b)
  BY <1>1 DEF Units, Rbb!End
<1>9. ASSUME NEW b \in Rbb!blk_set, b # b0, Written(b)'
      PROVE  Written(b)
  BY <1>1, <1>2, <1>9 DEF Written
<1>10. ASSUME NEW b \in Rbb!blk_set, b # b0, Written(b)
       PROVE  LineIn(b)' = LineIn(b) /\ \A o \in Units(b) : arena'[o] = arena[o]
  <2>1. status[b] # "UNUSED"
    BY <1>10, WrittenInUse DEF DeliveryInv, BlocksInv
  <2>2. buf[b] \in Units(b) /\ Units(b) \subseteq 0 .. (BufSize - 1) /\ Units(b) \cap Units(b0) = {}
    BY <1>2, <1>10, <2>1, BlocksApart DEF DeliveryInv
  <2>. QED  BY <1>1, <1>5, <2>2 DEF LineIn
<1>11. LineIn(b0)' = m /\ \A o \in Units(b0) : arena'[o] = m
  BY <1>1, <1>5, <1>6 DEF LineIn
<1>12. ArenaTyped'
  BY <1>5 DEF DeliveryInv, LinesInv, ArenaTyped
<1>13. FramesWhole'
  <2>1. ASSUME NEW b \in Rbb!blk_set, Written(b)'
        PROVE  LineIn(b)' \in Lines /\ \A o \in Units(b)' : arena'[o] = LineIn(b)'
    <3>1. CASE b = b0
      BY <3>1, <1>8, <1>11
    <3>2. CASE b # b0
      <4>1. Written(b)
        BY <2>1, <3>2, <1>9
      <4>2. LineIn(b) \in Lines /\ \A o \in Units(b) : arena[o] = LineIn(b)
        BY <4>1 DEF DeliveryInv, LinesInv, FramesWhole
      <4>. QED  BY <3>2, <4>1, <4>2, <1>8, <1>10
    <3>. QED  BY <3>1, <3>2
  <2>. QED  BY <2>1 DEF FramesWhole, Rbb!blk_set
<1>14. \A b \in Rbb!blk_set : b # b0 /\ Written(b)' => LineIn(b)' = LineIn(b) /\ LineIn(b) # m
  BY <1>4, <1>9, <1>10 DEF Used
<1>15. FramesDiffer'
  <2>1. ASSUME NEW b \in Rbb!blk_set, NEW c \in Rbb!blk_set, Written(b)', Written(c)',
               LineIn(b)' = LineIn(c)'
        PROVE  b = c
    <3>1. CASE b # b0 /\ c # b0
      <4>1. Written(b) /\ Written(c) /\ LineIn(b) = LineIn(c)
        BY <2>1, <3>1, <1>9, <1>10
      <4>. QED  BY <4>1 DEF DeliveryInv, LinesInv, FramesDiffer
    <3>2. CASE b = b0 \/ c = b0
      BY <2>1, <3>2, <1>11, <1>14
    <3>. QED  BY <3>1, <3>2
  <2>. QED  BY <2>1 DEF FramesDiffer, Rbb!blk_set
<1>16. FramesNew'
  <2>1. ASSUME NEW b \in Rbb!blk_set, Written(b)', NEW i \in 1 .. Len(delivered)
        PROVE  delivered[i] # LineIn(b)'
    <3>1. CASE b = b0
      BY <3>1, <1>4, <1>11 DEF Used
    <3>2. CASE b # b0
      <4>1. Written(b) /\ LineIn(b)' = LineIn(b)
        BY <2>1, <3>2, <1>9, <1>10
      <4>. QED  BY <4>1 DEF DeliveryInv, LinesInv, FramesNew
    <3>. QED  BY <3>1, <3>2
  <2>. QED  BY <2>1, <1>1 DEF FramesNew, Rbb!blk_set
<1>17. OutputsDiffer'
  BY <1>1 DEF DeliveryInv, LinesInv, OutputsDiffer
<1>18. CallsAhead'
  <2>1. ASSUME NEW u \in Loggers, NEW k \in Nat, Used(<<u, k>>)'
        PROVE  k <= calls'[u] /\ (pc'[u] \in Before => k # calls'[u])
    <3>1. Used(<<u, k>>) \/ <<u, k>> = m
      <4>1. CASE \E b \in Rbb!blk_set : Written(b)' /\ LineIn(b)' = <<u, k>>
        <5>1. PICK b \in Rbb!blk_set : Written(b)' /\ LineIn(b)' = <<u, k>>
          BY <4>1
        <5>2. CASE b = b0
          BY <5>1, <5>2, <1>11
        <5>3. CASE b # b0
          BY <5>1, <5>3, <1>9, <1>10 DEF Used
        <5>. QED  BY <5>2, <5>3
      <4>2. CASE \E i \in 1 .. Len(delivered) : delivered[i] = <<u, k>>
        BY <4>2 DEF Used
      <4>. QED  BY <2>1, <4>1, <4>2, <1>1 DEF Used, Rbb!blk_set
    <3>2. u \in Tasks /\ calls[u] \in Nat /\ calls'[u] = calls[u]
      BY <1>1, Roles DEF DeliveryInv, CallsInv, CallsCounted
    <3>3. pc'[u] \in Before => pc[u] \in Before
      BY <1>1, <3>2 DEF Before
    <3>4. CASE Used(<<u, k>>)
      BY <3>2, <3>3, <3>4 DEF DeliveryInv, LinesInv, CallsAhead
    <3>5. CASE <<u, k>> = m
      <4>1. u = t /\ k = calls[t]
        BY <3>5, <1>3 DEF Line
      <4>. QED  BY <4>1, <3>2, <1>1 DEF Before
    <3>. QED  BY <3>1, <3>4, <3>5
  <2>. QED  BY <2>1 DEF CallsAhead
<1>. QED  BY <1>12, <1>13, <1>15, <1>16, <1>17, <1>18 DEF LinesInv

\* A drained block goes to the backends with the line that was put in it.
LEMMA OutputBlockKeepsLines ==
  ASSUME DeliveryInv, CallsMoveOn, NEW t \in Drainers, OutputBlock(t)
  PROVE  LinesInv'
<1>1. /\ t \in Tasks /\ t \notin Loggers /\ pc[t] = "output" /\ pc'[t] = "free"
      /\ \A u \in Tasks : u # t => pc'[u] = pc[u]
      /\ UNCHANGED <<arena, status, buf, size, blk, calls>>
  BY Roles DEF OutputBlock, Step, rbb, DeliveryInv, CallsInv, Control
<1>2. PICK b0 \in Rbb!blk_set : b0 = blk[t] /\ status[b0] = "GET"
  BY <1>1 DEF DeliveryInv, BlocksInv, BlockUse, Draining
<1>3. \A u \in Tasks : blk[u] = b0 => u = t
  BY <1>1, <1>2, NoneAssumption DEF DeliveryInv, BlocksInv, BlockUse, Rbb!blk_set
<1>4. Written(b0)
  BY <1>1, <1>2 DEF Written
<1>5. PICK m \in Lines : m = LineIn(b0)
  BY <1>4 DEF DeliveryInv, LinesInv, FramesWhole
<1>6. delivered' = Append(delivered, m)
  <2>1. Frame(b0) = m
    BY <1>4, <1>5 DEF Frame, LineIn, DeliveryInv, LinesInv, FramesWhole
  <2>. QED  BY <2>1, <1>2 DEF OutputBlock
<1>7. \A i \in 1 .. Len(delivered) : delivered[i] # m
  BY <1>4, <1>5 DEF DeliveryInv, LinesInv, FramesNew
<1>8. ASSUME NEW b \in Rbb!blk_set, Written(b)' PROVE Written(b) /\ LineIn(b) # m
  <2>1. b # b0 /\ Written(b)
    BY <1>1, <1>2, <1>3, <1>8 DEF Written
  <2>. QED  BY <2>1, <1>4, <1>5 DEF DeliveryInv, LinesInv, FramesDiffer
<1>9. ASSUME NEW u \in Loggers, NEW k \in Nat, m = <<u, k>>
      PROVE  k <= calls[u] /\ (pc'[u] \in Before => k # calls'[u])
  <2>1. Used(<<u, k>>)
    BY <1>4, <1>5, <1>9 DEF Used
  <2>2. u \in Tasks /\ u # t
    BY <1>1, Roles
  <2>. QED  BY <2>1, <2>2, <1>1 DEF DeliveryInv, LinesInv, CallsAhead
<1>. QED  BY <1>1, <1>6, <1>7, <1>8, <1>9, OutputKeepsLines DEF DeliveryInv

\* A line goes to the backends without a block.
LEMMA OutputNowKeepsLines ==
  ASSUME DeliveryInv, CallsMoveOn, NEW t \in Loggers, OutputLogNow(t)
  PROVE  LinesInv'
<1>1. /\ t \in Tasks /\ t \in Callers /\ pc[t] = "do_output" /\ pc'[t] = "return"
      /\ \A u \in Tasks : u # t => pc'[u] = pc[u]
      /\ UNCHANGED <<arena, status, buf, size, blk, calls>>
  BY Roles DEF OutputLogNow, Step, rbb, DeliveryInv, CallsInv, Control
<1>2. PICK m \in Lines : m = Line(t) /\ m = log_buf_th
  BY <1>1, LineIsLine DEF DeliveryInv, CallsInv, LineHeld, LineBufferOwned
<1>3. ~ Used(m)
  BY <1>1, <1>2, LineIsNew DEF DeliveryInv, CallsInv, Before
<1>4. delivered' = Append(delivered, m)
  BY <1>2 DEF OutputLogNow
<1>5. \A i \in 1 .. Len(delivered) : delivered[i] # m
  BY <1>3 DEF Used
<1>6. ASSUME NEW b \in Rbb!blk_set, Written(b)' PROVE Written(b) /\ LineIn(b) # m
  <2>1. Written(b)
    BY <1>1, <1>6 DEF Written
  <2>. QED  BY <2>1, <1>3 DEF Used
<1>7. ASSUME NEW u \in Loggers, NEW k \in Nat, m = <<u, k>>
      PROVE  k <= calls[u] /\ (pc'[u] \in Before => k # calls'[u])
  <2>1. u = t /\ k = calls[t] /\ calls[t] \in Nat
    BY <1>1, <1>2, <1>7 DEF Line, DeliveryInv, CallsInv, CallsCounted
  <2>. QED  BY <2>1, <1>1 DEF Before
<1>. QED  BY <1>1, <1>4, <1>5, <1>6, <1>7, OutputKeepsLines DEF DeliveryInv

\* The steps that give a line to the backends.
LEMMA DeliverySteps ==
  ASSUME Control, [Next]_vars
  PROVE  \/ UNCHANGED delivered
         \/ \E t \in Loggers : OutputLogNow(t)
         \/ \E t \in Drainers : OutputBlock(t)
<1>1. ASSUME NEW t \in Loggers, LogStep(t), ~ OutputLogNow(t) PROVE UNCHANGED delivered
  BY <1>1 DEF LogStep, StartLog, Lock, CheckRecursion, FormatLog, AllocFrame, FillFrame,
       PutFrame, GiveNotice, Return, Unlock, out
<1>2. ASSUME NEW t \in RawLoggers, RawStep(t) PROVE UNCHANGED delivered
  BY <1>2 DEF RawStep, StartRaw, CreateRb, Lock, FormatRaw, PutRaw, LoseRaw, GiveNotice,
       OutputRawNow, Unlock, out
<1>3. ASSUME NEW t \in Drainers, ulog_async_output(t), ~ OutputBlock(t)
      PROVE  UNCHANGED delivered
  BY <1>3 DEF ulog_async_output, Enter, GetBlock, FreeBlock, NoBlock, RawLen, RawGet,
       RawOutput, Leave, out
<1>4. ASSUME NEW t \in Flushers, StartFlush(t) PROVE UNCHANGED delivered
  BY <1>4 DEF StartFlush, out
<1>5. ASSUME Woken \/ TimedOut PROVE UNCHANGED delivered
  BY <1>5 DEF Woken, TimedOut, out
<1>6. ASSUME NEW enabled \in BOOLEAN, ulog_async_output_enabled(enabled)
      PROVE  UNCHANGED delivered
  BY <1>6 DEF ulog_async_output_enabled, out
<1>7. UNCHANGED vars => UNCHANGED delivered
  BY DEF vars, out
<1>. QED  BY <1>1, <1>2, <1>3, <1>4, <1>5, <1>6, <1>7, WhichStep, Zenon

\* No step formats, stores or outputs a line that has been output or stored before.
LEMMA NextLines ==
  ASSUME DeliveryInv, [Next]_vars
  PROVE  LinesInv'
<1>1. CallsMoveOn
  BY StepsMoveCallsOn DEF DeliveryInv
<1>2. CASE \E t \in Drainers : OutputBlock(t)
  BY <1>1, <1>2, OutputBlockKeepsLines
<1>3. CASE \E t \in Loggers : OutputLogNow(t)
  BY <1>1, <1>3, OutputNowKeepsLines
<1>4. CASE \E t \in Loggers : FillFrame(t)
  BY <1>1, <1>4, FillKeepsLines
<1>5. ASSUME NEW t \in Loggers, TakeFrame(t), UNCHANGED delivered PROVE LinesInv'
  <2>1. PICK n \in BlkSizes : \E at : Chain!AllocBlock(n, at)
    BY <1>5 DEF TakeFrame
  <2>2. PICK at : Chain!AllocBlock(n, at)
    BY <2>1
  <2>3. PICK new \in Rbb!blk_set :
          /\ status[new] = "UNUSED"
          /\ status' = [status EXCEPT ![new] = "INITED"]
          /\ buf' = [buf EXCEPT ![new] = at]
          /\ size' = [size EXCEPT ![new] = n]
          /\ new = free_list[1]
    BY <2>2, SameTypes, Chain!AllocStep, Assumed DEF DeliveryInv, BlocksInv
  <2>4. /\ status \in [Rbb!blk_set -> Chain!rbb_status]
        /\ buf \in [Rbb!blk_set -> Nat] /\ size \in [Rbb!blk_set -> Nat]
    BY SameTypes DEF DeliveryInv, BlocksInv, Chain!ListInv, Chain!TypeOK
  <2>5. /\ t \in Tasks /\ pc'[t] = "fill" /\ \A u \in Tasks : u # t => pc'[u] = pc[u]
        /\ \A u \in Tasks : u # t => blk'[u] = blk[u]
        /\ UNCHANGED arena
    BY <1>5, Roles DEF TakeFrame, Step, DeliveryInv, CallsInv, Control, BlocksInv, BlockUse
  <2>6. ASSUME NEW b \in Rbb!blk_set, Written(b)'
        PROVE  Written(b) /\ buf'[b] = buf[b] /\ size'[b] = size[b]
    <3>1. Written(b)
      BY <2>3, <2>4, <2>5, <2>6 DEF Written
    <3>2. b # new
      BY <3>1, <2>3, WrittenInUse DEF DeliveryInv, BlocksInv
    <3>. QED  BY <3>1, <3>2, <2>3, <2>4
  <2>. QED  BY <1>1, <1>5, <2>5, <2>6, LinesStay DEF DeliveryInv
<1>6. ASSUME NEW t \in Loggers, PutFrame(t), UNCHANGED delivered PROVE LinesInv'
  <2>1. /\ t \in Tasks /\ pc[t] = "put" /\ pc'[t] = "give"
        /\ \A u \in Tasks : u # t => pc'[u] = pc[u] /\ blk'[u] = blk[u]
        /\ status' = [status EXCEPT ![blk[t]] = "PUT"]
        /\ UNCHANGED <<arena, buf, size>>
    BY <1>6, Roles DEF PutFrame, Rbb!rbb_blk_put, Step, DeliveryInv, CallsInv, Control,
         BlocksInv, BlockUse
  <2>2. status \in [Rbb!blk_set -> Chain!rbb_status]
    BY SameTypes DEF DeliveryInv, BlocksInv, Chain!ListInv, Chain!TypeOK
  <2>3. ASSUME NEW b \in Rbb!blk_set, Written(b)' PROVE Written(b)
    BY <2>1, <2>2, <2>3 DEF Written
  <2>. QED  BY <1>1, <1>6, <2>1, <2>3, LinesStay DEF DeliveryInv
<1>7. ASSUME NEW t \in Drainers, GetBlock(t), UNCHANGED delivered PROVE LinesInv'
  <2>1. PICK b0 \in Rbb!blk_set : Rbb!rbb_blk_get(b0) /\ blk' = [blk EXCEPT ![t] = b0]
    BY <1>7 DEF GetBlock
  <2>2. /\ t \in Tasks
        /\ \A u \in Tasks : u # t => pc'[u] = pc[u] /\ blk'[u] = blk[u]
        /\ blk'[t] = b0
        /\ status[b0] = "PUT" /\ status' = [status EXCEPT ![b0] = "GET"]
        /\ UNCHANGED <<arena, buf, size>>
    <3>1. /\ status[b0] = "PUT" /\ status' = [status EXCEPT ![b0] = "GET"]
          /\ UNCHANGED <<buf, size>>
      BY <2>1 DEF Rbb!rbb_blk_get, Rbb!IsFirstPut
    <3>2. t \in Tasks /\ \A u \in Tasks : u # t => pc'[u] = pc[u]
      BY <1>7, Roles DEF GetBlock, Step, DeliveryInv, CallsInv, Control
    <3>3. blk'[t] = b0 /\ \A u \in Tasks : u # t => blk'[u] = blk[u]
      BY <2>1, <3>2 DEF DeliveryInv, BlocksInv, BlockUse
    <3>. QED  BY <1>7, <3>1, <3>2, <3>3 DEF GetBlock
  <2>3. status \in [Rbb!blk_set -> Chain!rbb_status]
    BY SameTypes DEF DeliveryInv, BlocksInv, Chain!ListInv, Chain!TypeOK
  <2>4. ASSUME NEW b \in Rbb!blk_set, Written(b)' PROVE Written(b)
    BY <2>2, <2>3, <2>4 DEF Written
  <2>. QED  BY <1>1, <1>7, <2>2, <2>4, LinesStay DEF DeliveryInv
<1>8. ASSUME NEW t \in Drainers, FreeBlock(t), UNCHANGED delivered PROVE LinesInv'
  <2>1. /\ t \in Tasks /\ pc[t] = "free" /\ pc'[t] = "get"
        /\ \A u \in Tasks : u # t => pc'[u] = pc[u] /\ blk'[u] = blk[u]
        /\ status' = [status EXCEPT ![blk[t]] = "UNUSED"]
        /\ UNCHANGED <<arena, buf, size>>
    BY <1>8, Roles DEF FreeBlock, Rbb!rbb_blk_free, Step, DeliveryInv, CallsInv, Control,
         BlocksInv, BlockUse
  <2>2. status \in [Rbb!blk_set -> Chain!rbb_status]
    BY SameTypes DEF DeliveryInv, BlocksInv, Chain!ListInv, Chain!TypeOK
  <2>3. ASSUME NEW b \in Rbb!blk_set, Written(b)' PROVE Written(b)
    BY <2>1, <2>2, <2>3 DEF Written
  <2>. QED  BY <1>1, <1>8, <2>1, <2>3, LinesStay DEF DeliveryInv
<1>9. ASSUME NoBlockTaken, UNCHANGED delivered PROVE LinesInv'
  <2>1. /\ UNCHANGED <<arena, status, buf, size, blk>>
        /\ \A u \in Tasks : \/ pc'[u] = pc[u]
                            \/ pc'[u] \notin {"put", "output"}
    BY <1>9 DEF NoBlockTaken, rbb, Chain!AllocNoSpace, Filling, Draining
  <2>2. ASSUME NEW b \in Rbb!blk_set, Written(b)' PROVE Written(b)
    BY <2>1, <2>2 DEF Written
  <2>. QED  BY <1>1, <1>9, <2>1, <2>2, LinesStay DEF DeliveryInv
<1>. QED  BY <1>2, <1>3, <1>4, <1>5, <1>6, <1>7, <1>8, <1>9, BlockSteps, DeliverySteps, Zenon
          DEF DeliveryInv, CallsInv

\* The third layer is inductive: lines are where they should be, whole, and in one
\* place.
LEMMA NextDelivery ==
  ASSUME Rbb!SizesFit
  PROVE  DeliveryInv /\ [Next]_vars => DeliveryInv'
<1>. SUFFICES ASSUME DeliveryInv, [Next]_vars PROVE DeliveryInv'
  OBVIOUS
<1>1. CallsInv' /\ BlocksInv'
  BY NextCalls, NextBlocks DEF DeliveryInv
<1>2. Chain!ArenaInv'
  <2>1. Chain!SizesFit
    BY DEF Rbb!SizesFit, Chain!SizesFit
  <2>2. [Chain!Next]_(Chain!vars)
    BY ChainStep DEF DeliveryInv, BlocksInv
  <2>. QED  BY <2>1, <2>2, Chain!NextLayout, Assumed DEF DeliveryInv
<1>3. LinesInv'
  BY NextLines
<1>. QED  BY <1>1, <1>2, <1>3 DEF DeliveryInv

\* Nothing is in any buffer at the beginning.
LEMMA InitDelivery == Init => DeliveryInv
<1>. SUFFICES ASSUME Init PROVE DeliveryInv
  OBVIOUS
<1>1. CallsInv /\ BlocksInv
  BY InitCalls, InitBlocks
<1>2. status = [b \in Rbb!blk_set |-> "UNUSED"] /\ blk_list = << >>
  BY DEF Init, Rbb!rbb_init
<1>3. Chain!ArenaInv
  BY <1>1, <1>2 DEF BlocksInv, Chain!ArenaInv, Chain!Layout, Chain!SizesPositive,
     Chain!BlocksInArena, Chain!BlocksDisjoint, Chain!RingOrder
<1>4. \A b \in Rbb!blk_set : ~ Written(b)
  BY <1>1, <1>2, WrittenInUse DEF BlocksInv
<1>5. delivered \in Seq(Lines) /\ Len(delivered) = 0
  BY DEF Init
<1>6. ArenaTyped
  BY DEF Init, ArenaTyped
<1>7. LinesInv
  BY <1>4, <1>5, <1>6 DEF LinesInv, FramesWhole, FramesDiffer, FramesNew, OutputsDiffer,
     CallsAhead, Used
<1>. QED  BY <1>1, <1>3, <1>7 DEF DeliveryInv

\* Of the frames that do_output writes and ulog_async_output reads: each block in use
\* holds the whole frame of one line, and every line is in one place.
THEOREM DeliveryInvariant ==
  ASSUME Rbb!SizesFit
  PROVE  Spec => []DeliveryInv
<1>1. DeliveryInv /\ [Next]_vars => DeliveryInv'
  BY NextDelivery
<1>. QED  BY <1>1, InitDelivery, PTL DEF Spec

\* Whatever the number of tasks that log, drain and switch the mode, no line
\* is given to the backends twice and none that another one was written into.
THEOREM LinesDeliveredOnce ==
  ASSUME Rbb!SizesFit
  PROVE  Spec => []DeliveredOnce
<1>1. DeliveryInv => DeliveredOnce
  <2>. SUFFICES ASSUME DeliveryInv PROVE DeliveredOnce
    OBVIOUS
  <2>1. delivered \in Seq(Lines) /\ \A i, j \in 1 .. Len(delivered) : delivered[i] = delivered[j] => i = j
    BY DEF DeliveryInv, LinesInv, OutputsDiffer
  <2>2. IsInjective(delivered)
    BY <2>1, InjectiveByPosition
  <2>3. None \notin Range(delivered)
    BY <2>1, RangeByPosition, ElementOfSeq, NoneAssumption
  <2>. QED  BY <2>2, <2>3 DEF DeliveredOnce
<1>. QED  BY <1>1, DeliveryInvariant, PTL

-----------------------------------------------------------------------------
\* The notice, while the mode is not switched.

\* The thread is on its way to the blocks.
Awake == pc[Async] \in {"enter", "get", "output", "free"}

NoticeDue ==
  (\E b \in Rbb!blk_set : status[b] = "PUT") =>
     Awake \/ async_notice = 1 \/ \E t \in Loggers : pc[t] = "give"

NotSwitched == toggles = 0 /\ async_enabled = TRUE

WakeInv == BlocksInv /\ NotSwitched /\ NoticeDue

\* Only rbb_blk_put makes a block wait.
LEMMA NoneElsePut ==
  ASSUME BlocksInv, [Next]_vars, \A t \in Loggers : ~ PutFrame(t),
         NEW b \in Rbb!blk_set, status'[b] = "PUT"
  PROVE  status[b] = "PUT"
<1>1. status \in [Rbb!blk_set -> Chain!rbb_status]
  BY SameTypes DEF BlocksInv, Chain!ListInv, Chain!TypeOK
<1>2. ASSUME NEW d, NEW s \in {"INITED", "GET", "UNUSED"}, status' = [status EXCEPT ![d] = s]
      PROVE  status[b] = "PUT"
  BY <1>1, <1>2
<1>3. ASSUME NEW t \in Loggers, TakeFrame(t) PROVE status[b] = "PUT"
  <2>1. status' = [status EXCEPT ![Head(free_list)] = "INITED"]
    BY <1>3, Zenon DEF TakeFrame, Chain!AllocBlock
  <2>. QED  BY <2>1, <1>2
<1>4. ASSUME NEW t \in Drainers, GetBlock(t) PROVE status[b] = "PUT"
  <2>1. PICK d \in Rbb!blk_set : Rbb!rbb_blk_get(d)
    BY <1>4 DEF GetBlock
  <2>. QED  BY <2>1, <1>2 DEF Rbb!rbb_blk_get
<1>5. ASSUME NEW t \in Drainers, FreeBlock(t) PROVE status[b] = "PUT"
  <2>1. status' = [status EXCEPT ![blk[t]] = "UNUSED"]
    BY <1>5 DEF FreeBlock, Rbb!rbb_blk_free
  <2>. QED  BY <2>1, <1>2
<1>6. ASSUME NEW t, FillFrame(t) \/ OutputBlock(t) PROVE status' = status
  BY <1>6 DEF FillFrame, OutputBlock, rbb
<1>7. NoBlockTaken => status' = status
  BY DEF NoBlockTaken, rbb, Chain!AllocNoSpace
<1>. QED  BY <1>3, <1>4, <1>5, <1>6, <1>7, BlockSteps DEF BlocksInv

\* The mode is not switched when the bound on switches is 0.
LEMMA ModeStays ==
  ASSUME MaxToggles = 0, NotSwitched, [Next]_vars, Control
  PROVE  NotSwitched'
<1>1. ASSUME NEW t \in Loggers, LogStep(t) PROVE UNCHANGED <<toggles, async_enabled>>
  BY <1>1 DEF LogStep, StartLog, Lock, CheckRecursion, FormatLog, AllocFrame, FillFrame,
       PutFrame, GiveNotice, OutputLogNow, Return, Unlock, async
<1>2. ASSUME NEW t \in RawLoggers, RawStep(t) PROVE UNCHANGED <<toggles, async_enabled>>
  BY <1>2 DEF RawStep, StartRaw, CreateRb, Lock, FormatRaw, PutRaw, LoseRaw, GiveNotice,
       OutputRawNow, Unlock, async
<1>3. ASSUME NEW t \in Drainers, ulog_async_output(t) PROVE UNCHANGED <<toggles, async_enabled>>
  BY <1>3 DEF ulog_async_output, Enter, GetBlock, OutputBlock, FreeBlock, NoBlock, RawLen,
       RawGet, RawOutput, Leave, async
<1>4. ASSUME NEW t \in Flushers, StartFlush(t) PROVE UNCHANGED <<toggles, async_enabled>>
  BY <1>4 DEF StartFlush, async
<1>5. ASSUME Woken \/ TimedOut PROVE UNCHANGED <<toggles, async_enabled>>
  BY <1>5 DEF Woken, TimedOut, async
<1>6. ASSUME NEW enabled \in BOOLEAN PROVE ~ ulog_async_output_enabled(enabled)
  BY DEF ulog_async_output_enabled, NotSwitched
<1>7. UNCHANGED vars => UNCHANGED <<toggles, async_enabled>>
  BY DEF vars, async
<1>8. UNCHANGED <<toggles, async_enabled>>
  BY <1>1, <1>2, <1>3, <1>4, <1>5, <1>6, <1>7, WhichStep, Zenon
<1>. QED  BY <1>8 DEF NotSwitched

\* The fourth layer is inductive: with a block waiting, a notice is there, is about
\* to be given, or is not needed.
LEMMA NextWake ==
  ASSUME MaxToggles = 0
  PROVE  WakeInv /\ [Next]_vars => WakeInv'
<1>. SUFFICES ASSUME WakeInv, [Next]_vars PROVE WakeInv'
  OBVIOUS
<1>1. BlocksInv' /\ NotSwitched' /\ Control
  BY NextBlocks, ModeStays DEF WakeInv, BlocksInv
<1>2. Async \in Tasks /\ \A t \in Loggers \cup RawLoggers : t \in Tasks /\ t # Async
  BY Roles
\* What keeps the notice due: no block is put, and no notice is lost.
<1>3. ASSUME \A t \in Loggers : ~ PutFrame(t),
             Awake => Awake',
             async_notice = 1 => Awake' \/ async_notice' = 1,
             \A t \in Loggers : pc[t] = "give" => async_notice' = 1 \/ pc'[t] = "give"
      PROVE  NoticeDue'
  <2>1. ASSUME NEW b \in Rbb!blk_set, status'[b] = "PUT"
        PROVE  Awake' \/ async_notice' = 1 \/ \E t \in Loggers : pc'[t] = "give"
    <3>1. status[b] = "PUT"
      BY <2>1, <1>3, NoneElsePut DEF WakeInv
    <3>. QED  BY <3>1, <1>3 DEF WakeInv, NoticeDue
  <2>. QED  BY <2>1 DEF NoticeDue, Rbb!blk_set
<1>4. ASSUME NEW t \in Loggers, PutFrame(t) PROVE NoticeDue'
  <2>1. pc'[t] = "give"
    BY <1>2, <1>4 DEF PutFrame, Step, Control, BlocksInv, WakeInv
  <2>. QED  BY <2>1 DEF NoticeDue
<1>5. ASSUME NEW t, GiveNotice(t) PROVE NoticeDue'
  BY <1>5 DEF GiveNotice, NoticeDue
<1>6. ASSUME NEW t \in Loggers, LogStep(t), \A u \in Loggers : ~ PutFrame(u), ~ GiveNotice(t)
      PROVE  NoticeDue'
  <2>1. /\ \A u \in Tasks : u # t => pc'[u] = pc[u]
        /\ pc[t] # "give"
    BY <1>1, <1>2, <1>6 DEF LogStep, StartLog, Lock, CheckRecursion, FormatLog, AllocFrame,
         FillFrame, OutputLogNow, Return, Unlock, Step, Control
  <2>2. async_notice' = async_notice
    BY <1>6 DEF LogStep, StartLog, Lock, CheckRecursion, FormatLog, AllocFrame,
         FillFrame, OutputLogNow, Return, Unlock, async
  <2>. QED  BY <2>1, <2>2, <1>2, <1>3, <1>6 DEF Awake
<1>7. ASSUME NEW t \in RawLoggers, RawStep(t), \A u \in Loggers : ~ PutFrame(u), ~ GiveNotice(t)
      PROVE  NoticeDue'
  <2>1. \A u \in Tasks : u # t => pc'[u] = pc[u]
    BY <1>1, <1>2, <1>7 DEF RawStep, StartRaw, CreateRb, Lock, FormatRaw, PutRaw, LoseRaw,
         OutputRawNow, Unlock, Step, Control
  <2>2. async_notice' = async_notice
    BY <1>7 DEF RawStep, StartRaw, CreateRb, Lock, FormatRaw, PutRaw, LoseRaw,
         OutputRawNow, Unlock, async
  <2>3. \A u \in Loggers : u # t
    BY Roles
  <2>. QED  BY <2>1, <2>2, <2>3, <1>2, <1>3, <1>7 DEF Awake
<1>8. ASSUME NEW t \in Drainers, ulog_async_output(t), \A u \in Loggers : ~ PutFrame(u)
      PROVE  NoticeDue'
  <2>1. t \in Tasks /\ \A u \in Loggers : u # t
    BY Roles
  <2>2. \A u \in Tasks : u # t => pc'[u] = pc[u]
    BY <1>1, <1>8, <2>1 DEF ulog_async_output, Enter, GetBlock, OutputBlock, FreeBlock, NoBlock,
         RawLen, RawGet, RawOutput, Leave, Step, Control
  <2>3. async_notice' = async_notice
    BY <1>8 DEF ulog_async_output, Enter, GetBlock, OutputBlock, FreeBlock, NoBlock,
         RawLen, RawGet, RawOutput, Leave, async
  <2>4. CASE t # Async
    BY <2>1, <2>2, <2>3, <2>4, <1>2, <1>3, <1>8 DEF Awake
  <2>5. CASE t = Async /\ (RawLen(t) \/ RawGet(t) \/ RawOutput(t) \/ Leave(t))
    <3>1. ~ Awake
      BY <2>5 DEF Awake, RawLen, RawGet, RawOutput, Leave, Step
    <3>. QED  BY <3>1, <2>1, <2>2, <2>3, <1>2, <1>3, <1>8
  <2>6. CASE t = Async /\ (Enter(t) \/ GetBlock(t) \/ OutputBlock(t) \/ FreeBlock(t))
    <3>1. async_enabled = TRUE
      BY DEF WakeInv, NotSwitched
    <3>2. Awake'
      BY <3>1, <2>6, <1>1, <1>2 DEF Awake, Enter, GetBlock, OutputBlock, FreeBlock, Step, Control
    <3>. QED  BY <3>2 DEF NoticeDue
  <2>7. CASE NoBlock(t)
    <3>1. Chain!TypeOK /\ Chain!Positions
      BY Chain!ListsByPosition, Assumed DEF WakeInv, BlocksInv, Chain!ListInv
    <3>2. ASSUME NEW b \in Rbb!blk_set PROVE status[b] # "PUT"
      <4>1. CASE \E i \in 1 .. Len(blk_list) : blk_list[i] = b
        <5>1. blk_list \in Seq(Chain!blk_set)
          BY <3>1 DEF Chain!TypeOK
        <5>2. b \in Range(blk_list)
          BY <4>1, <5>1, RangeByPosition
        <5>. QED  BY <2>7, <5>2 DEF NoBlock
      <4>2. CASE ~ \E i \in 1 .. Len(blk_list) : blk_list[i] = b
        BY <3>1, <4>2, SameTypes DEF Chain!Positions
      <4>. QED  BY <4>1, <4>2
    <3>3. status' = status
      BY <2>7 DEF NoBlock, rbb
    <3>. QED  BY <3>2, <3>3 DEF NoticeDue, Rbb!blk_set
  <2>. QED  BY <2>4, <2>5, <2>6, <2>7, <1>8 DEF ulog_async_output
<1>9. ASSUME NEW t \in Flushers, StartFlush(t), \A u \in Loggers : ~ PutFrame(u)
      PROVE  NoticeDue'
  <2>1. t \in Tasks /\ t # Async /\ \A u \in Loggers : u # t
    BY Roles
  <2>2. async_notice' = async_notice /\ \A u \in Tasks : u # t => pc'[u] = pc[u]
    BY <1>1, <1>9, <2>1 DEF StartFlush, async, Step, Control
  <2>. QED  BY <2>1, <2>2, <1>2, <1>3, <1>9 DEF Awake
<1>10. ASSUME Woken \/ TimedOut PROVE NoticeDue'
  <2>1. pc'[Async] = "enter"
    BY <1>1, <1>2, <1>10 DEF Woken, TimedOut, Step, Control
  <2>. QED  BY <2>1 DEF NoticeDue, Awake
<1>11. ASSUME NEW enabled \in BOOLEAN PROVE ~ ulog_async_output_enabled(enabled)
  BY DEF ulog_async_output_enabled, WakeInv, NotSwitched
<1>12. ASSUME UNCHANGED vars, \A u \in Loggers : ~ PutFrame(u) PROVE NoticeDue'
  BY <1>12, <1>3 DEF vars, async, Awake
<1>13. NoticeDue'
  BY <1>1, <1>4, <1>5, <1>6, <1>7, <1>8, <1>9, <1>10, <1>11, <1>12, WhichStep, Zenon
<1>. QED  BY <1>1, <1>13 DEF WakeInv

\* Of async_notice: while the mode is not switched, a block that waits has the thread
\* on its way to it, a notice given, or a task about to give one.
THEOREM WakeInvariant ==
  ASSUME MaxToggles = 0
  PROVE  Spec => []WakeInv
<1>1. Init => WakeInv
  <2>. SUFFICES ASSUME Init PROVE WakeInv
    OBVIOUS
  <2>1. pc[Async] = "enter"
    BY DEF Init, Tasks
  <2>2. toggles = 0 /\ async_enabled = TRUE
    BY DEF Init
  <2>. QED  BY <2>1, <2>2, InitBlocks DEF WakeInv, NotSwitched, NoticeDue, Awake
<1>2. WakeInv /\ [Next]_vars => WakeInv'
  BY NextWake
<1>. QED  BY <1>1, <1>2, PTL DEF Spec

\* As long as the mode is not switched, the output thread does not sleep while
\* a line waits: it missed no notice, however many tasks log and drain.
THEOREM NoWakeupIsLost ==
  ASSUME MaxToggles = 0
  PROVE  Spec => []NoLostWakeup
<1>1. WakeInv => NoLostWakeup
  <2>. SUFFICES ASSUME WakeInv, NEW b \in Range(blk_list), status[b] = "PUT"
                PROVE  \/ pc[Async] \notin {"wait_forever", "wait_2000"}
                       \/ async_notice = 1
                       \/ \E t \in Loggers : pc[t] = "give"
    BY DEF NoLostWakeup
  <2>1. blk_list \in Seq(Rbb!blk_set)
    BY SameTypes DEF WakeInv, BlocksInv, Chain!ListInv, Chain!TypeOK
  <2>2. b \in Rbb!blk_set
    BY <2>1, RangeByPosition, ElementOfSeq
  <2>. QED  BY <2>2 DEF WakeInv, NoticeDue, Awake
<1>. QED  BY <1>1, WakeInvariant, PTL

-----------------------------------------------------------------------------
\* The lossy FIFO, while one task drains and the mode is not switched.  The
\* blocks that wait are then a run of the chain, which the steps extend behind
\* and shorten in front.

\* The places of s at which f has a value are those behind lo, up to hi.
IsRun(s, f, lo, hi) ==
  /\ Len(s) \in Nat /\ lo \in Nat /\ hi \in Nat /\ lo <= hi /\ hi <= Len(s)
  /\ \A i \in 1 .. Len(s) : s[i] \in DOMAIN f <=> (lo < i /\ i <= hi)

ValuesIn(f, X) == \A b \in DOMAIN f : f[b] \in X

\* The sequence q has the values of f at those places.
HasRun(q, s, f, lo, hi, X) ==
  /\ q \in Seq(X) /\ Len(q) = hi - lo
  /\ \A k \in 1 .. hi - lo : q[k] = f[s[lo + k]]

\* Such a run has the values at those places.
LEMMA AlongRun ==
  ASSUME NEW X, NEW s, NEW f, NEW lo, NEW hi, IsRun(s, f, lo, hi), ValuesIn(f, X)
  PROVE  HasRun(Along(s, f), s, f, lo, hi, X)
<1>. DEFINE D == 0 .. Len(s)
            Is(u) == u = [n \in D |->
                            IF n = 0 THEN << >>
                            ELSE IF s[n] \in DOMAIN f THEN Append(u[n - 1], f[s[n]]) ELSE u[n - 1]]
            count(n) == IF n <= lo THEN 0 ELSE IF n <= hi THEN n - lo ELSE hi - lo
            part(n) == [k \in 1 .. count(n) |-> f[s[lo + k]]]
            parts == [n \in D |-> part(n)]
            upto == CHOOSE u : Is(u)
<1>0. /\ Len(s) \in Nat /\ lo \in Nat /\ hi \in Nat /\ lo <= hi /\ hi <= Len(s)
      /\ \A i \in 1 .. Len(s) : s[i] \in DOMAIN f <=> (lo < i /\ i <= hi)
      /\ \A b \in DOMAIN f : f[b] \in X
  BY DEF IsRun, ValuesIn
<1>1. \A n \in D : count(n) \in Nat /\ count(n) <= hi - lo
  BY <1>0
<1>2. \A n \in D : part(n) \in Seq(X) /\ Len(part(n)) = count(n)
  <2>1. ASSUME NEW n \in D PROVE part(n) \in Seq(X) /\ Len(part(n)) = count(n)
    <3>1. ASSUME NEW k \in 1 .. count(n) PROVE f[s[lo + k]] \in X
      <4>1. lo + k \in 1 .. Len(s) /\ lo < lo + k /\ lo + k <= hi
        BY <1>0, <1>1
      <4>. QED  BY <4>1, <1>0
    <3>2. PICK m \in Nat : m = count(n)
      BY <1>1
    <3>3. part(n) = [k \in 1 .. m |-> f[s[lo + k]]] /\ \A k \in 1 .. m : f[s[lo + k]] \in X
      BY <3>1, <3>2
    <3>4. [k \in 1 .. m |-> f[s[lo + k]]] \in Seq(X)
      BY <3>3, IsASeq
    <3>5. Len([k \in 1 .. m |-> f[s[lo + k]]]) = m
      BY <3>4, LenProperties
    <3>. QED  BY <3>2, <3>3, <3>4, <3>5
  <2>. QED  BY <2>1
<1>3. ASSUME NEW n \in D, n # 0
      PROVE  part(n) = IF s[n] \in DOMAIN f THEN Append(part(n - 1), f[s[n]]) ELSE part(n - 1)
  <2>1. n - 1 \in D /\ n \in 1 .. Len(s)
    BY <1>0, <1>3
  <2>2. CASE ~ (s[n] \in DOMAIN f)
    <3>1. count(n) = count(n - 1)
      BY <1>0, <2>1, <2>2
    <3>. QED  BY <3>1, <2>2
  <2>3. CASE s[n] \in DOMAIN f
    <3>1. lo < n /\ n <= hi
      BY <1>0, <2>1, <2>3
    <3>2. count(n) = count(n - 1) + 1 /\ lo + count(n) = n
      BY <1>0, <2>1, <3>1
    <3>3. PICK m \in Nat : m = count(n - 1)
      BY <1>1, <2>1
    <3>4. PICK t : t = part(n - 1)
      OBVIOUS
    <3>5. t \in Seq(X) /\ Len(t) = m /\ t = [k \in 1 .. m |-> f[s[lo + k]]]
      BY <1>2, <2>1, <3>3, <3>4
    <3>6. f[s[n]] \in X
      BY <2>3, <1>0
    <3>7. /\ Append(t, f[s[n]]) \in Seq(X)
          /\ Len(Append(t, f[s[n]])) = m + 1
          /\ \A i \in 1 .. m : Append(t, f[s[n]])[i] = t[i]
          /\ Append(t, f[s[n]])[m + 1] = f[s[n]]
      BY <3>5, <3>6, AppendProperties
    <3>8. PICK a : a = Append(t, f[s[n]])
      OBVIOUS
    <3>9. part(n) = [k \in 1 .. m + 1 |-> f[s[lo + k]]] /\ lo + (m + 1) = n
      BY <3>2, <3>3
    <3>10. a = [k \in 1 .. m + 1 |-> f[s[lo + k]]]
      <4>1. a \in Seq(X) /\ Len(a) = m + 1
        BY <3>7, <3>8
      <4>2. a = [k \in 1 .. m + 1 |-> a[k]]
        BY <4>1, LenProperties
      <4>3. \A k \in 1 .. m + 1 : a[k] = f[s[lo + k]]
        <5>1. ASSUME NEW k \in 1 .. m + 1, k # m + 1 PROVE a[k] = f[s[lo + k]]
          <6>1. k \in 1 .. m
            BY <5>1
          <6>. QED  BY <6>1, <3>5, <3>7, <3>8
        <5>2. a[m + 1] = f[s[lo + (m + 1)]]
          BY <3>7, <3>8, <3>9
        <5>. QED  BY <5>1, <5>2
      <4>. QED  BY <4>2, <4>3
    <3>. QED  BY <3>4, <3>8, <3>9, <3>10, <2>3
  <2>. QED  BY <2>2, <2>3
<1>4. part(0) = << >>
  <2>1. part(0) \in Seq(X) /\ Len(part(0)) = 0
    BY <1>0, <1>2
  <2>. HIDE DEF part
  <2>. QED  BY <2>1, EmptySeq
<1>5. Is(parts)
  <2>. HIDE DEF part
  <2>1. \A n \in D : n # 0 => n - 1 \in D
    BY <1>0
  <2>. QED  BY <2>1, <1>3, <1>4
<1>6. Is(upto)
  <2>. HIDE DEF Is
  <2>. QED  BY <1>5
<1>7. \A n \in D : upto[n] = IF n = 0 THEN << >>
                             ELSE IF s[n] \in DOMAIN f THEN Append(upto[n - 1], f[s[n]])
                             ELSE upto[n - 1]
  <2>. HIDE DEF upto
  <2>. QED  BY <1>6
<1>8. upto[Len(s)] = part(Len(s))
  <2>. DEFINE S == {n \in Nat : n \in D => upto[n] = part(n)}
  <2>. HIDE DEF upto, part
  <2>1. 0 \in S
    <3>1. 0 \in D
      BY <1>0
    <3>. QED  BY <1>4, <1>7, <3>1
  <2>2. ASSUME NEW n \in Nat, n \in S PROVE n + 1 \in S
    <3>. SUFFICES ASSUME n + 1 \in D PROVE upto[n + 1] = part(n + 1)
      OBVIOUS
    <3>1. n \in D /\ n + 1 # 0 /\ (n + 1) - 1 = n
      BY <1>0
    <3>2. upto[n] = part(n)
      BY <2>2, <3>1
    <3>. HIDE DEF D, S
    <3>3. part(n + 1) = IF s[n + 1] \in DOMAIN f THEN Append(part(n), f[s[n + 1]]) ELSE part(n)
      BY <1>3, <3>1
    <3>4. upto[n + 1] = IF s[n + 1] \in DOMAIN f THEN Append(upto[n], f[s[n + 1]]) ELSE upto[n]
      BY <1>7, <3>1
    <3>. QED  BY <3>2, <3>3, <3>4
  <2>3. Nat \subseteq S
    <3>. HIDE DEF S
    <3>. QED  BY <2>1, <2>2, SetInduction
  <2>4. Len(s) \in Nat /\ Len(s) \in D
    BY <1>0
  <2>. QED  BY <2>3, <2>4
<1>9. Along(s, f) = upto[Len(s)]
  BY Zenon DEF Along
<1>10. PICK n \in Nat : n = hi - lo
  BY <1>0
<1>11. count(Len(s)) = n /\ Len(s) \in D
  BY <1>0, <1>10
<1>12. Along(s, f) = [k \in 1 .. n |-> f[s[lo + k]]]
  BY <1>8, <1>9, <1>11, Zenon
<1>13. Along(s, f) \in Seq(X) /\ Len(Along(s, f)) = n
  <2>1. Along(s, f) = part(Len(s))
    BY <1>8, <1>9, Zenon
  <2>2. part(Len(s)) \in Seq(X) /\ Len(part(Len(s))) = count(Len(s))
    BY <1>2, <1>11
  <2>. HIDE DEF part, count
  <2>. QED  BY <2>1, <2>2, <1>11
<1>14. \A k \in 1 .. n : Along(s, f)[k] = f[s[lo + k]]
  BY <1>12
<1>. QED  BY <1>10, <1>13, <1>14, Zenon DEF HasRun

\* The chain: at most the first block is being drained, at most the last filled.
ChainOrder ==
  \A i \in 1 .. Len(blk_list) :
     /\ status[blk_list[i]] = "GET" => i = 1
     /\ status[blk_list[i]] = "INITED" => i = Len(blk_list)

FifoInv == DeliveryInv /\ NotSwitched /\ ChainOrder

\* The blocks of the chain, by position.
LEMMA BlocksOnChain ==
  ASSUME BlocksInv
  PROVE  /\ Len(blk_list) \in Nat /\ blk_list \in Seq(Rbb!blk_set)
         /\ status \in [Rbb!blk_set -> {"UNUSED", "INITED", "PUT", "GET"}]
         /\ \A i \in 1 .. Len(blk_list) :
               blk_list[i] \in Rbb!blk_set /\ status[blk_list[i]] # "UNUSED"
         /\ \A i, j \in 1 .. Len(blk_list) : blk_list[i] = blk_list[j] => i = j
         /\ \A b \in Rbb!blk_set :
               status[b] # "UNUSED" => \E i \in 1 .. Len(blk_list) : blk_list[i] = b
<1>1. Chain!TypeOK /\ Chain!Positions
  BY Chain!ListsByPosition, Assumed DEF BlocksInv, Chain!ListInv
<1>2. blk_list \in Seq(Rbb!blk_set) /\ status \in [Rbb!blk_set -> Chain!rbb_status]
  BY <1>1, SameTypes DEF Chain!TypeOK
<1>3. Len(blk_list) \in Nat /\ \A i \in 1 .. Len(blk_list) : blk_list[i] \in Rbb!blk_set
  BY <1>2, LenProperties, ElementOfSeq
<1>4. Chain!rbb_status = {"UNUSED", "INITED", "PUT", "GET"}
  BY DEF Chain!rbb_status
<1>5. \A i \in 1 .. Len(blk_list) : status[blk_list[i]] # "UNUSED"
  BY <1>1, <1>3, SameTypes DEF Chain!Positions
<1>6. \A i, j \in 1 .. Len(blk_list) : blk_list[i] = blk_list[j] => i = j
  BY <1>1 DEF Chain!Positions
<1>7. \A b \in Rbb!blk_set :
         status[b] # "UNUSED" => \E i \in 1 .. Len(blk_list) : blk_list[i] = b
  BY <1>1, SameTypes DEF Chain!Positions
<1>. QED  BY <1>2, <1>3, <1>4, <1>5, <1>6, <1>7

\* With one draining task, who uses a block is known from its status.
LEMMA OneOfEach ==
  ASSUME Flushers = {}, CallsInv, BlocksInv
  PROVE  /\ \A b \in Rbb!blk_set : status[b] = "GET" => blk[Async] = b /\ pc[Async] \in Draining
         /\ \A b \in Rbb!blk_set : status[b] = "INITED" =>
               \E t \in Loggers : blk[t] = b /\ pc[t] \in Filling /\ output_locker = t
<1>1. ASSUME NEW b \in Rbb!blk_set, status[b] = "GET"
      PROVE  blk[Async] = b /\ pc[Async] \in Draining
  <2>1. PICK t \in Tasks : blk[t] = b
    BY <1>1 DEF BlocksInv, BlockUse
  <2>2. b # None
    BY NoneAssumption DEF Rbb!blk_set
  <2>3. pc[t] \in Draining
    BY <1>1, <2>1, <2>2 DEF BlocksInv, BlockUse
  <2>4. t \in Drainers
    BY <2>3, Roles DEF BlocksInv, Control, Draining, LogPlaces, RawPlaces
  <2>. QED  BY <2>1, <2>3, <2>4 DEF Drainers
<1>2. ASSUME NEW b \in Rbb!blk_set, status[b] = "INITED"
      PROVE  \E t \in Loggers : blk[t] = b /\ pc[t] \in Filling /\ output_locker = t
  <2>1. PICK t \in Tasks : blk[t] = b
    BY <1>2 DEF BlocksInv, BlockUse
  <2>2. b # None
    BY NoneAssumption DEF Rbb!blk_set
  <2>3. pc[t] \in Filling
    BY <1>2, <2>1, <2>2 DEF BlocksInv, BlockUse
  <2>4. t \in Loggers
    BY <2>3, Roles DEF BlocksInv, Control, Filling, RawPlaces, DrainPlaces, WaitPlaces, Drainers
  <2>5. output_locker = t
    BY <2>3, <2>4, Roles DEF CallsInv, MutexHeld, Filling, Section
  <2>. QED  BY <2>1, <2>3, <2>4, <2>5
<1>. QED  BY <1>1, <1>2

\* Every step keeps that order of the chain.
LEMMA NextChainOrder ==
  ASSUME Flushers = {}, DeliveryInv, ChainOrder, [Next]_vars
  PROVE  ChainOrder'
<1>0. /\ CallsInv /\ BlocksInv /\ Control
      /\ Len(blk_list) \in Nat /\ blk_list \in Seq(Rbb!blk_set)
      /\ status \in [Rbb!blk_set -> {"UNUSED", "INITED", "PUT", "GET"}]
      /\ \A i \in 1 .. Len(blk_list) :
            blk_list[i] \in Rbb!blk_set /\ status[blk_list[i]] # "UNUSED"
      /\ \A i, j \in 1 .. Len(blk_list) : blk_list[i] = blk_list[j] => i = j
  BY BlocksOnChain DEF DeliveryInv, CallsInv
<1>1. ASSUME NEW t \in Loggers, TakeFrame(t) PROVE ChainOrder'
  <2>1. PICK n \in BlkSizes : \E at : Chain!AllocBlock(n, at)
    BY <1>1 DEF TakeFrame
  <2>2. PICK at : Chain!AllocBlock(n, at)
    BY <2>1
  <2>3. PICK new \in Rbb!blk_set :
          /\ status[new] = "UNUSED"
          /\ status' = [status EXCEPT ![new] = "INITED"]
          /\ blk_list' = Append(blk_list, new)
    BY <2>2, SameTypes, Chain!AllocStep, Assumed DEF DeliveryInv, BlocksInv
  <2>4. pc[t] = "do_output" /\ t \in Callers
    BY <1>1, Roles DEF TakeFrame, Step
  <2>5. \A b \in Rbb!blk_set : status[b] # "INITED"
    <3>1. output_locker = t
      BY <2>4, <1>0 DEF CallsInv, MutexHeld, Section
    <3>. QED  BY <2>4, <3>1, <1>0, OneOfEach DEF Filling
  <2>6. /\ Len(blk_list') = Len(blk_list) + 1
        /\ \A i \in 1 .. Len(blk_list) : blk_list'[i] = blk_list[i]
        /\ blk_list'[Len(blk_list) + 1] = new
    BY <1>0, <2>3, AppendProperties
  <2>7. \A i \in 1 .. Len(blk_list) : status'[blk_list'[i]] = status[blk_list[i]]
    BY <1>0, <2>3, <2>6
  <2>8. ASSUME NEW i \in 1 .. Len(blk_list')
        PROVE  /\ status'[blk_list'[i]] = "GET" => i = 1
               /\ status'[blk_list'[i]] = "INITED" => i = Len(blk_list')
    <3>1. CASE i \in 1 .. Len(blk_list)
      BY <3>1, <1>0, <2>5, <2>7 DEF ChainOrder
    <3>2. CASE i = Len(blk_list) + 1
      <4>1. status'[new] = "INITED"
        BY <1>0, <2>3
      <4>. QED  BY <3>2, <4>1, <2>6
    <3>. QED  BY <3>1, <3>2, <2>6, <1>0
  <2>. QED  BY <2>8 DEF ChainOrder
<1>2. ASSUME NEW t \in Loggers, PutFrame(t) PROVE ChainOrder'
  <2>1. UNCHANGED blk_list /\ status' = [status EXCEPT ![blk[t]] = "PUT"]
    BY <1>2 DEF PutFrame, Rbb!rbb_blk_put
  <2>2. \A b \in Rbb!blk_set : status'[b] \in {status[b], "PUT"}
    BY <1>0, <2>1
  <2>. QED  BY <2>1, <2>2, <1>0 DEF ChainOrder
<1>3. ASSUME NEW t \in Drainers, GetBlock(t) PROVE ChainOrder'
  <2>1. t = Async /\ pc[Async] = "get"
    BY <1>3 DEF Drainers, GetBlock, Step
  <2>2. PICK b \in Rbb!blk_set : Rbb!rbb_blk_get(b)
    BY <1>3 DEF GetBlock
  <2>3. PICK i \in 1 .. Len(blk_list) : Rbb!IsFirstPut(i) /\ b = blk_list[i]
    BY <2>2 DEF Rbb!rbb_blk_get
  <2>4. /\ status' = [status EXCEPT ![b] = "GET"] /\ UNCHANGED blk_list
        /\ \A j \in 1 .. i - 1 : status[blk_list[j]] # "PUT"
    BY <2>2, <2>3 DEF Rbb!rbb_blk_get, Rbb!IsFirstPut
  <2>5. \A c \in Rbb!blk_set : status[c] # "GET"
    BY <2>1, <1>0, OneOfEach DEF Draining
  <2>6. i = 1
    <3>1. SUFFICES ASSUME i # 1 PROVE FALSE
      OBVIOUS
    <3>2. 1 \in 1 .. i - 1 /\ 1 \in 1 .. Len(blk_list) /\ 1 # Len(blk_list)
      BY <3>1, <1>0
    <3>3. blk_list[1] \in Rbb!blk_set /\ status[blk_list[1]] \notin {"UNUSED", "PUT", "GET"}
      BY <3>2, <1>0, <2>4, <2>5
    <3>. QED  BY <3>2, <3>3, <1>0 DEF ChainOrder
  <2>7. ASSUME NEW j \in 1 .. Len(blk_list')
        PROVE  /\ status'[blk_list'[j]] = "GET" => j = 1
               /\ status'[blk_list'[j]] = "INITED" => j = Len(blk_list')
    <3>1. CASE j = 1
      <4>1. status'[blk_list'[j]] = "GET"
        BY <3>1, <1>0, <2>3, <2>4, <2>6
      <4>. QED  BY <3>1, <4>1
    <3>2. CASE j # 1
      <4>1. blk_list[j] # b
        BY <3>2, <1>0, <2>3, <2>4, <2>6
      <4>2. status'[blk_list'[j]] = status[blk_list[j]]
        BY <4>1, <1>0, <2>4
      <4>. QED  BY <4>2, <2>4 DEF ChainOrder
    <3>. QED  BY <3>1, <3>2
  <2>. QED  BY <2>7 DEF ChainOrder
<1>4. ASSUME NEW t \in Drainers, FreeBlock(t) PROVE ChainOrder'
  <2>1. PICK b \in Rbb!blk_set : b = blk[t] /\ status[b] = "GET"
    BY <1>4, <1>0, Roles DEF FreeBlock, Step, BlocksInv, BlockUse, Draining
  <2>2. Chain!rbb_blk_free(b)
    BY <1>4, <2>1, SameUse DEF FreeBlock
  <2>3. PICK r \in 1 .. Len(blk_list) :
          /\ blk_list[r] = b
          /\ Len(blk_list') = Len(blk_list) - 1
          /\ \A i \in 1 .. Len(blk_list) - 1 :
                blk_list'[i] = IF i < r THEN blk_list[i] ELSE blk_list[i + 1]
          /\ status' = [status EXCEPT ![b] = "UNUSED"]
    BY <2>2, <1>0, SameTypes, Chain!FreeStep, Assumed DEF BlocksInv
  <2>4. r = 1
    BY <2>1, <2>3 DEF ChainOrder
  <2>5. ASSUME NEW i \in 1 .. Len(blk_list')
        PROVE  /\ status'[blk_list'[i]] = "GET" => i = 1
               /\ status'[blk_list'[i]] = "INITED" => i = Len(blk_list')
    <3>1. i + 1 \in 1 .. Len(blk_list) /\ i + 1 # 1 /\ i \in 1 .. Len(blk_list) - 1
      BY <1>0, <2>3
    <3>2. blk_list'[i] = blk_list[i + 1]
      BY <3>1, <2>3, <2>4
    <3>3. blk_list[i + 1] # b /\ blk_list[i + 1] \in Rbb!blk_set
      BY <3>1, <1>0, <2>3, <2>4
    <3>4. status'[blk_list'[i]] = status[blk_list[i + 1]]
      BY <3>2, <3>3, <1>0, <2>3
    <3>5. /\ status[blk_list[i + 1]] # "GET"
          /\ status[blk_list[i + 1]] = "INITED" => i + 1 = Len(blk_list)
      BY <3>1 DEF ChainOrder
    <3>. QED  BY <3>1, <3>4, <3>5, <2>3, <1>0
  <2>. QED  BY <2>5 DEF ChainOrder
<1>5. ASSUME NoBlockTaken PROVE ChainOrder'
  <2>1. UNCHANGED <<status, blk_list>>
    BY <1>5 DEF NoBlockTaken, rbb, Chain!AllocNoSpace
  <2>. QED  BY <2>1 DEF ChainOrder
<1>6. ASSUME NEW t, FillFrame(t) \/ OutputBlock(t) PROVE ChainOrder'
  <2>1. UNCHANGED <<status, blk_list>>
    BY <1>6 DEF FillFrame, OutputBlock, rbb
  <2>. QED  BY <2>1 DEF ChainOrder
<1>. QED  BY <1>0, <1>1, <1>2, <1>3, <1>4, <1>5, <1>6, BlockSteps, Zenon

\* The frames that wait are whole, each with its line.
LEMMA FramesAreLines ==
  ASSUME DeliveryInv
  PROVE  /\ DOMAIN frames = {b \in Rbb!blk_set : Waits(b)}
         /\ \A b \in DOMAIN frames :
               b \in Rbb!blk_set /\ Written(b) /\ frames[b] = LineIn(b) /\ LineIn(b) \in Lines
<1>1. DOMAIN frames = {b \in Rbb!blk_set : Waits(b)}
  BY DEF frames
<1>2. \A b \in DOMAIN frames : frames[b] = Frame(b)
  BY DEF frames
<1>3. ASSUME NEW b \in DOMAIN frames
      PROVE  Written(b) /\ Frame(b) = LineIn(b) /\ LineIn(b) \in Lines
  <2>1. b \in Rbb!blk_set /\ Waits(b)
    BY <1>1
  <2>2. Written(b)
    BY <2>1 DEF Waits, Written
  <2>3. LineIn(b) \in Lines /\ \A o \in Units(b) : arena[o] = LineIn(b)
    BY <2>1, <2>2 DEF DeliveryInv, LinesInv, FramesWhole
  <2>. QED  BY <2>2, <2>3 DEF Frame, LineIn
<1>. QED  BY <1>1, <1>2, <1>3

\* A step that keeps the blocks that wait and their frames.
LEMMA FramesStay ==
  ASSUME \A b \in Rbb!blk_set : Waits(b)' <=> Waits(b),
         \A b \in Rbb!blk_set : Waits(b) => Frame(b)' = Frame(b)
  PROVE  frames' = frames
<1>1. {b \in Rbb!blk_set : Waits(b)'} = {b \in Rbb!blk_set : Waits(b)}
  OBVIOUS
<1>2. frames' = [b \in {c \in Rbb!blk_set : Waits(c)'} |-> Frame(b)']
  BY DEF frames, Rbb!blk_set
<1>. QED  BY <1>1, <1>2 DEF frames

\* The blocks that wait are a run of the chain.
LEMMA RunThere ==
  ASSUME Flushers = {}, FifoInv
  PROVE  \E lo, hi :
            /\ IsRun(blk_list, frames, lo, hi)
            /\ blk_list # << >> /\ status[blk_list[Len(blk_list)]] = "INITED" => hi = Len(blk_list) - 1
            /\ blk_list # << >> /\ status[blk_list[1]] = "GET" =>
                  lo = (IF Waits(blk_list[1]) THEN 0 ELSE 1) /\ hi # 0
<1>0. /\ CallsInv /\ BlocksInv /\ Len(blk_list) \in Nat /\ blk_list \in Seq(Rbb!blk_set)
      /\ status \in [Rbb!blk_set -> {"UNUSED", "INITED", "PUT", "GET"}]
      /\ \A i \in 1 .. Len(blk_list) :
            blk_list[i] \in Rbb!blk_set /\ status[blk_list[i]] # "UNUSED"
  BY BlocksOnChain DEF FifoInv, DeliveryInv
<1>1. \A i \in 1 .. Len(blk_list) : blk_list[i] \in DOMAIN frames <=> Waits(blk_list[i])
  BY <1>0 DEF frames
<1>2. \A b \in Rbb!blk_set : status[b] = "PUT" => Waits(b)
  BY DEF Waits
<1>3. ASSUME NEW b \in Rbb!blk_set, status[b] = "INITED" PROVE ~ Waits(b)
  <2>1. ASSUME NEW t \in Tasks, blk[t] = b, pc[t] = "output" PROVE FALSE
    BY <1>0, <1>3, <2>1 DEF BlocksInv, BlockUse, Draining
  <2>. QED  BY <1>3, <2>1 DEF Waits
<1>4. PICK L \in Nat : L = Len(blk_list)
  BY <1>0
<1>5. blk_list # << >> <=> L # 0
  BY <1>0, <1>4, EmptySeq
<1>6. PICK hi : hi = IF L # 0 /\ status[blk_list[L]] = "INITED" THEN L - 1 ELSE L
  OBVIOUS
<1>7. PICK lo : lo = IF L # 0 /\ status[blk_list[1]] = "GET" /\ ~ Waits(blk_list[1]) THEN 1 ELSE 0
  OBVIOUS
<1>8. L # 0 /\ status[blk_list[1]] = "GET" => hi # 0
  BY <1>4, <1>6
<1>9. hi \in Nat /\ lo \in Nat /\ lo <= hi /\ hi <= L
  BY <1>6, <1>7, <1>8
<1>10. ASSUME NEW i \in 1 .. L PROVE Waits(blk_list[i]) <=> (lo < i /\ i <= hi)
  <2>1. /\ blk_list[i] \in Rbb!blk_set
        /\ status[blk_list[i]] \in {"INITED", "PUT", "GET"}
        /\ status[blk_list[i]] = "GET" => i = 1
        /\ status[blk_list[i]] = "INITED" => i = L
        /\ L # 0
    BY <1>0, <1>4 DEF FifoInv, ChainOrder
  <2>2. CASE status[blk_list[i]] = "PUT"
    <3>1. i <= hi
      BY <2>2, <1>6
    <3>2. lo < i
      BY <2>2, <1>7
    <3>. QED  BY <3>1, <3>2, <2>1, <2>2, <1>2
  <2>3. CASE status[blk_list[i]] = "GET"
    <3>1. i = 1 /\ hi # 0 /\ hi \in Nat /\ L # 0
      BY <2>1, <2>3, <1>8, <1>9
    <3>2. lo < 1 <=> Waits(blk_list[1])
      <4>1. CASE Waits(blk_list[1])
        BY <4>1, <1>7
      <4>2. CASE ~ Waits(blk_list[1])
        BY <4>2, <3>1, <2>3, <1>7
      <4>. QED  BY <4>1, <4>2
    <3>3. i <= hi
      BY <3>1
    <3>. QED  BY <3>1, <3>2, <3>3
  <2>4. CASE status[blk_list[i]] = "INITED"
    <3>1. ~ (i <= hi)
      BY <2>1, <2>4, <1>6
    <3>. QED  BY <3>1, <2>1, <2>4, <1>3
  <2>. QED  BY <2>1, <2>2, <2>3, <2>4
<1>11. IsRun(blk_list, frames, lo, hi)
  BY <1>1, <1>4, <1>9, <1>10 DEF IsRun
<1>12. L # 0 /\ status[blk_list[L]] = "INITED" => hi = L - 1
  BY <1>6
<1>13. L # 0 /\ status[blk_list[1]] = "GET" => lo = (IF Waits(blk_list[1]) THEN 0 ELSE 1)
  BY <1>7
<1>14. blk_list # << >> /\ status[blk_list[Len(blk_list)]] = "INITED" => hi = Len(blk_list) - 1
  BY <1>4, <1>5, <1>12, Zenon
<1>15. blk_list # << >> /\ status[blk_list[1]] = "GET" =>
          lo = (IF Waits(blk_list[1]) THEN 0 ELSE 1) /\ hi # 0
  BY <1>5, <1>8, <1>13, Zenon
<1>. QED  BY <1>11, <1>14, <1>15, Zenon

\* The frames that wait hold lines.
LEMMA FramesTyped == DeliveryInv => ValuesIn(frames, Lines)
BY FramesAreLines DEF ValuesIn

\* A step whose runs show equal lines keeps the queue.
LEMMA SameQueue ==
  ASSUME DeliveryInv, DeliveryInv',
         NEW lo, NEW hi, IsRun(blk_list, frames, lo, hi),
         NEW lo1, NEW hi1, IsRun(blk_list', frames', lo1, hi1), hi1 - lo1 = hi - lo,
         \A k \in 1 .. hi - lo : frames'[blk_list'[lo1 + k]] = frames[blk_list[lo + k]]
  PROVE  queue' = queue
<1>1. HasRun(queue, blk_list, frames, lo, hi, Lines)
  <2>1. ValuesIn(frames, Lines)
    BY FramesTyped
  <2>2. HasRun(Along(blk_list, frames), blk_list, frames, lo, hi, Lines)
    BY <2>1, AlongRun
  <2>. QED  BY <2>2, Zenon DEF queue
<1>2. HasRun(queue', blk_list', frames', lo1, hi1, Lines)
  <2>1. ValuesIn(frames, Lines)'
    BY FramesTyped, PTL
  <2>2. ValuesIn(frames', Lines)
    BY <2>1, Zenon DEF ValuesIn, Lines
  <2>3. HasRun(Along(blk_list', frames'), blk_list', frames', lo1, hi1, Lines)
    BY <2>2, AlongRun
  <2>. QED  BY <2>3, Zenon DEF queue
<1>3. queue \in Seq(Lines) /\ queue' \in Seq(Lines) /\ Len(queue) = Len(queue')
  BY <1>1, <1>2 DEF HasRun
<1>4. ASSUME NEW k \in 1 .. Len(queue) PROVE queue[k] = queue'[k]
  BY <1>1, <1>2, <1>4 DEF HasRun
<1>. QED  BY <1>3, <1>4, SeqEqual

\* Frames of blocks that are neither moved nor written to.
LEMMA FrameStays ==
  ASSUME NEW b, UNCHANGED arena, buf'[b] = buf[b], size'[b] = size[b]
  PROVE  Frame(b)' = Frame(b)
<1>1. Units(b)' = Units(b)
  BY DEF Units, Rbb!End
<1>. QED  BY <1>1 DEF Frame

\* A block that is allocated goes behind those that wait.
LEMMA TakeKeepsQueue ==
  ASSUME Flushers = {}, FifoInv, DeliveryInv', NEW t \in Loggers, TakeFrame(t)
  PROVE  queue' = queue
<1>0. /\ DeliveryInv /\ BlocksInv /\ Control /\ BlockUse
      /\ Len(blk_list) \in Nat /\ blk_list \in Seq(Rbb!blk_set)
      /\ status \in [Rbb!blk_set -> {"UNUSED", "INITED", "PUT", "GET"}]
      /\ \A i \in 1 .. Len(blk_list) : blk_list[i] \in Rbb!blk_set
  BY BlocksOnChain DEF FifoInv, DeliveryInv, BlocksInv
<1>1. PICK n \in BlkSizes : \E at : Chain!AllocBlock(n, at)
  BY DEF TakeFrame
<1>2. PICK at : Chain!AllocBlock(n, at)
  BY <1>1
<1>3. PICK new \in Rbb!blk_set :
        /\ status[new] = "UNUSED"
        /\ \A i \in 1 .. Len(blk_list) : blk_list[i] # new
        /\ blk_list' = Append(blk_list, new)
        /\ status' = [status EXCEPT ![new] = "INITED"]
        /\ buf' = [buf EXCEPT ![new] = at]
        /\ size' = [size EXCEPT ![new] = n]
        /\ new = free_list[1]
  BY <1>2, <1>0, SameTypes, Chain!AllocStep, Assumed DEF BlocksInv
<1>4. buf \in [Rbb!blk_set -> Nat] /\ size \in [Rbb!blk_set -> Nat]
  BY <1>0, SameTypes DEF BlocksInv, Chain!ListInv, Chain!TypeOK
<1>5. /\ t \in Tasks /\ pc[t] = "do_output" /\ pc'[t] = "fill"
      /\ \A u \in Tasks : u # t => pc'[u] = pc[u] /\ blk'[u] = blk[u]
      /\ UNCHANGED arena
  BY <1>0, Roles DEF TakeFrame, Step, Control, BlockUse
<1>6. ASSUME NEW b \in Rbb!blk_set PROVE Waits(b)' <=> Waits(b)
  <2>1. status'[b] = "PUT" <=> status[b] = "PUT"
    BY <1>0, <1>3
  <2>2. \A u \in Tasks : (blk'[u] = b /\ pc'[u] = "output") <=> (blk[u] = b /\ pc[u] = "output")
    BY <1>5
  <2>. QED  BY <2>1, <2>2 DEF Waits
<1>7. ~ Waits(new)
  <2>1. \A u \in Tasks : ~ (blk[u] = new /\ pc[u] = "output")
    BY <1>0, <1>3 DEF BlockUse, Draining
  <2>. QED  BY <2>1, <1>3 DEF Waits
<1>8. ASSUME NEW b \in Rbb!blk_set, Waits(b) PROVE Frame(b)' = Frame(b)
  <2>1. b # new
    BY <1>7, <1>8
  <2>2. buf'[b] = buf[b] /\ size'[b] = size[b]
    BY <2>1, <1>3, <1>4
  <2>. QED  BY <2>2, <1>5, FrameStays
<1>9. frames' = frames /\ new \notin DOMAIN frames
  BY <1>0, <1>6, <1>7, <1>8, FramesStay, FramesAreLines
<1>10. PICK lo, hi : IsRun(blk_list, frames, lo, hi)
  BY RunThere
<1>11. /\ Len(blk_list') = Len(blk_list) + 1
       /\ \A i \in 1 .. Len(blk_list) : blk_list'[i] = blk_list[i]
       /\ blk_list'[Len(blk_list) + 1] = new
  BY <1>0, <1>3, AppendProperties
<1>12. /\ lo \in Nat /\ hi \in Nat /\ lo <= hi /\ hi <= Len(blk_list)
       /\ \A i \in 1 .. Len(blk_list) : blk_list[i] \in DOMAIN frames <=> (lo < i /\ i <= hi)
  BY <1>10 DEF IsRun
<1>13. IsRun(blk_list', frames', lo, hi)
  <2>1. ASSUME NEW i \in 1 .. Len(blk_list')
        PROVE  blk_list'[i] \in DOMAIN frames <=> (lo < i /\ i <= hi)
    <3>1. CASE i \in 1 .. Len(blk_list)
      BY <3>1, <1>11, <1>12
    <3>2. CASE i = Len(blk_list) + 1
      <4>1. ~ (i <= hi)
        BY <3>2, <1>0, <1>12
      <4>. QED  BY <3>2, <4>1, <1>9, <1>11
    <3>. QED  BY <3>1, <3>2, <1>0, <1>11
  <2>2. Len(blk_list') \in Nat /\ hi <= Len(blk_list')
    BY <1>0, <1>11, <1>12
  <2>. QED  BY <2>1, <2>2, <1>9, <1>12 DEF IsRun
<1>14. \A k \in 1 .. hi - lo : frames'[blk_list'[lo + k]] = frames[blk_list[lo + k]]
  <2>1. \A k \in 1 .. hi - lo : lo + k \in 1 .. Len(blk_list)
    BY <1>0, <1>12
  <2>. QED  BY <2>1, <1>9, <1>11
<1>. QED  BY <1>0, <1>10, <1>13, <1>14, SameQueue

\* A block that is freed was in front of those that wait.
LEMMA FreeKeepsQueue ==
  ASSUME Flushers = {}, FifoInv, DeliveryInv', NEW t \in Drainers, FreeBlock(t)
  PROVE  queue' = queue
<1>0. /\ DeliveryInv /\ BlocksInv /\ Control /\ BlockUse /\ ChainOrder
      /\ Len(blk_list) \in Nat /\ blk_list \in Seq(Rbb!blk_set)
      /\ status \in [Rbb!blk_set -> {"UNUSED", "INITED", "PUT", "GET"}]
      /\ \A i \in 1 .. Len(blk_list) : blk_list[i] \in Rbb!blk_set
  BY BlocksOnChain DEF FifoInv, DeliveryInv, BlocksInv
<1>1. /\ t \in Tasks /\ pc[t] = "free" /\ pc'[t] = "get"
      /\ \A u \in Tasks : u # t => pc'[u] = pc[u] /\ blk'[u] = blk[u]
      /\ blk'[t] = None /\ UNCHANGED arena
  BY <1>0, Roles DEF FreeBlock, Step, Control, BlockUse
<1>2. PICK b \in Rbb!blk_set : b = blk[t] /\ b # None /\ status[b] = "GET"
  BY <1>0, <1>1 DEF BlockUse, Draining
<1>3. Chain!rbb_blk_free(b)
  BY <1>2, SameUse DEF FreeBlock
<1>4. PICK r \in 1 .. Len(blk_list) :
        /\ blk_list[r] = b
        /\ Len(blk_list') = Len(blk_list) - 1
        /\ \A i \in 1 .. Len(blk_list) - 1 :
              blk_list'[i] = IF i < r THEN blk_list[i] ELSE blk_list[i + 1]
        /\ status' = [status EXCEPT ![b] = "UNUSED"]
        /\ UNCHANGED <<buf, size>>
  BY <1>3, <1>0, SameTypes, Chain!FreeStep, Assumed DEF BlocksInv
<1>5. r = 1
  BY <1>0, <1>2, <1>4 DEF ChainOrder
<1>6. ~ Waits(b)
  <2>1. \A u \in Tasks : blk[u] = b => u = t
    BY <1>0, <1>1, <1>2 DEF BlockUse
  <2>. QED  BY <2>1, <1>1, <1>2 DEF Waits
<1>7. ASSUME NEW c \in Rbb!blk_set PROVE Waits(c)' <=> Waits(c)
  <2>1. status'[c] = "PUT" <=> status[c] = "PUT"
    BY <1>0, <1>2, <1>4
  <2>2. \A u \in Tasks : (blk'[u] = c /\ pc'[u] = "output") <=> (blk[u] = c /\ pc[u] = "output")
    BY <1>1
  <2>. QED  BY <2>1, <2>2 DEF Waits
<1>8. ASSUME NEW c \in Rbb!blk_set PROVE Frame(c)' = Frame(c)
  BY <1>1, <1>4, FrameStays
<1>9. frames' = frames
  BY <1>7, <1>8, FramesStay
<1>10. blk_list # << >>
  BY <1>0, <1>4, EmptySeq
<1>11. PICK lo, hi : IsRun(blk_list, frames, lo, hi) /\ lo = 1 /\ hi # 0
  BY <1>2, <1>4, <1>5, <1>6, <1>10, RunThere
<1>12. /\ hi \in Nat /\ 1 <= hi /\ hi <= Len(blk_list)
       /\ \A i \in 1 .. Len(blk_list) : blk_list[i] \in DOMAIN frames <=> (1 < i /\ i <= hi)
  BY <1>11 DEF IsRun
<1>13. \A i \in 1 .. Len(blk_list) - 1 : blk_list'[i] = blk_list[i + 1]
  BY <1>4, <1>5
<1>14. IsRun(blk_list', frames', 0, hi - 1)
  <2>1. ASSUME NEW i \in 1 .. Len(blk_list')
        PROVE  blk_list'[i] \in DOMAIN frames <=> (0 < i /\ i <= hi - 1)
    <3>1. i + 1 \in 1 .. Len(blk_list) /\ i \in 1 .. Len(blk_list) - 1
      BY <1>0, <1>4
    <3>2. blk_list'[i] \in DOMAIN frames <=> (1 < i + 1 /\ i + 1 <= hi)
      BY <3>1, <1>12, <1>13
    <3>. QED  BY <3>1, <3>2, <1>12
  <2>2. Len(blk_list') \in Nat /\ hi - 1 <= Len(blk_list') /\ hi - 1 \in Nat
    BY <1>0, <1>4, <1>12
  <2>. QED  BY <2>1, <2>2, <1>9 DEF IsRun
<1>15. \A k \in 1 .. hi - lo : frames'[blk_list'[0 + k]] = frames[blk_list[lo + k]]
  <2>1. ASSUME NEW k \in 1 .. hi - 1 PROVE frames'[blk_list'[0 + k]] = frames[blk_list[1 + k]]
    <3>1. k \in 1 .. Len(blk_list) - 1 /\ 0 + k = k /\ 1 + k = k + 1
      BY <1>0, <1>12
    <3>. QED  BY <3>1, <1>9, <1>13
  <2>. QED  BY <2>1, <1>11
<1>16. (hi - 1) - 0 = hi - lo
  BY <1>11, <1>12
<1>. QED  BY <1>0, <1>11, <1>14, <1>15, <1>16, SameQueue

\* A step that neither moves the chain nor lets a frame wait or stop waiting.
LEMMA QuietKeepsQueue ==
  ASSUME UNCHANGED blk_list,
         \A b \in Rbb!blk_set : Waits(b)' <=> Waits(b),
         \A b \in Rbb!blk_set : Waits(b) => Frame(b)' = Frame(b)
  PROVE  queue' = queue
<1>1. frames' = frames
  BY FramesStay
<1>. QED  BY <1>1, Zenon DEF queue

\* A frame is packed in a block that does not wait and shares no unit with one that does.
LEMMA FillKeepsQueue ==
  ASSUME FifoInv, NEW t \in Loggers, FillFrame(t)
  PROVE  queue' = queue
<1>0. /\ DeliveryInv /\ BlocksInv /\ Control /\ BlockUse /\ Chain!ArenaInv /\ ArenaTyped
      /\ status \in [Rbb!blk_set -> {"UNUSED", "INITED", "PUT", "GET"}]
  BY BlocksOnChain DEF FifoInv, DeliveryInv, BlocksInv, LinesInv
<1>1. /\ t \in Tasks /\ pc[t] = "fill" /\ pc'[t] = "put"
      /\ \A u \in Tasks : u # t => pc'[u] = pc[u]
      /\ UNCHANGED <<status, buf, size, blk_list, blk>>
      /\ arena' = [o \in DOMAIN arena |-> IF o \in Units(blk[t]) THEN log_buf_th ELSE arena[o]]
  BY <1>0, Roles DEF FillFrame, Step, Control, rbb
<1>2. PICK b \in Rbb!blk_set : b = blk[t] /\ status[b] = "INITED"
  BY <1>0, <1>1 DEF BlockUse, Filling
<1>3. ASSUME NEW c \in Rbb!blk_set PROVE Waits(c)' <=> Waits(c)
  BY <1>1 DEF Waits
<1>4. ASSUME NEW c \in Rbb!blk_set, Waits(c) PROVE Frame(c)' = Frame(c)
  <2>1. c # b /\ status[c] # "UNUSED"
    <3>1. CASE status[c] = "PUT"
      BY <3>1, <1>2
    <3>2. ASSUME NEW u \in Tasks, blk[u] = c, pc[u] = "output" PROVE status[c] = "GET"
      BY <3>2, <1>0 DEF BlockUse, Draining
    <3>. QED  BY <3>1, <3>2, <1>2, <1>4 DEF Waits
  <2>2. /\ Units(b) \cap Units(c) = {} /\ buf[c] \in Units(c)
        /\ Units(c) \subseteq 0 .. (BufSize - 1)
    BY <2>1, <1>0, <1>2, BlocksApart
  <2>3. Units(c)' = Units(c)
    BY <1>1 DEF Units, Rbb!End
  <2>4. \A o \in Units(c) : arena'[o] = arena[o]
    BY <2>2, <1>0, <1>1, <1>2 DEF ArenaTyped
  <2>. QED  BY <2>2, <2>3, <2>4, <1>1 DEF Frame
<1>. QED  BY <1>1, <1>3, <1>4, QuietKeepsQueue

\* A block that is taken from the chain to be drained waits on.
LEMMA GetKeepsQueue ==
  ASSUME FifoInv, NEW t \in Drainers, GetBlock(t)
  PROVE  queue' = queue
<1>0. /\ BlocksInv /\ Control /\ BlockUse
      /\ status \in [Rbb!blk_set -> {"UNUSED", "INITED", "PUT", "GET"}]
  BY BlocksOnChain DEF FifoInv, DeliveryInv, BlocksInv
<1>1. PICK b \in Rbb!blk_set : Rbb!rbb_blk_get(b) /\ blk' = [blk EXCEPT ![t] = b]
  BY DEF GetBlock
<1>2. /\ status[b] = "PUT" /\ status' = [status EXCEPT ![b] = "GET"]
      /\ UNCHANGED <<buf, size, blk_list>>
  BY <1>1 DEF Rbb!rbb_blk_get, Rbb!IsFirstPut
<1>3. /\ t \in Tasks /\ pc[t] = "get" /\ pc'[t] = "output"
      /\ \A u \in Tasks : u # t => pc'[u] = pc[u] /\ blk'[u] = blk[u]
      /\ blk'[t] = b /\ UNCHANGED arena
  BY <1>0, <1>1, Roles DEF GetBlock, Step, Control, BlockUse
<1>4. ASSUME NEW c \in Rbb!blk_set PROVE Waits(c)' <=> Waits(c)
  <2>1. CASE c = b
    BY <2>1, <1>2, <1>3 DEF Waits
  <2>2. CASE c # b
    <3>1. status'[c] = status[c]
      BY <2>2, <1>0, <1>2
    <3>2. \A u \in Tasks :
             (blk'[u] = c /\ pc'[u] = "output") <=> (blk[u] = c /\ pc[u] = "output")
      BY <2>2, <1>3
    <3>. QED  BY <3>1, <3>2 DEF Waits
  <2>. QED  BY <2>1, <2>2
<1>5. ASSUME NEW c \in Rbb!blk_set PROVE Frame(c)' = Frame(c)
  BY <1>2, <1>3, FrameStays
<1>. QED  BY <1>2, <1>4, <1>5, QuietKeepsQueue

\* A step that takes, fills, puts, gets or frees no block.
LEMMA OtherKeepsQueue ==
  ASSUME NoBlockTaken
  PROVE  queue' = queue
<1>1. UNCHANGED <<arena, status, buf, size, blk_list, blk>>
  BY DEF NoBlockTaken, rbb, Chain!AllocNoSpace
<1>2. \A u \in Tasks : pc'[u] = "output" <=> pc[u] = "output"
  BY DEF NoBlockTaken, Draining
<1>3. ASSUME NEW b \in Rbb!blk_set PROVE Waits(b)' <=> Waits(b)
  BY <1>1, <1>2 DEF Waits
<1>4. ASSUME NEW b \in Rbb!blk_set PROVE Frame(b)' = Frame(b)
  BY <1>1, FrameStays
<1>. QED  BY <1>1, <1>3, <1>4, QuietKeepsQueue

\* A block that is put brings a new line to the end of the queue.
LEMMA PutAccepts ==
  ASSUME Flushers = {}, FifoInv, DeliveryInv', UNCHANGED delivered,
         NEW t \in Loggers, PutFrame(t)
  PROVE  \E m \in Lines : Fifo!Accept(m)
<1>0. /\ DeliveryInv /\ BlocksInv /\ Control /\ BlockUse /\ ChainOrder
      /\ Len(blk_list) \in Nat /\ blk_list \in Seq(Rbb!blk_set)
      /\ status \in [Rbb!blk_set -> {"UNUSED", "INITED", "PUT", "GET"}]
      /\ \A i \in 1 .. Len(blk_list) : blk_list[i] \in Rbb!blk_set
      /\ \A i, j \in 1 .. Len(blk_list) : blk_list[i] = blk_list[j] => i = j
  BY BlocksOnChain DEF FifoInv, DeliveryInv, BlocksInv
<1>1. PICK b \in Rbb!blk_set : b = blk[t] /\ b # None /\ status[b] = "INITED"
  BY <1>0, Roles DEF PutFrame, Step, BlockUse, Filling
<1>2. /\ t \in Tasks /\ pc[t] = "put" /\ pc'[t] = "give"
      /\ \A u \in Tasks : u # t => pc'[u] = pc[u] /\ blk'[u] = blk[u]
      /\ blk'[t] = None
      /\ status' = [status EXCEPT ![b] = "PUT"]
      /\ UNCHANGED <<arena, buf, size, blk_list>>
  BY <1>0, <1>1, Roles DEF PutFrame, Rbb!rbb_blk_put, Step, Control, BlockUse
<1>3. Written(b) /\ ~ Waits(b)
  <2>1. \A u \in Tasks : blk[u] = b => u = t
    BY <1>0, <1>1, <1>2 DEF BlockUse
  <2>. QED  BY <2>1, <1>1, <1>2 DEF Waits, Written
<1>4. ASSUME NEW c \in Rbb!blk_set PROVE Waits(c)' <=> (Waits(c) \/ c = b)
  <2>1. status'[c] = "PUT" <=> (status[c] = "PUT" \/ c = b)
    BY <1>0, <1>2
  <2>2. \A u \in Tasks : (blk'[u] = c /\ pc'[u] = "output") <=> (blk[u] = c /\ pc[u] = "output")
    <3>1. c # None
      BY NoneAssumption DEF Rbb!blk_set
    <3>. QED  BY <3>1, <1>2
  <2>. QED  BY <2>1, <2>2 DEF Waits
<1>5. \A c \in Rbb!blk_set : Frame(c)' = Frame(c)
  BY <1>2, FrameStays
<1>6. PICK m \in Lines : m = LineIn(b) /\ Frame(b) = m
  <2>1. LineIn(b) \in Lines /\ \A o \in Units(b) : arena[o] = LineIn(b)
    BY <1>0, <1>3 DEF DeliveryInv, LinesInv, FramesWhole
  <2>. QED  BY <2>1 DEF Frame, LineIn
<1>7. frames' = [c \in {d \in Rbb!blk_set : Waits(d)'} |-> Frame(c)']
  BY DEF frames, Rbb!blk_set
<1>8. /\ \A c \in Rbb!blk_set : c \in DOMAIN frames' <=> (c \in DOMAIN frames \/ c = b)
      /\ \A c \in DOMAIN frames : frames'[c] = frames[c]
      /\ frames'[b] = m /\ b \notin DOMAIN frames
  <2>1. DOMAIN frames' = {d \in Rbb!blk_set : Waits(d)'}
    BY <1>7
  <2>2. DOMAIN frames = {d \in Rbb!blk_set : Waits(d)} /\ \A c \in DOMAIN frames : frames[c] = Frame(c)
    BY DEF frames
  <2>3. \A c \in DOMAIN frames' : frames'[c] = Frame(c)'
    BY <1>7
  <2>. QED  BY <2>1, <2>2, <2>3, <1>3, <1>4, <1>5, <1>6
<1>9. blk_list # << >> /\ blk_list[Len(blk_list)] = b
  <2>1. PICK i \in 1 .. Len(blk_list) : blk_list[i] = b
    BY <1>0, <1>1, BlocksOnChain
  <2>2. i = Len(blk_list)
    BY <1>0, <1>1, <2>1 DEF ChainOrder
  <2>. QED  BY <1>0, <2>1, <2>2, EmptySeq
<1>10. PICK lo, hi : IsRun(blk_list, frames, lo, hi) /\ hi = Len(blk_list) - 1
  BY <1>1, <1>9, RunThere
<1>11. /\ lo \in Nat /\ hi \in Nat /\ lo <= hi
       /\ \A i \in 1 .. Len(blk_list) : blk_list[i] \in DOMAIN frames <=> (lo < i /\ i <= hi)
  BY <1>10 DEF IsRun
<1>12. IsRun(blk_list', frames', lo, hi + 1)
  <2>1. ASSUME NEW i \in 1 .. Len(blk_list)
        PROVE  blk_list[i] \in DOMAIN frames' <=> (lo < i /\ i <= hi + 1)
    <3>1. CASE i = Len(blk_list)
      BY <3>1, <1>0, <1>8, <1>9, <1>10, <1>11
    <3>2. CASE i # Len(blk_list)
      <4>1. blk_list[i] # b /\ i <= hi
        BY <3>2, <1>0, <1>9, <1>10
      <4>. QED  BY <4>1, <1>0, <1>8, <1>11
    <3>. QED  BY <3>1, <3>2
  <2>. QED  BY <2>1, <1>0, <1>2, <1>10, <1>11 DEF IsRun
<1>13. HasRun(queue, blk_list, frames, lo, hi, Lines)
  BY <1>0, <1>10, FramesTyped, AlongRun, Zenon DEF queue
<1>14. HasRun(queue', blk_list', frames', lo, hi + 1, Lines)
  <2>1. ValuesIn(frames, Lines)'
    BY FramesTyped, PTL
  <2>2. ValuesIn(frames', Lines)
    BY <2>1, Zenon DEF ValuesIn, Lines
  <2>3. HasRun(Along(blk_list', frames'), blk_list', frames', lo, hi + 1, Lines)
    BY <2>2, <1>12, AlongRun
  <2>. QED  BY <2>3, Zenon DEF queue
<1>15. queue' = Append(queue, m)
  <2>1. /\ queue \in Seq(Lines) /\ Len(queue) = hi - lo
        /\ queue' \in Seq(Lines) /\ Len(queue') = hi - lo + 1
    BY <1>11, <1>13, <1>14 DEF HasRun
  <2>2. /\ Append(queue, m) \in Seq(Lines) /\ Len(Append(queue, m)) = hi - lo + 1
        /\ \A k \in 1 .. hi - lo : Append(queue, m)[k] = queue[k]
        /\ Append(queue, m)[hi - lo + 1] = m
    BY <2>1, AppendProperties
  <2>3. ASSUME NEW k \in 1 .. hi - lo + 1 PROVE queue'[k] = Append(queue, m)[k]
    <3>1. queue'[k] = frames'[blk_list[lo + k]] /\ lo + k \in 1 .. Len(blk_list)
      BY <1>0, <1>2, <1>10, <1>11, <1>14 DEF HasRun
    <3>2. CASE k = hi - lo + 1
      <4>1. lo + k = Len(blk_list)
        BY <3>2, <1>0, <1>10, <1>11
      <4>. QED  BY <3>1, <3>2, <4>1, <1>8, <1>9, <2>2
    <3>3. CASE k # hi - lo + 1
      <4>1. k \in 1 .. hi - lo /\ lo < lo + k /\ lo + k <= hi
        BY <3>3, <1>11
      <4>2. blk_list[lo + k] \in DOMAIN frames
        BY <4>1, <3>1, <1>11
      <4>3. queue[k] = frames[blk_list[lo + k]]
        BY <4>1, <1>13 DEF HasRun
      <4>. QED  BY <3>1, <4>1, <4>2, <4>3, <1>8, <2>2
    <3>. QED  BY <3>2, <3>3
  <2>. QED  BY <2>1, <2>2, <2>3, SeqEqual
<1>16. m \notin Range(queue)
  <2>1. ASSUME NEW k \in 1 .. Len(queue) PROVE queue[k] # m
    <3>1. /\ queue[k] = frames[blk_list[lo + k]] /\ lo + k \in 1 .. Len(blk_list)
          /\ lo < lo + k /\ lo + k <= hi
      BY <2>1, <1>0, <1>10, <1>11, <1>13 DEF HasRun
    <3>2. blk_list[lo + k] \in DOMAIN frames
      BY <3>1, <1>11
    <3>3. PICK c \in Rbb!blk_set : c = blk_list[lo + k] /\ Written(c) /\ frames[c] = LineIn(c)
      BY <3>2, <1>0, FramesAreLines
    <3>4. c # b
      BY <3>2, <3>3, <1>8
    <3>. QED  BY <3>1, <3>3, <3>4, <1>0, <1>3, <1>6 DEF DeliveryInv, LinesInv, FramesDiffer
  <2>2. queue \in Seq(Lines)
    BY <1>13 DEF HasRun
  <2>. QED  BY <2>1, <2>2, RangeByPosition
<1>17. m \notin Range(delivered)
  <2>1. delivered \in Seq(Lines)
    BY <1>0 DEF DeliveryInv, LinesInv, OutputsDiffer
  <2>2. \A i \in 1 .. Len(delivered) : delivered[i] # m
    BY <1>0, <1>3, <1>6 DEF DeliveryInv, LinesInv, FramesNew
  <2>. QED  BY <2>1, <2>2, RangeByPosition
<1>18. Fifo!Accept(m)
  BY <1>15, <1>16, <1>17 DEF Fifo!Accept, Fifo!Range, Range
<1>. QED  BY <1>18

\* A drained block gives the first line of the queue to the backends.
LEMMA OutputDelivers ==
  ASSUME Flushers = {}, FifoInv, DeliveryInv', NEW t \in Drainers, OutputBlock(t)
  PROVE  Fifo!Deliver
<1>0. /\ DeliveryInv /\ BlocksInv /\ Control /\ BlockUse /\ ChainOrder
      /\ Len(blk_list) \in Nat /\ blk_list \in Seq(Rbb!blk_set)
      /\ \A i \in 1 .. Len(blk_list) : blk_list[i] \in Rbb!blk_set
      /\ \A i, j \in 1 .. Len(blk_list) : blk_list[i] = blk_list[j] => i = j
  BY BlocksOnChain DEF FifoInv, DeliveryInv, BlocksInv
<1>1. /\ t \in Tasks /\ pc[t] = "output" /\ pc'[t] = "free"
      /\ \A u \in Tasks : u # t => pc'[u] = pc[u]
      /\ UNCHANGED <<status, buf, size, blk_list, blk, arena>>
      /\ delivered' = Append(delivered, Frame(blk[t]))
  BY <1>0, Roles DEF OutputBlock, Step, Control, rbb
<1>2. PICK b \in Rbb!blk_set : b = blk[t] /\ b # None /\ status[b] = "GET"
  BY <1>0, <1>1 DEF BlockUse, Draining
<1>3. Waits(b)
  BY <1>1, <1>2 DEF Waits
<1>4. ASSUME NEW c \in Rbb!blk_set PROVE Waits(c)' <=> (Waits(c) /\ c # b)
  <2>1. \A u \in Tasks : (blk'[u] = c /\ pc'[u] = "output")
                            <=> (blk[u] = c /\ pc[u] = "output" /\ c # b)
    <3>1. ASSUME NEW u \in Tasks, u # t PROVE blk[u] # b
      BY <3>1, <1>0, <1>1, <1>2 DEF BlockUse
    <3>. QED  BY <3>1, <1>1, <1>2
  <2>2. status[c] = "PUT" => c # b
    BY <1>2
  <2>. QED  BY <2>1, <2>2, <1>1 DEF Waits
<1>5. \A c \in Rbb!blk_set : Frame(c)' = Frame(c)
  BY <1>1, FrameStays
<1>6. frames' = [c \in {d \in Rbb!blk_set : Waits(d)'} |-> Frame(c)']
  BY DEF frames, Rbb!blk_set
<1>7. /\ \A c \in Rbb!blk_set : c \in DOMAIN frames' <=> (c \in DOMAIN frames /\ c # b)
      /\ \A c \in DOMAIN frames' : frames'[c] = frames[c]
      /\ b \in DOMAIN frames /\ frames[b] = Frame(b)
  <2>1. DOMAIN frames' = {d \in Rbb!blk_set : Waits(d)'}
    BY <1>6
  <2>2. DOMAIN frames = {d \in Rbb!blk_set : Waits(d)} /\ \A c \in DOMAIN frames : frames[c] = Frame(c)
    BY DEF frames
  <2>3. \A c \in DOMAIN frames' : frames'[c] = Frame(c)'
    BY <1>6
  <2>. QED  BY <2>1, <2>2, <2>3, <1>3, <1>4, <1>5
<1>8. blk_list # << >> /\ blk_list[1] = b /\ 1 \in 1 .. Len(blk_list)
  <2>1. PICK i \in 1 .. Len(blk_list) : blk_list[i] = b
    BY <1>0, <1>2, BlocksOnChain
  <2>2. i = 1
    BY <1>0, <1>2, <2>1 DEF ChainOrder
  <2>. QED  BY <1>0, <2>1, <2>2, EmptySeq
<1>9. PICK lo, hi : IsRun(blk_list, frames, lo, hi) /\ lo = 0 /\ hi # 0
  BY <1>2, <1>3, <1>8, RunThere
<1>10. /\ hi \in Nat /\ 1 <= hi /\ hi <= Len(blk_list)
       /\ \A i \in 1 .. Len(blk_list) : blk_list[i] \in DOMAIN frames <=> (0 < i /\ i <= hi)
  BY <1>9 DEF IsRun
<1>11. IsRun(blk_list', frames', 1, hi)
  <2>1. ASSUME NEW i \in 1 .. Len(blk_list)
        PROVE  blk_list[i] \in DOMAIN frames' <=> (1 < i /\ i <= hi)
    <3>1. blk_list[i] # b <=> i # 1
      BY <1>0, <1>8
    <3>. QED  BY <3>1, <1>0, <1>7, <1>10
  <2>. QED  BY <2>1, <1>0, <1>1, <1>10 DEF IsRun
<1>12. HasRun(queue, blk_list, frames, 0, hi, Lines)
  BY <1>0, <1>9, FramesTyped, AlongRun, Zenon DEF queue
<1>13. HasRun(queue', blk_list', frames', 1, hi, Lines)
  <2>1. ValuesIn(frames, Lines)'
    BY FramesTyped, PTL
  <2>2. ValuesIn(frames', Lines)
    BY <2>1, Zenon DEF ValuesIn, Lines
  <2>3. HasRun(Along(blk_list', frames'), blk_list', frames', 1, hi, Lines)
    BY <2>2, <1>11, AlongRun
  <2>. QED  BY <2>3, Zenon DEF queue
<1>14. /\ queue \in Seq(Lines) /\ Len(queue) = hi
       /\ queue' \in Seq(Lines) /\ Len(queue') = hi - 1
       /\ \A k \in 1 .. hi : queue[k] = frames[blk_list[k]]
       /\ \A k \in 1 .. hi - 1 : queue'[k] = frames'[blk_list[k + 1]]
  <2>1. \A k \in 1 .. hi - 1 : 1 + k = k + 1
    OBVIOUS
  <2>2. \A k \in 1 .. hi : 0 + k = k
    OBVIOUS
  <2>3. hi - 0 = hi
    BY <1>10
  <2>. QED  BY <2>1, <2>2, <2>3, <1>1, <1>12, <1>13 DEF HasRun
<1>15. queue # << >>
  BY <1>10, <1>14, EmptySeq
<1>16. queue' = Tail(queue)
  <2>1. /\ Tail(queue) \in Seq(Lines) /\ Len(Tail(queue)) = hi - 1
        /\ \A k \in 1 .. hi - 1 : Tail(queue)[k] = queue[k + 1]
    BY <1>14, <1>15, HeadTailProperties
  <2>2. ASSUME NEW k \in 1 .. hi - 1 PROVE queue'[k] = Tail(queue)[k]
    <3>1. k + 1 \in 1 .. hi /\ k + 1 \in 1 .. Len(blk_list) /\ k + 1 # 1
      BY <1>0, <1>10
    <3>2. blk_list[k + 1] \in DOMAIN frames /\ blk_list[k + 1] # b
      BY <3>1, <1>0, <1>8, <1>10
    <3>3. frames'[blk_list[k + 1]] = frames[blk_list[k + 1]]
      BY <3>1, <3>2, <1>0, <1>7
    <3>. QED  BY <3>1, <3>3, <1>14, <2>1
  <2>. QED  BY <1>14, <2>1, <2>2, SeqEqual
<1>17. Head(queue) = Frame(b)
  <2>1. Head(queue) = queue[1]
    BY <1>14, <1>15
  <2>2. queue[1] = frames[b]
    BY <1>8, <1>10, <1>14
  <2>. QED  BY <2>1, <2>2, <1>7
<1>18. delivered' = Append(delivered, Head(queue))
  BY <1>1, <1>2, <1>17
<1>. QED  BY <1>15, <1>16, <1>18 DEF Fifo!Deliver

\* Every step of the asynchronous output is a step of the lossy FIFO, or none of its.
LEMMA NextFifo ==
  ASSUME Rbb!SizesFit, Flushers = {}, MaxToggles = 0
  PROVE  FifoInv /\ [Next]_vars => FifoInv' /\ [Fifo!Next]_<<queue, delivered>>
<1>. SUFFICES ASSUME FifoInv, [Next]_vars
              PROVE  FifoInv' /\ [Fifo!Next]_<<queue, delivered>>
  OBVIOUS
<1>1. DeliveryInv /\ NotSwitched /\ ChainOrder /\ Control
  BY DEF FifoInv, DeliveryInv, CallsInv
<1>2. DeliveryInv'
  BY <1>1, NextDelivery
<1>3. FifoInv'
  BY <1>1, <1>2, ModeStays, NextChainOrder DEF FifoInv
<1>4. CASE \E t \in Drainers : OutputBlock(t)
  <2>1. Fifo!Next
    BY <1>2, <1>4, OutputDelivers DEF Fifo!Next
  <2>. QED  BY <2>1, <1>3
<1>5. UNCHANGED delivered \/ \E t \in Drainers : OutputBlock(t)
  <2>1. ~ \E t \in Loggers : OutputLogNow(t)
    BY <1>1 DEF OutputLogNow, NotSwitched
  <2>. QED  BY <2>1, <1>1, DeliverySteps
<1>6. CASE \E t \in Loggers : PutFrame(t) /\ UNCHANGED delivered
  <2>1. Fifo!Next
    BY <1>2, <1>6, PutAccepts DEF Fifo!Next
  <2>. QED  BY <2>1, <1>3
<1>7. ASSUME UNCHANGED delivered,
             \/ \E t \in Loggers : TakeFrame(t) \/ FillFrame(t)
             \/ \E t \in Drainers : GetBlock(t) \/ FreeBlock(t)
             \/ NoBlockTaken
      PROVE  UNCHANGED <<queue, delivered>>
  BY <1>2, <1>7, TakeKeepsQueue, FillKeepsQueue, GetKeepsQueue, FreeKeepsQueue, OtherKeepsQueue
<1>. QED  BY <1>1, <1>3, <1>4, <1>5, <1>6, <1>7, BlockSteps, Zenon

\* With one task that drains and the mode not switched, however many tasks log
\* and whatever the sizes of their lines, the blocks, the frames in them and the
\* line buffer are a FIFO that may only lose lines whole when they come in.
THEOREM LinesAreAFifo ==
  ASSUME Rbb!SizesFit, Flushers = {}, MaxToggles = 0
  PROVE  Spec => FifoSpec
<1>1. Init => FifoInv
  <2>. SUFFICES ASSUME Init PROVE FifoInv
    OBVIOUS
  <2>1. blk_list = << >> /\ Len(blk_list) = 0
    BY DEF Init, Rbb!rbb_init
  <2>2. toggles = 0 /\ async_enabled = TRUE
    BY DEF Init
  <2>. QED  BY <2>1, <2>2, InitDelivery DEF FifoInv, NotSwitched, ChainOrder
<1>2. Init => Fifo!Init
  <2>. SUFFICES ASSUME Init PROVE Fifo!Init
    OBVIOUS
  <2>1. blk_list = << >> /\ Len(blk_list) = 0 /\ delivered = << >>
    BY DEF Init, Rbb!rbb_init
  <2>2. DeliveryInv
    BY InitDelivery
  <2>3. IsRun(blk_list, frames, 0, 0)
    BY <2>1 DEF IsRun
  <2>4. HasRun(queue, blk_list, frames, 0, 0, Lines)
    BY <2>2, <2>3, FramesTyped, AlongRun, Zenon DEF queue
  <2>5. queue \in Seq(Lines) /\ Len(queue) = 0
    BY <2>4 DEF HasRun
  <2>6. queue = << >>
    BY <2>5, EmptySeq
  <2>. QED  BY <2>1, <2>6 DEF Fifo!Init
<1>3. FifoInv /\ [Next]_vars => FifoInv' /\ [Fifo!Next]_<<queue, delivered>>
  BY NextFifo
<1>. QED  BY <1>1, <1>2, <1>3, PTL DEF Spec, FifoSpec, Fifo!Spec

-----------------------------------------------------------------------------
\* Raw data: the byte buffer, and the copy that a draining task makes.

\* With two tasks the buffer of one could replace that of the other, or NULL
\* both, while a third reads it.
OneRawLogger == \A r, s \in RawLoggers : r = s

rawVars == <<async_rb, rb_data, raw_put, log_len, log, raw_delivered>>

RawTyped ==
  /\ async_rb \in RawLoggers \cup {None}
  /\ rb_data \in [RawLoggers -> Seq(Lines)]
  /\ \A r \in RawLoggers : Len(rb_data[r]) <= RbSize
  /\ log_len \in [Tasks -> 0 .. RbSize]
  /\ log \in [Tasks -> Seq(Lines)]
  /\ raw_put \in Seq(Lines)
  /\ raw_delivered \in Seq(Lines)

\* Who reads the buffer finds one, and who creates it replaces none.
BufferThere ==
  /\ \A t \in Drainers : pc[t] \in {"raw_len", "raw_get"} => async_rb # None
  /\ \A r \in RawLoggers : pc[r] = "create" => async_rb = None

RawInv == CallsInv /\ RawTyped /\ BufferThere

\* A step that neither raw data nor its buffer takes part in.
NoRawStep ==
  /\ UNCHANGED rawVars
  /\ \A t \in Drainers : /\ pc'[t] \in {"raw_len", "raw_get"} => pc'[t] = pc[t]
                         /\ pc[t] = "raw_output" => pc'[t] = pc[t]
  /\ \A r \in RawLoggers : pc'[r] = "create" => pc'[r] = pc[r]

\* The steps that touch the raw data; all others leave it alone.
LEMMA RawSteps ==
  ASSUME Control, [Next]_vars
  PROVE  \/ \E t \in RawLoggers : StartRaw(t) \/ CreateRb(t) \/ PutRaw(t) \/ OutputRawNow(t)
         \/ \E t \in Drainers : NoBlock(t) \/ RawLen(t) \/ RawGet(t) \/ RawOutput(t)
         \/ NoRawStep
<1>. DEFINE Goal == \/ \E t \in RawLoggers : \/ StartRaw(t) \/ CreateRb(t)
                                             \/ PutRaw(t) \/ OutputRawNow(t)
                    \/ \E t \in Drainers : NoBlock(t) \/ RawLen(t) \/ RawGet(t) \/ RawOutput(t)
                    \/ NoRawStep
\* A step of task t to a place that has nothing to do with the buffer.
<1>1. ASSUME NEW t \in Tasks, NEW from, from # "raw_output",
             NEW to, to \notin {"raw_len", "raw_get", "create"},
             Step(t, from, to), UNCHANGED rawVars
      PROVE  NoRawStep
  <2>1. /\ pc[t] # "raw_output" /\ pc'[t] \notin {"raw_len", "raw_get", "create"}
        /\ \A u \in Tasks : u # t => pc'[u] = pc[u]
    BY <1>1 DEF Step, Control
  <2>. QED  BY <1>1, <2>1, Roles DEF NoRawStep
<1>2. ASSUME NEW t \in Loggers, LogStep(t) PROVE Goal
  <2>1. t \in Tasks
    BY Roles
  <2>2. UNCHANGED rawVars
    BY <1>2 DEF LogStep, rawVars, rb, copy, out, StartLog, Lock, CheckRecursion, FormatLog,
         AllocFrame, FillFrame, PutFrame, GiveNotice, OutputLogNow, Return, Unlock
  <2>3. \E from \in LogPlaces, to \in LogPlaces : Step(t, from, to)
    BY <1>2 DEF LogStep, LogPlaces, StartLog, Lock, CheckRecursion, FormatLog, AllocFrame,
         FillFrame, PutFrame, GiveNotice, OutputLogNow, Return, Unlock
  <2>. QED  BY <1>1, <2>1, <2>2, <2>3 DEF LogPlaces
<1>3. ASSUME NEW t \in RawLoggers, RawStep(t), ~ StartRaw(t), ~ CreateRb(t), ~ PutRaw(t),
             ~ OutputRawNow(t)
      PROVE  Goal
  <2>1. t \in Tasks /\ t \notin Loggers
    BY Roles
  <2>2. UNCHANGED rawVars
    BY <1>3 DEF RawStep, rawVars, rb, copy, out, Lock, FormatRaw, LoseRaw, GiveNotice, Unlock
  <2>3. \E from \in RawPlaces, to \in RawPlaces : to # "create" /\ Step(t, from, to)
    BY <1>3, <2>1 DEF RawStep, RawPlaces, Lock, FormatRaw, LoseRaw, GiveNotice, Unlock
  <2>. QED  BY <1>1, <2>1, <2>2, <2>3 DEF RawPlaces
<1>4. ASSUME NEW t \in Drainers, ulog_async_output(t), ~ NoBlock(t), ~ RawLen(t), ~ RawGet(t),
             ~ RawOutput(t)
      PROVE  Goal
  <2>1. t \in Tasks
    BY Roles
  <2>2. UNCHANGED rawVars
    BY <1>4 DEF ulog_async_output, rawVars, rb, copy, out, Enter, GetBlock, OutputBlock,
         FreeBlock, Leave
  <2>3. \E from \in {"enter", "get", "output", "free", "leave"} :
          \E to \in {"get", "output", "free", "leave", "idle", "wait_forever", "wait_2000"} :
             Step(t, from, to)
    BY <1>4 DEF ulog_async_output, Enter, GetBlock, OutputBlock, FreeBlock, Leave
  <2>. QED  BY <1>1, <2>1, <2>2, <2>3
<1>5. ASSUME NEW t \in Flushers, StartFlush(t) PROVE Goal
  BY <1>5, <1>1, Roles DEF StartFlush, rawVars, rb, copy, out
<1>6. ASSUME Woken \/ TimedOut PROVE Goal
  <2>1. Async \in Tasks /\ UNCHANGED rawVars
    BY <1>6, Roles DEF Woken, TimedOut, rawVars, rb, copy, out
  <2>2. \E from \in {"wait_forever", "wait_2000"} : Step(Async, from, "enter")
    BY <1>6 DEF Woken, TimedOut
  <2>. QED  BY <1>1, <2>1, <2>2
<1>7. ASSUME NEW enabled \in BOOLEAN, ulog_async_output_enabled(enabled) PROVE Goal
  BY <1>7 DEF ulog_async_output_enabled, NoRawStep, rawVars, rb, copy, out
<1>8. UNCHANGED vars => Goal
  BY DEF vars, NoRawStep, rawVars, rb, copy, out
<1>9. Goal
  BY <1>2, <1>3, <1>4, <1>5, <1>6, <1>7, <1>8, WhichStep
<1>. QED  BY <1>9

\* What is accepted is as many bytes of one line as there is space for.
LEMMA PutRawAppends ==
  ASSUME RawInv, NEW t \in RawLoggers, PutRaw(t)
  PROVE  \E bytes \in Seq(Lines) :
           /\ async_rb \in RawLoggers /\ async_rb' = async_rb
           /\ Len(rb_data[async_rb]) + Len(bytes) <= RbSize
           /\ rb_data' = [rb_data EXCEPT ![async_rb] = rb_data[async_rb] \o bytes]
           /\ raw_put' = raw_put \o bytes
<1>1. PICK n \in RawSizes :
        LET taken == Min2(n, RbSize - Len(rb_data[async_rb]))
            bytes == [i \in 1 .. taken |-> log_buf_th]
        IN /\ rb_data' = [rb_data EXCEPT ![async_rb] = @ \o bytes]
           /\ raw_put' = raw_put \o bytes
  BY DEF PutRaw
<1>2. async_rb \in RawLoggers /\ async_rb' = async_rb
  BY DEF PutRaw, RawInv, RawTyped
<1>3. log_buf_th \in Lines
  <2>1. pc[t] = "do_output" /\ t \in Callers
    BY Roles DEF PutRaw, Step
  <2>. QED  BY <2>1, LineIsLine DEF RawInv, CallsInv, LineHeld, LineBufferOwned
<1>4. PICK taken : taken = Min2(n, RbSize - Len(rb_data[async_rb]))
  OBVIOUS
<1>5. taken \in Nat /\ Len(rb_data[async_rb]) + taken <= RbSize
  <2>1. PICK used \in Nat : used = Len(rb_data[async_rb]) /\ used <= RbSize
    BY <1>2, LenProperties DEF RawInv, RawTyped
  <2>2. n \in Nat /\ RbSize \in Nat
    BY RawSizesAssumption, BoundsAssumption
  <2>3. taken = IF n <= RbSize - used THEN n ELSE RbSize - used
    BY <1>4, <2>1, Zenon DEF Min2
  <2>4. taken \in Nat /\ used + taken <= RbSize
    <3>1. used <= RbSize
      BY <2>1
    <3>2. CASE n <= RbSize - used
      BY <2>2, <2>3, <3>1, <3>2
    <3>3. CASE ~ (n <= RbSize - used)
      BY <2>2, <2>3, <3>1, <3>3
    <3>. QED  BY <3>2, <3>3
  <2>. QED  BY <2>1, <2>4
<1>6. PICK bytes : bytes = [i \in 1 .. taken |-> log_buf_th]
  OBVIOUS
<1>7. bytes \in Seq(Lines) /\ Len(bytes) = taken
  BY <1>3, <1>5, <1>6, IsASeq
<1>8. /\ rb_data' = [rb_data EXCEPT ![async_rb] = rb_data[async_rb] \o bytes]
      /\ raw_put' = raw_put \o bytes
  BY <1>1, <1>4, <1>6, Zenon
<1>. QED  BY <1>2, <1>5, <1>7, <1>8

\* With the mode off raw data is accepted and output at once.
LEMMA OutputRawAppends ==
  ASSUME RawInv, NEW t \in RawLoggers, OutputRawNow(t)
  PROVE  \E bytes \in Seq(Lines) :
           raw_put' = raw_put \o bytes /\ raw_delivered' = raw_delivered \o bytes
<1>1. PICK n \in RawSizes : LET bytes == [i \in 1 .. n |-> log_buf_th]
                            IN /\ raw_put' = raw_put \o bytes
                               /\ raw_delivered' = raw_delivered \o bytes
  BY DEF OutputRawNow
<1>2. log_buf_th \in Lines
  <2>1. pc[t] = "do_output" /\ t \in Callers
    BY Roles DEF OutputRawNow, Step
  <2>. QED  BY <2>1, LineIsLine DEF RawInv, CallsInv, LineHeld, LineBufferOwned
<1>3. [i \in 1 .. n |-> log_buf_th] \in Seq(Lines)
  BY <1>2, RawSizesAssumption, IsASeq
<1>. QED  BY <1>1, <1>3, Zenon

\* A read takes the front of the buffer, and the copy is what was taken.
LEMMA RawGetSplits ==
  ASSUME RawInv, NEW t \in Drainers, RawGet(t)
  PROVE  \E front, back \in Seq(Lines) :
           /\ async_rb \in RawLoggers
           /\ rb_data[async_rb] = front \o back
           /\ Len(back) <= RbSize
           /\ rb_data' = [rb_data EXCEPT ![async_rb] = back]
           /\ log' = [log EXCEPT ![t] = front]
<1>1. async_rb \in RawLoggers
  BY DEF RawGet, Step, RawInv, BufferThere, RawTyped
<1>2. PICK data \in Seq(Lines) : data = rb_data[async_rb] /\ Len(data) <= RbSize
  BY <1>1 DEF RawInv, RawTyped
<1>3. PICK n : n = Min2(log_len[t], Len(data))
  OBVIOUS
<1>4. n \in 0 .. Len(data)
  BY <1>2, <1>3, Roles, LenProperties, BoundsAssumption DEF RawInv, RawTyped, Min2
<1>5. /\ rb_data' = [rb_data EXCEPT ![async_rb] = SubSeq(data, n + 1, Len(data))]
      /\ log' = [log EXCEPT ![t] = SubSeq(data, 1, n)]
  BY <1>2, <1>3, Zenon DEF RawGet
<1>6. Len(data) \in Nat /\ \A i \in 1 .. Len(data) : data[i] \in Lines
  BY LenProperties, ElementOfSeq
<1>7. PICK front : front = SubSeq(data, 1, n)
  OBVIOUS
<1>8. PICK back : back = SubSeq(data, n + 1, Len(data))
  OBVIOUS
<1>9. front \in Seq(Lines)
  BY <1>4, <1>6, <1>7, SubSeqProperties
<1>10. back \in Seq(Lines) /\ Len(back) <= Len(data)
  BY <1>4, <1>6, <1>8, SubSeqProperties
<1>11. front \o back = data
  <2>1. SubSeq(data, 1, n) \o SubSeq(data, n + 1, Len(data)) = SubSeq(data, 1, Len(data))
    <3>1. 1 \in 1 .. Len(data) + 1 /\ n \in (1 - 1) .. Len(data) /\ Len(data) \in n .. Len(data)
      BY <1>4, <1>6
    <3>. QED  BY <3>1, ConcatAdjacentSubSeq
  <2>2. SubSeq(data, 1, Len(data)) = data
    BY SubSeqFull
  <2>. QED  BY <2>1, <2>2, <1>7, <1>8
<1>12. Len(back) <= RbSize
  BY <1>2, <1>6, <1>10, BoundsAssumption, LenProperties
<1>. QED  BY <1>1, <1>2, <1>5, <1>7, <1>8, <1>9, <1>10, <1>11, <1>12

\* The types of the raw data are inductive with one task that sends it.
LEMMA NextRaw ==
  ASSUME OneRawLogger
  PROVE  RawInv /\ [Next]_vars => RawInv'
<1>. SUFFICES ASSUME RawInv, [Next]_vars PROVE RawInv'
  OBVIOUS
<1>1. CallsInv' /\ Control /\ Control'
  BY NextCalls DEF RawInv, CallsInv
<1>2. \A t \in RawLoggers : t \in Tasks /\ t \notin Drainers /\ t # None
  BY Roles, NoneAssumption
<1>3. \A t \in Drainers : t \in Tasks
  BY Roles
<1>. DEFINE Kept == RawTyped' /\ BufferThere'
<1>4. ASSUME NEW t \in RawLoggers, StartRaw(t) PROVE Kept
  <2>1. UNCHANGED rawVars
    BY <1>4 DEF StartRaw, rb, copy, out, rawVars
  <2>2. /\ pc'[t] = IF async_rb = None THEN "create" ELSE "lock"
        /\ \A u \in Tasks : u # t => pc'[u] = pc[u]
    BY <1>1, <1>2, <1>4 DEF StartRaw, Step, Control
  <2>. QED  BY <2>1, <2>2, <1>2, <1>3 DEF RawInv, RawTyped, BufferThere, rawVars
<1>5. ASSUME NEW t \in RawLoggers, CreateRb(t) PROVE Kept
  <2>1. /\ async_rb = None /\ async_rb' \in {t, None}
        /\ UNCHANGED <<rb_data, raw_put, log_len, log, raw_delivered>>
    BY <1>5 DEF CreateRb, Step, RawInv, BufferThere, copy, out
  <2>2. /\ pc'[t] = "lock"
        /\ \A u \in Tasks : u # t => pc'[u] = pc[u]
    BY <1>1, <1>2, <1>5 DEF CreateRb, Step, Control
  <2>3. \A r \in RawLoggers : r = t
    BY DEF OneRawLogger
  <2>. QED  BY <2>1, <2>2, <2>3, <1>2, <1>3 DEF RawInv, RawTyped, BufferThere
<1>6. ASSUME NEW t \in RawLoggers, PutRaw(t) PROVE Kept
  <2>1. PICK bytes \in Seq(Lines) :
           /\ async_rb \in RawLoggers /\ async_rb' = async_rb
           /\ Len(rb_data[async_rb]) + Len(bytes) <= RbSize
           /\ rb_data' = [rb_data EXCEPT ![async_rb] = rb_data[async_rb] \o bytes]
           /\ raw_put' = raw_put \o bytes
    BY <1>6, PutRawAppends
  <2>2. UNCHANGED <<log_len, log, raw_delivered>>
    BY <1>6 DEF PutRaw, copy, out
  <2>3. PICK data \in Seq(Lines) : data = rb_data[async_rb]
    BY <2>1 DEF RawInv, RawTyped
  <2>4. data \o bytes \in Seq(Lines) /\ Len(data \o bytes) <= RbSize
    BY <2>1, <2>3, ConcatProperties
  <2>5. raw_put \o bytes \in Seq(Lines)
    BY ConcatProperties DEF RawInv, RawTyped
  <2>6. RawTyped'
    BY <2>1, <2>2, <2>3, <2>4, <2>5 DEF RawInv, RawTyped
  <2>7. pc'[t] = "give" /\ \A u \in Tasks : u # t => pc'[u] = pc[u]
    BY <1>1, <1>2, <1>6 DEF PutRaw, Step, Control
  <2>. QED  BY <2>1, <2>6, <2>7, <1>2, <1>3 DEF RawInv, BufferThere
<1>7. ASSUME NEW t \in RawLoggers, OutputRawNow(t) PROVE Kept
  <2>1. PICK bytes \in Seq(Lines) :
          raw_put' = raw_put \o bytes /\ raw_delivered' = raw_delivered \o bytes
    BY <1>7, OutputRawAppends
  <2>2. raw_put' \in Seq(Lines) /\ raw_delivered' \in Seq(Lines)
    BY <2>1, ConcatProperties DEF RawInv, RawTyped
  <2>3. UNCHANGED <<async_rb, rb_data, log_len, log>>
    BY <1>7 DEF OutputRawNow, copy
  <2>4. pc'[t] = "unlock" /\ \A u \in Tasks : u # t => pc'[u] = pc[u]
    BY <1>1, <1>2, <1>7 DEF OutputRawNow, Step, Control
  <2>. QED  BY <2>2, <2>3, <2>4, <1>2, <1>3 DEF RawInv, RawTyped, BufferThere
<1>8. ASSUME NEW t \in Drainers, NoBlock(t) PROVE Kept
  <2>1. UNCHANGED rawVars
    BY <1>8 DEF NoBlock, rb, copy, out, rawVars
  <2>2. /\ pc'[t] = IF async_rb = None THEN "leave" ELSE "raw_len"
        /\ \A u \in Tasks : u # t => pc'[u] = pc[u]
    BY <1>1, <1>3, <1>8 DEF NoBlock, Step, Control
  <2>. QED  BY <2>1, <2>2, <1>2, <1>3 DEF RawInv, RawTyped, BufferThere, rawVars
<1>9. ASSUME NEW t \in Drainers, RawLen(t) PROVE Kept
  <2>1. /\ pc[t] = "raw_len" /\ pc'[t] \in {"raw_get", "leave"}
        /\ \A u \in Tasks : u # t => pc'[u] = pc[u]
    BY <1>1, <1>3, <1>9 DEF RawLen, Step, Control
  <2>2. UNCHANGED <<async_rb, rb_data, raw_put, log, raw_delivered>>
    BY <1>9 DEF RawLen, rb, out
  <2>3. async_rb \in RawLoggers
    BY <2>1 DEF RawInv, BufferThere, RawTyped
  <2>4. Len(rb_data[async_rb]) \in 0 .. RbSize
    BY <2>3, LenProperties, BoundsAssumption DEF RawInv, RawTyped
  <2>5. log_len' \in [Tasks -> 0 .. RbSize]
    BY <1>9, <2>4 DEF RawLen, RawInv, RawTyped
  <2>. QED  BY <2>1, <2>2, <2>5, <1>2, <1>3 DEF RawInv, RawTyped, BufferThere
<1>10. ASSUME NEW t \in Drainers, RawGet(t) PROVE Kept
  <2>1. PICK front, back \in Seq(Lines) :
           /\ async_rb \in RawLoggers
           /\ rb_data[async_rb] = front \o back
           /\ Len(back) <= RbSize
           /\ rb_data' = [rb_data EXCEPT ![async_rb] = back]
           /\ log' = [log EXCEPT ![t] = front]
    BY <1>10, RawGetSplits
  <2>2. /\ UNCHANGED <<async_rb, raw_put, raw_delivered>>
        /\ log_len' = [log_len EXCEPT ![t] = 0]
    BY <1>10 DEF RawGet, out
  <2>3. 0 \in 0 .. RbSize
    BY BoundsAssumption
  <2>4. RawTyped'
    BY <2>1, <2>2, <2>3 DEF RawInv, RawTyped
  <2>5. pc'[t] = "raw_output" /\ \A u \in Tasks : u # t => pc'[u] = pc[u]
    BY <1>1, <1>3, <1>10 DEF RawGet, Step, Control
  <2>. QED  BY <2>2, <2>4, <2>5, <1>2, <1>3 DEF RawInv, BufferThere
<1>11. ASSUME NEW t \in Drainers, RawOutput(t) PROVE Kept
  <2>1. /\ raw_delivered' = raw_delivered \o log[t]
        /\ log' = [log EXCEPT ![t] = << >>]
        /\ UNCHANGED <<async_rb, rb_data, raw_put, log_len>>
    BY <1>11 DEF RawOutput, rb
  <2>2. raw_delivered' \in Seq(Lines)
    BY <2>1, <1>3, ConcatProperties DEF RawInv, RawTyped
  <2>3. RawTyped'
    BY <2>1, <2>2, EmptySeq DEF RawInv, RawTyped
  <2>4. pc'[t] = "leave" /\ \A u \in Tasks : u # t => pc'[u] = pc[u]
    BY <1>1, <1>3, <1>11 DEF RawOutput, Step, Control
  <2>. QED  BY <2>1, <2>3, <2>4, <1>2, <1>3 DEF RawInv, BufferThere
<1>12. NoRawStep => Kept
  BY DEF NoRawStep, rawVars, RawInv, RawTyped, BufferThere
<1>13. Kept
  BY <1>1, <1>4, <1>5, <1>6, <1>7, <1>8, <1>9, <1>10, <1>11, <1>12, RawSteps
<1>. QED  BY <1>1, <1>13 DEF RawInv

\* There is no byte buffer yet.
LEMMA InitRaw == Init => RawInv
<1>. SUFFICES ASSUME Init PROVE RawInv
  OBVIOUS
<1>1. CallsInv
  BY InitCalls
<1>2. \A t \in RawLoggers : t \in Tasks /\ t # Async
  BY Roles
<1>3. \A t \in Tasks : pc[t] \in {"enter", "idle"}
  BY DEF Init
<1>4. RawTyped
  <2>1. 0 \in 0 .. RbSize /\ Len(<< >>) <= RbSize /\ << >> \in Seq(Lines)
    BY BoundsAssumption, EmptySeq
  <2>. QED  BY <2>1 DEF Init, RawTyped
<1>5. BufferThere
  BY <1>2, <1>3, Roles DEF BufferThere
<1>. QED  BY <1>1, <1>4, <1>5 DEF RawInv

\* Of ulog_raw and the second half of ulog_async_output: with one task that sends raw
\* data, the byte buffer is there when it is read, and holds and gives no more than its
\* size.
THEOREM RawInvariant ==
  ASSUME OneRawLogger
  PROVE  Spec => []RawInv
<1>1. RawInv /\ [Next]_vars => RawInv'
  BY NextRaw
<1>. QED  BY <1>1, InitRaw, PTL DEF Spec

-----------------------------------------------------------------------------
\* The order of the raw data, when only the thread drains.

\* What has been accepted and not been taken by the thread.
Waiting == IF async_rb = None THEN << >> ELSE rb_data[async_rb]

RawOrder ==
  /\ raw_put = raw_delivered \o (log[Async] \o Waiting)
  /\ log[Async] # << >> => pc[Async] = "raw_output"
  /\ async_rb = None => \A r \in RawLoggers : rb_data[r] = << >>

OrderInv == RawInv /\ NotSwitched /\ RawOrder

\* What was accepted is what was output, followed by what a drain holds and by what
\* the byte buffer holds.
LEMMA NextOrder ==
  ASSUME OneRawLogger, Flushers = {}, MaxToggles = 0
  PROVE  OrderInv /\ [Next]_vars => OrderInv'
<1>. SUFFICES ASSUME OrderInv, [Next]_vars PROVE OrderInv'
  OBVIOUS
<1>1. RawInv /\ RawInv' /\ NotSwitched /\ NotSwitched' /\ Control
  BY NextRaw, ModeStays DEF OrderInv, RawInv, CallsInv
<1>2. Drainers = {Async} /\ Async \in Tasks
  BY Roles DEF Drainers
<1>3. \A t \in RawLoggers : t \in Tasks /\ t # Async /\ t # None
  BY Roles, NoneAssumption
<1>4. /\ raw_delivered \in Seq(Lines) /\ log[Async] \in Seq(Lines) /\ Waiting \in Seq(Lines)
      /\ log \in [Tasks -> Seq(Lines)] /\ rb_data \in [RawLoggers -> Seq(Lines)]
  BY <1>1, <1>2, EmptySeq DEF RawInv, RawTyped, Waiting
<1>5. ASSUME NEW t \in RawLoggers, StartRaw(t) PROVE RawOrder'
  <2>1. UNCHANGED rawVars /\ pc'[Async] = pc[Async]
    BY <1>1, <1>2, <1>3, <1>5 DEF StartRaw, Step, Control, rawVars, rb, copy, out
  <2>. QED  BY <2>1 DEF OrderInv, RawOrder, rawVars, Waiting
<1>6. ASSUME NEW t \in RawLoggers, CreateRb(t) PROVE RawOrder'
  <2>1. /\ async_rb = None /\ async_rb' \in {t, None} /\ pc'[Async] = pc[Async]
        /\ UNCHANGED <<rb_data, raw_put, log, raw_delivered>>
    BY <1>1, <1>2, <1>3, <1>6
       DEF CreateRb, Step, Control, copy, out, RawInv, BufferThere
  <2>2. Waiting = << >> /\ Waiting' = << >>
    BY <2>1 DEF Waiting, OrderInv, RawOrder
  <2>. QED  BY <2>1, <2>2 DEF OrderInv, RawOrder
<1>7. ASSUME NEW t \in RawLoggers, PutRaw(t) PROVE RawOrder'
  <2>1. PICK bytes \in Seq(Lines) :
           /\ async_rb \in RawLoggers /\ async_rb' = async_rb
           /\ Len(rb_data[async_rb]) + Len(bytes) <= RbSize
           /\ rb_data' = [rb_data EXCEPT ![async_rb] = rb_data[async_rb] \o bytes]
           /\ raw_put' = raw_put \o bytes
    BY <1>1, <1>7, PutRawAppends
  <2>2. UNCHANGED <<log, raw_delivered>> /\ pc'[Async] = pc[Async]
    BY <1>1, <1>2, <1>3, <1>7 DEF PutRaw, Step, Control, copy, out
  <2>3. async_rb # None /\ Waiting' = Waiting \o bytes
    BY <1>3, <1>4, <2>1 DEF Waiting
  <2>4. PICK w \in Seq(Lines) : w = Waiting
    BY <1>4
  <2>5. PICK c \in Seq(Lines) : c = log[Async]
    BY <1>4
  <2>6. PICK d \in Seq(Lines) : d = raw_delivered
    BY <1>4
  <2>7. (d \o (c \o w)) \o bytes = d \o (c \o (w \o bytes))
    <3>1. PICK cw \in Seq(Lines) : cw = c \o w
      BY ConcatProperties
    <3>2. (d \o cw) \o bytes = d \o (cw \o bytes)
      BY ConcatAssociative, SMTT(30)
    <3>3. (c \o w) \o bytes = c \o (w \o bytes)
      BY ConcatAssociative, SMTT(30)
    <3>. QED  BY <3>1, <3>2, <3>3, Zenon
  <2>8. raw_put = d \o (c \o w)
    BY <2>4, <2>5, <2>6 DEF OrderInv, RawOrder
  <2>9. raw_put' = raw_delivered' \o (log'[Async] \o Waiting')
    BY <2>1, <2>2, <2>3, <2>4, <2>5, <2>6, <2>7, <2>8
  <2>. QED  BY <2>1, <2>2, <2>3, <2>9 DEF OrderInv, RawOrder
<1>8. ~ \E t \in RawLoggers : OutputRawNow(t)
  BY <1>1 DEF OutputRawNow, NotSwitched
<1>9. ASSUME NoBlock(Async) \/ RawLen(Async) PROVE RawOrder'
  <2>1. UNCHANGED <<async_rb, rb_data, raw_put, log, raw_delivered>> /\ pc[Async] # "raw_output"
    BY <1>9 DEF NoBlock, RawLen, Step, rb, copy, out
  <2>. QED  BY <2>1 DEF OrderInv, RawOrder, Waiting
<1>10. ASSUME RawGet(Async) PROVE RawOrder'
  <2>1. PICK front, back \in Seq(Lines) :
           /\ async_rb \in RawLoggers
           /\ rb_data[async_rb] = front \o back
           /\ Len(back) <= RbSize
           /\ rb_data' = [rb_data EXCEPT ![async_rb] = back]
           /\ log' = [log EXCEPT ![Async] = front]
    BY <1>1, <1>2, <1>10, RawGetSplits
  <2>2. /\ UNCHANGED <<async_rb, raw_put, raw_delivered>>
        /\ pc[Async] = "raw_get" /\ pc'[Async] = "raw_output"
    BY <1>1, <1>2, <1>10 DEF RawGet, Step, Control, out
  <2>3. async_rb # None
    BY <1>3, <2>1
  <2>4. Waiting = front \o back /\ Waiting' = back
    BY <1>4, <2>1, <2>2, <2>3 DEF Waiting
  <2>5. log[Async] = << >> /\ log'[Async] = front
    BY <1>2, <1>4, <2>1, <2>2 DEF OrderInv, RawOrder
  <2>6. << >> \o (front \o back) = front \o back
    BY ConcatProperties, ConcatEmptySeq
  <2>7. raw_put' = raw_delivered' \o (log'[Async] \o Waiting')
    BY <2>2, <2>4, <2>5, <2>6 DEF OrderInv, RawOrder
  <2>. QED  BY <2>2, <2>3, <2>7 DEF RawOrder
<1>11. ASSUME RawOutput(Async) PROVE RawOrder'
  <2>1. /\ raw_delivered' = raw_delivered \o log[Async]
        /\ log' = [log EXCEPT ![Async] = << >>]
        /\ UNCHANGED <<async_rb, rb_data, raw_put>>
    BY <1>11 DEF RawOutput, rb
  <2>2. log'[Async] = << >> /\ Waiting' = Waiting
    BY <1>2, <1>4, <2>1 DEF Waiting
  <2>3. (raw_delivered \o log[Async]) \o (<< >> \o Waiting)
          = raw_delivered \o (log[Async] \o Waiting)
    <3>1. \A d, c, w \in Seq(Lines) : (d \o c) \o (<< >> \o w) = d \o (c \o w)
      BY ConcatAssociative, ConcatEmptySeq
    <3>. QED  BY <3>1, <1>4
  <2>. QED  BY <2>1, <2>2, <2>3 DEF OrderInv, RawOrder
<1>12. ASSUME NoRawStep PROVE RawOrder'
  <2>1. UNCHANGED <<async_rb, rb_data, raw_put, log, raw_delivered>>
    BY <1>12 DEF NoRawStep, rawVars
  <2>2. pc[Async] = "raw_output" => pc'[Async] = "raw_output"
    BY <1>2, <1>12 DEF NoRawStep
  <2>. QED  BY <2>1, <2>2 DEF OrderInv, RawOrder, Waiting
<1>13. RawOrder'
  BY <1>1, <1>2, <1>5, <1>6, <1>7, <1>8, <1>9, <1>10, <1>11, <1>12, RawSteps, Zenon
<1>. QED  BY <1>1, <1>13 DEF OrderInv

\* With one task that logs raw data and the thread the only one to drain, the
\* backends get every accepted byte, in order, as long as the mode stays.
THEOREM RawDataInOrder ==
  ASSUME OneRawLogger, Flushers = {}, MaxToggles = 0
  PROVE  Spec => []RawInOrder
<1>1. Init => OrderInv
  <2>. SUFFICES ASSUME Init PROVE OrderInv
    OBVIOUS
  <2>1. NotSwitched
    BY DEF Init, NotSwitched
  <2>2. async_rb = None /\ raw_put = << >> /\ raw_delivered = << >> /\ log[Async] = << >>
    BY Roles DEF Init
  <2>3. \A r \in RawLoggers : rb_data[r] = << >>
    BY DEF Init
  <2>4. << >> = << >> \o (<< >> \o << >>)
    BY EmptySeq, ConcatEmptySeq
  <2>. QED  BY <2>1, <2>2, <2>3, <2>4, InitRaw DEF OrderInv, RawOrder, Waiting
<1>2. OrderInv /\ [Next]_vars => OrderInv'
  BY NextOrder
<1>3. OrderInv => RawInOrder
  <2>. SUFFICES ASSUME OrderInv PROVE RawInOrder
    OBVIOUS
  <2>1. raw_delivered \in Seq(Lines) /\ log[Async] \in Seq(Lines) /\ Waiting \in Seq(Lines)
    BY Roles, EmptySeq DEF OrderInv, RawInv, RawTyped, Waiting
  <2>2. raw_put = (raw_delivered \o log[Async]) \o Waiting
    <3>1. \A d, c, w \in Seq(Lines) : (d \o c) \o w = d \o (c \o w)
      BY ConcatAssociative
    <3>2. raw_put = raw_delivered \o (log[Async] \o Waiting)
      BY DEF OrderInv, RawOrder
    <3>. QED  BY <3>1, <3>2, <2>1
  <2>. QED  BY <2>2 DEF RawInOrder, Waiting
<1>. QED  BY <1>1, <1>2, <1>3, PTL DEF Spec

-----------------------------------------------------------------------------
\* Types of what the invariants above leave open.
FlagsTyped ==
  /\ voutput_recursion \in BOOLEAN
  /\ async_notice \in {0, 1}
  /\ async_enabled \in BOOLEAN
  /\ phase \in {"entry", "loop", "flush"}

\* The flags keep their types.
LEMMA NextFlags ==
  ASSUME Control, FlagsTyped, [Next]_vars
  PROVE  FlagsTyped'
<1>. DEFINE flags == <<voutput_recursion, async_notice, async_enabled, phase>>
<1>1. UNCHANGED flags => FlagsTyped'
  BY Zenon DEF FlagsTyped
<1>2. ASSUME NEW t \in Loggers, LogStep(t) PROVE FlagsTyped'
  <2>1. UNCHANGED <<async_enabled, phase>>
    BY <1>2 DEF LogStep, StartLog, Lock, CheckRecursion, FormatLog, AllocFrame, FillFrame,
         PutFrame, GiveNotice, OutputLogNow, Return, Unlock, async
  <2>2. async_notice' = async_notice \/ async_notice' = 1
    BY <1>2 DEF LogStep, StartLog, Lock, CheckRecursion, FormatLog, AllocFrame, FillFrame,
         PutFrame, GiveNotice, OutputLogNow, Return, Unlock, async
  <2>3. \/ voutput_recursion' = voutput_recursion
        \/ voutput_recursion' = TRUE
        \/ voutput_recursion' = FALSE
    BY <1>2, Zenon DEF LogStep, StartLog, Lock, CheckRecursion, FormatLog, AllocFrame, FillFrame,
         PutFrame, GiveNotice, OutputLogNow, Return, Unlock, voutput
  <2>4. voutput_recursion' \in BOOLEAN
    BY <2>3, Zenon DEF FlagsTyped
  <2>5. async_notice' \in {0, 1}
    BY <2>2 DEF FlagsTyped
  <2>. QED  BY <2>1, <2>4, <2>5, Zenon DEF FlagsTyped
<1>3. ASSUME NEW t \in RawLoggers, RawStep(t) PROVE FlagsTyped'
  <2>1. UNCHANGED <<voutput_recursion, async_enabled, phase>>
    BY <1>3 DEF RawStep, StartRaw, CreateRb, Lock, FormatRaw, PutRaw, LoseRaw, GiveNotice,
         OutputRawNow, Unlock, async, voutput
  <2>2. async_notice' = async_notice \/ async_notice' = 1
    BY <1>3 DEF RawStep, StartRaw, CreateRb, Lock, FormatRaw, PutRaw, LoseRaw, GiveNotice,
         OutputRawNow, Unlock, async
  <2>3. async_notice' \in {0, 1}
    BY <2>2 DEF FlagsTyped
  <2>. QED  BY <2>1, <2>3, Zenon DEF FlagsTyped
<1>4. ASSUME NEW t \in Drainers, ulog_async_output(t) PROVE UNCHANGED flags
  BY <1>4 DEF ulog_async_output, Enter, GetBlock, OutputBlock, FreeBlock, NoBlock, RawLen,
       RawGet, RawOutput, Leave, async, voutput
<1>5. ASSUME NEW t \in Flushers, StartFlush(t) PROVE UNCHANGED flags
  BY <1>5 DEF StartFlush, async, voutput
<1>6. ASSUME Woken \/ TimedOut PROVE FlagsTyped'
  <2>1. UNCHANGED <<voutput_recursion, async_enabled>>
    BY <1>6 DEF Woken, TimedOut, async, voutput
  <2>2. (async_notice' = async_notice \/ async_notice' = 0) /\ phase' \in {"loop", "flush"}
    BY <1>6 DEF Woken, TimedOut, async
  <2>3. async_notice' \in {0, 1} /\ phase' \in {"entry", "loop", "flush"}
    BY <2>2 DEF FlagsTyped
  <2>. QED  BY <2>1, <2>3, Zenon DEF FlagsTyped
<1>7. ASSUME NEW enabled \in BOOLEAN, ulog_async_output_enabled(enabled) PROVE FlagsTyped'
  <2>1. UNCHANGED <<voutput_recursion, async_notice, phase>>
    BY <1>7 DEF ulog_async_output_enabled, voutput
  <2>2. async_enabled' = enabled
    BY <1>7, Zenon DEF ulog_async_output_enabled
  <2>. QED  BY <2>1, <2>2, <1>7, Zenon DEF FlagsTyped
<1>8. UNCHANGED vars => UNCHANGED flags
  BY DEF vars, async, voutput
<1>. QED  BY <1>1, <1>2, <1>3, <1>4, <1>5, <1>6, <1>7, <1>8, WhichStep, Zenon

\* Every variable keeps its type: the byte buffer never holds more than its
\* size and is there for whoever reads it, and the notice never counts.
THEOREM TypesHold ==
  ASSUME Rbb!SizesFit, OneRawLogger
  PROVE  Spec => []TypeOK
<1>1. Init => FlagsTyped
  BY Zenon DEF Init, FlagsTyped
<1>2. FlagsTyped /\ CallsInv /\ [Next]_vars => FlagsTyped'
  BY NextFlags DEF CallsInv
<1>3. FlagsTyped /\ DeliveryInv /\ RawInv => TypeOK
  <2>. SUFFICES ASSUME FlagsTyped, DeliveryInv, RawInv PROVE TypeOK
    OBVIOUS
  <2>1. Rbb!TypeOK /\ blk \in [Tasks -> Rbb!blk_set \cup {None}]
    BY SameTypes DEF DeliveryInv, BlocksInv, BlockUse, Chain!ListInv
  <2>2. /\ arena \in [0 .. (BufSize - 1) -> Lines \cup {None}]
        /\ log_buf_th \in Lines \cup {None}
        /\ output_locker \in Callers \cup {None}
        /\ calls \in [Tasks -> Nat]
    BY DEF DeliveryInv, LinesInv, ArenaTyped, CallsInv, LineHeld, MutexHeld, CallsCounted
  <2>3. delivered \in Seq(Lines \cup {None})
    <3>1. delivered \in Seq(Lines)
      BY DEF DeliveryInv, LinesInv, OutputsDiffer
    <3>. QED  BY <3>1, SeqMonotonic
  <2>4. /\ async_rb \in RawLoggers \cup {None}
        /\ \A t \in RawLoggers : rb_data[t] \in Seq(Lines) /\ Len(rb_data[t]) <= RbSize
        /\ log_len \in [Tasks -> 0 .. RbSize]
        /\ raw_put \in Seq(Lines) /\ raw_delivered \in Seq(Lines)
    BY DEF RawInv, RawTyped
  <2>. QED  BY <2>1, <2>2, <2>3, <2>4, Zenon DEF TypeOK, FlagsTyped
<1>4. Spec => []CallsInv
  BY CallsInvariant
<1>5. Spec => []DeliveryInv
  BY DeliveryInvariant
<1>6. Spec => []RawInv
  BY RawInvariant
<1>. QED  BY <1>1, <1>2, <1>3, <1>4, <1>5, <1>6, PTL DEF Spec
=============================================================================
