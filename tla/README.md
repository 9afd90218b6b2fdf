# A verification project for myulog

`myulog` is a logger for FreeRTOS tasks (a port of RT-Thread's ulog). A log call
formats a line under a mutex and either gives it to the registered backends at
once or stores it, and a thread outputs it later. This directory holds TLA+
modules that model the parts of it that are hard to test, TLC configurations
that check them on small instances, and proofs checked by TLAPS for every value
of the constants.

All line numbers refer to files under `src/`, whose comments are in GBK.

## 1. The system

| component | source | state | operations |
|---|---|---|---|
| ring block buffer | `ringblk_buf.c` | arena, descriptors `blk_set`, chains `blk_list` and `free_list`, `tail` | init, alloc, put, get, free |
| block queues | `ringblk_buf.c` | first block and count | queue get, len, buf, free |
| ring byte buffer | `ringbuffer.c` | bytes, two indices with mirror bits | put, put_force, get, peek, putchar, putchar_force, getchar, reset |
| asynchronous output | `ulog.c` 530-590, 1080-1215 | block buffer, byte buffer, notice semaphore, output thread | do_output, ulog_async_output, waiting, flush, enable |
| log call | `ulog.c` 185-235, 600-760 | line buffer, output lock, recursion flag | ulog_voutput, ulog_output, ulog_raw, lock switch |
| filters | `ulog.c` 765-1010 | global level, tag, keyword; list of tag levels | set and get, match |
| backends | `ulog.c` 470-525, 1015-1080 | list of backends with levels and a colour flag | register, unregister, output to all |
| lifecycle | `ulog.c` 1221-1340, create/destroy of both buffers | `init_ok`, the pointers to all of the above | ulog_init, ulog_async_init, ulog_deinit |
| line formatter, hexdump | `ulog.c` 240-465 | the line buffer and a length | format, tail, hexdump |
| string and number library | `ulservice.c` | none; the doubly linked list is not used by the logger | copies, comparisons, printing of numbers |
| uprintf | `uprintf.c` | a static buffer | formats into it, writes to the UART |
| example, configuration | `ulog_exmaple.c`, `ulogdef.h`, `ulog.h` | | |

How they interact:

    task ── ulog_output / ulog_raw ──► filters ──► output_lock ──► formatter ──► line buffer
                                                                      │
                      asynchronous output off                         ▼
               backends ◄───────────────────────────────────────  do_output
                   ▲                                                  │ rbb_blk_alloc, copy, rbb_blk_put
                   │                                                  │ or ringbuffer_put (raw)
                   │                                                  ▼
            ulog_async_output ◄── rbb_blk_get / ringbuffer_get ── block buffer, byte buffer
               ▲          ▲                                           │
           thread    ulog_flush           ◄──── async_notice ─────────┘

Who protects what:

- The block buffer has its own critical sections (`taskENTER_CRITICAL`). The frame
  in a block is written and read outside them.
- The byte buffer has no lock. Writers hold `output_locker`, readers do not.
- The line buffer and the recursion flag are protected by `output_locker`, a mutex
  that is not recursive and that `ulog_output_lock_enable` can switch off.
- The notice is a binary semaphore: given after a block was put, taken by the
  thread before it drains.
- The list of backends, `async_enabled` and `init_ok` are protected by nothing.

The hard behaviours, and so the properties worth having, are in the list
`hazards` of `PROJECT.json`, each at its line. In short: blocks freed out of order
in an arena that wraps; two tasks draining at once; a line put while the thread is
on its way to sleep; a byte buffer shared without a lock; lines buffered while the
mode is switched; a queue followed by pointers that others change; nested and
aborted log calls and the lock; registration and teardown while others run.

What makes each component correct:

- *ring block buffer*: blocks in use never overlap and never move, stay in the
  arena, and come out oldest first among those put; the two chains and `tail` agree.
- *block queues*: a count and a pointer lead to the blocks taken and to no others.
- *ring byte buffer*: a FIFO of its whole size; with a writer and a reader, no byte
  lost, doubled or overwritten.
- *asynchronous output*: one user per block, whole lines, in order, each once; no
  line left behind by a sleeping thread; every call returns.
- *log call*: at most one task in the line buffer; a line stays there while it is
  output, also if a backend logs; no path keeps the lock or the recursion flag.
- *filters*: the level of a tag that was set is the one looked up; no lookup stands on
  a freed node.
- *backends*: the list is what was registered, whatever runs beside; each backend
  gets each line from its start, or not at all.
- *lifecycle*: nothing is used after it was destroyed; what is needed is there once
  `init_ok` says so; a failed init leaves nothing.
- *formatter*: a line is its head, its text and its tail, cut so that all fit.
- *string and number library*: bounded copies stay in bounds, numbers fill their fields.

## 2. The modules

| module | what it is | builds on |
|---|---|---|
| `RingBlk` | ring block buffer, one action per operation | |
| `BlockPool` | abstract: what a block buffer promises | |
| `RingBlkQueue` | block queues beside tasks that use single blocks | extends `RingBlk` |
| `RingBlkProofs` | theorems about `RingBlk` and `RingBlkQueue`, and that both implement `BlockPool` | extends `RingBlkQueue`, `SequenceFacts` |
| `RingBuffer` | ring byte buffer, used by one task at a time | |
| `ByteFifo` | abstract: a FIFO of bytes | |
| `RingBufferRace` | put and get without a lock, step by step | extends `RingBuffer` |
| `RingBufferProofs` | theorems about `RingBuffer`, that it implements `ByteFifo`, and about `RingBufferRace` | extends `RingBufferRace`, `SequenceFacts` |
| `UlogAsync` | log calls, output thread, flush | instantiates `RingBlk` |
| `UlogAsyncProofs` | theorems about `UlogAsync`, and that it implements `LossyFifo` | extends `UlogAsync`, `SequenceFacts`, instantiates `RingBlkProofs` |
| `LossyFifo` | abstract: a FIFO that may lose lines whole | |
| `Backends` | the list of backends: registration against output | |
| `BackendsProofs` | theorems about `Backends` | extends `Backends`, `SequenceFacts` |
| `LogCall` | a log call, nested calls, tag levels, switches of the lock | |
| `LogCallProofs` | theorems about `LogCall` | extends `LogCall`, `SequenceFacts` |
| `Lifecycle` | init, deinit, everything allocated and who uses it | |
| `LifecycleProofs` | theorems about `Lifecycle` | extends `Lifecycle` |
| `LineFormat` | head, text, tail, hexdump in the line buffer | |
| `UlService` | string and number functions | |
| `TextProofs` | theorems about `LineFormat` and `UlService` | extends both, and `SequenceFacts` |
| `SequenceFacts` | lemmas about sequences, and induction over the naturals, for the proofs | |
| `MC*` | instances for TLC; `MCSequential` has what one task does at a time: lines of `LineFormat`, or a call of `UlService`, or else calls of `RingBuffer`, and extends the three | |

No module declares a RECURSIVE operator, so all of them can be proved about.
Operators whose comment begins with "Mutant of" are not part of the model: they
are the mistakes that the checks are shown to notice.

### RingBlk

A chain of `slist` nodes is a sequence of descriptors. `rbb->tail` is a variable of
its own, because the code keeps it apart from the chain and every append goes
behind it. `rbb_list_append` and `rbb_list_remove` therefore work on the pair, and
`rbb_list_append` cuts the chain behind `tail` as the assignment of `next` does;
that a removal leaves `tail` right is a property (`TailIsLast`), not an assumption.
Each operation is one critical section and so one action; `rbb_blk_put` is one store.

`rbb_blk_alloc` has three outcomes: a block (`AllocBlock`), no room in the arena
(`AllocNoSpace`, which has already taken a descriptor off `free_list` and does not
give it back), no descriptor (`AllocNoDescriptor`). `Room` is the placement: the two
comparisons the code makes, against the first and the last block of the chain.

Left out: the contents of blocks (they are in `UlogAsync`) and addresses (an offset
into the arena). `BlkSizes` are in allocation units, the code's are aligned bytes.

### RingBlkQueue

`rbb_blk_queue_get` runs in one critical section, `rbb_blk_queue_free` in one per
block, with the link to the next block read outside of it: `NextBlk` and `FreeBlk`.
`taken` is a history variable, the blocks the queue was made of. Between the steps
other tasks allocate, put, get and free single blocks.

### RingBuffer, RingBufferRace

In `RingBuffer` every operation is one action. The four `memcpy` branches of the code
are `Stored` and `Stretch`: which byte lands at, or comes from, which offset.
`Wraps` is the comparison of the code (`buffer_size - index > length`, negated).

`RingBufferRace` splits `ringbuffer_put` and `ringbuffer_get` into the loads and
stores another task can fall between. Index and mirror bit are bit-fields of one
32-bit word and not volatile, so the compiler decides how often a word is loaded
and stored: every behaviour is of one build, `loads_once` and `stores_once`. Accesses of a task take
effect in program order, as on a single core.

### UlogAsync

`pc[t]` names the place in `ulog_voutput`, `ulog_raw`, `do_output` or
`ulog_async_output` that task `t` has reached; the steps in between touch shared
state once. The thread starts with one `ulog_async_output`, waits for ever for the
first notice, then loops with a wait of 2000 ticks and calls `ulog_flush` when that
runs out (`phase`). Time is not measured: a wait may run out whenever there is no
notice. The arena records for every unit the line last written there, so a block
written by two tasks is seen as a mixture.

For the refinement, `queue` is the lines that wait: the frames of the blocks of the chain that
are put, or taken by a drain that has still to output them, along the chain (`Along`).

`CreateRb` and `LoseRaw`, `AllocFrame`, `RawLen` have the failures of their calls
(no memory, no block, no descriptor). The byte buffer is here the FIFO that
`RingBufferProofs` shows `RingBuffer` to be; the race of its two sides is studied
in `RingBufferRace` alone.

### Backends

The chain of backends is modelled as the pointers it is made of (`next`), not as a
sequence: `ulog_output_to_all_backend` and `ulog_flush` follow them without a lock, so a walk may
stand on a node that was taken off the list, whose link `slist_remove` leaves as it
was, or that was registered again behind the others. Registering and removing are two
steps each, as the fields are set and `deinit` is called before the critical section.
The text of a line is not modelled, only how often `output_log` was moved behind a
colour (`cut`) before a backend was given it. Filters, functions of the application,
are the sets of levels they let pass. A visit reads level, filter and colour flag of
its backend in one step. `stayed`, `known` and `removed` are history variables; `where`
is the place in the calls that register and remove, and so what the list should hold.
One walking task is enough, because walks change nothing another task reads; they are
not limited in number. A walk without a line is that of `ulog_flush`; that of `ulog_deinit`
(`ulog.c:1303`) is its like and is left out.

### LogCall

The same call as in `UlogAsync`, but with what comes before the lock and what backends do
while it is held. Asynchronous mode is off here, because only then do backends run inside a
call. An activation `<<t, 1>>` is a call of task `t`, `<<t, 2>>` a call that a backend of
that call makes. `Walk` is one node of a walk along the list of tag levels, so that another
task's removal and `vPortFree` may fall between two nodes if the lock does not keep it out;
a freed node has the link NULL, which is one of the values it may have, and
`NoFreedNode` says that it is never read. `in_force` and `seen` are history variables: the
level last set for a tag, and the levels in force during a lookup. A lookup returns its
level after the lock is given back, so the level may have been changed when it is used;
`LevelFound` asks only that it was right at some time during the lookup.

The lock can be switched off, and then it is up to the application that one task at a
time is in a section (it is what the switch is for). `unsafe` is set when that is not
kept, or when the switch falls into a section; the properties claim nothing after
that, but `FlagCleared`, which holds all the same. Whether the global tag and the keyword
are found is chosen freely.

### Lifecycle

An object is a pair of a kind and a number; `live` holds those allocated. Of every call only
its accesses are kept: `Accesses` lists the objects the next step touches, and a step
runs only if they are live. Otherwise `Fault` records who touched what and the system
stops, since what follows is undefined. So a property can say *which* uses of dead
objects there are (`UsesLive`) instead of only that there are some. Every allocation
may fail; `RbbLeft` and `RingbufferLeft` are what the error paths of the two create functions
leave. `deinits`, `unnoticed`, `overlap` are history variables. `given` is the notice, and
`back[x]` where a drain returns to: the two waits of the thread, or the caller of `ulog_flush`.

What the properties say in words, each case at its line:

- A call that overlaps `ulog_deinit` may use anything it destroys; nothing protects it
  (`ulog.c:1324`-`1334`).
- The thread may wake between `rbb_destroy` and its deletion (`:1327`, `:1330`).
- `async_rb` and `async_th` are not set to NULL: in a later life `ulog_raw` puts into a
  freed buffer, no thread is created, and the next `ulog_deinit` deletes the old handle
  (`:1272`, `:720`, `:1328`).
- The loop that frees the tag filters reads the link of the freed node (`:1314`).
- Two first calls of `ulog_raw` both create a buffer, and the second, without memory,
  stores NULL over the first (`:720`-`:723`). `async_rb` is loaded for the test and loaded again
  for each use, so the store can fall in between: a call that has tested it (`:574`) puts into NULL
  (`:577`, where `UL_ASSERT` holds it with the lock taken), and a drain that has tested it
  (`:1122`) asks NULL for its length (`:1125`) or its data (`:1130`). `Stored` and `RawPut`,
  `RawTested`, `RawMeasured` and `RawCopied` are steps of their own for that reason.
- Lost are: the block buffer when the notice cannot be created (`:1252`), the notice on
  every `ulog_deinit`, the copy the thread held when deleted, a first byte buffer stored
  over, a filter added during `ulog_deinit`. Nothing else, and nothing at all before the
  first `ulog_deinit` but these blocks and byte buffers.
- `ulog_init` returns success without a thread when it cannot be created, although
  the message says that it failed (`:1277`, `:1255`).

### LineFormat

The memory of `log_buf_th` and what lies behind it, written by the functions in the order
of the code. A character is a pair of the text it belongs to and its place in it: a
property can then say that the third character of the line is the second of the tag, for
any tag of that length. The buffer still holds the line before, so a line that shows old
text is seen. `LinesIntact` describes the result by formulas of its own (`HeadLen`,
`HexAt`, `CharAt`), never with the functions of the model. It allows one write behind the
buffer: `snprintf` of a hexdump's address is given the whole size (`ulog.c:411`). With the
real sizes it needs a tag that nearly fills a line. The assumptions on the constants are
what the configuration of the code gives: a line has room for a colour, ten digits of time and
a tail, and for an address; tick counts have 32 bits.

### UlService

One step is one call. `print_number` keeps its counter `size` through its branches as
the code does, below zero included; `NumberText` says what the field should be from its
width, precision, sign and digits, as C has it. A long has 32 bits (`Width`); in the run it has 8, so that the largest
and the least number are in the instance. `None` stands for NULL. A string ends at its first
zero, a count is a natural number and a buffer has one of finitely many sizes.

The code does not keep to `NumberText` everywhere. `divide` takes base 8 as base 16
(`ulservice.c:180`). The digits are put out under `UL_PRINTF_PRECISION` only (`:335`-`:350`),
which nothing in the repository defines, and not with a precision of 0 (`:345`). Zeros fill
the field of a number with a precision too. `PrintsRight` compares a number with `NumberText` where
none of this holds (`KeepsToC`); it claims the end of the buffer and the length returned for every
conversion. So of the build the repository configures it says nothing about numbers. What the
comments at `:416`-`:419` promise of `d`, `o` and `u` in any build is `NumbersAsDocumented`, which
the run `TextNumbers` refutes. (For `x` and `X` the comment says base 10; the code, like C, has
base 16, and that is taken as a slip of the comment.)

`ul_strncmp` keeps a difference in a signed char (`:107`), so characters 128 or more apart
compare the wrong way round. How the characters of a format are read is left out.

## 3. The runs

"Bounds" gives the constants that limit an instance, and why they are enough.

| run | checks | bounds |
|---|---|---|
| `RingBlk` | types, `ListsConsistent`, `TailIsLast`, `BlocksInArena`, `BlocksDisjoint`, `RingOrder`, `QueueWalk`, `QueueAscending`, `HeldBlocksStable`, `PoolSpec` | 4 descriptors, arena of 4, sizes 1 and 2, queues of up to 1 or 3 units: four blocks in any order of frees, both sides of the wrap, an arena fragmented so that a request fails, descriptors lost, a queue of three with a block behind it |
| `RingBufferRace` | `CopiesInBuffer` for every build; `BytesInOrder`, `NoOverwrite` for one that loads and stores words whole | 3 bytes, 8 bytes written: more than two laps; a reader that runs past the writer is stopped after as many |
| `UlogAsync` | types, `NoLostWakeup`, `RawInOrder`, `FifoSpec` | a logger with three calls, frames of 1 and 2, three descriptors, arena of 3; a raw logger with two calls of 1 or 2 bytes into a buffer of 3 |
| `UlogAsyncLive` | `LineBufferOwned`, `BlockOwnership`, `DeliveredOnce`, `LinesGetOut`, `CallsReturn` | a logger with two calls, a raw logger and a flusher with one, two blocks, one switch of the mode |
| `Backends` | `ListIsRegistered`, `OnlyKnownCalled`, `AllServedOnce`, `FirstCutRight` | three backends, six calls that register, remove or filter, any number of lines of a coloured or a plain level: a backend removed and registered again behind two others under a walk |
| `LogCall` | `NoFreedNode`, `LevelFound`, `OuterLineIntact`, `FlagCleared`, `CallsReturn` | a task with one call of any kind and a nested one, a hexdump of two rows, a task that sets two tag levels, two tags, two nodes, two switches of the lock or the global level |
| `Lifecycle` | `UsesLive`, `ReadyWhenOk`, `NothingElseLeaks` | three calls of `ulog_init` with all their failures, two calls of two tasks: two lives, or two failures and a life |
| `Sequential` | types of `RingBuffer`, `WithinOneLap`, `FifoSpec`, `LinesIntact`, `StringsAgree`, `PrintsRight` | the byte buffer: 4 bytes of 2 values, lengths to 5: every pair of indices, every length below, at and above the size. Lines: a buffer of 40, two lines in a row of any kind, tags and texts that end before, at and behind every limit. Strings of up to three of two letters; buffers of 0 to 7; numbers of 8 bits at their ends with every flag, and fields and precisions below, at and above their length |

`RingBlk` uses a VIEW: the place and size a descriptor had before it was freed are never
read again (the next allocation sets both), so states that differ only in them are one.
`Lifecycle` and `Backends` use the symmetry of their callers and of the backends that are
alike; their properties are invariants.

Four more runs show that what a comment of the source says does not hold:

| run | what happens |
|---|---|
| `RingBlkLeak` | an allocation without room loses its descriptor; in the end none is left although none is in use (`ringblk_buf.c:255`) |
| `LogCallNested` | a backend that logs while the lock is on waits for the lock its own task holds, in the tag lookup; the recursion flag is tested behind it (`ulog.c:916`, `:632`, `:633`) |
| `BackendsColour` | the second backend without colour gets a coloured line cut twice, and a length too small (`ulog.c:511`) |
| `TextNumbers` | as the repository is built `%d` of 7 puts out nothing (`ulservice.c:335`), and `%4o` of 8 three blanks instead of two and `10`, room being left for the one digit of base 16 (`:180`) |

The block queues have a gap of the same kind that no run is spent on: a queue, which
`ringblk_buf.h:39` says is continuous memory, may contain the room of a block freed
before (`ringblk_buf.c:461`). `QueueAscending` is what remains. Nothing in the
repository uses the queues.

The race of the byte buffer needs a build with more than one load per word: one read
of `write_index` is in `ringbuffer_data_len`, another in `ringbuffer_status`, a separate
function. A write between them makes the copies equal while the status says half full,
and an empty buffer is reported as full of data (`ringbuffer.c:329`). A build that stores
mirror bit and index one after the other (`:183`, `:184`) has a second one: a write in
between finds a full buffer empty and overwrites unread bytes. The condition `WholeWords`
of `BytesInOrder` and `NoOverwrite` keeps both out. Only for a build that merges both is
the byte buffer a correct queue between the two tasks without a lock.

A line put before asynchronous output is switched off stays in its block: the thread
takes its notice and returns without draining (`ulog.c:1102`), and switching on again gives
none (`:1144`), so it waits until a later call gives one. `LinesGetOut` therefore claims
nothing once the mode is off, and `UlogAsyncLive` has one switch only.

In the runs of `UlogAsync`, `LogCall` and `Sequential` the tasks have a bounded number of calls,
after which the system stops, and `Lifecycle` stops at a fault; so these do not check for
deadlock. `CallsReturn` is their substitute where calls wait. All other runs check for it.

### Fairness

`UlogAsyncLive` assumes weak fairness of three things: a log call in progress, a
flush in progress, the thread. The code's scheduler gives every ready task processor
time unless one of higher priority never blocks, and no task of the model runs for
ever without blocking. Nothing obliges a task to begin a call. Weak fairness is
enough although the calls wait for a mutex: the calls of an instance are finitely
many, so a task cannot be overtaken for ever. `TimedOut` is part of the fair thread,
yet a line never has to wait for it: in the mutant that loses the notice
`LinesGetOut` fails all the same.

`LogCall` assumes weak fairness of every call in progress, a nested one included, for the
same reason. A backend that never returns is therefore excluded, and so is a backend
that logs while the lock is on, whose call never returns (`LogCallNested`).

## 4. The proofs

### The ring block buffer (`RingBlkProofs`)

For every number of descriptors, arena length and set of sizes. The invariant is
built in two layers.

1. `ListInv` is `TypeOK /\ ListsConsistent /\ TailIsLast`, which is inductive without
   any assumption on sizes. The three parts need one another: an append goes behind
   `tail`, so it keeps the chain only if `tail` is its end; it takes a descriptor
   from `free_list`, so the chain stays without repetitions only if that descriptor is
   not on it. Theorems `TypeCorrect`, `ListsCorrect`, `TailCorrect`.
2. `ArenaInv` describes the placement: along the chain the blocks ascend, one after
   the other without overlap, with at most one wrap, and after the wrap they stay
   below the first. "No two blocks overlap" is not inductive alone: `rbb_blk_alloc`
   looks at two blocks, and only the order of the others makes that sufficient
   (lemma `Placement`). Removing a block anywhere keeps the order (`SubchainKeepsLayout`).
   This layer assumes `SizesFit`, that nobody asks for more than the whole arena:
   `rbb_blk_alloc` gives the first block of an empty buffer without comparing its size
   (`ringblk_buf.c:303`). The logger meets it, as a frame with its longest line is
   smaller than `ULOG_ASYNC_OUTPUT_BUF_SIZE`. Theorems `ArenaInvariant`,
   `ArenaRespected`, `NoOverlap`, `ChainInRingOrder`.
3. `HeldBlocksDoNotMove` is the action property `HeldBlocksStable` (lemma `StepKeepsHeld`): a step that
   places a block takes it from `free_list`, where by `ListInv` all are `UNUSED`.
4. `RingBlkIsAPool`, under `SizesFit`: the buffer implements `BlockPool`. The claims of
   the pool are the blocks of the chain in its order: an allocation appends one that lies in
   the arena and overlaps none, a get takes the first that was put, a free removes one from
   the middle (lemmas `AllocGrants`, `PutPublishes`, `GetTakes`, `FreeReleases`).

### Block queues (`RingBlkProofs`, second part)

For every number of descriptors, arena, set of sizes and length of queues, whatever other
tasks do between the critical sections of `rbb_blk_queue_free`.

1. `WalkInv` says that the blocks of the queue are neighbours on `blk_list` and all `GET`, and that
   the pointer kept while one is freed leads to the next. The place of the run on the chain is
   not fixed: it moves forward when another task frees a block before it
   (`OtherFreeKeepsWalkInv`). Nobody comes in between, as `rbb_list_append` adds behind the last block,
   and nobody else frees a block of the run, which is what the model assumes of the callers.
   With `ListInv` it is inductive. Theorem `QueueIsFoundAgain` is `QueueWalk`.
2. `rbb_blk_queue_get` compares the offset of each block with that of the one before only. As
   no two overlap (`ArenaInv`, hence `SizesFit`), each ends before the next begins, and by
   induction on the distance (`NeighboursAscend`) before all later ones begin. Theorems
   `QueuesKeepArena`, the inductive invariant, and `QueueKeepsOrder`.
3. `QueuesTakeFromThePool`: with queues, too, the buffer implements `BlockPool`. A queue is its
   action `Take` of a whole run; freeing one is a series of steps of `RingBlk`.
   `QueuesMoveNoBlock` is `HeldBlocksStable` for them.

`UlogAsyncProofs` instantiates the module with a queue that is never taken.

### The ring byte buffer (`RingBufferProofs`)

For every size of the buffer, set of byte values and lengths of calls. `Inv` is
`TypeOK /\ WithinOneLap`, inductive as it stands. Three lemmas say what happens to
`data`, the bytes between the indices: a write with enough space appends
(`WriteAppends`), one without keeps the newest (`ForcedWriteKeepsNewest`), a read
removes from the front and returns what it removed (`ReadRemoves`). Every operation is
one of these or a reset, and `FifoCorrect` concludes that the buffer implements
`ByteFifo` of its whole size: what is read is what was written, in order, and a write
appends or, forced, pushes out the oldest. Which of the bytes offered an ordinary write
takes, `ByteFifo` does not say. `LapCorrect` is the invariant by itself.

### Log calls (`LogCallProofs`)

For every number of tasks, tags, nodes, backends and rows, any calls by any task,
and backends that log with the lock on as well.

1. `TypeInv` says what a call is at each place (`Fits`): only formatted lines and hexdumps
   come to the recursion test, only calls with a tag walk. `FlagInv`, that
   whoever set the recursion flag has still to clear it, needs nothing else. So theorem
   `FlagIsCleared` holds with the lock misused, too.
2. `SectionInv` adds `Nesting`, that a nested call runs only while the call around it waits
   in its backend, and `LockInv`, that one task at a time is in a section (theorem
   `SectionsExclusive`). Together they give `NobodyElse`: beside a call in a section there is
   at most, with the lock off, its own backend's. So while one call walks along the list of
   tag levels no other changes it (`WalksAlone`).
3. Theorem `NoNodeFreed` follows with `WalkInv`. For theorem `LineStaysIntact`, `LineInv` says
   why the flag protects the buffer: a nested call that formats, and has not yet, finds the flag
   set, so it is a hexdump or raw data, which `overwritten` records.
4. `FilterInv` is what the list means: every tag once, with the level last set for it, or not
   at all if that is `LOG_FILTER_LVL_ALL`. `LookupInv` is the loop invariant of a walk: no
   node passed has its tag. Each needs the other, as `ulog_tag_lvl_filter_set` appends a node
   because its walk found none. Theorem `LookupsCorrect`.

All but `FlagIsCleared` claim something only while `unsafe` is FALSE, like the properties.

### The unlocked byte buffer (`RingBufferProofs`, second part)

One writer and one reader without a lock, for every size and all lengths of calls.

1. `RaceTypes` is inductive for every build, also one that loads and stores index and mirror
   bit one after the other: whatever mixture a side has seen, the length it computes is at most
   the size (lemma `LengthsFit`). So theorem `CopiesStayInBuffer` needs no assumption.
2. `WholeInv` claims the rest for builds that access them as one word. `Margins` is the heart:
   what a side has measured may be out of date by its next step, but the writer can only have
   taken the buffer for fuller, and the reader for emptier, than it is; and no byte copied in
   and not yet counted lies where one copied out is still counted. `Numbered` says which byte
   is where, the bytes accepted being numbered. Theorems `NothingOverwritten`,
   `BytesGotInOrder`.

The only assumption beside the types of the constants is that writer and reader are two.

### Asynchronous output (`UlogAsyncProofs`)

For every number of tasks that log, send raw data, flush and switch the mode, and every size
of the buffers. A task is one of the roles (`TasksAssumption`); a program's task that logs
and flushes is two tasks of the model, which only adds interleavings. The invariants are
layers, each using the ones before.

1. `CallsInv`: who is in `Section` holds the mutex, and the line in `log_buf_th` is the
   holder's from formatting on. Theorem `LineBufferIsOwned`.
2. `BlocksInv` adds `BlockUse` (a block that is `INITED` or `GET` is one task's, a task at such
   a place has one) and the `ListInv` of `RingBlk`. Every step of `UlogAsync` is a step of
   `RingBlk` or leaves it alone, which is theorem `UsesRingBlk` and carries all of
   `RingBlkProofs` over, so that the layers below may use the placement of the blocks. Theorem
   `BlocksAreOwned`.
3. `DeliveryInv`, under `SizesFit`: the frames in the arena, the lines being formatted and the
   lines output are pairwise different, and the frame of a block in use is whole, because no
   other block overlaps it. Theorem `LinesDeliveredOnce`.
4. `WakeInv`: as long as some block waits, the thread is on its way to `rbb_blk_get`, the notice
   is there, or a task is about to give it. Theorem `NoWakeupIsLost` assumes `MaxToggles = 0`, that
   `ulog_async_output_enabled` is not called. With two switches it is not true of the code: the
   thread uses up the notice while the mode is off and outputs nothing, and the line waits, the
   mode on again, until the limit of the wait or the next line. `UlogAsync.cfg` makes the same
   assumption.
5. `RawInv`, the types of the raw data, assumes `OneRawLogger`. With two tasks that find
   `async_rb` NULL the second can store NULL over the buffer of the first (`ulog.c:720`), and a
   call or a drain that has tested it goes through NULL; `Lifecycle` models that outcome. `OrderInv`
   assumes besides that nobody switches the mode and nobody flushes: with the mode off raw data
   overtakes what is in the buffer, and of two drains the one that read first may output
   last (TLC shows either at once). `UlogAsync.cfg` assumes the same. Theorems `RawDataInOrder`, `TypesHold`.
6. `FifoInv` adds `ChainOrder` to layer 3: of the blocks on the chain at most the first is
   being drained and at most the last is being filled. So the blocks that wait are
   neighbours on the chain (`IsRun`), the queue is their frames in that order, and a step leaves
   it alone, appends a line (`PutAccepts`) or removes the first (`OutputDelivers`); the lemmas
   `...KeepsQueue` go through the others. A line that finds no block is lost before it is in
   the queue. Theorem `LinesAreAFifo` is the refinement `FifoSpec`: `UlogAsync` implements
   `LossyFifo`, for any number of tasks that log. It assumes `SizesFit`, that
   nobody flushes, since of two drains the one that took its block first may output it last, and
   that nobody switches the mode, since with the mode off a line overtakes those in the
   buffer. `UlogAsync.cfg`, which checks `FifoSpec`, assumes the same.

### Lifecycle (`LifecycleProofs`)

For every number of callers, bounds and kinds of calls. `LifeInv` goes along `ulog_init` and
`ulog_deinit`: `Stages` says what is there at each step, `ThreadThere` when the thread can run,
`FirstLife` that before the first `ulog_deinit` no pointer dangles, `CallsWithin` that calls which
overlap no `ulog_deinit` lie between it and the end of `ulog_init`, `Rb` when `async_rb` can go
back to NULL under a call or a drain that has tested it, `Copies` that each copy has one owner. Theorem `OnlyKnownFaults` (`UsesLive`) is
that an access to NULL or to something given back is one of the six cases that property names, and
theorem `ReadyBetween` that a log call finds all it needs. Assumed: the tasks differ, and NULL is
no object.

`LeakInv` counts the objects of each kind that are live, known or not. Of block buffers and
notices there are at most as many as were lost (`unnoticed`, `deinits`), and one more while the
present life has one (`BlocksCounted`, `NoticesCounted`). The byte buffers are numbered, and only the one with
the highest number can be the one `async_rb` points to (`BytesCounted`). A copy that no task holds
was the thread's when `ulog_deinit` deleted it, once per life (`CopiesCounted`). Mutex, thread
and, without overlap, filters are always known. Theorem `LeaksAreCounted` is
`NothingElseLeaks`.

### Backends (`BackendsProofs`)

For every set of tasks, backends and levels, and every bound on changes, without further
assumptions. `ListInv` has a sequence that the links spell out and of which a walk, unless a
backend is removed beside it, has seen a beginning. It is inductive under registration because
`ulog_backend_register` links a backend at the end, its own link being NULL before.
`KnownClosed` says that the link of a backend known to a walk leads to a known one, also the
link that a removed node keeps: a registration makes the new backend known, and a removal only
links two known ones. Theorems `LinksAreTheList`, `NoneCalledUnknown`, `EachServedOnce`. `CutInv`, that
`cut` counts nothing before the first output that was cut, gives `FirstIsCutRight`.

`Walk`, which follows the links, is a recursive function. Lemma `WalkOnChain` says what it
yields, by lemma `SetInduction` of `SequenceFacts`: induction over the naturals for a set in
place of a predicate, which follows from the well-foundedness of the strict subset relation on
finite sets in the library of theorems.

### Text (`TextProofs`)

About `LineFormat` and `UlService`, for every size of the line buffer, every table of colours,
tags, ticks, results of `vsnprintf`, hexdump widths and sizes; for every string, count, size of a
destination and format, and longs of 8 or 32 bits. What is assumed of these constants are
the assumptions that the two modules declare, which TLC evaluates in the run `Sequential`. A line, or a
call, is right whatever was in the memory before it, so the three theorems need no inductive
invariant beyond the properties; the work is in the loops, which are recursive functions.

- That such a function exists, and that unfolding it once is right, follows from
  `SetInduction` and the functions up to n. What it yields follows either from the first
  place at which its loop stops (copies, comparisons, the length of a string) or by induction over
  what is left to do or already done (digits, the cells of a hexdump, the fields of a format).
- `StringsAgreeAlways`: each string function returns and leaves in the memory what the
  reference definition says, and writes nothing beyond the buffer it was given.
- `LinesIntactAlways`: each line is head, text and tail as the formulas of
  `LinesIntact` describe them. The formatter's functions append one after the other; a lemma for each
  says what the memory is after it, how far the line reaches and that the rest is as before.
  The one write behind the buffer, of a hexdump's address, is in the property.
- `PrintsRightAlways`: the digits of a number by induction over how many are left
  (`ulservice.c:268`, with base 8 dividing by 16 as the code does), both as a `long` that may be
  negative and as the unsigned value that is divided; then the branches of `print_number`, which
  count `size` down in different ways (`PrintNumberLays`), which gives what every build prints
  (`PrintedText`); that this is `NumberText` where `KeepsToC` holds (`PrintedIsNumberText`); then the fields along the format, one
  after the other, and last the end of the text inside the buffer.

### What is only model-checked

Liveness (`LinesGetOut`, `CallsReturn`), because fairness is outside what TLAPS proves. Every
safety invariant, action property and refinement that a passing run checks is also a theorem.
The four runs that show what a comment promises and the code does not keep are
counterexamples and need no proof.

## 5. What is not modelled, and the plan

Not modelled:

- the texts of the global tag and the keyword, which are copied without a lock while
  calls search for them (`ulog.c:967`, `:985`);
- a backend's filter that is removed between its two loads (`:494`), and its functions
  `init`, `flush` and `deinit`, which belong to the application (the walk that calls `flush`
  is modelled);
- the frame's pointer to the caller's tag, which may be gone when the thread outputs the
  line (`:552`);
- asserts: the levels 1, 2 and 5 have no text in `level_output_info` and stop in
  `ulog_strcpy` (`:105`, `:145`); `LineFormat` uses the others;
- the interrupt level: `xTaskGetCurrentTaskHandle` is not NULL in an interrupt, so a call
  from one takes the mutex (`:210`); the models have tasks only;
- how `ul_vsnprintf` reads flags, width and precision from the format;
- `uprintf` (I/O), the example and the configuration headers, the doubly linked list of
  `ulservice.h` (not used by the logger).
