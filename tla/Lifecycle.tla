------------------------------- MODULE Lifecycle -------------------------------
(***************************************************************************)
(* What ulog.c allocates, who uses it and when it is given back: ulog_init *)
(* and ulog_deinit step by step, every allocation of which may fail, beside*)
(* the output thread and tasks that log, set filters and flush.            *)
(*                                                                         *)
(* An object of the heap or the kernel is a pair of its kind and a number. *)
(* Of what a call does only its accesses to objects are kept.  An access to*)
(* an object that is not live is undefined: Fault records it and the system*)
(* stops.  Left out: what is stored and output (UlogAsync), the backends,  *)
(* and async_enabled and output_lock_enabled, which stay TRUE.             *)
(***************************************************************************)
EXTENDS Integers, FiniteSets

CONSTANTS
  Callers,     \* tasks that call ulog
  Calls,       \* what they call: of "line", "raw", "set", "flush"
  Owner,       \* the task that calls ulog_init and ulog_deinit
  Thread,      \* the output thread
  Null,
  MaxInits,    \* bound: calls of ulog_init
  MaxCalls     \* bound: calls of all callers together

VARIABLES
  live,        \* objects allocated and not given back
  made,        \* objects of each kind but nodes and copies allocated so far
  ulog,        \* init_ok and the pointers of the struct ulog
  nodes,       \* objects in filter.tag_lvl_list
  holder,      \* who has output_locker
  given,       \* the value of async_notice
  pc,
  call,        \* what a caller that takes the lock is calling
  back,        \* where ulog_async_output returns to
  copy,        \* the copy of the raw data in ulog_async_output
  inits, calls,
  deinits,     \* history: calls of ulog_deinit
  unnoticed,   \* history: calls of ulog_init that failed at async_notice
  overlap,     \* history: a call and ulog_deinit overlapped
  fault        \* history: the first access to an object that is not live

heap == <<live, made>>
local == <<call, back, copy>>
counts == <<inits, calls, deinits, unnoticed, overlap>>
vars == <<heap, ulog, nodes, holder, given, pc, local, counts, fault>>

Tasks == Callers \cup {Owner, Thread}
ObjectKinds == {"locker", "rbb", "buf", "blk_set", "notice", "th", "rb", "pool", "node", "log"}

ASSUME TasksAssumption == Owner # Thread /\ Owner \notin Callers /\ Thread \notin Callers
ASSUME NullAssumption == Null \notin ObjectKinds \X Nat
Kind(o) == o[1]

-----------------------------------------------------------------------------
\* The allocations a struct rbb and a struct ringbuffer need besides their own.
\* A part has the number of its owner.
Parts(o) ==
  CASE o = Null -> {}
    [] o # Null /\ Kind(o) = "rbb" -> {<<"buf", o[2]>>, <<"blk_set", o[2]>>}
    [] o # Null /\ Kind(o) = "rb" -> {<<"pool", o[2]>>}
    [] OTHER -> {}
Whole(o) == {o} \cup Parts(o)

\* Only one variable ever points to a node or a copy, so their numbers come back.
New(kind) == <<kind, made[kind] + 1>>
Made(kind) == made' = [made EXCEPT ![kind] = @ + 1]
NewAgain(kind) ==
  CHOOSE o \in {<<kind, n>> : n \in 1 .. Cardinality(live) + 1} : o \notin live

\* Mutant of RbbLeft: the last error path of rbb_create forgets the arena.
RbbLeft_forgets_buf(n, o) == IF n = 3 THEN {<<"buf", o[2]>>} ELSE {}

\* What is left allocated when rbb_create fails at its n-th pvPortMalloc.
RbbLeft(n, o) ==
  LET taken == CASE n = 1 -> {}
                 [] n = 2 -> {o}
                 [] n = 3 -> {o, <<"buf", o[2]>>}
      freed == CASE n = 1 -> {}
                 [] n = 2 -> {o}
                 [] n = 3 -> {<<"buf", o[2]>>, o}
  IN taken \ freed

\* The same for ringbuffer_create.
RingbufferLeft(n, o) ==
  LET taken == IF n = 1 THEN {} ELSE {o}
      freed == IF n = 1 THEN {} ELSE {o}
  IN taken \ freed

-----------------------------------------------------------------------------
\* The objects the next step of x reads, writes, takes, gives or frees.
Accesses(x) ==
  CASE pc[x] \in {"lock", "unlock", "locker_delete"} -> {ulog.output_locker}
    [] pc[x] = "store" /\ call[x] = "line" -> Whole(ulog.async_rbb)
    [] pc[x] \in {"blocks", "rbb_destroy"} -> Whole(ulog.async_rbb)
    \* After a test of async_rb the pointer is loaded again.
    [] pc[x] \in {"put", "len"} -> Whole(ulog.async_rb)
    [] pc[x] = "rb_destroy" /\ ulog.async_rb # Null -> Whole(ulog.async_rb)
    [] pc[x] = "copy" -> Whole(ulog.async_rb) \cup {copy[x]}
    [] pc[x] = "free" -> {copy[x]}
    [] pc[x] \in {"give", "sleep", "wait"} -> {ulog.async_notice}
    [] pc[x] = "th_delete" /\ ulog.async_th # Null -> {ulog.async_th}
    \* The loop reads the link of the node it has just freed.
    [] pc[x] = "link" -> nodes
    [] OTHER -> {}

Runs(x, from) == fault = Null /\ pc[x] = from /\ Accesses(x) \subseteq live
To(x, to) == pc' = [pc EXCEPT ![x] = to]

\* x accesses an object that is not live, at pc[x].
Fault(x) ==
  /\ fault = Null /\ ~ Accesses(x) \subseteq live
  /\ fault' = [by |-> x, at |-> pc[x], dead |-> Accesses(x) \ live]
  /\ UNCHANGED <<heap, ulog, nodes, holder, given, pc, local, counts>>

-----------------------------------------------------------------------------
\* ulog_init.  A task that calls it again after it failed starts from the top.
InitCalled ==
  /\ Runs(Owner, "out") /\ ~ ulog.init_ok /\ inits < MaxInits
  /\ inits' = inits + 1
  /\ To(Owner, "locker")
  /\ UNCHANGED <<heap, ulog, nodes, holder, given, local, calls, deinits, unnoticed, overlap,
                 fault>>

\* output_locker, and with it the lists of backends and of filters emptied.
LockerCreated ==
  /\ Runs(Owner, "locker")
  /\ \/ /\ live' = live \cup {New("locker")} /\ Made("locker")
        /\ ulog' = [ulog EXCEPT !.output_locker = New("locker")]
        /\ nodes' = {} /\ holder' = Null
        /\ To(Owner, "rbb")
     \/ /\ ulog' = [ulog EXCEPT !.output_locker = Null]
        /\ To(Owner, "out")
        /\ UNCHANGED <<heap, nodes, holder>>
  /\ UNCHANGED <<given, local, counts, fault>>

\* async_rbb, by rbb_create; when it fails the mutex is deleted.
RbbCreated ==
  LET o == New("rbb")
  IN /\ Runs(Owner, "rbb") /\ Made("rbb")
     /\ \/ /\ live' = live \cup Whole(o)
           /\ ulog' = [ulog EXCEPT !.async_rbb = o]
           /\ To(Owner, "notice")
        \/ /\ \E n \in 1 .. 3 : live' = (live \cup RbbLeft(n, o)) \ {ulog.output_locker}
           /\ ulog' = [ulog EXCEPT !.async_rbb = Null]
           /\ To(Owner, "out")
     /\ UNCHANGED <<nodes, holder, given, local, counts, fault>>

\* Mutant of NoticeCreated: a failure deletes the mutex but does not return.
NoticeCreated_goes_on ==
  /\ Runs(Owner, "notice")
  /\ \/ /\ live' = live \cup {New("notice")} /\ Made("notice")
        /\ ulog' = [ulog EXCEPT !.async_notice = New("notice")]
     \/ /\ live' = live \ {ulog.output_locker}
        /\ ulog' = [ulog EXCEPT !.async_notice = Null]
        /\ UNCHANGED made
  /\ given' = FALSE
  /\ To(Owner, "th")
  /\ UNCHANGED <<nodes, holder, local, counts, fault>>

\* async_notice; when it fails the mutex is deleted and the block buffer is not.
NoticeCreated ==
  /\ Runs(Owner, "notice")
  /\ \/ /\ live' = live \cup {New("notice")} /\ Made("notice")
        /\ ulog' = [ulog EXCEPT !.async_notice = New("notice")]
        /\ given' = FALSE
        /\ To(Owner, "th")
        /\ UNCHANGED unnoticed
     \/ /\ live' = live \ {ulog.output_locker}
        /\ ulog' = [ulog EXCEPT !.async_notice = Null]
        /\ unnoticed' = unnoticed + 1
        /\ To(Owner, "out")
        /\ UNCHANGED <<made, given>>
  /\ UNCHANGED <<nodes, holder, local, inits, calls, deinits, overlap, fault>>

\* ulog_async_init: the thread, unless async_th says there is one.  It may run at
\* once.  That it could not be created is not passed on by ulog_init.
ThreadCreated ==
  LET o == New("th")
  IN /\ Runs(Owner, "th")
     /\ \/ /\ ulog.async_th = Null
           /\ live' = live \cup {o} /\ Made("th")
           /\ ulog' = [ulog EXCEPT !.async_th = o]
           /\ pc' = [pc EXCEPT ![Owner] = "ok", ![Thread] = "blocks"]
           /\ back' = [back EXCEPT ![Thread] = "sleep"]
        \/ To(Owner, "ok") /\ UNCHANGED <<heap, ulog, back>>
     /\ UNCHANGED <<nodes, holder, given, call, copy, counts, fault>>

InitReturns ==
  /\ Runs(Owner, "ok")
  /\ ulog' = [ulog EXCEPT !.init_ok = TRUE]
  /\ To(Owner, "out")
  /\ UNCHANGED <<heap, nodes, holder, given, local, counts, fault>>

-----------------------------------------------------------------------------
\* ulog_deinit.
DeinitCalled ==
  /\ Runs(Owner, "out") /\ ulog.init_ok
  /\ deinits' = deinits + 1
  /\ overlap' = (overlap \/ \E c \in Callers : pc[c] # "idle")
  /\ To(Owner, "nodes")
  /\ UNCHANGED <<heap, ulog, nodes, holder, given, local, inits, calls, unnoticed, fault>>

\* The first filter is freed, and its link is read next.
NodesFreed ==
  /\ Runs(Owner, "nodes")
  /\ \/ nodes = {} /\ To(Owner, "locker_delete") /\ UNCHANGED live
     \/ \E node \in nodes : live' = live \ {node} /\ To(Owner, "link")
  /\ UNCHANGED <<made, ulog, nodes, holder, given, local, counts, fault>>

LockerDeleted ==
  /\ Runs(Owner, "locker_delete")
  /\ live' = live \ {ulog.output_locker}
  /\ To(Owner, "rbb_destroy")
  /\ UNCHANGED <<made, ulog, nodes, holder, given, local, counts, fault>>

\* rbb_destroy: the arena, the descriptors, the struct.
RbbDestroyed ==
  /\ Runs(Owner, "rbb_destroy")
  /\ live' = live \ Whole(ulog.async_rbb)
  /\ To(Owner, "th_delete")
  /\ UNCHANGED <<made, ulog, nodes, holder, given, local, counts, fault>>

\* The thread ends where it stands.  async_th keeps its value.
ThreadDeleted ==
  /\ Runs(Owner, "th_delete")
  /\ IF ulog.async_th = Null
     THEN To(Owner, "rb_destroy") /\ UNCHANGED <<live, copy>>
     ELSE /\ live' = live \ {ulog.async_th}
          /\ pc' = [pc EXCEPT ![Owner] = "rb_destroy", ![Thread] = "none"]
          /\ copy' = [copy EXCEPT ![Thread] = Null]
  /\ UNCHANGED <<made, ulog, nodes, holder, given, call, back, counts, fault>>

\* ringbuffer_destroy, if async_rb is set when it is tested and loaded: only a call
\* that overlaps could store another value in between.  async_rb keeps its value.
RbDestroyed ==
  /\ Runs(Owner, "rb_destroy")
  /\ live' = live \ Whole(ulog.async_rb)
  /\ To(Owner, "not_ok")
  /\ UNCHANGED <<made, ulog, nodes, holder, given, local, counts, fault>>

\* Mutant of DeinitReturns: init_ok is not cleared.
DeinitReturns_still_ok ==
  /\ Runs(Owner, "not_ok")
  /\ To(Owner, "out")
  /\ UNCHANGED <<heap, ulog, nodes, holder, given, local, counts, fault>>

DeinitReturns ==
  /\ Runs(Owner, "not_ok")
  /\ ulog' = [ulog EXCEPT !.init_ok = FALSE]
  /\ To(Owner, "out")
  /\ UNCHANGED <<heap, nodes, holder, given, local, counts, fault>>

-----------------------------------------------------------------------------
Deiniting == pc[Owner] \in {"nodes", "link", "locker_delete", "rbb_destroy",
                            "th_delete", "rb_destroy", "not_ok"}

\* A call, which goes beyond its first test only when init_ok is set.
Called(c) ==
  /\ Runs(c, "idle") /\ ulog.init_ok /\ calls < MaxCalls
  /\ calls' = calls + 1
  /\ overlap' = (overlap \/ Deiniting)
  /\ \E kind \in Calls :
       /\ call' = [call EXCEPT ![c] = IF kind = "flush" THEN Null ELSE kind]
       /\ To(c, CASE kind = "raw" /\ ulog.async_rb = Null -> "create"
                  [] kind = "flush" -> "blocks"
                  [] OTHER -> "lock")
  /\ UNCHANGED <<heap, ulog, nodes, holder, given, back, copy, inits, deinits, unnoticed,
                 fault>>

\* ulog_raw found async_rb NULL: ringbuffer_create, and its result stored, both
\* whatever another task has done since.
RbCreated(c) ==
  LET o == New("rb")
  IN /\ Runs(c, "create") /\ Made("rb")
     /\ \/ live' = live \cup Whole(o) /\ ulog' = [ulog EXCEPT !.async_rb = o]
        \/ /\ \E n \in 1 .. 2 : live' = live \cup RingbufferLeft(n, o)
           /\ ulog' = [ulog EXCEPT !.async_rb = Null]
     /\ To(c, "lock")
     /\ UNCHANGED <<nodes, holder, given, local, counts, fault>>

\* output_lock.
Locked(c) ==
  /\ Runs(c, "lock") /\ holder = Null
  /\ holder' = c
  /\ To(c, IF call[c] = "set" THEN "node" ELSE "store")
  /\ UNCHANGED <<heap, ulog, nodes, given, local, counts, fault>>

\* ulog_tag_lvl_filter_set adds a node, if it is allocated, or takes one off.
NodeSet(c) ==
  /\ Runs(c, "node")
  /\ \/ /\ live' = live \cup {NewAgain("node")}
        /\ nodes' = nodes \cup {NewAgain("node")}
     \/ UNCHANGED <<live, nodes>>
     \/ \E node \in nodes : nodes' = nodes \ {node} /\ live' = live \ {node}
  /\ To(c, "unlock")
  /\ UNCHANGED <<made, ulog, holder, given, local, counts, fault>>

\* do_output: a line into the block buffer, which may be full, or of a raw one the
\* test whether there is a byte buffer.
Stored(c) ==
  /\ Runs(c, "store")
  /\ \/ call[c] = "line" /\ \E to \in {"give", "unlock"} : To(c, to)
     \/ call[c] = "raw" /\ To(c, IF ulog.async_rb = Null THEN "unlock" ELSE "put")
  /\ UNCHANGED <<heap, ulog, nodes, holder, given, local, counts, fault>>

\* ringbuffer_put.
RawPut(c) ==
  /\ Runs(c, "put")
  /\ To(c, "give")
  /\ UNCHANGED <<heap, ulog, nodes, holder, given, local, counts, fault>>

NoticeGiven(c) ==
  /\ Runs(c, "give")
  /\ given' = TRUE
  /\ To(c, "unlock")
  /\ UNCHANGED <<heap, ulog, nodes, holder, local, counts, fault>>

\* output_unlock, the end of the call.
Unlocked(c) ==
  /\ Runs(c, "unlock")
  /\ holder' = Null
  /\ call' = [call EXCEPT ![c] = Null]
  /\ To(c, "idle")
  /\ UNCHANGED <<heap, ulog, nodes, given, back, copy, counts, fault>>

-----------------------------------------------------------------------------
\* ulog_async_output, of the thread or of a flush: block by block until there is
\* none, then the byte buffer if there is one, through a copy that may not be
\* allocated.
BlocksOutput(x) ==
  /\ Runs(x, "blocks")
  /\ To(x, "raw")
  /\ UNCHANGED <<heap, ulog, nodes, holder, given, local, counts, fault>>

RawTested(x) ==
  /\ Runs(x, "raw")
  /\ To(x, IF ulog.async_rb = Null THEN back[x] ELSE "len")
  /\ UNCHANGED <<heap, ulog, nodes, holder, given, local, counts, fault>>

\* ringbuffer_data_len, and room for as much.
RawMeasured(x) ==
  /\ Runs(x, "len")
  /\ \/ /\ live' = live \cup {NewAgain("log")}
        /\ copy' = [copy EXCEPT ![x] = NewAgain("log")]
        /\ To(x, "copy")
     \/ To(x, back[x]) /\ UNCHANGED <<live, copy>>
  /\ UNCHANGED <<made, ulog, nodes, holder, given, call, back, counts, fault>>

RawCopied(x) ==
  /\ Runs(x, "copy")
  /\ To(x, "free")
  /\ UNCHANGED <<heap, ulog, nodes, holder, given, local, counts, fault>>

RawFreed(x) ==
  /\ Runs(x, "free")
  /\ live' = live \ {copy[x]}
  /\ copy' = [copy EXCEPT ![x] = Null]
  /\ To(x, back[x])
  /\ UNCHANGED <<made, ulog, nodes, holder, given, call, back, counts, fault>>

\* The thread is woken by the notice, from either wait, and waits with a limit
\* after it.
Noticed ==
  /\ \E wait \in {"sleep", "wait"} : Runs(Thread, wait)
  /\ given
  /\ given' = FALSE
  /\ To(Thread, "blocks")
  /\ back' = [back EXCEPT ![Thread] = "wait"]
  /\ UNCHANGED <<heap, ulog, nodes, holder, call, copy, counts, fault>>

\* The limit has passed: ulog_flush, and back to the wait without one.
TimedOut ==
  /\ Runs(Thread, "wait")
  /\ To(Thread, IF ulog.init_ok THEN "blocks" ELSE "sleep")
  /\ back' = [back EXCEPT ![Thread] = "sleep"]
  /\ UNCHANGED <<heap, ulog, nodes, holder, given, call, copy, counts, fault>>

-----------------------------------------------------------------------------
Kinds == {"locker", "rbb", "notice", "th", "rb"}

Init ==
  /\ live = {} /\ made = [kind \in Kinds |-> 0]
  /\ ulog = [init_ok |-> FALSE, output_locker |-> Null, async_rbb |-> Null,
             async_notice |-> Null, async_th |-> Null, async_rb |-> Null]
  /\ nodes = {} /\ holder = Null /\ given = FALSE
  /\ pc = [x \in Tasks |->
             IF x = Owner THEN "out" ELSE IF x = Thread THEN "none" ELSE "idle"]
  /\ call = [c \in Callers |-> Null]
  /\ back = [x \in Callers \cup {Thread} |-> IF x = Thread THEN "sleep" ELSE "idle"]
  /\ copy = [x \in Callers \cup {Thread} |-> Null]
  /\ inits = 0 /\ calls = 0
  /\ deinits = 0 /\ unnoticed = 0 /\ overlap = FALSE /\ fault = Null

OwnerStep ==
  \/ InitCalled \/ LockerCreated \/ RbbCreated \/ NoticeCreated \/ ThreadCreated
  \/ InitReturns
  \/ DeinitCalled \/ NodesFreed \/ LockerDeleted \/ RbbDestroyed \/ ThreadDeleted
  \/ RbDestroyed \/ DeinitReturns

CallerStep(c) ==
  \/ Called(c) \/ RbCreated(c) \/ Locked(c) \/ NodeSet(c) \/ Stored(c)
  \/ RawPut(c) \/ NoticeGiven(c) \/ Unlocked(c)

DrainStep(x) ==
  \/ BlocksOutput(x) \/ RawTested(x) \/ RawMeasured(x) \/ RawCopied(x) \/ RawFreed(x)

Next ==
  \/ OwnerStep
  \/ \E c \in Callers : CallerStep(c)
  \/ \E x \in Callers \cup {Thread} : DrainStep(x)
  \/ Noticed \/ TimedOut
  \/ \E x \in Tasks : Fault(x)

Spec == Init /\ [][Next]_vars

-----------------------------------------------------------------------------
\* NULL or an object that was given back is accessed in these cases and no others:
\* a call and ulog_deinit overlap; the thread wakes by itself between the
\* destruction of the block buffer and its own deletion; async_rb or async_th,
\* which ulog_deinit leaves as they were, are used in a later life; ulog_deinit
\* reads the link of the filter it has freed; of two tasks that find async_rb NULL
\* the second has no memory and stores NULL over the buffer the first has created,
\* after a call of ulog_raw has tested async_rb and before its ringbuffer_put, or
\* after a drain has tested it and before its ringbuffer_data_len or
\* ringbuffer_get.  In particular nothing dangles before the first ulog_deinit,
\* however often ulog_init fails at any step, and the mutex, the block buffer and
\* the notice of every later life are its own.
UsesLive ==
  fault # Null =>
    \/ overlap
    \/ fault.by = Thread /\ pc[Owner] = "th_delete" /\ fault.dead = Whole(ulog.async_rbb)
    \/ deinits > 0 /\ fault.dead \subseteq {ulog.async_th} \cup Whole(ulog.async_rb)
    \/ fault.at = "link"
    \/ fault.at = "put" /\ fault.by \in Callers /\ fault.dead = {Null} /\ made["rb"] > 1
    \/ fault.at \in {"len", "copy"} /\ fault.dead = {Null} /\ made["rb"] > 1

\* While init_ok is set and ulog_deinit has not begun, all that log calls and the
\* thread need is there.  Only the thread may be missing: it could not be created,
\* or async_th names that of an earlier life.
ReadyWhenOk ==
  ulog.init_ok /\ ~ Deiniting =>
    /\ {ulog.output_locker, ulog.async_notice} \cup Whole(ulog.async_rbb) \subseteq live
    /\ ulog.async_th \in live \cup {Null} \/ deinits > 0

\* What nobody can give back any more.
Leaked(kind) ==
  LET handles == {ulog.output_locker, ulog.async_rbb, ulog.async_notice,
                  ulog.async_th, ulog.async_rb}
      known == (UNION {Whole(o) : o \in handles}) \cup nodes
                 \cup {copy[x] : x \in Callers \cup {Thread}}
  IN {o \in live \ known : Kind(o) = kind}

\* Through all failures and lives no more is lost than: one block buffer for each
\* ulog_init that failed at the notice; one notice for each ulog_deinit; byte
\* buffers, fewer than calls of ulog_raw that found none, so none by a single one;
\* the copy the thread held when it was deleted; the filter of a call that
\* overlapped ulog_deinit.
NothingElseLeaks ==
  /\ \A part \in {"rbb", "buf", "blk_set"} : Cardinality(Leaked(part)) <= unnoticed
  /\ Cardinality(Leaked("notice")) <= deinits
  /\ \A part \in {"rb", "pool"} : Leaked(part) # {} => Cardinality(Leaked(part)) < made["rb"]
  /\ Cardinality(Leaked("log")) <= deinits
  /\ Leaked("node") # {} => overlap
  /\ Leaked("locker") = {} /\ Leaked("th") = {}
=============================================================================
