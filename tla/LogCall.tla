------------------------------- MODULE LogCall -------------------------------
(***************************************************************************)
(* A log call of ulog.c from its first test to its return, in synchronous  *)
(* mode (async_enabled is FALSE, do_output calls the backends while the    *)
(* lock is held): the global level, the list of tag levels, walked node by *)
(* node under the output lock, the global tag, the lock once more, the     *)
(* recursion flag, the line buffer, the keyword, the backends.  Beside it  *)
(* the calls that change the filters or switch the lock.                   *)
(*                                                                         *)
(* A backend's output function may log itself: then a task has a second    *)
(* activation, the nested call <<t, 2>>, inside the first, <<t, 1>>.       *)
(*                                                                         *)
(* What a tag or a line contains is left out: whether the global tag and   *)
(* the keyword are found in it is chosen freely.  A tag stands for all     *)
(* with the same first ULOG_FILTER_TAG_MAX_LEN characters, which are what  *)
(* strncmp compares.  ulog.init_ok is TRUE throughout.                     *)
(***************************************************************************)
EXTENDS Integers, Sequences, SequencesExt

CONSTANTS
  Tasks,          \* tasks that log and set filters
  Tags,           \* tags that are used
  Levels,         \* levels of the lines that are logged
  FilterLevels,   \* levels that filters are set to
  LOG_LVL_DBG,
  LOG_FILTER_LVL_ALL,
  Nodes,          \* heap blocks that may become a struct ulog_tag_lvl_filter
  Kinds,          \* the calls each task makes: of "log", "hex", "raw", "set"
  None,           \* NULL, nobody, no line
  NumBackends,    \* registered backends
  NestWhenLocked, \* may a backend log although the lock is on?
  Rows,           \* rows of a hexdump
  MaxCalls,       \* bound: calls of each task that are not nested
  MaxNested,      \* bound: nested calls of a task
  MaxSwitches     \* bound: switches of the lock, and of the global level

ASSUME LevelsAssumption ==
  /\ Levels \subseteq 0 .. LOG_LVL_DBG
  /\ LOG_LVL_DBG < LOG_FILTER_LVL_ALL
  /\ FilterLevels \subseteq 0 .. LOG_FILTER_LVL_ALL
ASSUME KindsAssumption == Kinds \in [Tasks -> SUBSET {"log", "hex", "raw", "set"}]
ASSUME NamesAssumption == None \notin Tasks \cup Tags \cup Nodes
ASSUME NumbersAssumption == NumBackends \in Nat /\ Rows \in Nat \ {0}

Activations == Tasks \X {1, 2}
Task(x) == x[1]
Nested(x) == x[2] = 2
Outer(x) == <<x[1], 1>>
Inner(x) == <<x[1], 2>>

VARIABLES
  output_locker,        \* its holder
  output_lock_enabled,
  voutput_recursion,    \* the static ulog_voutput_recursion
  log_buf_th,           \* the activation that formatted into it last
  filter_level,         \* ulog.filter.level
  tag_lvl_list,         \* ulog.filter.tag_lvl_list
  node_tag,             \* the tag in each node
  node_level,           \* the level in each node
  pc,                   \* where each activation is
  call,                 \* its arguments, and the rows of a hexdump still to do
  node,                 \* its node in a walk along tag_lvl_list
  left,                 \* backends still to be given the line
  calls, nested, switches,  \* calls and switches so far
  in_force,             \* history: the level last set for each tag
  seen,                 \* history: levels in force during the lookup of a call
  found,                \* the level its lookup returned
  overwritten,          \* history: a nested hexdump or raw line took the buffer
  unsafe                \* history: the lock was used in a way that protects nothing

lock == <<output_locker, output_lock_enabled>>
filter == <<tag_lvl_list, node_tag, node_level, in_force>>
line == <<voutput_recursion, log_buf_th, overwritten>>
lookup == <<node, found, seen>>
local == <<call, left>>
counts == <<calls, nested, switches>>
vars == <<lock, filter_level, filter, line, pc, lookup, local, counts, unsafe>>

Step(x, from, to) == pc[x] = from /\ pc' = [pc EXCEPT ![x] = to]

\* Between output_lock and output_unlock.
InSection(x) ==
  pc[x] \in {"walk", "get_unlock", "check", "format", "output", "return", "unlock"}

-----------------------------------------------------------------------------
\* output_lock.  Without the lock it is up to the application that one task at
\* a time is in a section; unsafe records that it did not keep to it.
output_lock(x) ==
  /\ output_lock_enabled => output_locker = None
  /\ output_locker' = IF output_lock_enabled THEN Task(x) ELSE output_locker
  /\ unsafe' = (\/ unsafe
                \/ ~ output_lock_enabled
                   /\ \E y \in Activations : Task(y) # Task(x) /\ InSection(y))
  /\ UNCHANGED output_lock_enabled

\* output_unlock: a mutex is given back, whoever took it.
output_unlock ==
  /\ output_locker' = IF output_lock_enabled THEN None ELSE output_locker
  /\ UNCHANGED <<output_lock_enabled, unsafe>>

\* ulog_output_lock_enable, by anybody at any time.
ulog_output_lock_enable(enabled) ==
  /\ switches < MaxSwitches
  /\ enabled # output_lock_enabled
  /\ switches' = switches + 1
  /\ output_lock_enabled' = enabled
  /\ unsafe' = (unsafe \/ \E x \in Activations : InSection(x))
  /\ UNCHANGED <<output_locker, filter_level, filter, line, pc, lookup, local, calls, nested>>

ulog_global_filter_lvl_set(level) ==
  /\ switches < MaxSwitches
  /\ level # filter_level
  /\ switches' = switches + 1
  /\ filter_level' = level
  /\ UNCHANGED <<lock, filter, line, pc, lookup, local, calls, nested, unsafe>>

-----------------------------------------------------------------------------
\* A backend is busy with the line of x.
InBackend(x) == pc[x] = "output" /\ left[x] > 0

\* A task may make one more call, or a backend of its call one more inside it.
MayStart(x) ==
  IF Nested(x)
  THEN /\ InBackend(Outer(x))
       /\ NestWhenLocked \/ ~ output_lock_enabled
       /\ nested[Task(x)] < MaxNested
       /\ nested' = [nested EXCEPT ![Task(x)] = @ + 1]
       /\ UNCHANGED calls
  ELSE /\ calls[Task(x)] < MaxCalls[Task(x)]
       /\ calls' = [calls EXCEPT ![Task(x)] = @ + 1]
       /\ UNCHANGED nested

\* The arguments of a call.  ulog_raw has no tag and asks no filter.
Arguments(t) ==
  {args \in [kind : Kinds[t], tag : Tags \cup {None},
             level : Levels \cup FilterLevels \cup {LOG_LVL_DBG}, rows : {1, Rows}] :
     /\ args.kind = "raw" <=> args.tag = None
     /\ args.kind = "log" => args.level \in Levels
     /\ args.kind = "set" => args.level \in FilterLevels
     /\ args.kind \in {"hex", "raw"} => args.level = LOG_LVL_DBG
     /\ args.rows = IF args.kind = "hex" THEN Rows ELSE 1}

\* ulog_output, ulog_hexdump, ulog_raw or ulog_tag_lvl_filter_set is called.
Start(x) ==
  /\ MayStart(x)
  /\ \E args \in Arguments(Task(x)) :
       /\ call' = [call EXCEPT ![x] = args]
       /\ Step(x, "idle", IF args.kind \in {"log", "hex"} THEN "begin" ELSE "lock")
  /\ UNCHANGED <<lock, filter_level, filter, line, lookup, left, switches, unsafe>>

NextRow(c) == [c EXCEPT !.rows = c.rows - 1]

\* The end of ulog_voutput, ulog_raw or ulog_tag_lvl_filter_set.  ulog_hexdump
\* goes on with its next row.
Finish(x, from) ==
  LET more == call[x].rows > 1
  IN /\ Step(x, from, IF more THEN "begin" ELSE "idle")
     /\ call' = [call EXCEPT ![x] = IF more THEN NextRow(@) ELSE None]

\* ulog_voutput: the global level is tested first.
TestLevel(x) ==
  /\ pc[x] = "begin"
  /\ IF call[x].level > filter_level
     THEN Finish(x, "begin") ELSE Step(x, "begin", "get_lock") /\ UNCHANGED call
  /\ UNCHANGED <<lock, filter_level, filter, line, lookup, left, counts, unsafe>>

NodeAt(i) == IF i <= Len(tag_lvl_list) THEN tag_lvl_list[i] ELSE None

\* slist_next, of a node that may have been freed.
NextNode(n) ==
  IF n \in Range(tag_lvl_list)
  THEN NodeAt(1 + CHOOSE i \in DOMAIN tag_lvl_list : tag_lvl_list[i] = n) ELSE None

\* A lookup begins; it may find the level in force now or one that is set
\* meanwhile.
BeginLookup(x) ==
  /\ Step(x, "get_lock", "walk")
  /\ node' = [node EXCEPT ![x] = NodeAt(1)]
  /\ seen' = [seen EXCEPT ![x] = {in_force[call[x].tag]}]
  /\ UNCHANGED <<filter_level, filter, line, found, local, counts>>

\* Mutant of LockLookup: the list is walked without the lock.
LockLookup_without(x) == BeginLookup(x) /\ UNCHANGED <<lock, unsafe>>

\* ulog_tag_lvl_filter_get: its lock.
LockLookup(x) == BeginLookup(x) /\ output_lock(x)

\* ulog_tag_lvl_filter_set: its lock.
LockSet(x) ==
  /\ call[x] # None /\ call[x].kind = "set"
  /\ Step(x, "lock", "walk")
  /\ output_lock(x)
  /\ node' = [node EXCEPT ![x] = NodeAt(1)]
  /\ UNCHANGED <<filter_level, filter, line, found, seen, local, counts>>

Matches(x) == node[x] # None /\ node_tag[node[x]] = call[x].tag

WalkOver(x) == pc[x] = "walk" /\ (node[x] = None \/ Matches(x))

\* One node of a walk, of either function.
Walk(x) ==
  /\ pc[x] = "walk" /\ ~ WalkOver(x)
  /\ UNCHANGED pc
  /\ node' = [node EXCEPT ![x] = NextNode(node[x])]
  /\ UNCHANGED <<lock, filter_level, filter, line, found, seen, local, counts, unsafe>>

\* ulog_tag_lvl_filter_get has its result.
Found(x) ==
  /\ WalkOver(x)
  /\ call[x].kind # "set"
  /\ Step(x, "walk", "get_unlock")
  /\ found' = [found EXCEPT ![x] =
                 IF Matches(x) THEN node_level[node[x]] ELSE LOG_FILTER_LVL_ALL]
  /\ node' = [node EXCEPT ![x] = None]
  /\ UNCHANGED <<lock, filter_level, filter, line, seen, local, counts, unsafe>>

\* ulog_tag_lvl_filter_get returns; ulog_voutput returns as well if the level is
\* above the one found or the global tag is not in the tag.
TestTag(x) ==
  /\ \/ Step(x, "get_unlock", "lock") /\ call[x].level <= found[x] /\ UNCHANGED call
     \/ pc[x] = "get_unlock" /\ Finish(x, "get_unlock")
  /\ output_unlock
  /\ found' = [found EXCEPT ![x] = None]
  /\ seen' = [seen EXCEPT ![x] = {}]
  /\ UNCHANGED <<filter_level, filter, line, node, left, counts>>

\* The lock that is held until the line is out.
Lock(x) ==
  /\ call[x] # None /\ call[x].kind # "set"
  /\ Step(x, "lock", IF call[x].kind = "raw" THEN "format" ELSE "check")
  /\ output_lock(x)
  /\ UNCHANGED <<filter_level, filter, line, lookup, local, counts>>

\* ulog_voutput: a formatted line inside another is printed at once with
\* uprintf; a hexdump is not.
CheckRecursion(x) ==
  /\ pc[x] = "check"
  /\ Step(x, "check", IF voutput_recursion /\ call[x].kind = "log" THEN "unlock" ELSE "format")
  /\ UNCHANGED <<lock, filter_level, filter, line, lookup, local, counts, unsafe>>

\* Mutant of SetFlag: the flag is not set.
SetFlag_never(x) == UNCHANGED voutput_recursion

SetFlag(x) == voutput_recursion' = (voutput_recursion \/ call[x].kind # "raw")

\* Mutant of NoKeyword: the flag is not cleared on this way out.
NoKeyword_keeps_flag(x) == Step(x, "format", "unlock") /\ call[x].kind # "raw"

\* The keyword is not in the line, which is dropped.
NoKeyword(x) == Step(x, "format", "return") /\ call[x].kind # "raw"

\* The line is formatted into the line buffer.
Format(x) ==
  /\ \/ Step(x, "format", "output") /\ left' = [left EXCEPT ![x] = NumBackends]
     \/ NoKeyword(x) /\ UNCHANGED left
  /\ SetFlag(x)
  /\ log_buf_th' = x
  /\ overwritten' = [overwritten EXCEPT ![Task(x)] = Nested(x) /\ (@ \/ call[x].kind # "log")]
  /\ UNCHANGED <<lock, filter_level, filter, lookup, call, counts, unsafe>>

\* do_output: the next backend returns, once a call it made has returned.
Output(x) ==
  /\ InBackend(x)
  /\ Nested(x) \/ pc[Inner(x)] = "idle"
  /\ UNCHANGED pc
  /\ left' = [left EXCEPT ![x] = @ - 1]
  /\ UNCHANGED <<lock, filter_level, filter, line, lookup, call, counts, unsafe>>

OutputDone(x) ==
  /\ pc[x] = "output" /\ left[x] = 0
  /\ Step(x, "output", IF call[x].kind = "raw" THEN "unlock" ELSE "return")
  /\ UNCHANGED <<lock, filter_level, filter, line, lookup, local, counts, unsafe>>

\* ulog_voutput after do_output, or after the keyword was not found.
Return(x) ==
  /\ Step(x, "return", "unlock")
  /\ voutput_recursion' = FALSE
  /\ UNCHANGED <<lock, filter_level, filter, log_buf_th, overwritten, lookup, local, counts,
                 unsafe>>

Unlock(x) ==
  /\ pc[x] = "unlock"
  /\ Finish(x, "unlock")
  /\ output_unlock
  /\ UNCHANGED <<filter_level, filter, line, lookup, left, counts>>

-----------------------------------------------------------------------------
\* Mutant of TagLvl: a node that does not match is not forgotten.
TagLvl_last(x) ==
  IF tag_lvl_list = << >> \/ Matches(x) THEN node[x] ELSE tag_lvl_list[Len(tag_lvl_list)]

\* tag_lvl, after the loop of ulog_tag_lvl_filter_set.
TagLvl(x) == IF Matches(x) THEN node[x] ELSE None

FreeNode(n) ==
  /\ \E i \in DOMAIN tag_lvl_list :
       tag_lvl_list[i] = n /\ tag_lvl_list' = RemoveAt(tag_lvl_list, i)
  /\ UNCHANGED <<node_tag, node_level>>

Change(n, level) ==
  /\ node_level' = [node_level EXCEPT ![n] = level]
  /\ UNCHANGED <<tag_lvl_list, node_tag>>

\* pvPortMalloc returns a block that is not on the list.
Add(tag, level) ==
  LET free == Nodes \ Range(tag_lvl_list)
      n == CHOOSE n \in free : TRUE
  IN /\ free # {}
     /\ tag_lvl_list' = Append(tag_lvl_list, n)
     /\ node_tag' = [node_tag EXCEPT ![n] = tag]
     /\ node_level' = [node_level EXCEPT ![n] = level]

\* ulog_tag_lvl_filter_set: a tag with LOG_FILTER_LVL_ALL is not on the list, so
\* its node is freed or none is made.
SetLevel(x) ==
  /\ WalkOver(x)
  /\ call[x].kind = "set"
  /\ LET level == call[x].level
         all == level = LOG_FILTER_LVL_ALL
         tag_lvl == TagLvl(x)
     IN /\ \/ tag_lvl # None /\ all /\ FreeNode(tag_lvl)
           \/ tag_lvl # None /\ ~ all /\ Change(tag_lvl, level)
           \/ tag_lvl = None /\ ~ all /\ Add(call[x].tag, level)
           \/ tag_lvl = None /\ all /\ UNCHANGED <<tag_lvl_list, node_tag, node_level>>
        /\ in_force' = [in_force EXCEPT ![call[x].tag] = level]
        /\ seen' = [y \in Activations |->
                      IF pc[y] = "walk" /\ call[y].kind # "set" /\ call[y].tag = call[x].tag
                      THEN seen[y] \cup {level} ELSE seen[y]]
  /\ Step(x, "walk", "unlock")
  /\ node' = [node EXCEPT ![x] = None]
  /\ UNCHANGED <<lock, filter_level, line, found, local, counts, unsafe>>

\* Mutant of NoMemory: it returns without unlocking.
NoMemory_keeps_lock(x) ==
  /\ WalkOver(x)
  /\ call[x].kind = "set" /\ call[x].level # LOG_FILTER_LVL_ALL
  /\ TagLvl(x) = None
  /\ Finish(x, "walk")
  /\ UNCHANGED <<lock, filter_level, filter, line, lookup, left, counts, unsafe>>

\* ulog_tag_lvl_filter_set fails: no memory for a node.
NoMemory(x) ==
  /\ WalkOver(x)
  /\ call[x].kind = "set" /\ call[x].level # LOG_FILTER_LVL_ALL
  /\ TagLvl(x) = None
  /\ Step(x, "walk", "unlock")
  /\ UNCHANGED <<lock, filter_level, filter, line, lookup, local, counts, unsafe>>

-----------------------------------------------------------------------------
Init ==
  /\ output_locker = None
  /\ output_lock_enabled = TRUE
  /\ voutput_recursion = FALSE
  /\ log_buf_th = None
  /\ overwritten = [t \in Tasks |-> FALSE]
  /\ filter_level = LOG_FILTER_LVL_ALL
  /\ tag_lvl_list = << >>
  /\ node_tag = [n \in Nodes |-> None]
  /\ node_level = [n \in Nodes |-> LOG_FILTER_LVL_ALL]
  /\ in_force = [tag \in Tags |-> LOG_FILTER_LVL_ALL]
  /\ pc = [x \in Activations |-> "idle"]
  /\ call = [x \in Activations |-> None]
  /\ node = [x \in Activations |-> None]
  /\ found = [x \in Activations |-> None]
  /\ seen = [x \in Activations |-> {}]
  /\ left = [x \in Activations |-> 0]
  /\ calls = [t \in Tasks |-> 0]
  /\ nested = [t \in Tasks |-> 0]
  /\ switches = 0
  /\ unsafe = FALSE

\* A call goes on.
CallStep(x) ==
  \/ TestLevel(x) \/ LockLookup(x) \/ Walk(x) \/ Found(x) \/ TestTag(x)
  \/ Lock(x) \/ CheckRecursion(x) \/ Format(x) \/ Output(x) \/ OutputDone(x) \/ Return(x)
  \/ LockSet(x) \/ SetLevel(x) \/ NoMemory(x) \/ Unlock(x)

Next ==
  \/ \E x \in Activations : Start(x) \/ CallStep(x)
  \/ \E enabled \in BOOLEAN : ulog_output_lock_enable(enabled)
  \/ \E level \in FilterLevels : ulog_global_filter_lvl_set(level)

\* Calls in progress are not starved by the scheduler; nothing obliges a task to
\* make one, or anybody to change a filter or the lock.
Fairness == \A x \in Activations : WF_vars(CallStep(x))

Spec == Init /\ [][Next]_vars /\ Fairness

-----------------------------------------------------------------------------
\* No walk along the list of tag levels, of which every node may be freed by
\* another task, stands on a node that was.
NoFreedNode ==
  \A x \in Activations : ~ unsafe /\ node[x] # None => node[x] \in Range(tag_lvl_list)

\* A lookup returns a level that was in force for the tag at some time during
\* the lookup, whatever was set, removed and set again, and failed, before.
LevelFound ==
  \A x \in Activations : ~ unsafe /\ found[x] # None => found[x] \in seen[x]

\* While the backends are given a formatted line or a row of a hexdump, it is
\* still the one in the buffer, also if they log formatted lines themselves:
\* ulog_raw neither sets nor tests the flag that stops these.
OuterLineIntact ==
  \A t \in Tasks :
    /\ ~ unsafe /\ ~ overwritten[t]
    /\ InBackend(<<t, 1>>) /\ call[<<t, 1>>].kind # "raw"
    => log_buf_th = <<t, 1>>

\* The recursion flag is set only while a call is at work that will clear it,
\* so no line is ever taken for a recursion after the calls have returned.  This
\* holds with the lock off and misused as well.
FlagCleared ==
  voutput_recursion => \E x \in Activations : InSection(x)

\* Every call returns, with the lock on or off.
CallsReturn ==
  \A x \in Activations : (pc[x] # "idle") ~> (pc[x] = "idle" \/ unsafe)

\* What the comment on the recursion test says: a formatted line logged while
\* another is at work is handled there, in a simple way.  So it does not wait for
\* the lock that its own task holds.
RecursionIsHandled ==
  \A t \in Tasks :
    ~ /\ voutput_recursion /\ call[<<t, 1>>] # None /\ call[<<t, 1>>].kind = "log"
      /\ pc[<<t, 2>>] \in {"get_lock", "lock"} /\ call[<<t, 2>>].kind = "log"
      /\ output_lock_enabled /\ output_locker = t
=============================================================================
