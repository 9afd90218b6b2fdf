------------------------------- MODULE Backends -------------------------------
(***************************************************************************)
(* The backends of ulog.c: ulog.backend_list, a chain of slist nodes, is   *)
(* changed in critical sections by ulog_backend_register and               *)
(* ulog_backend_unregister and walked by ulog_output_to_all_backend and    *)
(* ulog_flush outside of them, by tasks that log and by the thread.        *)
(*                                                                         *)
(* The chain is the pointers it is made of, as a walk may stand on a node  *)
(* that was removed.  A line is what the backends are told about it: its   *)
(* level, whether it is raw, and how often its colour was cut off.  What a *)
(* visit reads of its backend is read in one step.  ulog.init_ok is TRUE   *)
(* throughout.                                                             *)
(***************************************************************************)
EXTENDS Integers, Sequences, SequencesExt

CONSTANTS
  Backends,         \* the struct ulog_backend of the application
  Tasks,            \* tasks that output lines and flush
  ColouredLevels,   \* levels with an entry in color_output_info
  PlainLevels,      \* the others
  OutLevels,        \* levels given to ulog_be_lvl_filter_set
  LOG_FILTER_LVL_ALL,
  LOG_LVL_DBG,      \* the level of raw data
  Filters,          \* filters given to ulog_backend_set_filter: the levels they let pass
  backend_list,     \* &ulog.backend_list
  None,             \* NULL
  MaxChanges        \* bound: calls that register, unregister or set a filter

Levels == ColouredLevels \cup PlainLevels

ASSUME LevelsAssumption ==
  /\ Levels \cup OutLevels \cup {LOG_FILTER_LVL_ALL} \subseteq Nat
  /\ LOG_LVL_DBG \in Levels
ASSUME FiltersAssumption == Filters \subseteq SUBSET Levels
ASSUME NamesAssumption ==
  /\ backend_list \notin Backends /\ None \notin Backends
  /\ backend_list # None
ASSUME BoundAssumption == MaxChanges \in Nat

VARIABLES
  next,           \* list.next of every node
  support_color,  \* backend->support_color
  out_level,      \* backend->out_level, None before it is first registered
  filter,         \* backend->filter
  where,          \* how far register and unregister have come with a backend
  pc,             \* where each task is
  line,           \* level and is_raw of the line, None in ulog_flush
  node,           \* node of the walk
  cut,            \* how often output_log was moved behind a colour
  walk,           \* the backends the walk has come to
  outputs,        \* the calls of backend->output for this line: [color, cut]
  changes,        \* calls that changed backends so far
  stayed,         \* backends on the list ever since the line was started
  known,          \* backends on the list at some time since then
  removed         \* a backend was removed since then

list == <<next, where>>
attributes == <<support_color, out_level, filter>>
progress == <<pc, line, node, cut, walk, outputs>>
history == <<stayed, known, removed>>
vars == <<list, attributes, progress, changes, history>>

Nodes == Backends \cup {backend_list}

\* The node k steps behind the head of the list.
Walk[k \in 0 .. (MaxChanges + 1)] ==
  IF k = 0 THEN backend_list
  ELSE IF Walk[k - 1] = None THEN None ELSE next[Walk[k - 1]]

\* The backends on the list, by what the calls did.
Listed == {b \in Backends : where[b] \in {"listed", "leaving"}}

Change == changes < MaxChanges /\ changes' = changes + 1
Step(t, from, to) == pc[t] = from /\ pc' = [pc EXCEPT ![t] = to]
Goes(b, from, to) == where[b] = from /\ where' = [where EXCEPT ![b] = to]

-----------------------------------------------------------------------------
Init ==
  /\ next = [n \in Nodes |-> None]
  /\ support_color = [b \in Backends |-> FALSE]
  /\ out_level = [b \in Backends |-> None]
  /\ filter = [b \in Backends |-> None]
  /\ where = [b \in Backends |-> "unlisted"]
  /\ pc = [t \in Tasks |-> "idle"]
  /\ line = [t \in Tasks |-> None]
  /\ node = [t \in Tasks |-> None]
  /\ cut = [t \in Tasks |-> 0]
  /\ walk = [t \in Tasks |-> << >>]
  /\ outputs = [t \in Tasks |-> << >>]
  /\ changes = 0
  /\ stayed = [t \in Tasks |-> {}]
  /\ known = [t \in Tasks |-> {}]
  /\ removed = [t \in Tasks |-> FALSE]

-----------------------------------------------------------------------------
\* Mutant of slist_append: the link of the new node is not cleared.
slist_append_keeps_next(n) ==
  \E k \in DOMAIN Walk :
    /\ Walk[k] # None
    /\ next[Walk[k]] = None
    /\ next' = [next EXCEPT ![Walk[k]] = n]

\* slist_append: behind the last node.
slist_append(n) ==
  \E k \in DOMAIN Walk :
    /\ Walk[k] # None
    /\ next[Walk[k]] = None
    /\ next' = [next EXCEPT ![Walk[k]] = n, ![n] = None]

\* slist_remove: the node before n is linked to the one behind it.  The link
\* of n itself stays.
slist_remove(n) ==
  \E k \in DOMAIN Walk :
    /\ Walk[k] # None
    /\ next[Walk[k]] = n
    /\ next' = [next EXCEPT ![Walk[k]] = next[n]]

\* ulog_backend_register of a backend that is not registered: its fields are
\* set before the critical section.
StartRegister(b) ==
  /\ Change
  /\ Goes(b, "unlisted", "entering")
  /\ \E color \in BOOLEAN : support_color' = [support_color EXCEPT ![b] = color]
  /\ out_level' = [out_level EXCEPT ![b] = LOG_FILTER_LVL_ALL]
  /\ UNCHANGED <<next, filter, progress, history>>

Link(b) ==
  /\ Goes(b, "entering", "listed")
  /\ slist_append(b)
  /\ known' = [t \in Tasks |-> known[t] \cup {b}]
  /\ UNCHANGED <<attributes, progress, changes, stayed, removed>>

\* ulog_backend_unregister: deinit is called before the critical section.
StartUnregister(b) ==
  /\ Change
  /\ Goes(b, "listed", "leaving")
  /\ UNCHANGED <<next, attributes, progress, history>>

Unlink(b) ==
  /\ Goes(b, "leaving", "unlisted")
  /\ slist_remove(b)
  /\ stayed' = [t \in Tasks |-> stayed[t] \ {b}]
  /\ removed' = [t \in Tasks |-> TRUE]
  /\ UNCHANGED <<attributes, progress, changes, known>>

ulog_backend_set_filter(b) ==
  /\ Change
  /\ \E f \in Filters : filter' = [filter EXCEPT ![b] = f]
  /\ UNCHANGED <<list, support_color, out_level, progress, history>>

\* ulog_be_lvl_filter_set with the name of b.  It holds no lock, and its walk
\* may stand on a backend that was removed meanwhile.
ulog_be_lvl_filter_set(b) ==
  /\ Change
  /\ out_level[b] # None
  /\ \E level \in OutLevels : out_level' = [out_level EXCEPT ![b] = level]
  /\ UNCHANGED <<list, support_color, filter, progress, history>>

-----------------------------------------------------------------------------
BeginWalk(t) ==
  /\ cut' = [cut EXCEPT ![t] = 0]
  /\ walk' = [walk EXCEPT ![t] = << >>]
  /\ outputs' = [outputs EXCEPT ![t] = << >>]
  /\ stayed' = [stayed EXCEPT ![t] = Listed]
  /\ known' = [known EXCEPT ![t] = Listed]
  /\ removed' = [removed EXCEPT ![t] = FALSE]

\* ulog_output_to_all_backend.
Start(t) ==
  /\ Step(t, "idle", "test")
  /\ \E level \in Levels, is_raw \in BOOLEAN :
       /\ is_raw => level = LOG_LVL_DBG
       /\ line' = [line EXCEPT ![t] = [level |-> level, is_raw |-> is_raw]]
  /\ BeginWalk(t)
  /\ UNCHANGED <<list, attributes, node, changes>>

\* ulog_flush, behind ulog_async_output.
StartFlush(t) ==
  /\ Step(t, "idle", "first")
  /\ line' = [line EXCEPT ![t] = None]
  /\ BeginWalk(t)
  /\ UNCHANGED <<list, attributes, node, changes>>

\* Without a backend the line is printed.
TestFirst(t) ==
  /\ Step(t, "test", IF next[backend_list] = None THEN "idle" ELSE "first")
  /\ UNCHANGED <<list, attributes, line, node, cut, walk, outputs, changes, history>>

\* The walk comes to node n, or to its end.
GoTo(t, from, n) ==
  /\ Step(t, from, IF n = None THEN "idle" ELSE "visit")
  /\ node' = [node EXCEPT ![t] = n]
  /\ walk' = IF n = None THEN walk ELSE [walk EXCEPT ![t] = @ \o <<n>>]
  /\ UNCHANGED <<list, attributes, line, cut, outputs, changes, history>>

First(t) == GoTo(t, "first", next[backend_list])

Follow(t) == GoTo(t, "follow", next[node[t]])

\* A backend's flush, if it has one, is called.
Flush(t) ==
  /\ Step(t, "visit", "follow")
  /\ line[t] = None
  /\ UNCHANGED <<list, attributes, line, node, cut, walk, outputs, changes, history>>

Refused(t) ==
  \/ out_level[node[t]] < line[t].level
  \/ filter[node[t]] # None /\ line[t].level \notin filter[node[t]]

\* Mutant of Refuse: the walk is left where it should go on.
Refuse_breaks(t) ==
  /\ Step(t, "visit", "idle")
  /\ line[t] # None /\ Refused(t)
  /\ UNCHANGED <<list, attributes, line, node, cut, walk, outputs, changes, history>>

\* The backend's level or its filter refuses the line.  A filter may be
\* replaced at any time but is not removed again.
Refuse(t) ==
  /\ Step(t, "visit", "follow")
  /\ line[t] # None /\ Refused(t)
  /\ UNCHANGED <<list, attributes, line, node, cut, walk, outputs, changes, history>>

Coloured(t) == line[t].level \in ColouredLevels /\ ~ line[t].is_raw

\* Mutant of Output: every backend gets the line as output_log has it.
Output_moved(t) ==
  /\ Step(t, "visit", "follow")
  /\ line[t] # None /\ ~ Refused(t)
  /\ cut' = [cut EXCEPT ![t] = IF Coloured(t) /\ ~ support_color[node[t]] THEN @ + 1 ELSE @]
  /\ outputs' = [outputs EXCEPT ![t] =
                   @ \o <<[color |-> support_color[node[t]], cut |-> cut'[t]]>>]
  /\ UNCHANGED <<list, attributes, line, node, walk, changes, history>>

\* The backend is given the line: as it is if it supports colour or the line
\* is raw, else from output_log, which is first moved on by a colour's length.
Output(t) ==
  /\ Step(t, "visit", "follow")
  /\ line[t] # None /\ ~ Refused(t)
  /\ LET monochrome == ~ support_color[node[t]] /\ ~ line[t].is_raw
     IN /\ cut' = [cut EXCEPT ![t] = IF monochrome /\ Coloured(t) THEN @ + 1 ELSE @]
        /\ outputs' = [outputs EXCEPT ![t] =
                         @ \o <<[color |-> support_color[node[t]],
                                  cut |-> IF monochrome THEN cut'[t] ELSE 0]>>]
  /\ UNCHANGED <<list, attributes, line, node, walk, changes, history>>

-----------------------------------------------------------------------------
ulog_output_to_all_backend(t) ==
  Start(t) \/ TestFirst(t) \/ First(t) \/ Refuse(t) \/ Output(t) \/ Follow(t)

ulog_flush(t) == StartFlush(t) \/ Flush(t)

Next ==
  \/ \E b \in Backends : StartRegister(b) \/ Link(b) \/ StartUnregister(b) \/ Unlink(b)
  \/ \E b \in Backends : ulog_backend_set_filter(b) \/ ulog_be_lvl_filter_set(b)
  \/ \E t \in Tasks : ulog_output_to_all_backend(t) \/ ulog_flush(t)

Spec == Init /\ [][Next]_vars

-----------------------------------------------------------------------------
\* Whatever is registered and unregistered in whatever order, following the
\* links from the head meets every registered backend once and then ends.
ListIsRegistered ==
  \E k \in DOMAIN Walk :
    LET chain == [i \in 1 .. k |-> Walk[i]]
    IN /\ Range(chain) = Listed
       /\ IsInjective(chain)
       /\ next[Walk[k]] = None

\* A walk, which holds no lock and may stand on a removed node, only comes to
\* backends that were registered at some time since the line was started: one
\* unregistered before is never called again.
OnlyKnownCalled == \A t \in Tasks : Range(walk[t]) \subseteq known[t]

\* Unless a backend is removed meanwhile, the walk comes to no backend twice
\* and to all that were there from the start, in the midst of registrations.
AllServedOnce ==
  \A t \in Tasks : ~ removed[t] =>
    /\ IsInjective(walk[t])
    /\ pc[t] = "idle" => stayed[t] \subseteq Range(walk[t])

\* How often the colour should have been cut off: once exactly if it must be.
RightCut(t, output) == IF Coloured(t) /\ ~ output.color THEN 1 ELSE 0

\* A backend with colour always gets the line as it is, and the first one
\* without gets it cut once, wherever on the list they are and whatever comes
\* and goes meanwhile.
FirstCutRight ==
  \A t \in Tasks : \A i \in 1 .. Len(outputs[t]) :
    \/ outputs[t][i].cut = RightCut(t, outputs[t][i])
    \/ \E j \in 1 .. (i - 1) : ~ outputs[t][i].color /\ ~ outputs[t][j].color

\* The comment in ulog_output_to_all_backend: the line is output for all
\* backends, so each of them gets it in full, from its colour or its text on.
OutputForAll ==
  \A t \in Tasks : \A i \in 1 .. Len(outputs[t]) :
    outputs[t][i].cut = RightCut(t, outputs[t][i])
=============================================================================
