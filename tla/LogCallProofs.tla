---------------------------- MODULE LogCallProofs ----------------------------
(***************************************************************************)
(* Proofs about log calls, for every number of tasks, tags, list nodes,    *)
(* backends and hexdump rows, for any calls by any task, with backends     *)
(* that log and with the lock switched on and off.                         *)
(*                                                                         *)
(* FlagInv needs only the types.  The rest is built on SectionInv: who may *)
(* be in a section beside whom.  From it follow, one by one, that walks    *)
(* stand on nodes of the list (WalkInv), that a line stays in the buffer   *)
(* (LineInv) and that lookups find a level in force (FilterInv, LookupInv).*)
(***************************************************************************)
EXTENDS LogCall, SequenceFacts

-----------------------------------------------------------------------------
\* The parts of the inductive invariants.

Places ==
  {"idle", "begin", "get_lock", "walk", "get_unlock", "lock", "check", "format", "output",
   "return", "unlock"}

AllLevels == Levels \cup FilterLevels \cup {LOG_LVL_DBG, LOG_FILTER_LVL_ALL}

Calls ==
  [kind : {"log", "hex", "raw", "set"}, tag : Tags \cup {None}, level : AllLevels, rows : Nat]

\* The types of everything but the calls.
DataTyped ==
  /\ output_lock_enabled \in BOOLEAN
  /\ voutput_recursion \in BOOLEAN
  /\ unsafe \in BOOLEAN
  /\ overwritten \in [Tasks -> BOOLEAN]
  /\ tag_lvl_list \in Seq(Nodes)
  /\ node_tag \in [Nodes -> Tags \cup {None}]
  /\ node_level \in [Nodes -> AllLevels]
  /\ in_force \in [Tags -> AllLevels]
  /\ node \in [Activations -> Nodes \cup {None}]
  /\ found \in [Activations -> AllLevels \cup {None}]
  /\ seen \in [Activations -> SUBSET AllLevels]
  /\ left \in [Activations -> Nat]

\* A call that may be at a place.
Fits(place, c) ==
  /\ place # "idle" =>
       /\ c \in Calls
       /\ c.kind # "raw" => c.tag \in Tags
       /\ c.rows > 1 => c.kind = "hex"
  /\ place \in {"begin", "get_lock", "get_unlock", "check", "return"} => c.kind \in {"log", "hex"}
  /\ place = "walk" => c.kind # "raw"
  /\ place \in {"format", "output"} => c.kind # "set"

\* Every call is one that may be where it is.
CallsTyped ==
  /\ pc \in [Activations -> Places]
  /\ call \in [Activations -> Calls \cup {None}]
  /\ \A x \in Activations : Fits(pc[x], call[x])

\* Whoever set the recursion flag has still to clear it.
FlagInv ==
  voutput_recursion =>
    \E x \in Activations : pc[x] \in {"output", "return"} /\ call[x].kind # "raw"

\* A nested call is made by a backend of the call around it, which waits.
Nesting == \A t \in Tasks : pc[<<t, 2>>] # "idle" => InBackend(<<t, 1>>)

\* Whoever is in a section has it for his task, and with the lock on he holds it.
LockInv ==
  ~ unsafe =>
    \A x \in Activations : InSection(x) =>
      /\ \A y \in Activations : InSection(y) => Task(y) = Task(x)
      /\ output_lock_enabled =>
           /\ output_locker = Task(x)
           /\ \A y \in Activations : InSection(y) => y = x

\* Walks, and where they stand.
WalkInv ==
  \A x \in Activations : node[x] # None =>
    /\ pc[x] = "walk"
    /\ ~ unsafe => node[x] \in Range(tag_lvl_list)

\* While the backends are given a line, a nested call finds the flag set, and so
\* comes to the line buffer only with a hexdump or raw data.
LineInv ==
  \A t \in Tasks :
    /\ ~ unsafe /\ ~ overwritten[t]
    /\ pc[<<t, 1>>] = "output" /\ call[<<t, 1>>].kind # "raw"
    => /\ voutput_recursion
       /\ log_buf_th = <<t, 1>>
       /\ pc[<<t, 2>>] \notin {"output", "return"}
       /\ pc[<<t, 2>>] = "format" => call[<<t, 2>>].kind # "log"

\* Every tag is on the list once, with the level last set for it, or not at all.
FilterInv ==
  ~ unsafe =>
    /\ \A i, j \in 1 .. Len(tag_lvl_list) :
         node_tag[tag_lvl_list[i]] = node_tag[tag_lvl_list[j]] => i = j
    /\ \A i \in 1 .. Len(tag_lvl_list) :
         /\ node_tag[tag_lvl_list[i]] \in Tags
         /\ node_level[tag_lvl_list[i]] = in_force[node_tag[tag_lvl_list[i]]]
    /\ \A tag \in Tags :
         \/ in_force[tag] = LOG_FILTER_LVL_ALL
         \/ \E i \in 1 .. Len(tag_lvl_list) : node_tag[tag_lvl_list[i]] = tag

\* A walk has passed no node with its tag, and a lookup has seen the level in force.
LookupInv ==
  \A x \in Activations :
    /\ pc[x] = "walk" /\ ~ unsafe =>
         \E k \in 1 .. Len(tag_lvl_list) + 1 :
           /\ node[x] = NodeAt(k)
           /\ \A i \in 1 .. k - 1 : node_tag[tag_lvl_list[i]] # call[x].tag
    /\ pc[x] = "walk" /\ call[x].kind # "set" => in_force[call[x].tag] \in seen[x]
    /\ pc[x] = "get_unlock" /\ ~ unsafe => found[x] \in seen[x]
    /\ found[x] # None => pc[x] = "get_unlock"

-----------------------------------------------------------------------------
\* The types.

\* The one or two activations of a task.
LEMMA ActivationFacts ==
  /\ \A t \in Tasks : <<t, 1>> \in Activations /\ <<t, 2>> \in Activations
  /\ \A x \in Activations :
       /\ Task(x) \in Tasks
       /\ Outer(x) = <<Task(x), 1>> /\ Inner(x) = <<Task(x), 2>>
       /\ x = IF Nested(x) THEN Inner(x) ELSE Outer(x)
BY DEF Activations, Task, Nested, Outer, Inner

\* A call starts with arguments of its type.
LEMMA ArgumentsFit ==
  ASSUME NEW t \in Tasks, NEW args \in Arguments(t)
  PROVE  /\ args \in Calls
         /\ args.kind # "raw" => args.tag \in Tags
         /\ args.rows > 1 => args.kind = "hex"
BY KindsAssumption, NumbersAssumption DEF Arguments, Calls, AllLevels

\* A call that moves to a place where it may be keeps the types.
LEMMA MoveTyped ==
  ASSUME CallsTyped, NEW x \in Activations, NEW place \in Places, NEW c \in Calls \cup {None},
         Fits(place, c), pc' = [pc EXCEPT ![x] = place], call' = [call EXCEPT ![x] = c]
  PROVE  CallsTyped'
<1>1. \A y \in Activations : Fits(pc'[y], call'[y])
  <2>. SUFFICES ASSUME NEW y \in Activations PROVE Fits(pc'[y], call'[y])
    OBVIOUS
  <2>1. CASE y = x
    <3>1. pc'[y] = place /\ call'[y] = c
      BY <2>1 DEF CallsTyped
    <3>. QED  BY <3>1
  <2>2. CASE y # x
    <3>1. pc'[y] = pc[y] /\ call'[y] = call[y]
      BY <2>2 DEF CallsTyped
    <3>. QED  BY <3>1 DEF CallsTyped
  <2>. QED  BY <2>1, <2>2
<1>. QED  BY <1>1 DEF CallsTyped

\* A step to another place keeps the types.
LEMMA StepTyped ==
  ASSUME CallsTyped, NEW x \in Activations, NEW from, NEW place \in Places,
         Step(x, from, place), UNCHANGED call, Fits(place, call[x])
  PROVE  CallsTyped'
<1>1. call' = [call EXCEPT ![x] = call[x]]
  BY DEF CallsTyped
<1>. QED  BY <1>1, MoveTyped DEF Step, CallsTyped

\* The end of a call, or the next row of a hexdump, keeps the types.
LEMMA FinishTyped ==
  ASSUME CallsTyped, NEW x \in Activations, NEW from \in Places, from # "idle", Finish(x, from)
  PROVE  CallsTyped'
<1>1. call[x] \in Calls /\ Fits(from, call[x])
  BY DEF Finish, Step, CallsTyped, Fits
<1>2. CASE call[x].rows > 1
  <2>1. PICK c : c = NextRow(call[x])
    OBVIOUS
  <2>2. c \in Calls /\ c.kind = "hex" /\ c.tag \in Tags
    BY <1>1, <1>2, <2>1 DEF NextRow, Calls, Fits
  <2>3. Fits("begin", c)
    BY <2>2 DEF Fits
  <2>4. pc' = [pc EXCEPT ![x] = "begin"] /\ call' = [call EXCEPT ![x] = c]
    BY <1>2, <2>1 DEF Finish, Step
  <2>. QED  BY <2>2, <2>3, <2>4, MoveTyped DEF Places
<1>3. CASE ~ (call[x].rows > 1)
  <2>1. pc' = [pc EXCEPT ![x] = "idle"] /\ call' = [call EXCEPT ![x] = None]
    BY <1>3 DEF Finish, Step
  <2>2. Fits("idle", None)
    BY DEF Fits
  <2>. QED  BY <2>1, <2>2, MoveTyped DEF Places
<1>. QED  BY <1>2, <1>3

\* The types hold in the beginning.
LEMMA InitTyped == Init => CallsTyped /\ DataTyped
<1>. SUFFICES ASSUME Init PROVE CallsTyped /\ DataTyped
  OBVIOUS
<1>1. CallsTyped
  BY DEF Init, CallsTyped, Fits, Places
<1>2. DataTyped
  BY EmptySeq, Zenon DEF Init, DataTyped, AllLevels
<1>. QED  BY <1>1, <1>2

\* A step of a call keeps what it is at each place.
LEMMA CallStepTypesCalls ==
  ASSUME CallsTyped, NEW x \in Activations, CallStep(x)
  PROVE  CallsTyped'
<1>. USE DEF Places
<1>1. CASE TestLevel(x)
  <2>1. CASE Finish(x, "begin")
    BY <2>1, FinishTyped
  <2>2. CASE Step(x, "begin", "get_lock") /\ UNCHANGED call
    BY <2>2, StepTyped DEF Step, CallsTyped, Fits
  <2>. QED  BY <1>1, <2>1, <2>2 DEF TestLevel
<1>2. CASE LockLookup(x)
  BY <1>2, StepTyped DEF LockLookup, BeginLookup, Step, CallsTyped, Fits, local
<1>3. CASE Walk(x)
  BY <1>3 DEF Walk, CallsTyped, local
<1>4. CASE Found(x)
  BY <1>4, StepTyped DEF Found, Step, CallsTyped, Fits, Calls, local
<1>5. CASE TestTag(x)
  <2>1. CASE Finish(x, "get_unlock")
    BY <2>1, FinishTyped
  <2>2. CASE Step(x, "get_unlock", "lock") /\ UNCHANGED call
    BY <2>2, StepTyped DEF Step, CallsTyped, Fits
  <2>. QED  BY <1>5, <2>1, <2>2 DEF TestTag
<1>6. CASE Lock(x)
  BY <1>6, StepTyped DEF Lock, Step, CallsTyped, Fits, Calls, local
<1>7. CASE CheckRecursion(x)
  BY <1>7, StepTyped DEF CheckRecursion, Step, CallsTyped, Fits, local
<1>8. CASE Format(x)
  BY <1>8, StepTyped DEF Format, NoKeyword, Step, CallsTyped, Fits, Calls
<1>9. CASE Output(x)
  BY <1>9 DEF Output, CallsTyped
<1>10. CASE OutputDone(x)
  BY <1>10, StepTyped DEF OutputDone, Step, CallsTyped, Fits, Calls, local
<1>11. CASE Return(x)
  BY <1>11, StepTyped DEF Return, Step, CallsTyped, Fits, local
<1>12. CASE LockSet(x)
  BY <1>12, StepTyped DEF LockSet, Step, CallsTyped, Fits, local
<1>13. CASE SetLevel(x)
  BY <1>13, StepTyped DEF SetLevel, Step, CallsTyped, Fits, local
<1>14. CASE NoMemory(x)
  BY <1>14, StepTyped DEF NoMemory, Step, CallsTyped, Fits, local
<1>15. CASE Unlock(x)
  BY <1>15, FinishTyped DEF Unlock
<1>. QED
  BY <1>1, <1>2, <1>3, <1>4, <1>5, <1>6, <1>7, <1>8, <1>9, <1>10, <1>11, <1>12, <1>13, <1>14,
     <1>15 DEF CallStep

\* The list of tag levels, by position.
LEMMA ListFacts ==
  ASSUME DataTyped
  PROVE  /\ Len(tag_lvl_list) \in Nat
         /\ DOMAIN tag_lvl_list = 1 .. Len(tag_lvl_list)
         /\ \A i \in 1 .. Len(tag_lvl_list) : tag_lvl_list[i] \in Nodes /\ tag_lvl_list[i] # None
         /\ \A n : n \in Range(tag_lvl_list) <=> \E i \in 1 .. Len(tag_lvl_list) : tag_lvl_list[i] = n
<1>1. tag_lvl_list \in Seq(Nodes)
  BY DEF DataTyped
<1>2. Len(tag_lvl_list) \in Nat /\ DOMAIN tag_lvl_list = 1 .. Len(tag_lvl_list)
  BY <1>1, LenProperties
<1>3. \A i \in 1 .. Len(tag_lvl_list) : tag_lvl_list[i] \in Nodes
  BY <1>1, ElementOfSeq
<1>4. \A n : n \in Range(tag_lvl_list) <=> \E i \in 1 .. Len(tag_lvl_list) : tag_lvl_list[i] = n
  BY <1>1, RangeByPosition
<1>. QED  BY <1>2, <1>3, <1>4, NamesAssumption

\* NodeAt is the node at a position, None behind the last.
LEMMA NodeAtFacts ==
  ASSUME DataTyped, NEW k \in Nat \ {0}
  PROVE  /\ NodeAt(k) \in Nodes \cup {None}
         /\ NodeAt(k) # None => k \in 1 .. Len(tag_lvl_list) /\ NodeAt(k) = tag_lvl_list[k]
         /\ NodeAt(k) = None => k > Len(tag_lvl_list)
BY ListFacts DEF NodeAt

\* NextNode leads from a position to the next.
LEMMA NextNodeFacts ==
  ASSUME DataTyped, NEW n
  PROVE  /\ n \in Range(tag_lvl_list) =>
              \E k \in 1 .. Len(tag_lvl_list) :
                tag_lvl_list[k] = n /\ NextNode(n) = NodeAt(k + 1)
         /\ NextNode(n) \in Nodes \cup {None}
<1>1. CASE n \in Range(tag_lvl_list)
  <2>1. PICK k : k = CHOOSE i \in DOMAIN tag_lvl_list : tag_lvl_list[i] = n
    OBVIOUS
  <2>2. k \in 1 .. Len(tag_lvl_list) /\ tag_lvl_list[k] = n
    BY <1>1, <2>1, ListFacts
  <2>3. NextNode(n) = NodeAt(k + 1)
    <3>1. NextNode(n) = NodeAt(1 + k)
      BY <1>1, <2>1 DEF NextNode
    <3>. QED  BY <2>2, <3>1, ListFacts
  <2>. QED  BY <2>2, <2>3, NodeAtFacts, ListFacts
<1>2. CASE n \notin Range(tag_lvl_list)
  BY <1>2 DEF NextNode
<1>. QED  BY <1>1, <1>2

\* A step of a call keeps the types of everything else.
LEMMA CallStepTypesData ==
  ASSUME CallsTyped, DataTyped, NEW x \in Activations, CallStep(x)
  PROVE  DataTyped'
<1>. USE DEF DataTyped, lock, filter, line, lookup, local, counts
<1>1. CASE TestLevel(x)
  BY <1>1 DEF TestLevel
<1>2. CASE LockLookup(x)
  <2>1. node' \in [Activations -> Nodes \cup {None}]
    BY <1>2, NodeAtFacts DEF LockLookup, BeginLookup
  <2>2. seen' \in [Activations -> SUBSET AllLevels]
    <3>1. in_force[call[x].tag] \in AllLevels
      BY <1>2 DEF LockLookup, BeginLookup, Step, CallsTyped, Fits, Calls
    <3>. QED  BY <1>2, <3>1 DEF LockLookup, BeginLookup
  <2>. QED  BY <1>2, <2>1, <2>2 DEF LockLookup, BeginLookup, output_lock
<1>3. CASE Walk(x)
  BY <1>3, NextNodeFacts DEF Walk
<1>4. CASE Found(x)
  <2>1. (IF Matches(x) THEN node_level[node[x]] ELSE LOG_FILTER_LVL_ALL) \in AllLevels
    BY DEF Matches, AllLevels
  <2>. QED  BY <1>4, <2>1 DEF Found
<1>5. CASE TestTag(x)
  BY <1>5 DEF TestTag, output_unlock
<1>6. CASE Lock(x)
  BY <1>6 DEF Lock, output_lock
<1>7. CASE CheckRecursion(x)
  BY <1>7 DEF CheckRecursion
<1>8. CASE Format(x)
  <2>1. overwritten' \in [Tasks -> BOOLEAN]
    BY <1>8, ActivationFacts DEF Format
  <2>2. left' \in [Activations -> Nat]
    BY <1>8, NumbersAssumption DEF Format
  <2>3. voutput_recursion' \in BOOLEAN
    BY <1>8, Zenon DEF Format, SetFlag
  <2>. QED  BY <1>8, <2>1, <2>2, <2>3 DEF Format
<1>9. CASE Output(x)
  BY <1>9 DEF Output, InBackend
<1>10. CASE OutputDone(x)
  BY <1>10 DEF OutputDone
<1>11. CASE Return(x)
  BY <1>11 DEF Return
<1>12. CASE LockSet(x)
  <2>1. node' \in [Activations -> Nodes \cup {None}]
    BY <1>12, NodeAtFacts DEF LockSet
  <2>. QED  BY <1>12, <2>1 DEF LockSet, output_lock
<1>13. CASE SetLevel(x)
  <2>1. call[x].tag \in Tags /\ call[x].level \in AllLevels
    BY <1>13 DEF SetLevel, WalkOver, CallsTyped, Fits, Calls
  <2>2. /\ tag_lvl_list' \in Seq(Nodes)
        /\ node_tag' \in [Nodes -> Tags \cup {None}]
        /\ node_level' \in [Nodes -> AllLevels]
    <3>1. CASE FreeNode(TagLvl(x))
      BY <3>1, ListFacts, RemoveAtProperties DEF FreeNode
    <3>2. CASE Change(TagLvl(x), call[x].level)
      BY <2>1, <3>2 DEF Change
    <3>3. CASE Add(call[x].tag, call[x].level)
      <4>1. PICK n \in Nodes :
              /\ tag_lvl_list' = Append(tag_lvl_list, n)
              /\ node_tag' = [node_tag EXCEPT ![n] = call[x].tag]
              /\ node_level' = [node_level EXCEPT ![n] = call[x].level]
        BY <3>3 DEF Add
      <4>. QED  BY <2>1, <4>1, AppendProperties
    <3>4. CASE UNCHANGED <<tag_lvl_list, node_tag, node_level>>
      BY <3>4
    <3>. QED  BY <1>13, <3>1, <3>2, <3>3, <3>4 DEF SetLevel
  <2>3. seen' \in [Activations -> SUBSET AllLevels]
    BY <1>13, <2>1 DEF SetLevel
  <2>4. in_force' \in [Tags -> AllLevels] /\ node' \in [Activations -> Nodes \cup {None}]
    BY <1>13, <2>1 DEF SetLevel
  <2>. QED  BY <1>13, <2>2, <2>3, <2>4 DEF SetLevel
<1>14. CASE NoMemory(x)
  BY <1>14 DEF NoMemory
<1>15. CASE Unlock(x)
  BY <1>15 DEF Unlock, output_unlock
<1>. QED
  BY <1>1, <1>2, <1>3, <1>4, <1>5, <1>6, <1>7, <1>8, <1>9, <1>10, <1>11, <1>12, <1>13, <1>14,
     <1>15 DEF CallStep

TypeInv == CallsTyped /\ DataTyped

\* Every step keeps the types.
LEMMA NextTyped == TypeInv /\ [Next]_vars => TypeInv'
<1>. SUFFICES ASSUME TypeInv, [Next]_vars PROVE TypeInv'
  OBVIOUS
<1>1. ASSUME NEW x \in Activations, Start(x) PROVE TypeInv'
  <2>1. PICK args \in Arguments(Task(x)) :
          /\ call' = [call EXCEPT ![x] = args]
          /\ Step(x, "idle", IF args.kind \in {"log", "hex"} THEN "begin" ELSE "lock")
    BY <1>1 DEF Start
  <2>2. /\ args \in Calls
        /\ args.kind # "raw" => args.tag \in Tags
        /\ args.rows > 1 => args.kind = "hex"
    BY ActivationFacts, ArgumentsFit
  <2>3. CallsTyped'
    <3>1. PICK place : place = IF args.kind \in {"log", "hex"} THEN "begin" ELSE "lock"
      OBVIOUS
    <3>2. place \in Places /\ Fits(place, args)
      BY <2>2, <3>1 DEF Places, Fits
    <3>. QED  BY <2>1, <2>2, <3>1, <3>2, MoveTyped DEF TypeInv, Step
  <2>4. DataTyped'
    BY <1>1 DEF TypeInv, Start, DataTyped, filter, line, lookup, lock
  <2>. QED  BY <2>3, <2>4 DEF TypeInv
<1>2. ASSUME NEW x \in Activations, CallStep(x) PROVE TypeInv'
  BY <1>2, CallStepTypesCalls, CallStepTypesData DEF TypeInv
<1>3. ASSUME NEW enabled \in BOOLEAN, ulog_output_lock_enable(enabled) PROVE TypeInv'
  BY <1>3 DEF ulog_output_lock_enable, TypeInv, DataTyped, CallsTyped, filter, line, lookup, local
<1>4. ASSUME NEW level \in FilterLevels, ulog_global_filter_lvl_set(level) PROVE TypeInv'
  BY <1>4 DEF ulog_global_filter_lvl_set, TypeInv, DataTyped, CallsTyped, lock, filter, line,
              lookup, local
<1>5. CASE UNCHANGED vars
  BY <1>5 DEF vars, TypeInv, DataTyped, CallsTyped, lock, filter, line, lookup, local
<1>. QED  BY <1>1, <1>2, <1>3, <1>4, <1>5 DEF Next

-----------------------------------------------------------------------------
\* What a step leaves alone.

\* A call changes the place, arguments, node, level and backends of no other.
LEMMA OthersUnchanged ==
  ASSUME TypeInv, NEW x \in Activations, CallStep(x), NEW y \in Activations, y # x
  PROVE  /\ pc'[y] = pc[y] /\ call'[y] = call[y]
         /\ node'[y] = node[y] /\ found'[y] = found[y] /\ left'[y] = left[y]
<1>. USE DEF TypeInv, CallsTyped, DataTyped, lookup, local
<1>1. CASE TestLevel(x)
  BY <1>1 DEF TestLevel, Step, Finish
<1>2. CASE LockLookup(x)
  BY <1>2 DEF LockLookup, BeginLookup, Step
<1>3. CASE Walk(x)
  BY <1>3 DEF Walk
<1>4. CASE Found(x)
  BY <1>4 DEF Found, Step
<1>5. CASE TestTag(x)
  BY <1>5 DEF TestTag, Step, Finish
<1>6. CASE Lock(x)
  BY <1>6 DEF Lock, Step
<1>7. CASE CheckRecursion(x)
  BY <1>7 DEF CheckRecursion, Step
<1>8. CASE Format(x)
  BY <1>8 DEF Format, NoKeyword, Step
<1>9. CASE Output(x)
  BY <1>9 DEF Output
<1>10. CASE OutputDone(x)
  BY <1>10 DEF OutputDone, Step
<1>11. CASE Return(x)
  BY <1>11 DEF Return, Step
<1>12. CASE LockSet(x)
  BY <1>12 DEF LockSet, Step
<1>13. CASE SetLevel(x)
  BY <1>13 DEF SetLevel, Step
<1>14. CASE NoMemory(x)
  BY <1>14 DEF NoMemory, Step
<1>15. CASE Unlock(x)
  BY <1>15 DEF Unlock, Finish, Step
<1>. QED
  BY <1>1, <1>2, <1>3, <1>4, <1>5, <1>6, <1>7, <1>8, <1>9, <1>10, <1>11, <1>12, <1>13, <1>14,
     <1>15 DEF CallStep

\* A call gets the lock when it enters a section, gives it back when it leaves
\* one, and does neither elsewhere.
LEMMA SectionSteps ==
  ASSUME TypeInv, NEW x \in Activations, CallStep(x)
  PROVE  \/ ~ InSection(x) /\ output_lock(x)
         \/ InSection(x) /\ ~ InSection(x)' /\ output_unlock
         \/ UNCHANGED <<lock, unsafe>> /\ (InSection(x)' <=> InSection(x))
<1>. USE DEF TypeInv, CallsTyped, lock, InSection
<1>1. CASE TestLevel(x)
  BY <1>1 DEF TestLevel, Step, Finish
<1>2. CASE LockLookup(x)
  BY <1>2 DEF LockLookup, BeginLookup, Step
<1>3. CASE Walk(x)
  BY <1>3 DEF Walk
<1>4. CASE Found(x)
  BY <1>4 DEF Found, WalkOver, Step
<1>5. CASE TestTag(x)
  BY <1>5 DEF TestTag, Step, Finish
<1>6. CASE Lock(x)
  BY <1>6 DEF Lock, Step
<1>7. CASE CheckRecursion(x)
  BY <1>7 DEF CheckRecursion, Step
<1>8. CASE Format(x)
  BY <1>8 DEF Format, NoKeyword, Step
<1>9. CASE Output(x)
  BY <1>9 DEF Output
<1>10. CASE OutputDone(x)
  BY <1>10 DEF OutputDone, Step
<1>11. CASE Return(x)
  BY <1>11 DEF Return, Step
<1>12. CASE LockSet(x)
  BY <1>12 DEF LockSet, Step
<1>13. CASE SetLevel(x)
  BY <1>13 DEF SetLevel, WalkOver, Step
<1>14. CASE NoMemory(x)
  BY <1>14 DEF NoMemory, WalkOver, Step
<1>15. CASE Unlock(x)
  BY <1>15 DEF Unlock, Finish, Step
<1>. QED
  BY <1>1, <1>2, <1>3, <1>4, <1>5, <1>6, <1>7, <1>8, <1>9, <1>10, <1>11, <1>12, <1>13, <1>14,
     <1>15 DEF CallStep

\* Where each step begins.
LEMMA WhichStep ==
  ASSUME NEW x \in Activations, CallStep(x)
  PROVE  /\ pc[x] # "idle"
         /\ pc[x] = "walk" => Walk(x) \/ Found(x) \/ SetLevel(x) \/ NoMemory(x)
         /\ pc[x] = "check" => CheckRecursion(x)
         /\ pc[x] = "format" => Format(x)
         /\ pc[x] = "output" => Output(x) \/ OutputDone(x)
         /\ pc[x] = "return" => Return(x)
         /\ pc[x] \notin {"walk", "check", "format", "output", "return"} =>
              \/ TestLevel(x) \/ LockLookup(x) \/ TestTag(x) \/ Lock(x) \/ LockSet(x) \/ Unlock(x)
BY DEF CallStep, TestLevel, LockLookup, Walk, Found, TestTag, Lock, CheckRecursion, Format,
       Output, OutputDone, Return, LockSet, SetLevel, NoMemory, Unlock, Step, Finish,
       BeginLookup, NoKeyword, WalkOver, InBackend

\* Only two steps touch the line buffer and the flag.
LEMMA LineUnchanged ==
  ASSUME NEW x \in Activations, CallStep(x), ~ Format(x), ~ Return(x)
  PROVE  UNCHANGED line
BY DEF CallStep, TestLevel, LockLookup, Walk, Found, TestTag, Lock, CheckRecursion, Output,
       OutputDone, LockSet, SetLevel, NoMemory, Unlock, BeginLookup

\* Only one step of a call changes the list of tag levels.
LEMMA FilterUnchanged ==
  ASSUME NEW x \in Activations, CallStep(x), ~ SetLevel(x)
  PROVE  UNCHANGED filter
BY DEF CallStep, TestLevel, LockLookup, Walk, Found, TestTag, Lock, CheckRecursion, Format,
       Output, OutputDone, Return, LockSet, NoMemory, Unlock, BeginLookup

\* A call that starts.
LEMMA StartFacts ==
  ASSUME TypeInv, NEW x \in Activations, Start(x)
  PROVE  /\ pc[x] = "idle" /\ pc'[x] \in {"begin", "lock"}
         /\ \A y \in Activations : y # x => pc'[y] = pc[y] /\ call'[y] = call[y]
         /\ Nested(x) => InBackend(Outer(x))
         /\ UNCHANGED <<lock, filter_level, filter, line, lookup, left, switches, unsafe>>
BY DEF TypeInv, CallsTyped, Start, Step, MayStart

-----------------------------------------------------------------------------
\* The recursion flag is set only by calls that will clear it.

\* A step of a call keeps FlagInv.
LEMMA CallStepFlagInv ==
  ASSUME TypeInv, FlagInv, NEW x \in Activations, CallStep(x)
  PROVE  FlagInv'
<1>. SUFFICES ASSUME voutput_recursion'
              PROVE  \E y \in Activations : pc'[y] \in {"output", "return"} /\ call'[y].kind # "raw"
  BY DEF FlagInv
<1>1. CASE Format(x)
  <2>1. pc[x] = "format" /\ call'[x] = call[x] /\ pc'[x] \in {"output", "return"}
    BY <1>1 DEF Format, Step, NoKeyword, TypeInv, CallsTyped
  <2>2. CASE call[x].kind # "raw"
    BY <2>1, <2>2
  <2>3. CASE call[x].kind = "raw"
    <3>1. voutput_recursion
      BY <1>1, <2>3 DEF Format, SetFlag
    <3>2. PICK y \in Activations : pc[y] \in {"output", "return"} /\ call[y].kind # "raw"
      BY <3>1 DEF FlagInv
    <3>. QED  BY <2>1, <3>2, OthersUnchanged
  <2>. QED  BY <2>2, <2>3
<1>2. CASE Return(x)
  BY <1>2 DEF Return
<1>3. CASE ~ Format(x) /\ ~ Return(x)
  <2>1. voutput_recursion
    BY <1>3, LineUnchanged DEF line
  <2>2. PICK y \in Activations : pc[y] \in {"output", "return"} /\ call[y].kind # "raw"
    BY <2>1 DEF FlagInv
  <2>3. CASE y # x
    BY <2>2, <2>3, OthersUnchanged
  <2>4. CASE y = x
    <3>1. Output(x) \/ OutputDone(x)
      BY <1>3, <2>2, <2>4, WhichStep
    <3>2. pc'[x] \in {"output", "return"} /\ call' = call
      BY <3>1, <2>2, <2>4 DEF Output, OutputDone, Step, local, TypeInv, CallsTyped
    <3>. QED  BY <3>2, <2>2, <2>4
  <2>. QED  BY <2>3, <2>4
<1>. QED  BY <1>1, <1>2, <1>3

\* Every step keeps FlagInv.
LEMMA NextFlagInv == TypeInv /\ FlagInv /\ [Next]_vars => FlagInv'
<1>. SUFFICES ASSUME TypeInv, FlagInv, [Next]_vars PROVE FlagInv'
  OBVIOUS
<1>1. ASSUME NEW x \in Activations, Start(x) PROVE FlagInv'
  <2>1. \A y \in Activations : pc[y] # "idle" => pc'[y] = pc[y] /\ call'[y] = call[y]
    BY <1>1, StartFacts
  <2>. QED  BY <1>1, <2>1, StartFacts DEF FlagInv, line
<1>2. ASSUME NEW x \in Activations, CallStep(x) PROVE FlagInv'
  BY <1>2, CallStepFlagInv
<1>3. CASE UNCHANGED <<voutput_recursion, pc, call>>
  BY <1>3 DEF FlagInv
<1>4. ASSUME NEW enabled \in BOOLEAN, ulog_output_lock_enable(enabled)
      PROVE UNCHANGED <<voutput_recursion, pc, call>>
  BY <1>4 DEF ulog_output_lock_enable, line, local
<1>5. ASSUME NEW level \in FilterLevels, ulog_global_filter_lvl_set(level)
      PROVE UNCHANGED <<voutput_recursion, pc, call>>
  BY <1>5 DEF ulog_global_filter_lvl_set, line, local
<1>6. CASE UNCHANGED vars
  BY <1>3, <1>6 DEF vars, line, local
<1>. QED  BY <1>1, <1>2, <1>3, <1>4, <1>5, <1>6 DEF Next

\* The recursion flag of ulog_voutput is set only while a call is at work that
\* will clear it, on whichever way out of the function.
THEOREM FlagIsCleared == Spec => []FlagCleared
<1>1. Init => TypeInv /\ FlagInv
  BY InitTyped DEF TypeInv, Init, FlagInv
<1>2. TypeInv /\ FlagInv /\ [Next]_vars => (TypeInv /\ FlagInv)'
  BY NextTyped, NextFlagInv
<1>3. FlagInv => FlagCleared
  BY DEF FlagInv, FlagCleared, InSection
<1>. QED  BY <1>1, <1>2, <1>3, PTL DEF Spec

-----------------------------------------------------------------------------
\* One task at a time is in a section.

\* A step of a call keeps Nesting: the outer call waits in its backend.
LEMMA CallStepNesting ==
  ASSUME TypeInv, Nesting, NEW x \in Activations, CallStep(x)
  PROVE  Nesting'
<1>. SUFFICES ASSUME NEW t \in Tasks, pc'[<<t, 2>>] # "idle"
              PROVE  pc'[<<t, 1>>] = "output" /\ left'[<<t, 1>>] > 0
  BY DEF Nesting, InBackend
<1>1. <<t, 1>> \in Activations /\ <<t, 2>> \in Activations /\ <<t, 1>> # <<t, 2>>
  BY ActivationFacts
<1>2. pc[<<t, 2>>] # "idle"
  BY <1>1, OthersUnchanged, WhichStep
<1>3. pc[<<t, 1>>] = "output" /\ left[<<t, 1>>] > 0
  BY <1>2 DEF Nesting, InBackend
<1>4. x # <<t, 1>>
  <2>. SUFFICES ASSUME x = <<t, 1>> PROVE FALSE
    OBVIOUS
  <2>1. ~ Nested(x) /\ Inner(x) = <<t, 2>>
    BY DEF Nested, Inner
  <2>2. ~ Output(x)
    BY <2>1, <1>2 DEF Output
  <2>3. ~ OutputDone(x)
    BY <1>3 DEF OutputDone
  <2>. QED  BY <1>3, <2>2, <2>3, WhichStep
<1>. QED  BY <1>1, <1>3, <1>4, OthersUnchanged

\* Every step keeps Nesting.
LEMMA NextNesting == TypeInv /\ Nesting /\ [Next]_vars => Nesting'
<1>. SUFFICES ASSUME TypeInv, Nesting, [Next]_vars PROVE Nesting'
  OBVIOUS
<1>1. ASSUME NEW x \in Activations, Start(x) PROVE Nesting'
  <2>. SUFFICES ASSUME NEW t \in Tasks, pc'[<<t, 2>>] # "idle"
                PROVE  pc'[<<t, 1>>] = "output" /\ left'[<<t, 1>>] > 0
    BY DEF Nesting, InBackend
  <2>1. <<t, 1>> \in Activations /\ <<t, 2>> \in Activations /\ <<t, 1>> # <<t, 2>>
    BY ActivationFacts
  <2>2. pc[<<t, 1>>] = "output" /\ left[<<t, 1>>] > 0
    <3>1. CASE x = <<t, 2>>
      <4>1. Nested(x) /\ Outer(x) = <<t, 1>>
        BY <3>1 DEF Nested, Outer
      <4>. QED  BY <1>1, <4>1, StartFacts DEF InBackend
    <3>2. CASE x # <<t, 2>>
      BY <1>1, <2>1, <3>2, StartFacts DEF Nesting, InBackend
    <3>. QED  BY <3>1, <3>2
  <2>. QED  BY <1>1, <2>1, <2>2, StartFacts
<1>2. ASSUME NEW x \in Activations, CallStep(x) PROVE Nesting'
  BY <1>2, CallStepNesting
<1>3. CASE UNCHANGED <<pc, left>>
  BY <1>3 DEF Nesting, InBackend
<1>4. ASSUME NEW enabled \in BOOLEAN, ulog_output_lock_enable(enabled) PROVE UNCHANGED <<pc, left>>
  BY <1>4 DEF ulog_output_lock_enable, local
<1>5. ASSUME NEW level \in FilterLevels, ulog_global_filter_lvl_set(level) PROVE UNCHANGED <<pc, left>>
  BY <1>5 DEF ulog_global_filter_lvl_set, local
<1>6. CASE UNCHANGED vars
  BY <1>3, <1>6 DEF vars, local
<1>. QED  BY <1>1, <1>2, <1>3, <1>4, <1>5, <1>6 DEF Next

\* A step of a call keeps LockInv.
LEMMA CallStepLockInv ==
  ASSUME TypeInv, LockInv, NEW x \in Activations, CallStep(x)
  PROVE  LockInv'
<1>. SUFFICES ASSUME ~ unsafe', NEW y \in Activations, InSection(y)',
                     NEW z \in Activations, InSection(z)'
              PROVE  /\ Task(z) = Task(y)
                     /\ output_lock_enabled' => output_locker' = Task(y) /\ z = y
  BY DEF LockInv
<1>1. ~ unsafe
  BY SectionSteps DEF output_lock, output_unlock
<1>2. \A w \in Activations : w # x => (InSection(w)' <=> InSection(w))
  BY OthersUnchanged DEF InSection
<1>3. \A w \in Activations : InSection(w) =>
        /\ \A v \in Activations : InSection(v) => Task(v) = Task(w)
        /\ output_lock_enabled =>
             output_locker = Task(w) /\ \A v \in Activations : InSection(v) => v = w
  BY <1>1 DEF LockInv
<1>4. CASE ~ InSection(x) /\ output_lock(x)
  <2>1. CASE output_lock_enabled
    <3>1. \A w \in Activations : ~ InSection(w)
      BY <1>3, <1>4, <2>1, ActivationFacts, NamesAssumption DEF output_lock
    <3>2. y = x /\ z = x
      BY <1>2, <3>1
    <3>. QED  BY <1>4, <2>1, <3>2 DEF output_lock
  <2>2. CASE ~ output_lock_enabled
    <3>1. \A w \in Activations : InSection(w) => Task(w) = Task(x)
      BY <1>4, <2>2 DEF output_lock
    <3>2. Task(y) = Task(x) /\ Task(z) = Task(x)
      BY <1>2, <3>1
    <3>. QED  BY <1>4, <2>2, <3>2 DEF output_lock
  <2>. QED  BY <2>1, <2>2
<1>5. CASE InSection(x) /\ ~ InSection(x)' /\ output_unlock
  <2>1. y # x /\ z # x
    BY <1>5
  <2>2. InSection(y) /\ InSection(z)
    BY <1>2, <2>1
  <2>3. ~ output_lock_enabled
    BY <1>3, <1>5, <2>1, <2>2
  <2>. QED  BY <1>3, <1>5, <2>2, <2>3 DEF output_unlock
<1>6. CASE UNCHANGED <<lock, unsafe>> /\ (InSection(x)' <=> InSection(x))
  <2>1. InSection(y) /\ InSection(z)
    BY <1>2, <1>6
  <2>. QED  BY <1>3, <1>6, <2>1 DEF lock
<1>. QED  BY <1>4, <1>5, <1>6, SectionSteps

\* Every step keeps LockInv.
LEMMA NextLockInv == TypeInv /\ LockInv /\ [Next]_vars => LockInv'
<1>. SUFFICES ASSUME TypeInv, LockInv, [Next]_vars PROVE LockInv'
  OBVIOUS
<1>1. ASSUME NEW x \in Activations, Start(x) PROVE LockInv'
  <2>1. \A y \in Activations : InSection(y)' => InSection(y)
    BY <1>1, StartFacts DEF InSection
  <2>2. UNCHANGED <<output_locker, output_lock_enabled, unsafe>>
    BY <1>1, StartFacts DEF lock
  <2>. QED  BY <2>1, <2>2 DEF LockInv
<1>2. ASSUME NEW x \in Activations, CallStep(x) PROVE LockInv'
  BY <1>2, CallStepLockInv
<1>3. ASSUME NEW enabled \in BOOLEAN, ulog_output_lock_enable(enabled) PROVE LockInv'
  <2>1. ~ unsafe' => \A x \in Activations : ~ InSection(x)'
    BY <1>3 DEF ulog_output_lock_enable, InSection
  <2>. QED  BY <2>1 DEF LockInv
<1>4. CASE UNCHANGED <<output_locker, output_lock_enabled, unsafe, pc>>
  BY <1>4 DEF LockInv, InSection
<1>5. ASSUME NEW level \in FilterLevels, ulog_global_filter_lvl_set(level)
      PROVE  UNCHANGED <<output_locker, output_lock_enabled, unsafe, pc>>
  BY <1>5 DEF ulog_global_filter_lvl_set, lock
<1>6. CASE UNCHANGED vars
  BY <1>4, <1>6 DEF vars, lock
<1>. QED  BY <1>1, <1>2, <1>3, <1>4, <1>5, <1>6 DEF Next

SectionInv == TypeInv /\ Nesting /\ LockInv

\* SectionInv is inductive.
LEMMA NextSectionInv == SectionInv /\ [Next]_vars => SectionInv'
BY NextTyped, NextNesting, NextLockInv DEF SectionInv

\* SectionInv holds in the beginning, with nobody in a section.
LEMMA InitSectionInv == Init => SectionInv
<1>. SUFFICES ASSUME Init PROVE SectionInv
  OBVIOUS
<1>1. \A x \in Activations : pc[x] = "idle"
  BY DEF Init
<1>2. Nesting
  BY <1>1, ActivationFacts DEF Nesting
<1>3. LockInv
  BY <1>1 DEF LockInv, InSection
<1>. QED  BY <1>2, <1>3, InitTyped DEF SectionInv, TypeInv

\* One task at a time is between output_lock and output_unlock, and with the lock
\* on one call only, unless the application switches the lock off and then logs
\* from two tasks, or switches it during a call.
THEOREM SectionsExclusive == Spec => []LockInv
<1>1. SectionInv => LockInv
  BY DEF SectionInv
<1>. QED  BY <1>1, InitSectionInv, NextSectionInv, PTL DEF Spec

\* Beside a call that is in a section there may only be, with the lock off, the
\* call whose backend makes it.
LEMMA NobodyElse ==
  ASSUME SectionInv, ~ unsafe, NEW x \in Activations, InSection(x),
         NEW y \in Activations, InSection(y), y # x
  PROVE  \E t \in Tasks :
           \/ x = <<t, 1>> /\ y = <<t, 2>> /\ pc[x] = "output"
           \/ x = <<t, 2>> /\ y = <<t, 1>> /\ pc[y] = "output"
<1>1. Task(x) = Task(y)
  BY DEF SectionInv, LockInv
<1>2. PICK t \in Tasks : t = Task(x)
  BY ActivationFacts
<1>3. x \in {<<t, 1>>, <<t, 2>>} /\ y \in {<<t, 1>>, <<t, 2>>}
  BY <1>1, <1>2, ActivationFacts
<1>4. pc[<<t, 2>>] # "idle"
  BY <1>3 DEF InSection
<1>5. pc[<<t, 1>>] = "output"
  BY <1>2, <1>4 DEF SectionInv, Nesting, InBackend
<1>. QED  BY <1>3, <1>5

\* What was unsafe stays so.
LEMMA StaysSafe ==
  ASSUME TypeInv, NEW x \in Activations, CallStep(x), ~ unsafe'
  PROVE  ~ unsafe
BY SectionSteps DEF output_lock, output_unlock

-----------------------------------------------------------------------------
\* Walks along the list of tag levels.

\* While one call walks no other changes the list.
LEMMA WalksAlone ==
  ASSUME SectionInv, NEW x \in Activations, CallStep(x), ~ unsafe',
         NEW y \in Activations, pc[y] = "walk", y # x
  PROVE  UNCHANGED filter
<1>1. ~ unsafe
  BY StaysSafe DEF SectionInv
<1>2. SUFFICES ASSUME SetLevel(x) PROVE FALSE
  BY FilterUnchanged
<1>3. pc[x] = "walk"
  BY <1>2 DEF SetLevel, WalkOver
<1>. QED  BY <1>1, <1>3, NobodyElse DEF InSection

\* A step of a call keeps WalkInv.
LEMMA CallStepWalkInv ==
  ASSUME SectionInv, WalkInv, NEW x \in Activations, CallStep(x)
  PROVE  WalkInv'
<1>. SUFFICES ASSUME NEW y \in Activations, node'[y] # None
              PROVE  /\ pc'[y] = "walk"
                     /\ ~ unsafe' => node'[y] \in Range(tag_lvl_list')
  BY DEF WalkInv
<1>. USE DEF SectionInv, TypeInv, CallsTyped, DataTyped
<1>1. CASE y # x
  <2>1. node[y] = node'[y] /\ pc[y] = pc'[y]
    BY <1>1, OthersUnchanged
  <2>2. pc[y] = "walk"
    BY <2>1 DEF WalkInv
  <2>3. ASSUME ~ unsafe' PROVE node'[y] \in Range(tag_lvl_list')
    <3>1. node[y] \in Range(tag_lvl_list)
      BY <2>1, <2>3, StaysSafe DEF WalkInv
    <3>2. tag_lvl_list' = tag_lvl_list
      BY <1>1, <2>2, <2>3, WalksAlone DEF filter
    <3>. QED  BY <2>1, <3>1, <3>2
  <2>. QED  BY <2>1, <2>2, <2>3
<1>2. CASE y = x
  <2>1. node[x] # None => pc[x] = "walk"
    BY DEF WalkInv
  <2>2. CASE LockLookup(x) \/ LockSet(x)
    <3>1. pc'[x] = "walk" /\ node'[x] = NodeAt(1) /\ tag_lvl_list' = tag_lvl_list
      BY <2>2 DEF LockLookup, BeginLookup, LockSet, Step, filter
    <3>. QED  BY <1>2, <3>1, NodeAtFacts, ListFacts
  <2>3. CASE Walk(x)
    <3>1. pc'[x] = "walk" /\ node'[x] = NextNode(node[x]) /\ tag_lvl_list' = tag_lvl_list
      BY <2>3 DEF Walk, filter
    <3>2. node[x] # None /\ unsafe' = unsafe
      BY <2>3 DEF Walk, WalkOver
    <3>3. ~ unsafe => node'[x] \in Range(tag_lvl_list)
      <4>. SUFFICES ASSUME ~ unsafe PROVE node'[x] \in Range(tag_lvl_list)
        OBVIOUS
      <4>1. node[x] \in Range(tag_lvl_list)
        BY <3>2 DEF WalkInv
      <4>2. PICK k \in 1 .. Len(tag_lvl_list) : node'[x] = NodeAt(k + 1)
        BY <3>1, <4>1, NextNodeFacts
      <4>3. k + 1 \in Nat \ {0}
        BY ListFacts
      <4>4. NodeAt(k + 1) # None
        BY <1>2, <4>2
      <4>5. k + 1 \in 1 .. Len(tag_lvl_list) /\ NodeAt(k + 1) = tag_lvl_list[k + 1]
        BY <4>3, <4>4, NodeAtFacts
      <4>. QED  BY <4>2, <4>5, ListFacts
    <3>. QED  BY <1>2, <3>1, <3>2, <3>3
  <2>4. CASE Found(x) \/ SetLevel(x)
    BY <1>2, <2>4 DEF Found, SetLevel
  <2>5. CASE NoMemory(x)
    BY <1>2, <2>5 DEF NoMemory, WalkOver, Matches, TagLvl, lookup
  <2>6. CASE pc[x] # "walk" /\ ~ LockLookup(x) /\ ~ LockSet(x)
    <3>1. node' = node
      BY <2>6, WhichStep DEF TestLevel, TestTag, Lock, Unlock, CheckRecursion, Format, Output,
         OutputDone, Return, lookup
    <3>. QED  BY <1>2, <2>1, <2>6, <3>1
  <2>. QED  BY <2>2, <2>3, <2>4, <2>5, <2>6, WhichStep
<1>. QED  BY <1>1, <1>2

\* Every step keeps WalkInv.
LEMMA NextWalkInv == SectionInv /\ WalkInv /\ [Next]_vars => WalkInv'
<1>. SUFFICES ASSUME SectionInv, WalkInv, [Next]_vars PROVE WalkInv'
  OBVIOUS
<1>1. ASSUME NEW x \in Activations, Start(x) PROVE WalkInv'
  <2>1. \A y \in Activations : pc[y] = "walk" => pc'[y] = "walk"
    BY <1>1, StartFacts DEF SectionInv
  <2>2. UNCHANGED <<node, tag_lvl_list, unsafe>>
    BY <1>1 DEF Start, lookup, filter
  <2>. QED  BY <2>1, <2>2 DEF WalkInv
<1>2. ASSUME NEW x \in Activations, CallStep(x) PROVE WalkInv'
  BY <1>2, CallStepWalkInv
<1>3. CASE UNCHANGED <<node, pc, tag_lvl_list>> /\ (~ unsafe' => ~ unsafe)
  BY <1>3 DEF WalkInv
<1>4. ASSUME NEW enabled \in BOOLEAN, ulog_output_lock_enable(enabled)
      PROVE  UNCHANGED <<node, pc, tag_lvl_list>> /\ (~ unsafe' => ~ unsafe)
  BY <1>4 DEF ulog_output_lock_enable, lookup, filter
<1>5. ASSUME NEW level \in FilterLevels, ulog_global_filter_lvl_set(level)
      PROVE  UNCHANGED <<node, pc, tag_lvl_list>> /\ (~ unsafe' => ~ unsafe)
  BY <1>5 DEF ulog_global_filter_lvl_set, lookup, filter
<1>6. CASE UNCHANGED vars
  BY <1>3, <1>6 DEF vars, lookup, filter
<1>. QED  BY <1>1, <1>2, <1>3, <1>4, <1>5, <1>6 DEF Next

\* No walk of ulog_tag_lvl_filter_get or ulog_tag_lvl_filter_set stands on a node
\* that another call has freed.
THEOREM NoNodeFreed == Spec => []NoFreedNode
<1>1. Init => SectionInv /\ WalkInv
  BY InitSectionInv DEF Init, WalkInv
<1>2. SectionInv /\ WalkInv /\ [Next]_vars => (SectionInv /\ WalkInv)'
  BY NextSectionInv, NextWalkInv
<1>3. WalkInv => NoFreedNode
  BY DEF WalkInv, NoFreedNode
<1>. QED  BY <1>1, <1>2, <1>3, PTL DEF Spec

-----------------------------------------------------------------------------
\* The line buffer, while the backends are given what is in it.

\* A step of a call keeps LineInv.
LEMMA CallStepLineInv ==
  ASSUME SectionInv, LineInv, NEW x \in Activations, CallStep(x)
  PROVE  LineInv'
<1>. SUFFICES ASSUME NEW t \in Tasks, NEW o, o = <<t, 1>>, NEW i, i = <<t, 2>>,
                     ~ unsafe', ~ overwritten'[t], pc'[o] = "output", call'[o].kind # "raw"
              PROVE  /\ voutput_recursion'
                     /\ log_buf_th' = o
                     /\ pc'[i] \notin {"output", "return"}
                     /\ pc'[i] = "format" => call'[i].kind # "log"
  BY DEF LineInv
<1>. USE DEF SectionInv, TypeInv, CallsTyped, DataTyped
<1>1. /\ o \in Activations /\ i \in Activations /\ o # i
      /\ Task(o) = t /\ Task(i) = t /\ ~ Nested(o) /\ Nested(i) /\ Inner(o) = i
  BY ActivationFacts DEF Task, Nested, Inner
<1>2. ~ unsafe
  BY StaysSafe
<1>3. pc[i] # "idle" => pc[o] = "output"
  BY DEF Nesting, InBackend
<1>4. CASE pc[o] # "output"
  <2>1. x = o
    BY <1>1, <1>4, OthersUnchanged
  <2>2. pc'[i] = pc[i] /\ pc[i] = "idle"
    BY <1>1, <1>3, <1>4, <2>1, OthersUnchanged
  <2>3. Format(x)
    BY <1>4, <2>1 DEF CallStep, TestLevel, LockLookup, BeginLookup, Walk, Found, TestTag, Lock,
       CheckRecursion, Output, OutputDone, Return, LockSet, SetLevel, NoMemory, Unlock, Step, Finish,
       InBackend
  <2>4. call'[o] = call[o]
    BY <2>3 DEF Format
  <2>5. voutput_recursion' /\ log_buf_th' = o
    BY <2>1, <2>3, <2>4 DEF Format, SetFlag
  <2>. QED  BY <2>2, <2>5
<1>5. CASE pc[o] = "output" /\ x = o
  <2>1. Output(x)
    BY <1>5, WhichStep DEF OutputDone, Step
  <2>2. /\ UNCHANGED <<voutput_recursion, log_buf_th, overwritten, pc, call>>
        /\ pc[i] = "idle"
    BY <1>1, <1>5, <2>1 DEF Output, line
  <2>. QED  BY <1>2, <1>5, <2>2 DEF LineInv
<1>6. CASE pc[o] = "output" /\ x # o
  <2>1. call[o] = call'[o] /\ pc[o] = pc'[o]
    BY <1>1, <1>6, OthersUnchanged
  <2>2. InSection(x) => x = i
    BY <1>1, <1>2, <1>6, NobodyElse DEF InSection
  <2>3. ~ overwritten[t]
    <3>1. CASE Format(x)
      <4>1. x = i
        BY <2>2, <3>1 DEF Format, Step, NoKeyword, InSection
      <4>. QED  BY <1>1, <3>1, <4>1 DEF Format
    <3>2. CASE ~ Format(x)
      BY <3>2, LineUnchanged DEF line, Return
    <3>. QED  BY <3>1, <3>2
  <2>4. /\ voutput_recursion
        /\ log_buf_th = o
        /\ pc[i] \notin {"output", "return"}
        /\ pc[i] = "format" => call[i].kind # "log"
    BY <1>2, <1>6, <2>1, <2>3 DEF LineInv
  <2>5. ~ Format(x)
    <3>. SUFFICES ASSUME Format(x) PROVE FALSE
      OBVIOUS
    <3>1. x = i /\ pc[x] = "format"
      BY <2>2 DEF Format, Step, NoKeyword, InSection
    <3>2. overwritten'[t] = (overwritten[t] \/ call[x].kind # "log")
      BY <1>1, <3>1 DEF Format
    <3>. QED  BY <2>4, <3>1, <3>2
  <2>6. ~ Return(x)
    BY <2>2, <2>4 DEF Return, Step, InSection
  <2>7. voutput_recursion' /\ log_buf_th' = o
    BY <2>4, <2>5, <2>6, LineUnchanged DEF line
  <2>8. CASE x # i
    BY <1>1, <2>4, <2>7, <2>8, OthersUnchanged
  <2>9. CASE x = i
    <3>1. pc'[x] \notin {"output", "return"}
      BY <2>4, <2>5, <2>9 DEF CallStep, TestLevel, LockLookup, BeginLookup, Walk, Found, TestTag,
         Lock, CheckRecursion, Output, OutputDone, Return, LockSet, SetLevel, NoMemory, Unlock, Step,
         Finish, InBackend
    <3>2. pc'[x] = "format" => call'[x].kind # "log"
      <4>. SUFFICES ASSUME pc'[x] = "format" PROVE call'[x].kind # "log"
        OBVIOUS
      <4>1. CASE Lock(x)
        BY <4>1 DEF Lock, Step, local
      <4>2. CASE CheckRecursion(x)
        BY <2>4, <4>2 DEF CheckRecursion, Step, local
      <4>3. CASE ~ Lock(x) /\ ~ CheckRecursion(x)
        BY <2>4, <2>5, <2>9, <4>3 DEF CallStep, TestLevel, LockLookup, BeginLookup, Walk, Found,
           TestTag, Output, OutputDone, Return, LockSet, SetLevel, NoMemory, Unlock, Step, Finish,
           InBackend
      <4>. QED  BY <4>1, <4>2, <4>3
    <3>. QED  BY <2>7, <2>9, <3>1, <3>2
  <2>. QED  BY <2>8, <2>9
<1>. QED  BY <1>4, <1>5, <1>6

\* Every step keeps LineInv.
LEMMA NextLineInv == SectionInv /\ LineInv /\ [Next]_vars => LineInv'
<1>. SUFFICES ASSUME SectionInv, LineInv, [Next]_vars PROVE LineInv'
  OBVIOUS
<1>1. ASSUME NEW x \in Activations, Start(x) PROVE LineInv'
  <2>1. UNCHANGED <<voutput_recursion, log_buf_th, overwritten, unsafe>>
    BY <1>1 DEF Start, line
  <2>2. \A y \in Activations :
          \/ pc'[y] = pc[y] /\ call'[y] = call[y]
          \/ pc'[y] \in {"begin", "lock"}
    BY <1>1, StartFacts DEF SectionInv
  <2>. QED  BY <2>1, <2>2, ActivationFacts DEF LineInv
<1>2. ASSUME NEW x \in Activations, CallStep(x) PROVE LineInv'
  BY <1>2, CallStepLineInv
<1>3. CASE /\ UNCHANGED <<voutput_recursion, log_buf_th, overwritten, pc, call>>
           /\ ~ unsafe' => ~ unsafe
  BY <1>3 DEF LineInv
<1>4. ASSUME NEW enabled \in BOOLEAN, ulog_output_lock_enable(enabled)
      PROVE  /\ UNCHANGED <<voutput_recursion, log_buf_th, overwritten, pc, call>>
             /\ ~ unsafe' => ~ unsafe
  BY <1>4 DEF ulog_output_lock_enable, line, local
<1>5. ASSUME NEW level \in FilterLevels, ulog_global_filter_lvl_set(level)
      PROVE  /\ UNCHANGED <<voutput_recursion, log_buf_th, overwritten, pc, call>>
             /\ ~ unsafe' => ~ unsafe
  BY <1>5 DEF ulog_global_filter_lvl_set, line, local
<1>6. CASE UNCHANGED vars
  BY <1>3, <1>6 DEF vars, line, local
<1>. QED  BY <1>1, <1>2, <1>3, <1>4, <1>5, <1>6 DEF Next

\* A line stays in the buffer of ulog_voutput while do_output gives it to the
\* backends, also if these log formatted lines themselves.
THEOREM LineStaysIntact == Spec => []OuterLineIntact
<1>1. Init => SectionInv /\ LineInv
  BY InitSectionInv, ActivationFacts DEF Init, LineInv
<1>2. SectionInv /\ LineInv /\ [Next]_vars => (SectionInv /\ LineInv)'
  BY NextSectionInv, NextLineInv
<1>3. LineInv => OuterLineIntact
  BY DEF LineInv, OuterLineIntact, InBackend
<1>. QED  BY <1>1, <1>2, <1>3, PTL DEF Spec

-----------------------------------------------------------------------------
\* The levels that lookups find.

LookupsInv == SectionInv /\ WalkInv /\ FilterInv /\ LookupInv

\* Where a walk that has ended stands.
LEMMA WalkEnds ==
  ASSUME LookupsInv, ~ unsafe, NEW x \in Activations, WalkOver(x)
  PROVE  \/ /\ Matches(x)
            /\ \E k \in 1 .. Len(tag_lvl_list) :
                 node[x] = tag_lvl_list[k] /\ node_tag[tag_lvl_list[k]] = call[x].tag
         \/ /\ ~ Matches(x)
            /\ \A i \in 1 .. Len(tag_lvl_list) : node_tag[tag_lvl_list[i]] # call[x].tag
<1>. USE DEF LookupsInv, SectionInv, TypeInv
<1>1. PICK k \in 1 .. Len(tag_lvl_list) + 1 :
        /\ node[x] = NodeAt(k)
        /\ \A i \in 1 .. k - 1 : node_tag[tag_lvl_list[i]] # call[x].tag
  BY DEF LookupInv, WalkOver
<1>2. k \in Nat \ {0}
  BY <1>1, ListFacts
<1>3. CASE Matches(x)
  BY <1>1, <1>2, <1>3, NodeAtFacts DEF Matches
<1>4. CASE ~ Matches(x)
  <2>1. NodeAt(k) = None
    BY <1>1, <1>4 DEF WalkOver
  <2>2. k > Len(tag_lvl_list)
    BY <1>2, <2>1, NodeAtFacts
  <2>. QED  BY <1>1, <1>4, <2>2, ListFacts
<1>. QED  BY <1>3, <1>4

\* ulog_tag_lvl_filter_set keeps every tag on the list at most once and its level
\* the one last set.
LEMMA SetLevelKeepsFilterInv ==
  ASSUME LookupsInv, ~ unsafe, NEW x \in Activations, SetLevel(x)
  PROVE  FilterInv'
<1>. USE DEF LookupsInv, SectionInv, TypeInv, DataTyped
<1>. DEFINE tag == call[x].tag
            level == call[x].level
            n == Len(tag_lvl_list)
<1>1. /\ \A i, j \in 1 .. n : node_tag[tag_lvl_list[i]] = node_tag[tag_lvl_list[j]] => i = j
      /\ \A i \in 1 .. n :
           /\ node_tag[tag_lvl_list[i]] \in Tags
           /\ node_level[tag_lvl_list[i]] = in_force[node_tag[tag_lvl_list[i]]]
      /\ \A other \in Tags :
           \/ in_force[other] = LOG_FILTER_LVL_ALL
           \/ \E i \in 1 .. n : node_tag[tag_lvl_list[i]] = other
  BY DEF FilterInv
<1>2. /\ tag \in Tags
      /\ in_force' = [in_force EXCEPT ![tag] = level]
      /\ WalkOver(x)
  BY DEF SetLevel, WalkOver, CallsTyped, Fits
<1>3. /\ in_force'[tag] = level
      /\ \A other \in Tags : other # tag => in_force'[other] = in_force[other]
  BY <1>2
<1>4. n \in Nat /\ \A i \in 1 .. n : tag_lvl_list[i] \in Nodes /\ tag_lvl_list[i] # None
  BY ListFacts
<1>5. SUFFICES
        /\ \A i, j \in 1 .. Len(tag_lvl_list') :
             node_tag'[tag_lvl_list'[i]] = node_tag'[tag_lvl_list'[j]] => i = j
        /\ \A i \in 1 .. Len(tag_lvl_list') :
             /\ node_tag'[tag_lvl_list'[i]] \in Tags
             /\ node_level'[tag_lvl_list'[i]] = in_force'[node_tag'[tag_lvl_list'[i]]]
        /\ \A other \in Tags :
             \/ in_force'[other] = LOG_FILTER_LVL_ALL
             \/ \E i \in 1 .. Len(tag_lvl_list') : node_tag'[tag_lvl_list'[i]] = other
  BY DEF FilterInv
<1>6. CASE TagLvl(x) # None
  <2>1. PICK k \in 1 .. n : node[x] = tag_lvl_list[k] /\ node_tag[tag_lvl_list[k]] = tag
    BY <1>2, <1>6, WalkEnds DEF TagLvl
  <2>2. TagLvl(x) = tag_lvl_list[k]
    BY <1>6, <2>1 DEF TagLvl
  <2>3. CASE level = LOG_FILTER_LVL_ALL
    <3>1. FreeNode(tag_lvl_list[k])
      BY <1>6, <2>2, <2>3 DEF SetLevel
    <3>2. PICK r \in 1 .. n :
            tag_lvl_list[r] = tag_lvl_list[k] /\ tag_lvl_list' = RemoveAt(tag_lvl_list, r)
      BY <3>1, ListFacts DEF FreeNode
    <3>3. /\ Len(tag_lvl_list') = n - 1
          /\ \A i \in 1 .. n - 1 :
               tag_lvl_list'[i] = IF i < r THEN tag_lvl_list[i] ELSE tag_lvl_list[i + 1]
      BY <3>2, RemoveAtProperties
    <3>4. UNCHANGED <<node_tag, node_level>>
      BY <3>1 DEF FreeNode
    <3>5. \A i \in 1 .. n : i # r => node_tag[tag_lvl_list[i]] # tag
      BY <1>1, <2>1, <3>2
    <3>6. \A i \in 1 .. n - 1 :
            \E j \in 1 .. n :
              /\ j # r /\ j = IF i < r THEN i ELSE i + 1
              /\ tag_lvl_list'[i] = tag_lvl_list[j]
      BY <1>4, <3>3
    <3>7. ASSUME NEW other \in Tags, in_force'[other] # LOG_FILTER_LVL_ALL
          PROVE  \E i \in 1 .. n - 1 : node_tag[tag_lvl_list'[i]] = other
      <4>1. other # tag
        BY <1>3, <2>3, <3>7
      <4>2. PICK j \in 1 .. n : node_tag[tag_lvl_list[j]] = other
        BY <1>1, <1>3, <3>7, <4>1
      <4>3. j # r
        BY <2>1, <3>2, <4>1, <4>2
      <4>4. CASE j < r
        <5>1. j \in 1 .. n - 1 /\ tag_lvl_list'[j] = tag_lvl_list[j]
          BY <1>4, <3>3, <4>4
        <5>. QED  BY <4>2, <5>1
      <4>5. CASE j > r
        <5>1. j - 1 \in 1 .. n - 1 /\ ~ (j - 1 < r) /\ (j - 1) + 1 = j
          BY <1>4, <4>5
        <5>2. tag_lvl_list'[j - 1] = tag_lvl_list[j]
          BY <3>3, <5>1
        <5>. QED  BY <4>2, <5>1, <5>2
      <4>. QED  BY <4>3, <4>4, <4>5
    <3>8. \A i, j \in 1 .. n - 1 :
            node_tag[tag_lvl_list'[i]] = node_tag[tag_lvl_list'[j]] => i = j
      <4>1. ASSUME NEW i \in 1 .. n - 1, NEW j \in 1 .. n - 1,
                   node_tag[tag_lvl_list'[i]] = node_tag[tag_lvl_list'[j]]
            PROVE  i = j
        BY <4>1, <1>1, <1>4, <3>6
      <4>. QED  BY <4>1
    <3>9. ASSUME NEW i \in 1 .. n - 1
          PROVE  /\ node_tag[tag_lvl_list'[i]] \in Tags
                 /\ node_level[tag_lvl_list'[i]] = in_force'[node_tag[tag_lvl_list'[i]]]
      <4>1. PICK j \in 1 .. n : j # r /\ tag_lvl_list'[i] = tag_lvl_list[j]
        BY <3>6
      <4>. QED  BY <1>1, <1>3, <3>5, <4>1
    <3>. QED  BY <3>3, <3>4, <3>7, <3>8, <3>9
  <2>4. CASE level # LOG_FILTER_LVL_ALL
    <3>1. /\ UNCHANGED <<tag_lvl_list, node_tag>>
          /\ node_level' = [node_level EXCEPT ![tag_lvl_list[k]] = level]
      BY <1>6, <2>2, <2>4 DEF SetLevel, Change
    <3>2. ASSUME NEW i \in 1 .. n
          PROVE  node_level'[tag_lvl_list[i]] = in_force'[node_tag[tag_lvl_list[i]]]
      <4>1. CASE i = k
        BY <1>3, <1>4, <2>1, <3>1, <4>1
      <4>2. CASE i # k
        <5>1. node_tag[tag_lvl_list[i]] # tag
          BY <1>1, <2>1, <4>2
        <5>. QED  BY <1>1, <1>3, <1>4, <2>1, <3>1, <5>1
      <4>. QED  BY <4>1, <4>2
    <3>3. \A other \in Tags :
            \/ in_force'[other] = LOG_FILTER_LVL_ALL
            \/ \E i \in 1 .. n : node_tag[tag_lvl_list[i]] = other
      BY <1>1, <1>3, <2>1
    <3>. QED  BY <1>1, <3>1, <3>2, <3>3
  <2>. QED  BY <2>3, <2>4
<1>7. CASE TagLvl(x) = None
  <2>1. \A i \in 1 .. n : node_tag[tag_lvl_list[i]] # tag
    BY <1>2, <1>7, WalkEnds DEF TagLvl, Matches
  <2>2. CASE level = LOG_FILTER_LVL_ALL
    <3>1. UNCHANGED <<tag_lvl_list, node_tag, node_level>>
      BY <1>7, <2>2 DEF SetLevel
    <3>2. ASSUME NEW i \in 1 .. n
          PROVE  node_level[tag_lvl_list[i]] = in_force'[node_tag[tag_lvl_list[i]]]
      BY <1>1, <1>3, <2>1
    <3>3. \A other \in Tags :
            \/ in_force'[other] = LOG_FILTER_LVL_ALL
            \/ \E i \in 1 .. n : node_tag[tag_lvl_list[i]] = other
      BY <1>1, <1>3, <2>2
    <3>. QED  BY <1>1, <3>1, <3>2, <3>3
  <2>3. CASE level # LOG_FILTER_LVL_ALL
    <3>1. Add(tag, level)
      BY <1>7, <2>3 DEF SetLevel
    <3>2. PICK new \in Nodes :
            /\ new \notin Range(tag_lvl_list)
            /\ tag_lvl_list' = Append(tag_lvl_list, new)
            /\ node_tag' = [node_tag EXCEPT ![new] = tag]
            /\ node_level' = [node_level EXCEPT ![new] = level]
      BY <3>1 DEF Add
    <3>3. /\ Len(tag_lvl_list') = n + 1
          /\ \A i \in 1 .. n : tag_lvl_list'[i] = tag_lvl_list[i] /\ tag_lvl_list[i] # new
          /\ tag_lvl_list'[n + 1] = new
      BY <1>4, <3>2, AppendProperties, ListFacts
    <3>4. \A i \in 1 .. n :
            /\ node_tag'[tag_lvl_list'[i]] = node_tag[tag_lvl_list[i]]
            /\ node_level'[tag_lvl_list'[i]] = node_level[tag_lvl_list[i]]
      BY <1>4, <3>2, <3>3
    <3>5. node_tag'[tag_lvl_list'[n + 1]] = tag /\ node_level'[tag_lvl_list'[n + 1]] = level
      BY <3>2, <3>3
    <3>6. ASSUME NEW i \in 1 .. n + 1, NEW j \in 1 .. n + 1,
                 node_tag'[tag_lvl_list'[i]] = node_tag'[tag_lvl_list'[j]]
          PROVE  i = j
      <4>1. CASE i \in 1 .. n /\ j \in 1 .. n
        BY <1>1, <3>4, <3>6, <4>1
      <4>2. CASE i = n + 1 /\ j \in 1 .. n
        BY <2>1, <3>4, <3>5, <3>6, <4>2
      <4>3. CASE i \in 1 .. n /\ j = n + 1
        BY <2>1, <3>4, <3>5, <3>6, <4>3
      <4>. QED  BY <1>4, <4>1, <4>2, <4>3
    <3>7. ASSUME NEW i \in 1 .. n + 1
          PROVE  /\ node_tag'[tag_lvl_list'[i]] \in Tags
                 /\ node_level'[tag_lvl_list'[i]] = in_force'[node_tag'[tag_lvl_list'[i]]]
      <4>1. CASE i \in 1 .. n
        BY <1>1, <1>3, <2>1, <3>4, <4>1
      <4>2. CASE i = n + 1
        BY <1>2, <1>3, <3>5, <4>2
      <4>. QED  BY <1>4, <4>1, <4>2
    <3>8. ASSUME NEW other \in Tags, in_force'[other] # LOG_FILTER_LVL_ALL
          PROVE  \E i \in 1 .. n + 1 : node_tag'[tag_lvl_list'[i]] = other
      <4>1. CASE other = tag
        <5>1. n + 1 \in 1 .. n + 1
          BY <1>4
        <5>. QED  BY <3>5, <4>1, <5>1
      <4>2. CASE other # tag
        <5>1. PICK i \in 1 .. n : node_tag[tag_lvl_list[i]] = other
          BY <1>1, <1>3, <3>8, <4>2
        <5>2. i \in 1 .. n + 1
          BY <1>4
        <5>. QED  BY <3>4, <5>1, <5>2
      <4>. QED  BY <4>1, <4>2
    <3>. QED  BY <3>3, <3>6, <3>7, <3>8
  <2>. QED  BY <2>2, <2>3
<1>. QED  BY <1>6, <1>7

\* What is in force and what lookups have seen of it.
LEMMA SeenSteps ==
  ASSUME TypeInv, NEW x \in Activations, CallStep(x)
  PROVE  \/ UNCHANGED <<in_force, seen>>
         \/ /\ LockLookup(x) \/ TestTag(x)
            /\ UNCHANGED in_force
            /\ \A y \in Activations : y # x => seen'[y] = seen[y]
         \/ SetLevel(x)
<1>. USE DEF TypeInv, DataTyped, filter, lookup
<1>1. CASE LockLookup(x)
  BY <1>1 DEF LockLookup, BeginLookup
<1>2. CASE TestTag(x)
  BY <1>2 DEF TestTag
<1>3. CASE ~ LockLookup(x) /\ ~ TestTag(x) /\ ~ SetLevel(x)
  BY <1>3 DEF CallStep, TestLevel, Walk, Found, Lock, CheckRecursion, Format, Output, OutputDone,
     Return, LockSet, NoMemory, Unlock
<1>. QED  BY <1>1, <1>2, <1>3

\* SetLevel shows the new level to the lookups of its tag.
LEMMA SetLevelSeen ==
  ASSUME TypeInv, NEW x \in Activations, SetLevel(x), NEW y \in Activations
  PROVE  /\ pc[y] = "walk" /\ call[y].kind # "set" /\ in_force[call[y].tag] \in seen[y]
              => in_force'[call[y].tag] \in seen'[y]
         /\ pc[y] # "walk" => seen'[y] = seen[y]
<1>. USE DEF TypeInv, CallsTyped, DataTyped
<1>1. seen'[y] = IF pc[y] = "walk" /\ call[y].kind # "set" /\ call[y].tag = call[x].tag
                 THEN seen[y] \cup {call[x].level} ELSE seen[y]
  BY DEF SetLevel
<1>2. call[x].tag \in Tags /\ in_force' = [in_force EXCEPT ![call[x].tag] = call[x].level]
  BY DEF SetLevel, WalkOver, Fits
<1>3. pc[y] = "walk" => call[y].tag \in Tags
  BY DEF Fits
<1>. QED  BY <1>1, <1>2, <1>3

\* A step of a call keeps LookupInv.
LEMMA CallStepLookupInv ==
  ASSUME LookupsInv, NEW x \in Activations, CallStep(x)
  PROVE  LookupInv'
<1>. USE DEF LookupsInv, SectionInv, TypeInv, CallsTyped, DataTyped
<1>. DEFINE Passed(y, k) ==
       node[y] = NodeAt(k) /\ \A i \in 1 .. k - 1 : node_tag[tag_lvl_list[i]] # call[y].tag
<1>1. SUFFICES ASSUME NEW y \in Activations
      PROVE  /\ pc'[y] = "walk" /\ ~ unsafe' => \E k \in 1 .. Len(tag_lvl_list') + 1 : Passed(y, k)'
             /\ pc'[y] = "walk" /\ call'[y].kind # "set" => in_force'[call'[y].tag] \in seen'[y]
             /\ pc'[y] = "get_unlock" /\ ~ unsafe' => found'[y] \in seen'[y]
             /\ found'[y] # None => pc'[y] = "get_unlock"
  BY DEF LookupInv
<1>2. /\ pc[y] = "walk" /\ ~ unsafe => \E k \in 1 .. Len(tag_lvl_list) + 1 : Passed(y, k)
      /\ pc[y] = "walk" /\ call[y].kind # "set" => in_force[call[y].tag] \in seen[y]
      /\ pc[y] = "get_unlock" /\ ~ unsafe => found[y] \in seen[y]
      /\ found[y] # None => pc[y] = "get_unlock"
  BY DEF LookupInv
<1>3. CASE y # x
  <2>1. /\ pc'[y] = pc[y] /\ call'[y] = call[y]
        /\ node'[y] = node[y] /\ found'[y] = found[y]
    BY <1>3, OthersUnchanged
  <2>2. ASSUME pc'[y] = "walk", ~ unsafe'
        PROVE  \E k \in 1 .. Len(tag_lvl_list') + 1 : Passed(y, k)'
    <3>1. UNCHANGED <<tag_lvl_list, node_tag>>
      BY <1>3, <2>1, <2>2, WalksAlone DEF filter
    <3>2. PICK k \in 1 .. Len(tag_lvl_list) + 1 : Passed(y, k)
      BY <1>2, <2>1, <2>2, StaysSafe
    <3>3. Passed(y, k)'
      BY <2>1, <3>1, <3>2 DEF NodeAt
    <3>. QED  BY <3>1, <3>2, <3>3
  <2>3. ASSUME pc[y] = "walk", call[y].kind # "set" PROVE in_force'[call[y].tag] \in seen'[y]
    BY <1>2, <1>3, <2>3, SeenSteps, SetLevelSeen
  <2>4. pc[y] = "get_unlock" => seen'[y] = seen[y]
    BY <1>3, SeenSteps, SetLevelSeen
  <2>. QED  BY <1>2, <2>1, <2>2, <2>3, <2>4, StaysSafe
<1>4. CASE y = x
  <2>1. CASE LockLookup(x) \/ LockSet(x)
    <3>1. /\ pc[x] \in {"get_lock", "lock"} /\ pc'[x] = "walk" /\ node'[x] = NodeAt(1)
          /\ UNCHANGED <<tag_lvl_list, node_tag, in_force, found, call>>
      BY <2>1 DEF LockLookup, BeginLookup, LockSet, Step, filter, local
    <3>2. Passed(x, 1)'
      BY <3>1 DEF NodeAt
    <3>3. 1 \in 1 .. Len(tag_lvl_list') + 1
      BY <3>1, ListFacts
    <3>4. call[x].kind # "set" => in_force[call[x].tag] \in seen'[x]
      <4>1. CASE LockLookup(x)
        BY <4>1 DEF LockLookup, BeginLookup
      <4>2. CASE LockSet(x)
        BY <4>2 DEF LockSet
      <4>. QED  BY <2>1, <4>1, <4>2
    <3>. QED  BY <1>2, <1>4, <3>1, <3>2, <3>3, <3>4
  <2>2. CASE Walk(x)
    <3>1. /\ pc[x] = "walk" /\ node[x] # None /\ node_tag[node[x]] # call[x].tag
          /\ node'[x] = NextNode(node[x])
          /\ UNCHANGED <<pc, tag_lvl_list, node_tag, in_force, seen, found, call, unsafe>>
      BY <2>2 DEF Walk, WalkOver, Matches, filter, local
    <3>2. ASSUME ~ unsafe PROVE \E k \in 1 .. Len(tag_lvl_list) + 1 : Passed(x, k)'
      <4>1. PICK k \in 1 .. Len(tag_lvl_list) + 1 : Passed(x, k)
        BY <1>2, <1>4, <3>1, <3>2
      <4>2. k \in 1 .. Len(tag_lvl_list) /\ node[x] = tag_lvl_list[k]
        BY <3>1, <4>1, NodeAtFacts, ListFacts
      <4>3. PICK j \in 1 .. Len(tag_lvl_list) : tag_lvl_list[j] = node[x] /\ node'[x] = NodeAt(j + 1)
        <5>1. node[x] \in Range(tag_lvl_list)
          BY <4>2, ListFacts
        <5>. QED  BY <3>1, <5>1, NextNodeFacts
      <4>4. j = k
        BY <3>2, <4>2, <4>3 DEF FilterInv
      <4>5. \A i \in 1 .. (k + 1) - 1 : node_tag[tag_lvl_list[i]] # call[x].tag
        BY <3>1, <4>1, <4>2, ListFacts
      <4>6. Passed(x, k + 1)'
        BY <3>1, <4>3, <4>4, <4>5 DEF NodeAt
      <4>7. k + 1 \in 1 .. Len(tag_lvl_list) + 1
        BY <4>2, ListFacts
      <4>. QED  BY <4>6, <4>7
    <3>. QED  BY <1>2, <1>4, <3>1, <3>2
  <2>3. CASE Found(x)
    <3>1. /\ pc'[x] = "get_unlock" /\ WalkOver(x) /\ call[x].kind # "set"
          /\ found'[x] = IF Matches(x) THEN node_level[node[x]] ELSE LOG_FILTER_LVL_ALL
          /\ UNCHANGED <<seen, in_force, unsafe>>
      BY <2>3 DEF Found, Step, filter
    <3>2. call[x].tag \in Tags /\ in_force[call[x].tag] \in seen[x]
      BY <1>2, <1>4, <3>1 DEF WalkOver, Fits
    <3>3. ASSUME ~ unsafe PROVE found'[x] = in_force[call[x].tag]
      <4>1. CASE Matches(x)
        BY <3>1, <3>3, <4>1, WalkEnds DEF FilterInv
      <4>2. CASE ~ Matches(x)
        <5>1. \A i \in 1 .. Len(tag_lvl_list) : node_tag[tag_lvl_list[i]] # call[x].tag
          BY <3>1, <3>3, <4>2, WalkEnds
        <5>2. in_force[call[x].tag] = LOG_FILTER_LVL_ALL
          BY <3>2, <3>3, <5>1 DEF FilterInv
        <5>. QED  BY <3>1, <4>2, <5>2
      <4>. QED  BY <4>1, <4>2
    <3>. QED  BY <1>4, <3>1, <3>2, <3>3
  <2>4. CASE SetLevel(x) \/ NoMemory(x)
    BY <1>2, <1>4, <2>4 DEF SetLevel, NoMemory, Step, WalkOver, lookup
  <2>5. CASE TestTag(x)
    BY <1>4, <2>5 DEF TestTag, Step, Finish
  <2>6. CASE pc[x] # "walk" /\ ~ LockLookup(x) /\ ~ LockSet(x) /\ ~ TestTag(x)
    <3>1. TestLevel(x) \/ Lock(x) \/ Unlock(x) \/ CheckRecursion(x) \/ Format(x) \/ Output(x)
            \/ OutputDone(x) \/ Return(x)
      BY <2>6, WhichStep
    <3>2. pc[x] # "get_unlock" /\ pc'[x] \notin {"walk", "get_unlock"} /\ UNCHANGED found
      BY <3>1 DEF TestLevel, Lock, Unlock, CheckRecursion, Format, NoKeyword, Output, OutputDone,
         Return, Step, Finish, InBackend, lookup
    <3>. QED  BY <1>2, <1>4, <3>2
  <2>. QED  BY <2>1, <2>2, <2>3, <2>4, <2>5, <2>6, WhichStep
<1>. QED  BY <1>3, <1>4

\* Every step keeps the list and the lookups right.
LEMMA NextLookups == LookupsInv /\ [Next]_vars => LookupsInv'
<1>. SUFFICES ASSUME LookupsInv, [Next]_vars PROVE FilterInv' /\ LookupInv'
  BY NextSectionInv, NextWalkInv DEF LookupsInv
<1>1. ASSUME NEW x \in Activations, Start(x) PROVE FilterInv' /\ LookupInv'
  <2>1. UNCHANGED <<tag_lvl_list, node_tag, node_level, in_force, node, found, seen, unsafe>>
    BY <1>1 DEF Start, filter, lookup
  <2>2. \A y \in Activations :
          \/ pc'[y] = pc[y] /\ call'[y] = call[y]
          \/ pc'[y] \notin {"walk", "get_unlock"} /\ pc[y] = "idle"
    BY <1>1, StartFacts DEF LookupsInv, SectionInv
  <2>3. FilterInv'
    BY <2>1 DEF LookupsInv, FilterInv
  <2>4. LookupInv'
    BY <2>1, <2>2 DEF LookupsInv, LookupInv, NodeAt
  <2>. QED  BY <2>3, <2>4
<1>2. ASSUME NEW x \in Activations, CallStep(x) PROVE FilterInv' /\ LookupInv'
  <2>1. ASSUME unsafe' PROVE FilterInv'
    BY <2>1 DEF FilterInv
  <2>2. ASSUME ~ unsafe', SetLevel(x) PROVE FilterInv'
    <3>1. ~ unsafe
      BY <1>2, <2>2, StaysSafe DEF LookupsInv, SectionInv
    <3>. QED  BY <2>2, <3>1, SetLevelKeepsFilterInv
  <2>3. ASSUME ~ unsafe', ~ SetLevel(x) PROVE FilterInv'
    <3>1. ~ unsafe
      BY <1>2, <2>3, StaysSafe DEF LookupsInv, SectionInv
    <3>2. UNCHANGED <<tag_lvl_list, node_tag, node_level, in_force>>
      BY <1>2, <2>3, FilterUnchanged DEF filter
    <3>. QED  BY <3>1, <3>2 DEF LookupsInv, FilterInv
  <2>. QED  BY <1>2, <2>1, <2>2, <2>3, CallStepLookupInv
<1>3. CASE /\ UNCHANGED <<tag_lvl_list, node_tag, node_level, in_force, node, found, seen, pc, call>>
           /\ ~ unsafe' => ~ unsafe
  BY <1>3 DEF LookupsInv, FilterInv, LookupInv, NodeAt
<1>4. ASSUME NEW enabled \in BOOLEAN, ulog_output_lock_enable(enabled)
      PROVE  /\ UNCHANGED <<tag_lvl_list, node_tag, node_level, in_force, node, found, seen, pc, call>>
             /\ ~ unsafe' => ~ unsafe
  BY <1>4 DEF ulog_output_lock_enable, filter, lookup, local
<1>5. ASSUME NEW level \in FilterLevels, ulog_global_filter_lvl_set(level)
      PROVE  /\ UNCHANGED <<tag_lvl_list, node_tag, node_level, in_force, node, found, seen, pc, call>>
             /\ ~ unsafe' => ~ unsafe
  BY <1>5 DEF ulog_global_filter_lvl_set, filter, lookup, local
<1>6. CASE UNCHANGED vars
  BY <1>3, <1>6 DEF vars, filter, lookup, local
<1>. QED  BY <1>1, <1>2, <1>3, <1>4, <1>5, <1>6 DEF Next, LookupsInv

\* ulog_tag_lvl_filter_get returns a level that was in force for the tag while it
\* looked, whatever other calls set and removed.
THEOREM LookupsCorrect == Spec => []LevelFound
<1>1. Init => LookupsInv
  <2>. SUFFICES ASSUME Init PROVE LookupsInv
    OBVIOUS
  <2>1. Len(tag_lvl_list) = 0
    BY EmptySeq DEF Init
  <2>2. FilterInv
    BY <2>1 DEF Init, FilterInv
  <2>3. WalkInv /\ LookupInv
    BY DEF Init, WalkInv, LookupInv
  <2>. QED  BY <2>2, <2>3, InitSectionInv DEF LookupsInv
<1>2. LookupsInv => LevelFound
  BY DEF LookupsInv, LookupInv, LevelFound
<1>. QED  BY <1>1, <1>2, NextLookups, PTL DEF Spec

=============================================================================
