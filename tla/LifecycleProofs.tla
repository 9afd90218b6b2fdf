---------------------------- MODULE LifecycleProofs ----------------------------
(***************************************************************************)
(* Proofs about the life of the objects of ulog.c, for any number of tasks *)
(* that call, of calls and of lives.                                       *)
(*                                                                         *)
(* UsesLive says which accesses can hit an object that was given back.  Its*)
(* proof needs to know at each step of ulog_init and ulog_deinit what is   *)
(* there (Stages), when the thread is (ThreadThere), that a call without   *)
(* overlap runs within a life (CallsWithin), what async_rb can be (Rb) and *)
(* that each copy of raw data has one holder (Copies).                     *)
(*                                                                         *)
(* NothingElseLeaks counts objects.  LeakInv says by how many of each kind *)
(* more than those lost for good are live, and who still knows them.       *)
(***************************************************************************)
EXTENDS Lifecycle, FiniteSetTheorems, TLAPS

Drainers == Callers \cup {Thread}

InitPlaces == {"locker", "rbb", "notice", "th", "ok"}
DeinitPlaces == {"nodes", "link", "locker_delete", "rbb_destroy", "th_delete", "rb_destroy",
                 "not_ok"}
DrainPlaces == {"blocks", "raw", "len", "copy", "free"}
CallPlaces ==
  {"idle", "create", "lock", "node", "store", "put", "give", "unlock"} \cup DrainPlaces
\* Where async_rb has been tested and is loaded again.
TestedPlaces == {"put", "len", "copy"}
ThreadPlaces == {"none", "sleep", "wait"} \cup DrainPlaces
OwnerPlaces == {"out"} \cup InitPlaces \cup DeinitPlaces

Objects(kind) == {kind} \X Nat

PlacesTyped ==
  /\ pc \in [Tasks -> OwnerPlaces \cup CallPlaces \cup ThreadPlaces]
  /\ pc[Owner] \in OwnerPlaces /\ pc[Thread] \in ThreadPlaces
  /\ \A c \in Callers : pc[c] \in CallPlaces
  /\ back \in [Drainers -> {"idle", "sleep", "wait"}]
  /\ back[Thread] # "idle" /\ \A c \in Callers : back[c] = "idle"

UlogTyped ==
  ulog \in [init_ok : BOOLEAN,
            output_locker : Objects("locker") \cup {Null},
            async_rbb : Objects("rbb") \cup {Null},
            async_notice : Objects("notice") \cup {Null},
            async_th : Objects("th") \cup {Null},
            async_rb : Objects("rb") \cup {Null}]

HeapTyped ==
  /\ made \in [Kinds -> Nat]
  /\ live \subseteq ObjectKinds \X Nat /\ IsFiniteSet(live)
  /\ nodes \subseteq Objects("node")
  /\ copy \in [Drainers -> Objects("log") \cup {Null}]

Types == PlacesTyped /\ UlogTyped /\ HeapTyped /\ deinits \in Nat

\* A life: ulog_init has returned and ulog_deinit has not begun.
Up == pc[Owner] = "out" /\ ulog.init_ok

\* What is there at each step of ulog_init and ulog_deinit.
Stages ==
  /\ Up \/ pc[Owner] \in {"rbb", "notice", "th", "ok", "nodes", "link", "locker_delete"}
       => ulog.output_locker \in live
  /\ Up \/ pc[Owner] \in {"notice", "th", "ok", "nodes", "link", "locker_delete", "rbb_destroy"}
       => Whole(ulog.async_rbb) \subseteq live
  /\ Up \/ pc[Owner] \in {"th", "ok", "nodes", "link", "locker_delete", "rbb_destroy",
                          "th_delete"}
       => ulog.async_notice \in live
  /\ pc[Owner] = "th_delete" => Whole(ulog.async_rbb) \cap live = {}
  /\ pc[Owner] \in InitPlaces => ~ ulog.init_ok
  /\ pc[Owner] \in DeinitPlaces => deinits > 0

ThreadThere ==
  pc[Thread] # "none" =>
    /\ ulog.async_th # Null
    /\ Up \/ pc[Owner] \in {"ok", "nodes", "link", "locker_delete", "rbb_destroy", "th_delete"}

\* In the first life what async_th and async_rb point to is there.
FirstLife ==
  deinits = 0 =>
    /\ ulog.async_th # Null => ulog.async_th \in live
    /\ ulog.async_rb # Null => Whole(ulog.async_rb) \subseteq live

CallsWithin == ~ overlap => \A c \in Callers : pc[c] # "idle" => Up

\* Only a second buffer takes async_rb back to NULL.
Rb ==
  /\ ulog.async_rb # Null => made["rb"] > 0
  /\ \A x \in Drainers : pc[x] \in TestedPlaces /\ ulog.async_rb = Null => made["rb"] > 1

Copies ==
  /\ \A x \in Drainers : pc[x] \in {"copy", "free"} => copy[x] \in live
  /\ \A x \in Drainers : copy[x] # Null => pc[x] \in {"copy", "free"}
  /\ \A x, y \in Drainers : copy[x] = copy[y] /\ copy[x] # Null => x = y

LifeInv ==
  Types /\ Stages /\ ThreadThere /\ FirstLife /\ CallsWithin /\ Rb /\ Copies /\ UsesLive

-----------------------------------------------------------------------------
\* Objects and their parts.

\* The task of ulog_init and ulog_deinit, the output thread and the callers are
\* different.
LEMMA TasksDiffer ==
  /\ Owner \in Tasks /\ Thread \in Tasks /\ Thread \in Drainers /\ Owner \notin Drainers
  /\ Owner # Thread
  /\ \A c \in Callers : c \in Tasks /\ c \in Drainers /\ c # Owner /\ c # Thread
  /\ \A x \in Drainers : x \in Tasks /\ x # Owner /\ (x \in Callers \/ x = Thread)
BY TasksAssumption DEF Tasks, Drainers

\* NULL is no object, and an object is of one kind.
LEMMA NullIsNoObject ==
  \A kind \in ObjectKinds : \A o \in Objects(kind) :
     o # Null /\ Kind(o) = kind /\ o \in ObjectKinds \X Nat
BY NullAssumption DEF Objects, Kind

\* What is allocated and freed together.
LEMMA Wholes ==
  /\ Whole(Null) = {Null}
  /\ \A n \in Nat : Whole(<<"rbb", n>>) = {<<"rbb", n>>, <<"buf", n>>, <<"blk_set", n>>}
  /\ \A n \in Nat : Whole(<<"rb", n>>) = {<<"rb", n>>, <<"pool", n>>}
<1>1. Whole(Null) = {Null}
  BY DEF Whole, Parts
<1>2. ASSUME NEW n \in Nat
      PROVE  /\ <<"rbb", n>> # Null /\ Kind(<<"rbb", n>>) = "rbb" /\ <<"rbb", n>>[2] = n
             /\ <<"rb", n>> # Null /\ Kind(<<"rb", n>>) = "rb" /\ <<"rb", n>>[2] = n
  BY NullAssumption DEF Kind, ObjectKinds
<1>3. ASSUME NEW n \in Nat
      PROVE  Whole(<<"rbb", n>>) = {<<"rbb", n>>, <<"buf", n>>, <<"blk_set", n>>}
  BY <1>2 DEF Whole, Parts
<1>4. ASSUME NEW n \in Nat
      PROVE  Whole(<<"rb", n>>) = {<<"rb", n>>, <<"pool", n>>}
  BY <1>2 DEF Whole, Parts
<1>. QED  BY <1>1, <1>3, <1>4

\* The parts of an object are objects.
LEMMA WholeTyped ==
  /\ \A o \in Objects("rbb") \cup Objects("rb") :
        Whole(o) \subseteq ObjectKinds \X Nat /\ IsFiniteSet(Whole(o)) /\ o \in Whole(o)
  /\ \A o \in Objects("rbb") :
        Whole(o) \subseteq Objects("rbb") \cup Objects("buf") \cup Objects("blk_set")
  /\ \A o \in Objects("rb") : Whole(o) \subseteq Objects("rb") \cup Objects("pool")
<1>1. ASSUME NEW n \in Nat
      PROVE  /\ Whole(<<"rbb", n>>) \subseteq ObjectKinds \X Nat
             /\ Whole(<<"rbb", n>>) \subseteq Objects("rbb") \cup Objects("buf")
                                                \cup Objects("blk_set")
             /\ Whole(<<"rb", n>>) \subseteq ObjectKinds \X Nat
             /\ Whole(<<"rb", n>>) \subseteq Objects("rb") \cup Objects("pool")
             /\ <<"rbb", n>> \in Whole(<<"rbb", n>>) /\ <<"rb", n>> \in Whole(<<"rb", n>>)
  BY Wholes DEF ObjectKinds, Objects
<1>2. ASSUME NEW n \in Nat
      PROVE  IsFiniteSet(Whole(<<"rbb", n>>)) /\ IsFiniteSet(Whole(<<"rb", n>>))
  <2>1. IsFiniteSet({<<"rbb", n>>}) /\ IsFiniteSet({<<"rb", n>>})
    BY FS_Singleton
  <2>2. /\ IsFiniteSet({<<"rbb", n>>} \cup {<<"buf", n>>})
        /\ IsFiniteSet({<<"rb", n>>} \cup {<<"pool", n>>})
    BY <2>1, FS_AddElement
  <2>3. IsFiniteSet(({<<"rbb", n>>} \cup {<<"buf", n>>}) \cup {<<"blk_set", n>>})
    BY <2>2, FS_AddElement
  <2>4. /\ Whole(<<"rbb", n>>) = ({<<"rbb", n>>} \cup {<<"buf", n>>}) \cup {<<"blk_set", n>>}
        /\ Whole(<<"rb", n>>) = {<<"rb", n>>} \cup {<<"pool", n>>}
    BY Wholes
  <2>. QED  BY <2>2, <2>3, <2>4
<1>3. /\ \A o \in Objects("rbb") : \E n \in Nat : o = <<"rbb", n>>
      /\ \A o \in Objects("rb") : \E n \in Nat : o = <<"rb", n>>
  BY DEF Objects
<1>4. ASSUME NEW o \in Objects("rbb")
      PROVE  /\ Whole(o) \subseteq ObjectKinds \X Nat /\ IsFiniteSet(Whole(o)) /\ o \in Whole(o)
             /\ Whole(o) \subseteq Objects("rbb") \cup Objects("buf") \cup Objects("blk_set")
  <2>1. PICK n \in Nat : o = <<"rbb", n>>
    BY <1>3
  <2>. QED  BY <2>1, <1>1, <1>2
<1>5. ASSUME NEW o \in Objects("rb")
      PROVE  /\ Whole(o) \subseteq ObjectKinds \X Nat /\ IsFiniteSet(Whole(o)) /\ o \in Whole(o)
             /\ Whole(o) \subseteq Objects("rb") \cup Objects("pool")
  <2>1. PICK n \in Nat : o = <<"rb", n>>
    BY <1>3
  <2>. QED  BY <2>1, <1>1, <1>2
<1>. QED  BY <1>4, <1>5

\* Failing allocations of ulog_init and ulog_raw leave nothing.
LEMMA NothingLeft ==
  /\ \A o : \A n \in 1 .. 3 : RbbLeft(n, o) = {}
  /\ \A o : \A n \in 1 .. 2 : RingbufferLeft(n, o) = {}
<1>1. ASSUME NEW o, NEW n \in 1 .. 3 PROVE RbbLeft(n, o) = {}
  BY DEF RbbLeft
<1>2. ASSUME NEW o, NEW n \in 1 .. 2 PROVE RingbufferLeft(n, o) = {}
  BY DEF RingbufferLeft
<1>. QED  BY <1>1, <1>2

\* A number that comes back is one that is free.
LEMMA NewAgainIsNew ==
  ASSUME HeapTyped, NEW kind \in ObjectKinds
  PROVE  NewAgain(kind) \in Objects(kind) /\ NewAgain(kind) \notin live
<1>. DEFINE free == {<<kind, n>> : n \in 1 .. Cardinality(live) + 1}
<1>1. PICK N \in Nat : N = Cardinality(live)
  BY FS_CardinalityType DEF HeapTyped
<1>2. IsFiniteSet(1 .. N + 1) /\ Cardinality(1 .. N + 1) = N + 1
  <2>1. 1 \in Int /\ N + 1 \in Int /\ ~ (1 > N + 1) /\ (N + 1) - 1 + 1 = N + 1
    BY <1>1
  <2>. QED  BY <2>1, FS_Interval
<1>3. IsFiniteSet(free) /\ Cardinality(free) = N + 1
  <2>. DEFINE f == [n \in 1 .. N + 1 |-> <<kind, n>>]
  <2>1. f \in Bijection(1 .. N + 1, free)
    BY <1>1 DEF Bijection, Injection, Surjection, IsInjective
  <2>. QED  BY <1>2, <2>1, FS_Bijection DEF ExistsBijection
<1>4. ~ (free \subseteq live)
  <2>. SUFFICES ASSUME free \subseteq live PROVE FALSE
    OBVIOUS
  <2>1. Cardinality(free) <= Cardinality(live)
    BY FS_Subset DEF HeapTyped
  <2>. QED  BY <2>1, <1>1, <1>3
<1>5. \E o \in free : o \notin live
  BY <1>4
<1>6. NewAgain(kind) \in free /\ NewAgain(kind) \notin live
  BY <1>5 DEF NewAgain
<1>7. free \subseteq Objects(kind)
  BY <1>1 DEF Objects
<1>. QED  BY <1>6, <1>7

-----------------------------------------------------------------------------
\* Types.

\* A task that moves is at a place of its role.
LEMMA MoveTyped ==
  ASSUME PlacesTyped, NEW x \in Tasks, NEW to, To(x, to), UNCHANGED back,
         x = Owner => to \in OwnerPlaces,
         x = Thread => to \in ThreadPlaces,
         x \in Callers => to \in CallPlaces
  PROVE  PlacesTyped'
<1>1. to \in OwnerPlaces \cup CallPlaces \cup ThreadPlaces
  BY DEF Tasks
<1>2. pc' \in [Tasks -> OwnerPlaces \cup CallPlaces \cup ThreadPlaces]
  BY <1>1 DEF PlacesTyped, To
<1>3. pc'[x] = to /\ \A y \in Tasks : y # x => pc'[y] = pc[y]
  BY DEF PlacesTyped, To
<1>4. Owner \in Tasks /\ Thread \in Tasks /\ \A c \in Callers : c \in Tasks
  BY TasksDiffer
<1>5. pc'[Owner] \in OwnerPlaces
  BY <1>3, <1>4 DEF PlacesTyped
<1>6. pc'[Thread] \in ThreadPlaces
  BY <1>3, <1>4 DEF PlacesTyped
<1>7. \A c \in Callers : pc'[c] \in CallPlaces
  BY <1>3, <1>4 DEF PlacesTyped
<1>. QED  BY <1>2, <1>5, <1>6, <1>7 DEF PlacesTyped, Drainers

\* Places are typed after a step of ulog_init and ulog_deinit,
LEMMA OwnerPlacesTyped ==
  ASSUME PlacesTyped, OwnerStep
  PROVE  PlacesTyped'
<1>1. Owner \in Tasks /\ Owner # Thread /\ Owner \notin Callers /\ Thread \in Tasks
      /\ Thread \in Drainers /\ \A c \in Callers : c # Thread /\ c \in Drainers /\ c \in Tasks
  BY TasksDiffer
<1>2. \A to \in OwnerPlaces : To(Owner, to) /\ UNCHANGED back => PlacesTyped'
  BY <1>1, MoveTyped
<1>3. ASSUME OwnerStep, ~ ThreadCreated, ~ ThreadDeleted PROVE PlacesTyped'
  <2>1. (\E to \in OwnerPlaces : To(Owner, to)) /\ UNCHANGED back
    BY <1>3 DEF OwnerStep, InitCalled, LockerCreated, RbbCreated, NoticeCreated, InitReturns,
         DeinitCalled, NodesFreed, LockerDeleted, RbbDestroyed, RbDestroyed, DeinitReturns,
         OwnerPlaces, InitPlaces, DeinitPlaces, local
  <2>. QED  BY <1>2, <2>1
<1>4. ASSUME ThreadCreated PROVE PlacesTyped'
  <2>1. CASE pc' = [pc EXCEPT ![Owner] = "ok", ![Thread] = "blocks"]
             /\ back' = [back EXCEPT ![Thread] = "sleep"]
    <3>1. /\ "ok" \in OwnerPlaces /\ "blocks" \in ThreadPlaces
      BY DEF OwnerPlaces, InitPlaces, ThreadPlaces, DrainPlaces
    <3>2. pc' \in [Tasks -> OwnerPlaces \cup CallPlaces \cup ThreadPlaces]
      BY <2>1, <3>1, <1>1 DEF PlacesTyped
    <3>3. /\ pc'[Owner] = "ok" /\ pc'[Thread] = "blocks"
          /\ \A y \in Tasks : y # Owner /\ y # Thread => pc'[y] = pc[y]
      BY <2>1, <1>1 DEF PlacesTyped
    <3>4. back' \in [Drainers -> {"idle", "sleep", "wait"}] /\ back'[Thread] = "sleep"
          /\ \A y \in Drainers : y # Thread => back'[y] = back[y]
      BY <2>1, <1>1 DEF PlacesTyped
    <3>. QED  BY <3>1, <3>2, <3>3, <3>4, <1>1 DEF PlacesTyped
  <2>2. CASE To(Owner, "ok") /\ UNCHANGED back
    BY <2>2, <1>2 DEF OwnerPlaces, InitPlaces
  <2>. QED  BY <1>4, <2>1, <2>2 DEF ThreadCreated
<1>5. ASSUME ThreadDeleted PROVE PlacesTyped'
  <2>1. CASE pc' = [pc EXCEPT ![Owner] = "rb_destroy", ![Thread] = "none"]
    <3>1. /\ "rb_destroy" \in OwnerPlaces /\ "none" \in ThreadPlaces
      BY DEF OwnerPlaces, DeinitPlaces, ThreadPlaces
    <3>2. pc' \in [Tasks -> OwnerPlaces \cup CallPlaces \cup ThreadPlaces]
      BY <2>1, <3>1, <1>1 DEF PlacesTyped
    <3>3. /\ pc'[Owner] = "rb_destroy" /\ pc'[Thread] = "none"
          /\ \A y \in Tasks : y # Owner /\ y # Thread => pc'[y] = pc[y]
      BY <2>1, <1>1 DEF PlacesTyped
    <3>4. back' = back
      BY <1>5 DEF ThreadDeleted
    <3>. QED  BY <3>1, <3>2, <3>3, <3>4, <1>1 DEF PlacesTyped
  <2>2. CASE To(Owner, "rb_destroy")
    BY <1>5, <2>2, <1>2 DEF ThreadDeleted, OwnerPlaces, DeinitPlaces
  <2>. QED  BY <1>5, <2>1, <2>2 DEF ThreadDeleted
<1>. QED  BY <1>3, <1>4, <1>5

\* after one of the other tasks,
LEMMA OtherPlacesTyped ==
  ASSUME PlacesTyped,
         \/ \E c \in Callers : CallerStep(c)
         \/ \E x \in Drainers : DrainStep(x)
         \/ Noticed \/ TimedOut
  PROVE  PlacesTyped'
<1>1. /\ Thread \in Tasks /\ Thread # Owner /\ Thread \notin Callers /\ Thread \in Drainers
      /\ \A c \in Callers : c \in Tasks /\ c # Thread /\ c # Owner
      /\ \A x \in Drainers : x \in Tasks /\ x # Owner /\ (x \in Callers \/ x = Thread)
  BY TasksDiffer
<1>2. ASSUME NEW c \in Callers, CallerStep(c) PROVE PlacesTyped'
  <2>1. (\E to \in CallPlaces : To(c, to)) /\ UNCHANGED back
    BY <1>2 DEF CallerStep, Called, RbCreated, Locked, NodeSet, Stored, RawPut, NoticeGiven,
         Unlocked, CallPlaces, DrainPlaces, local
  <2>. QED  BY <1>1, <2>1, MoveTyped
<1>3. ASSUME NEW x \in Drainers, DrainStep(x) PROVE PlacesTyped'
  <2>1. (\E to \in DrainPlaces \cup {back[x]} : To(x, to)) /\ UNCHANGED back
    BY <1>3 DEF DrainStep, BlocksOutput, RawTested, RawMeasured, RawCopied, RawFreed,
       DrainPlaces, local
  <2>2. /\ x = Thread => back[x] \in ThreadPlaces
        /\ x \in Callers => back[x] \in CallPlaces
    BY <1>1 DEF PlacesTyped, ThreadPlaces, CallPlaces
  <2>3. \A to \in DrainPlaces : to \in ThreadPlaces /\ to \in CallPlaces
    BY DEF ThreadPlaces, CallPlaces
  <2>. QED  BY <1>1, <2>1, <2>2, <2>3, MoveTyped
<1>4. ASSUME Noticed \/ TimedOut PROVE PlacesTyped'
  <2>1. PICK to \in {"blocks", "sleep"} : To(Thread, to)
    BY <1>4 DEF Noticed, TimedOut
  <2>2. PICK b \in {"wait", "sleep"} : back' = [back EXCEPT ![Thread] = b]
    BY <1>4 DEF Noticed, TimedOut
  <2>3. to \in ThreadPlaces
    BY DEF ThreadPlaces, DrainPlaces
  <2>4. pc' \in [Tasks -> OwnerPlaces \cup CallPlaces \cup ThreadPlaces]
    BY <2>1, <2>3, <1>1 DEF PlacesTyped, To
  <2>5. pc'[Thread] = to /\ \A y \in Tasks : y # Thread => pc'[y] = pc[y]
    BY <2>1, <1>1 DEF PlacesTyped, To
  <2>6. /\ back' \in [Drainers -> {"idle", "sleep", "wait"}] /\ back'[Thread] # "idle"
        /\ \A c \in Callers : back'[c] = back[c]
    BY <2>2, <1>1 DEF PlacesTyped, Drainers
  <2>7. Owner \in Tasks
    BY TasksDiffer
  <2>. QED  BY <2>3, <2>4, <2>5, <2>6, <2>7, <1>1 DEF PlacesTyped
<1>. QED  BY <1>2, <1>3, <1>4

\* and so after every step.
LEMMA NextPlaces == PlacesTyped /\ [Next]_vars => PlacesTyped'
<1>. SUFFICES ASSUME PlacesTyped, [Next]_vars PROVE PlacesTyped'
  OBVIOUS
<1>1. CASE UNCHANGED vars \/ \E x \in Tasks : Fault(x)
  BY <1>1 DEF vars, Fault, local, PlacesTyped
<1>. QED  BY <1>1, OwnerPlacesTyped, OtherPlacesTyped DEF Next, Drainers

\* A new object is of its kind.
LEMMA NewTyped ==
  ASSUME HeapTyped, NEW kind \in Kinds
  PROVE  New(kind) \in Objects(kind) /\ (Made(kind) => made' \in [Kinds -> Nat])
BY DEF HeapTyped, New, Made, Objects

\* The pointers in the structure ulog keep their types.
LEMMA NextUlog == UlogTyped /\ HeapTyped /\ [Next]_vars => UlogTyped'
<1>. SUFFICES ASSUME UlogTyped, HeapTyped, [Next]_vars PROVE UlogTyped'
  OBVIOUS
<1>1. /\ New("locker") \in Objects("locker") /\ New("rbb") \in Objects("rbb")
      /\ New("notice") \in Objects("notice") /\ New("th") \in Objects("th")
      /\ New("rb") \in Objects("rb")
  BY NewTyped DEF Kinds
<1>2. UNCHANGED ulog => UlogTyped'
  BY DEF UlogTyped
<1>3. ASSUME LockerCreated PROVE UlogTyped'
  BY <1>1, <1>3 DEF LockerCreated, UlogTyped
<1>4. ASSUME RbbCreated PROVE UlogTyped'
  BY <1>1, <1>4 DEF RbbCreated, UlogTyped
<1>5. ASSUME NoticeCreated PROVE UlogTyped'
  BY <1>1, <1>5 DEF NoticeCreated, UlogTyped
<1>6. ASSUME ThreadCreated PROVE UlogTyped'
  BY <1>1, <1>6 DEF ThreadCreated, UlogTyped
<1>7. ASSUME InitReturns \/ DeinitReturns PROVE UlogTyped'
  BY <1>7 DEF InitReturns, DeinitReturns, UlogTyped
<1>8. ASSUME NEW c, RbCreated(c) PROVE UlogTyped'
  BY <1>1, <1>8 DEF RbCreated, UlogTyped
<1>9. ASSUME InitCalled \/ DeinitCalled \/ NodesFreed \/ LockerDeleted \/ RbbDestroyed
             \/ ThreadDeleted \/ RbDestroyed
      PROVE  UNCHANGED ulog
  BY <1>9 DEF InitCalled, DeinitCalled, NodesFreed, LockerDeleted, RbbDestroyed, ThreadDeleted,
       RbDestroyed
<1>10. ASSUME NEW c, Called(c) \/ Locked(c) \/ NodeSet(c) \/ Stored(c) \/ RawPut(c)
                     \/ NoticeGiven(c) \/ Unlocked(c) \/ DrainStep(c) \/ Fault(c)
       PROVE  UNCHANGED ulog
  BY <1>10 DEF Called, Locked, NodeSet, Stored, RawPut, NoticeGiven, Unlocked, DrainStep,
       BlocksOutput, RawTested, RawMeasured, RawCopied, RawFreed, Fault
<1>11. Noticed \/ TimedOut \/ UNCHANGED vars => UNCHANGED ulog
  BY DEF Noticed, TimedOut, vars
<1>. QED  BY <1>2, <1>3, <1>4, <1>5, <1>6, <1>7, <1>8, <1>9, <1>10, <1>11
          DEF Next, OwnerStep, CallerStep

\* What is live is finite, and so after something was added.
LEMMA Grown ==
  ASSUME HeapTyped, NEW added, IsFiniteSet(added), added \subseteq ObjectKinds \X Nat,
         NEW S, S \subseteq live \cup added
  PROVE  S \subseteq ObjectKinds \X Nat /\ IsFiniteSet(S)
<1>1. IsFiniteSet(live \cup added)
  BY FS_Union DEF HeapTyped
<1>2. IsFiniteSet(S)
  BY <1>1, FS_Subset
<1>. QED  BY <1>2 DEF HeapTyped

\* An object, whole objects and nothing, as what live may grow by.
LEMMA Additions ==
  /\ IsFiniteSet({})
  /\ \A kind \in ObjectKinds : \A o \in Objects(kind) :
        IsFiniteSet({o}) /\ {o} \subseteq ObjectKinds \X Nat
  /\ \A o \in Objects("rbb") \cup Objects("rb") :
        IsFiniteSet(Whole(o)) /\ Whole(o) \subseteq ObjectKinds \X Nat
BY FS_EmptySet, FS_Singleton, WholeTyped DEF Objects

\* The heap is typed after a step of ulog_init and ulog_deinit,
LEMMA OwnerHeap ==
  ASSUME HeapTyped, OwnerStep
  PROVE  HeapTyped'
<1>. DEFINE LiveTyped == live' \subseteq ObjectKinds \X Nat /\ IsFiniteSet(live')
<1>1. /\ New("locker") \in Objects("locker") /\ New("rbb") \in Objects("rbb")
      /\ New("notice") \in Objects("notice") /\ New("th") \in Objects("th")
      /\ \A kind \in Kinds : Made(kind) => made' \in [Kinds -> Nat]
  BY NewTyped DEF Kinds
<1>2. live' \subseteq live => LiveTyped
  BY Additions, Grown
<1>3. \A kind \in ObjectKinds : \A o \in Objects(kind) : live' \subseteq live \cup {o} => LiveTyped
  BY Additions, Grown
<1>4. \A o \in Objects("rbb") : live' \subseteq live \cup Whole(o) => LiveTyped
  BY Additions, Grown
<1>5. ASSUME LockerCreated PROVE HeapTyped'
  <2>1. LiveTyped
    BY <1>5, <1>1, <1>2, <1>3 DEF LockerCreated, heap, ObjectKinds
  <2>2. made' \in [Kinds -> Nat] /\ nodes' \subseteq Objects("node") /\ UNCHANGED copy
    BY <1>5, <1>1 DEF LockerCreated, heap, local, HeapTyped, Kinds
  <2>. QED  BY <2>1, <2>2 DEF HeapTyped
<1>6. ASSUME RbbCreated PROVE HeapTyped'
  <2>1. LiveTyped
    <3>1. CASE live' = live \cup Whole(New("rbb"))
      BY <3>1, <1>1, <1>4
    <3>2. CASE \E n \in 1 .. 3 :
                  live' = (live \cup RbbLeft(n, New("rbb"))) \ {ulog.output_locker}
      BY <3>2, NothingLeft, <1>2
    <3>. QED  BY <1>6, <3>1, <3>2 DEF RbbCreated
  <2>2. made' \in [Kinds -> Nat] /\ UNCHANGED <<nodes, copy>>
    BY <1>6, <1>1 DEF RbbCreated, local, Kinds
  <2>. QED  BY <2>1, <2>2 DEF HeapTyped
<1>7. ASSUME NoticeCreated PROVE HeapTyped'
  <2>1. LiveTyped
    BY <1>7, <1>1, <1>2, <1>3 DEF NoticeCreated, ObjectKinds
  <2>2. made' \in [Kinds -> Nat] /\ UNCHANGED <<nodes, copy>>
    BY <1>7, <1>1 DEF NoticeCreated, local, HeapTyped, Kinds
  <2>. QED  BY <2>1, <2>2 DEF HeapTyped
<1>8. ASSUME ThreadCreated PROVE HeapTyped'
  <2>1. LiveTyped
    BY <1>8, <1>1, <1>2, <1>3 DEF ThreadCreated, ObjectKinds, heap
  <2>2. made' \in [Kinds -> Nat] /\ UNCHANGED <<nodes, copy>>
    BY <1>8, <1>1 DEF ThreadCreated, heap, HeapTyped, Kinds
  <2>. QED  BY <2>1, <2>2 DEF HeapTyped
<1>9. ASSUME ThreadDeleted PROVE HeapTyped'
  <2>1. live' \subseteq live /\ copy' \in [Drainers -> Objects("log") \cup {Null}]
    BY <1>9 DEF ThreadDeleted, HeapTyped
  <2>2. UNCHANGED <<made, nodes>>
    BY <1>9 DEF ThreadDeleted
  <2>. QED  BY <2>1, <2>2, <1>2 DEF HeapTyped
<1>10. ASSUME \/ InitCalled \/ InitReturns \/ DeinitCalled \/ NodesFreed \/ LockerDeleted
              \/ RbbDestroyed \/ RbDestroyed \/ DeinitReturns
       PROVE  HeapTyped'
  <2>1. live' \subseteq live
    BY <1>10 DEF InitCalled, InitReturns, DeinitCalled, NodesFreed, LockerDeleted, RbbDestroyed,
         RbDestroyed, DeinitReturns, heap
  <2>2. UNCHANGED <<made, nodes, copy>>
    BY <1>10 DEF InitCalled, InitReturns, DeinitCalled, NodesFreed, LockerDeleted, RbbDestroyed,
         RbDestroyed, DeinitReturns, heap, local
  <2>. QED  BY <2>1, <2>2, <1>2 DEF HeapTyped
<1>. QED  BY <1>5, <1>6, <1>7, <1>8, <1>9, <1>10 DEF OwnerStep

\* after one of the other tasks,
LEMMA OtherHeap ==
  ASSUME HeapTyped,
         \/ \E c \in Callers : CallerStep(c)
         \/ \E x \in Drainers : DrainStep(x)
         \/ Noticed \/ TimedOut
  PROVE  HeapTyped'
<1>. DEFINE LiveTyped == live' \subseteq ObjectKinds \X Nat /\ IsFiniteSet(live')
<1>1. /\ New("rb") \in Objects("rb") /\ (Made("rb") => made' \in [Kinds -> Nat])
      /\ NewAgain("node") \in Objects("node") /\ NewAgain("log") \in Objects("log")
  BY NewTyped, NewAgainIsNew DEF Kinds, ObjectKinds
<1>2. live' \subseteq live => LiveTyped
  BY Additions, Grown
<1>3. \A kind \in ObjectKinds : \A o \in Objects(kind) : live' \subseteq live \cup {o} => LiveTyped
  BY Additions, Grown
<1>4. \A o \in Objects("rb") : live' \subseteq live \cup Whole(o) => LiveTyped
  BY Additions, Grown
<1>5. ASSUME NEW c, RbCreated(c) PROVE HeapTyped'
  <2>1. LiveTyped
    <3>1. CASE live' = live \cup Whole(New("rb"))
      BY <3>1, <1>1, <1>4
    <3>2. CASE \E n \in 1 .. 2 : live' = live \cup RingbufferLeft(n, New("rb"))
      BY <3>2, NothingLeft, <1>2
    <3>. QED  BY <1>5, <3>1, <3>2 DEF RbCreated
  <2>2. made' \in [Kinds -> Nat] /\ UNCHANGED <<nodes, copy>>
    BY <1>5, NewTyped DEF RbCreated, local, Kinds
  <2>. QED  BY <2>1, <2>2 DEF HeapTyped
<1>6. ASSUME NEW c, NodeSet(c) PROVE HeapTyped'
  <2>1. LiveTyped /\ nodes' \subseteq Objects("node")
    BY <1>6, <1>1, <1>2, <1>3 DEF NodeSet, ObjectKinds, HeapTyped
  <2>2. UNCHANGED <<made, copy>>
    BY <1>6 DEF NodeSet, local
  <2>. QED  BY <2>1, <2>2 DEF HeapTyped
<1>7. ASSUME NEW x \in Drainers, DrainStep(x) PROVE HeapTyped'
  <2>1. LiveTyped
    BY <1>7, <1>1, <1>2, <1>3 DEF DrainStep, BlocksOutput, RawTested, RawMeasured, RawCopied,
         RawFreed, ObjectKinds, heap
  <2>2. UNCHANGED <<made, nodes>>
    BY <1>7 DEF DrainStep, BlocksOutput, RawTested, RawMeasured, RawCopied, RawFreed, heap
  <2>3. copy' \in [Drainers -> Objects("log") \cup {Null}]
    BY <1>7, <1>1 DEF DrainStep, BlocksOutput, RawTested, RawMeasured, RawCopied, RawFreed,
       local, HeapTyped
  <2>. QED  BY <2>1, <2>2, <2>3 DEF HeapTyped
<1>8. ASSUME \/ \E c \in Callers : Called(c) \/ Locked(c) \/ Stored(c) \/ RawPut(c)
                                     \/ NoticeGiven(c) \/ Unlocked(c)
             \/ Noticed \/ TimedOut
      PROVE  HeapTyped'
  <2>1. UNCHANGED <<live, made, nodes, copy>>
    BY <1>8 DEF Called, Locked, Stored, RawPut, NoticeGiven, Unlocked, Noticed, TimedOut, heap,
       local
  <2>. QED  BY <2>1 DEF HeapTyped
<1>. QED  BY <1>5, <1>6, <1>7, <1>8 DEF CallerStep

\* and so after every step, with all else.
LEMMA NextTypes == Types /\ [Next]_vars => Types'
<1>. SUFFICES ASSUME Types, [Next]_vars PROVE Types'
  OBVIOUS
<1>1. PlacesTyped' /\ UlogTyped'
  BY NextPlaces, NextUlog DEF Types
<1>2. HeapTyped'
  <2>1. CASE UNCHANGED vars \/ \E x \in Tasks : Fault(x)
    <3>1. UNCHANGED <<live, made, nodes, copy>>
      BY <2>1 DEF vars, Fault, heap, local
    <3>. QED  BY <3>1 DEF Types, HeapTyped
  <2>. QED  BY <2>1, OwnerHeap, OtherHeap DEF Next, Drainers, Types
<1>3. deinits' = deinits \/ deinits' = deinits + 1
  BY DEF Next, vars, counts, OwnerStep, InitCalled, LockerCreated, RbbCreated, NoticeCreated,
     ThreadCreated, InitReturns, DeinitCalled, NodesFreed, LockerDeleted, RbbDestroyed,
     ThreadDeleted, RbDestroyed, DeinitReturns, CallerStep, Called, RbCreated, Locked, NodeSet,
     Stored, RawPut, NoticeGiven, Unlocked, DrainStep, BlocksOutput, RawTested, RawMeasured,
     RawCopied, RawFreed, Noticed, TimedOut, Fault
<1>. QED  BY <1>1, <1>2, <1>3 DEF Types

-----------------------------------------------------------------------------
\* What the steps of the other tasks leave as it was.

Others ==
  \/ \E c \in Callers : CallerStep(c)
  \/ \E x \in Drainers : DrainStep(x)
  \/ Noticed \/ TimedOut
  \/ \E x \in Tasks : Fault(x)
  \/ UNCHANGED vars

\* A step is one of ulog_init and ulog_deinit or one of the other tasks.
LEMMA OwnerOrOthers == [Next]_vars => OwnerStep \/ Others
BY DEF Next, Others, Drainers

\* One task moves at a time.
LEMMA MovesOne ==
  ASSUME PlacesTyped, NEW x \in Tasks, NEW to, To(x, to)
  PROVE  pc'[x] = to /\ \A y \in Tasks : y # x => pc'[y] = pc[y]
BY DEF PlacesTyped, To

\* Other tasks neither move the owner nor create or delete the thread,
LEMMA OthersPlaces ==
  ASSUME PlacesTyped, Others
  PROVE  /\ pc'[Owner] = pc[Owner] /\ UNCHANGED deinits
         /\ pc'[Thread] = "none" <=> pc[Thread] = "none"
<1>. USE TasksDiffer
<1>1. ASSUME NEW c \in Callers, CallerStep(c)
      PROVE  (\E to : To(c, to)) /\ UNCHANGED deinits
  BY <1>1 DEF CallerStep, Called, RbCreated, Locked, NodeSet, Stored, RawPut, NoticeGiven,
     Unlocked, counts
<1>2. ASSUME NEW x \in Drainers, DrainStep(x)
      PROVE  /\ \E to \in {"raw", "len", "copy", "free", back[x]} : To(x, to)
             /\ UNCHANGED deinits /\ pc[x] \in DrainPlaces
  BY <1>2 DEF DrainStep, BlocksOutput, RawTested, RawMeasured, RawCopied, RawFreed, counts,
     Runs, DrainPlaces
<1>3. ASSUME Noticed \/ TimedOut
      PROVE  /\ \E to \in {"blocks", "sleep"} : To(Thread, to)
             /\ UNCHANGED deinits /\ pc[Thread] \in {"sleep", "wait"}
  BY <1>3 DEF Noticed, TimedOut, counts, Runs
<1>4. ASSUME UNCHANGED vars \/ \E x \in Tasks : Fault(x)
      PROVE  UNCHANGED <<pc, deinits>>
  BY <1>4 DEF Fault, vars, counts
<1>5. CASE \E c \in Callers : CallerStep(c)
  BY <1>1, <1>5, MovesOne
<1>6. CASE \E x \in Drainers : DrainStep(x)
  <2>0. PICK x \in Drainers : DrainStep(x)
    BY <1>6
  <2>1. PICK to \in {"raw", "len", "copy", "free", back[x]} :
           To(x, to) /\ UNCHANGED deinits /\ pc[x] \in DrainPlaces
    BY <2>0, <1>2
  <2>2. pc'[x] = to /\ \A y \in Tasks : y # x => pc'[y] = pc[y]
    BY <2>1, MovesOne
  <2>3. x = Thread => to # "none" /\ pc[x] # "none"
    BY <2>1 DEF PlacesTyped, DrainPlaces
  <2>. QED  BY <2>1, <2>2, <2>3
<1>7. CASE Noticed \/ TimedOut
  BY <1>3, <1>7, MovesOne
<1>. QED  BY <1>4, <1>5, <1>6, <1>7 DEF Others

\* they set no pointer but async_rb,
LEMMA OthersUlog ==
  ASSUME UlogTyped, Others
  PROVE  /\ ulog'.init_ok = ulog.init_ok /\ ulog'.output_locker = ulog.output_locker
         /\ ulog'.async_rbb = ulog.async_rbb /\ ulog'.async_notice = ulog.async_notice
         /\ ulog'.async_th = ulog.async_th
<1>1. ASSUME NEW c \in Callers, RbCreated(c)
      PROVE  \E o : ulog' = [ulog EXCEPT !.async_rb = o]
  BY <1>1 DEF RbCreated
<1>2. (\A c \in Callers : ~ RbCreated(c)) => UNCHANGED ulog
  BY DEF Others, CallerStep, Called, Locked, NodeSet, Stored, RawPut, NoticeGiven, Unlocked,
     DrainStep, BlocksOutput, RawTested, RawMeasured, RawCopied, RawFreed, Noticed, TimedOut,
     Fault, vars
<1>. QED  BY <1>1, <1>2 DEF UlogTyped

\* They free nodes and copies and make nodes, copies and byte buffers.
Passing == {"node", "log"}
Fixed == {"locker", "rbb", "buf", "blk_set", "notice", "th"}

\* and give back only copies and tag filters.
LEMMA OthersLive ==
  ASSUME Types, Copies, Others
  PROVE  /\ \A o \in live : Kind(o) \notin Passing => o \in live'
         /\ \A o \in live' : Kind(o) \in Fixed => o \in live
<1>. USE TasksDiffer
<1>0. HeapTyped
  BY DEF Types
<1>1. /\ \A kind \in ObjectKinds : \A o \in Objects(kind) : Kind(o) = kind
      /\ NewAgain("node") \in Objects("node") /\ NewAgain("log") \in Objects("log")
      /\ New("rb") \in Objects("rb")
  BY <1>0, NullIsNoObject, NewAgainIsNew, NewTyped DEF ObjectKinds, Kinds
<1>2. ASSUME NEW c, RbCreated(c)
      PROVE  live \subseteq live' /\ \A o \in live' \ live : Kind(o) \in {"rb", "pool"}
  <2>1. live' = live \/ live' = live \cup Whole(New("rb"))
    BY <1>2, NothingLeft DEF RbCreated
  <2>2. \A o \in Whole(New("rb")) : Kind(o) \in {"rb", "pool"}
    BY <1>1, WholeTyped DEF ObjectKinds
  <2>. QED  BY <2>1, <2>2
<1>3. ASSUME NEW c, NodeSet(c)
      PROVE  /\ \A o \in live \ live' : Kind(o) \in Passing
             /\ \A o \in live' \ live : Kind(o) \in Passing
  BY <1>3, <1>1, <1>0 DEF NodeSet, Passing, HeapTyped, ObjectKinds
<1>4. ASSUME NEW x \in Drainers, RawMeasured(x) \/ RawFreed(x)
      PROVE  /\ \A o \in live \ live' : Kind(o) \in Passing
             /\ \A o \in live' \ live : Kind(o) \in Passing
  <2>1. CASE RawMeasured(x)
    BY <2>1, <1>1 DEF RawMeasured, Passing, ObjectKinds
  <2>2. CASE RawFreed(x)
    <3>1. pc[x] = "free" /\ live' = live \ {copy[x]}
      BY <2>2 DEF RawFreed, Runs
    <3>2. copy[x] \in live
      BY <3>1 DEF Copies
    <3>3. copy[x] \in Objects("log")
      BY <3>2, <1>0, NullAssumption DEF HeapTyped
    <3>. QED  BY <3>1, <3>3, <1>1 DEF Passing, ObjectKinds
  <2>. QED  BY <1>4, <2>1, <2>2
<1>5. ASSUME \A c \in Callers : ~ RbCreated(c) /\ ~ NodeSet(c),
             \A x \in Drainers : ~ RawMeasured(x) /\ ~ RawFreed(x)
      PROVE  UNCHANGED live
  BY <1>5 DEF Others, CallerStep, Called, Locked, Stored, RawPut, NoticeGiven, Unlocked,
     DrainStep, BlocksOutput, RawTested, RawCopied, Noticed, TimedOut, Fault, vars, heap
<1>. QED  BY <1>2, <1>3, <1>4, <1>5 DEF Passing, Fixed

\* So they disturb nothing of what ulog_init has built.
LEMMA OthersKeep ==
  ASSUME Types, Stages, ThreadThere, FirstLife, Rb, Copies, Others
  PROVE  Stages' /\ ThreadThere'
<1>0. PlacesTyped /\ UlogTyped /\ HeapTyped /\ HeapTyped'
  <2>1. [Next]_vars
    BY DEF Others, Next, Drainers
  <2>. QED  BY <2>1, NextTypes DEF Types
<1>1. /\ pc'[Owner] = pc[Owner] /\ deinits' = deinits
      /\ pc'[Thread] = "none" <=> pc[Thread] = "none"
  BY <1>0, OthersPlaces
<1>2. /\ ulog'.init_ok = ulog.init_ok /\ ulog'.output_locker = ulog.output_locker
      /\ ulog'.async_rbb = ulog.async_rbb /\ ulog'.async_notice = ulog.async_notice
      /\ ulog'.async_th = ulog.async_th
  BY <1>0, OthersUlog
<1>3. /\ \A o \in live : Kind(o) \notin Passing => o \in live'
      /\ \A o \in live' : Kind(o) \in Fixed => o \in live
  BY OthersLive
<1>4. /\ Null \notin live /\ Null \notin live'
      /\ \A kind \in ObjectKinds : \A o \in Objects(kind) : Kind(o) = kind
  BY <1>0, NullIsNoObject, NullAssumption DEF HeapTyped
<1>5. ulog.output_locker \in live => ulog'.output_locker \in live'
  <2>1. ulog.output_locker \in live => ulog.output_locker \in Objects("locker")
    BY <1>0, <1>4 DEF UlogTyped
  <2>. QED  BY <2>1, <1>2, <1>3, <1>4 DEF Passing, ObjectKinds
<1>6. ulog.async_notice \in live => ulog'.async_notice \in live'
  <2>1. ulog.async_notice \in live => ulog.async_notice \in Objects("notice")
    BY <1>0, <1>4 DEF UlogTyped
  <2>. QED  BY <2>1, <1>2, <1>3, <1>4 DEF Passing, ObjectKinds
<1>7. \A o \in Whole(ulog.async_rbb) : o # Null => Kind(o) \in {"rbb", "buf", "blk_set"}
  <2>1. CASE ulog.async_rbb = Null
    BY <2>1, Wholes
  <2>2. CASE ulog.async_rbb \in Objects("rbb")
    BY <2>2, <1>4, WholeTyped DEF ObjectKinds
  <2>. QED  BY <2>1, <2>2, <1>0 DEF UlogTyped
<1>8. Whole(ulog.async_rbb) \subseteq live => Whole(ulog'.async_rbb) \subseteq live'
  BY <1>2, <1>3, <1>4, <1>7 DEF Passing
<1>9. Whole(ulog.async_rbb) \cap live = {} => Whole(ulog'.async_rbb) \cap live' = {}
  BY <1>2, <1>3, <1>4, <1>7 DEF Fixed
<1>10. Up' <=> Up
  BY <1>1, <1>2 DEF Up
<1>11. Stages'
  BY <1>1, <1>2, <1>5, <1>6, <1>8, <1>9, <1>10 DEF Stages
<1>12. ThreadThere'
  BY <1>1, <1>2, <1>10 DEF ThreadThere
<1>. QED  BY <1>11, <1>12

-----------------------------------------------------------------------------
\* ulog_init and ulog_deinit step by step.

\* ulog_init and ulog_deinit move no other task.
LEMMA OwnerMoves ==
  ASSUME PlacesTyped, NEW to, To(Owner, to)
  PROVE  pc'[Owner] = to /\ \A y \in Drainers : pc'[y] = pc[y]
BY TasksDiffer, MovesOne

\* Handles of different kinds are different objects.
LEMMA HandlesDiffer ==
  ASSUME UlogTyped, HeapTyped
  PROVE  /\ Null \notin live
         /\ ulog.output_locker \notin Whole(ulog.async_rbb) \ {Null}
         /\ ulog.async_notice # Null => ulog.async_notice \notin Whole(ulog.async_rbb)
                                        \cup {ulog.output_locker, ulog.async_th}
         /\ ulog.async_th \notin (Whole(ulog.async_rbb) \cup {ulog.output_locker}) \ {Null}
         /\ \A o \in (Whole(ulog.async_rb) \cup nodes) \ {Null} :
               o \notin Whole(ulog.async_rbb)
                        \cup {ulog.output_locker, ulog.async_notice, ulog.async_th}
         /\ nodes \cap Whole(ulog.async_rb) \subseteq {Null}
<1>1. Null \notin live
  BY NullAssumption DEF HeapTyped
<1>2. \A o \in Whole(ulog.async_rbb) : o # Null => Kind(o) \in {"rbb", "buf", "blk_set"}
  <2>1. CASE ulog.async_rbb = Null
    BY <2>1, Wholes
  <2>2. CASE ulog.async_rbb \in Objects("rbb")
    BY <2>2, NullIsNoObject, WholeTyped DEF ObjectKinds
  <2>. QED  BY <2>1, <2>2 DEF UlogTyped
<1>3. \A o \in Whole(ulog.async_rb) : o # Null => Kind(o) \in {"rb", "pool"}
  <2>1. CASE ulog.async_rb = Null
    BY <2>1, Wholes
  <2>2. CASE ulog.async_rb \in Objects("rb")
    BY <2>2, NullIsNoObject, WholeTyped DEF ObjectKinds
  <2>. QED  BY <2>1, <2>2 DEF UlogTyped
<1>4. /\ ulog.output_locker # Null => Kind(ulog.output_locker) = "locker"
      /\ ulog.async_notice # Null => Kind(ulog.async_notice) = "notice"
      /\ ulog.async_th # Null => Kind(ulog.async_th) = "th"
      /\ \A o \in nodes : Kind(o) = "node"
  BY NullIsNoObject DEF UlogTyped, HeapTyped, ObjectKinds
<1>. QED  BY <1>1, <1>2, <1>3, <1>4

\* Each step of ulog_init, failing ones included, leaves what the next relies on,
LEMMA InitStages ==
  ASSUME Types, Stages, ThreadThere,
         \/ InitCalled \/ LockerCreated \/ RbbCreated \/ NoticeCreated \/ ThreadCreated
         \/ InitReturns
  PROVE  Stages' /\ ThreadThere'
<1>0. PlacesTyped /\ UlogTyped /\ HeapTyped
  BY DEF Types
<1>. USE OwnerMoves, HandlesDiffer, TasksDiffer, <1>0
<1>1. /\ Whole(New("rbb")) # {} /\ New("rbb") \in Objects("rbb")
      /\ New("locker") \in Objects("locker") /\ New("notice") \in Objects("notice")
      /\ New("th") \in Objects("th")
      /\ New("locker") # Null /\ New("notice") # Null /\ New("th") # Null
  BY NewTyped, NullIsNoObject, WholeTyped DEF Kinds, ObjectKinds
<1>2. ASSUME InitCalled PROVE Stages' /\ ThreadThere'
  <2>1. pc'[Owner] = "locker" /\ pc'[Thread] = pc[Thread] /\ UNCHANGED <<live, ulog, deinits>>
        /\ ~ ulog.init_ok /\ pc[Owner] = "out"
    BY <1>2 DEF InitCalled, Runs, heap
  <2>. QED  BY <2>1 DEF Stages, ThreadThere, Up, InitPlaces, DeinitPlaces
<1>3. ASSUME LockerCreated PROVE Stages' /\ ThreadThere'
  <2>1. pc[Owner] = "locker" /\ UNCHANGED deinits /\ ~ ulog.init_ok
    BY <1>3 DEF LockerCreated, Runs, counts, Stages, InitPlaces
  <2>2. \/ /\ live' = live \cup {New("locker")} /\ ulog'.output_locker = New("locker")
           /\ pc'[Owner] = "rbb" /\ pc'[Thread] = pc[Thread]
           /\ ulog'.init_ok = ulog.init_ok /\ ulog'.async_th = ulog.async_th
        \/ /\ pc'[Owner] = "out" /\ pc'[Thread] = pc[Thread]
           /\ ulog'.init_ok = ulog.init_ok /\ ulog'.async_th = ulog.async_th
    BY <1>3 DEF LockerCreated, UlogTyped
  <2>. QED  BY <2>1, <2>2 DEF Stages, ThreadThere, Up, InitPlaces, DeinitPlaces
<1>4. ASSUME RbbCreated PROVE Stages' /\ ThreadThere'
  <2>1. pc[Owner] = "rbb" /\ UNCHANGED deinits /\ ~ ulog.init_ok
    BY <1>4 DEF RbbCreated, Runs, counts, Stages, InitPlaces
  <2>2. \/ /\ live' = live \cup Whole(New("rbb")) /\ ulog'.async_rbb = New("rbb")
           /\ pc'[Owner] = "notice" /\ pc'[Thread] = pc[Thread]
           /\ ulog'.init_ok = ulog.init_ok /\ ulog'.async_th = ulog.async_th
           /\ ulog'.output_locker = ulog.output_locker
        \/ /\ pc'[Owner] = "out" /\ pc'[Thread] = pc[Thread]
           /\ ulog'.init_ok = ulog.init_ok /\ ulog'.async_th = ulog.async_th
    BY <1>4 DEF RbbCreated, UlogTyped
  <2>. QED  BY <2>1, <2>2 DEF Stages, ThreadThere, Up, InitPlaces, DeinitPlaces
<1>5. ASSUME NoticeCreated PROVE Stages' /\ ThreadThere'
  <2>1. pc[Owner] = "notice" /\ UNCHANGED deinits /\ ~ ulog.init_ok
    BY <1>5 DEF NoticeCreated, Runs, counts, Stages, InitPlaces
  <2>2. \/ /\ live' = live \cup {New("notice")} /\ ulog'.async_notice = New("notice")
           /\ pc'[Owner] = "th" /\ pc'[Thread] = pc[Thread]
           /\ ulog'.init_ok = ulog.init_ok /\ ulog'.async_th = ulog.async_th
           /\ ulog'.output_locker = ulog.output_locker /\ ulog'.async_rbb = ulog.async_rbb
        \/ /\ pc'[Owner] = "out" /\ pc'[Thread] = pc[Thread]
           /\ ulog'.init_ok = ulog.init_ok /\ ulog'.async_th = ulog.async_th
    BY <1>5 DEF NoticeCreated, UlogTyped
  <2>. QED  BY <2>1, <2>2 DEF Stages, ThreadThere, Up, InitPlaces, DeinitPlaces
<1>6. ASSUME ThreadCreated PROVE Stages' /\ ThreadThere'
  <2>1. pc[Owner] = "th" /\ UNCHANGED deinits /\ ~ ulog.init_ok
    BY <1>6 DEF ThreadCreated, Runs, counts, Stages, InitPlaces
  <2>2. pc[Thread] = "none"
    BY <2>1 DEF ThreadThere, Up
  <2>3. /\ pc'[Owner] = "ok" /\ live \subseteq live'
        /\ ulog'.init_ok = ulog.init_ok /\ ulog'.async_notice = ulog.async_notice
        /\ ulog'.output_locker = ulog.output_locker /\ ulog'.async_rbb = ulog.async_rbb
        /\ ulog'.async_th # Null \/ pc'[Thread] = pc[Thread]
    <3>1. CASE pc' = [pc EXCEPT ![Owner] = "ok", ![Thread] = "blocks"]
               /\ ulog' = [ulog EXCEPT !.async_th = New("th")]
               /\ live' = live \cup {New("th")}
      BY <3>1, <1>1 DEF PlacesTyped, UlogTyped
    <3>2. CASE To(Owner, "ok") /\ UNCHANGED <<live, ulog>>
      BY <3>2
    <3>. QED  BY <1>6, <3>1, <3>2 DEF ThreadCreated, heap
  <2>. QED  BY <2>1, <2>2, <2>3 DEF Stages, ThreadThere, Up, InitPlaces, DeinitPlaces
<1>7. ASSUME InitReturns PROVE Stages' /\ ThreadThere'
  <2>1. pc[Owner] = "ok" /\ UNCHANGED <<live, deinits>>
    BY <1>7 DEF InitReturns, Runs, heap, counts
  <2>2. /\ pc'[Owner] = "out" /\ pc'[Thread] = pc[Thread]
        /\ ulog'.init_ok /\ ulog'.async_notice = ulog.async_notice
        /\ ulog'.output_locker = ulog.output_locker /\ ulog'.async_rbb = ulog.async_rbb
        /\ ulog'.async_th = ulog.async_th
    BY <1>7 DEF InitReturns, UlogTyped
  <2>. QED  BY <2>1, <2>2 DEF Stages, ThreadThere, Up, InitPlaces, DeinitPlaces
<1>. QED  BY <1>2, <1>3, <1>4, <1>5, <1>6, <1>7

\* each step of ulog_deinit likewise,
LEMMA DeinitStages ==
  ASSUME Types, Stages, ThreadThere,
         \/ DeinitCalled \/ NodesFreed \/ LockerDeleted \/ RbbDestroyed \/ ThreadDeleted
         \/ RbDestroyed \/ DeinitReturns
  PROVE  Stages' /\ ThreadThere'
<1>0. PlacesTyped /\ UlogTyped /\ HeapTyped
  BY DEF Types
<1>. USE OwnerMoves, HandlesDiffer, TasksDiffer, <1>0
<1>1. ASSUME DeinitCalled PROVE Stages' /\ ThreadThere'
  <2>1. pc'[Owner] = "nodes" /\ pc'[Thread] = pc[Thread] /\ UNCHANGED <<live, ulog>>
        /\ deinits' = deinits + 1 /\ deinits \in Nat /\ Up
    BY <1>1 DEF DeinitCalled, Runs, heap, Up, Types
  <2>2. deinits' > 0
    BY <2>1
  <2>. QED  BY <2>1, <2>2 DEF Stages, ThreadThere, Up, InitPlaces, DeinitPlaces
<1>2. ASSUME NodesFreed PROVE Stages' /\ ThreadThere'
  <2>1. pc[Owner] = "nodes" /\ UNCHANGED <<ulog, deinits>>
        /\ pc'[Owner] \in {"link", "locker_delete"} /\ pc'[Thread] = pc[Thread]
    BY <1>2 DEF NodesFreed, Runs, counts
  <2>2. \A o \in live : o \notin nodes => o \in live'
    BY <1>2 DEF NodesFreed
  <2>3. ulog.output_locker \in live /\ Whole(ulog.async_rbb) \subseteq live
        /\ ulog.async_notice \in live
    BY <2>1 DEF Stages
  <2>4. ulog.output_locker \in live' /\ Whole(ulog.async_rbb) \subseteq live'
        /\ ulog.async_notice \in live'
    BY <2>2, <2>3
  <2>. QED  BY <2>1, <2>4 DEF Stages, ThreadThere, Up, InitPlaces, DeinitPlaces
<1>3. ASSUME LockerDeleted PROVE Stages' /\ ThreadThere'
  <2>1. pc[Owner] = "locker_delete" /\ UNCHANGED <<ulog, deinits>>
        /\ live' = live \ {ulog.output_locker}
        /\ pc'[Owner] = "rbb_destroy" /\ pc'[Thread] = pc[Thread]
    BY <1>3 DEF LockerDeleted, Runs, counts
  <2>3. Whole(ulog.async_rbb) \subseteq live /\ ulog.async_notice \in live
    BY <2>1 DEF Stages
  <2>4. Whole(ulog.async_rbb) \subseteq live' /\ ulog.async_notice \in live'
    BY <2>1, <2>3
  <2>. QED  BY <2>1, <2>4 DEF Stages, ThreadThere, Up, InitPlaces, DeinitPlaces
<1>4. ASSUME RbbDestroyed PROVE Stages' /\ ThreadThere'
  <2>1. pc[Owner] = "rbb_destroy" /\ UNCHANGED <<ulog, deinits>>
        /\ live' = live \ Whole(ulog.async_rbb)
        /\ pc'[Owner] = "th_delete" /\ pc'[Thread] = pc[Thread]
    BY <1>4 DEF RbbDestroyed, Runs, counts
  <2>3. ulog.async_notice \in live
    BY <2>1 DEF Stages
  <2>4. Whole(ulog.async_rbb) \cap live' = {} /\ ulog.async_notice \in live'
    BY <2>1, <2>3
  <2>. QED  BY <2>1, <2>4 DEF Stages, ThreadThere, Up, InitPlaces, DeinitPlaces
<1>5. ASSUME ThreadDeleted PROVE Stages' /\ ThreadThere'
  <2>1. pc[Owner] = "th_delete" /\ UNCHANGED <<ulog, deinits>>
    BY <1>5 DEF ThreadDeleted, Runs, counts
  <2>2. pc'[Owner] = "rb_destroy" /\ pc'[Thread] = "none"
    <3>1. CASE ulog.async_th = Null
      <4>1. pc[Thread] = "none" /\ To(Owner, "rb_destroy")
        BY <1>5, <3>1 DEF ThreadDeleted, ThreadThere
      <4>. QED  BY <4>1
    <3>2. CASE ulog.async_th # Null
      BY <1>5, <3>2 DEF ThreadDeleted, PlacesTyped
    <3>. QED  BY <3>1, <3>2
  <2>. QED  BY <2>1, <2>2 DEF Stages, ThreadThere, Up, InitPlaces, DeinitPlaces
<1>6. ASSUME RbDestroyed PROVE Stages' /\ ThreadThere'
  <2>1. pc[Owner] = "rb_destroy" /\ UNCHANGED <<ulog, deinits>>
        /\ pc'[Owner] = "not_ok" /\ pc'[Thread] = pc[Thread]
    BY <1>6 DEF RbDestroyed, Runs, counts
  <2>. QED  BY <2>1 DEF Stages, ThreadThere, Up, InitPlaces, DeinitPlaces
<1>7. ASSUME DeinitReturns PROVE Stages' /\ ThreadThere'
  <2>1. pc[Owner] = "not_ok" /\ UNCHANGED deinits
        /\ pc'[Owner] = "out" /\ pc'[Thread] = pc[Thread] /\ ~ ulog'.init_ok
    BY <1>7 DEF DeinitReturns, Runs, counts, UlogTyped
  <2>. QED  BY <2>1 DEF Stages, ThreadThere, Up, InitPlaces, DeinitPlaces
<1>. QED  BY <1>1, <1>2, <1>3, <1>4, <1>5, <1>6, <1>7

\* and so does every step.
LEMMA NextStages == LifeInv /\ [Next]_vars => Stages' /\ ThreadThere'
BY OwnerOrOthers, OthersKeep, InitStages, DeinitStages DEF LifeInv, OwnerStep

-----------------------------------------------------------------------------
\* async_th and async_rb in the first life.

\* Before the first ulog_deinit no pointer dangles.
LEMMA NextFirstLife == LifeInv /\ [Next]_vars => FirstLife'
<1>. SUFFICES ASSUME LifeInv, [Next]_vars, deinits' = 0
              PROVE  /\ ulog'.async_th # Null => ulog'.async_th \in live'
                     /\ ulog'.async_rb # Null => Whole(ulog'.async_rb) \subseteq live'
  BY DEF FirstLife
<1>0. PlacesTyped /\ UlogTyped /\ HeapTyped /\ Types /\ deinits \in Nat
  BY DEF LifeInv, Types
<1>1. \/ DeinitCalled /\ deinits' = deinits + 1
      \/ deinits' = deinits
  BY DEF Next, vars, counts, OwnerStep, InitCalled, LockerCreated, RbbCreated, NoticeCreated,
     ThreadCreated, InitReturns, DeinitCalled, NodesFreed, LockerDeleted, RbbDestroyed,
     ThreadDeleted, RbDestroyed, DeinitReturns, CallerStep, Called, RbCreated, Locked, NodeSet,
     Stored, RawPut, NoticeGiven, Unlocked, DrainStep, BlocksOutput, RawTested, RawMeasured,
     RawCopied, RawFreed, Noticed, TimedOut, Fault
<1>2. deinits' = deinits /\ deinits = 0 /\ ~ DeinitCalled
  <2>1. deinits + 1 # 0 /\ deinits' = 0
    BY <1>0
  <2>2. deinits' = deinits
    BY <1>1, <2>1
  <2>3. ~ DeinitCalled
    <3>1. DeinitCalled => deinits' = deinits + 1
      BY DEF DeinitCalled
    <3>. QED  BY <3>1, <2>1
  <2>. QED  BY <2>1, <2>2, <2>3
<1>3. /\ ulog.async_th # Null => ulog.async_th \in live
      /\ ulog.async_rb # Null => Whole(ulog.async_rb) \subseteq live
  BY <1>2 DEF LifeInv, FirstLife
<1>4. pc[Owner] \notin DeinitPlaces
  BY <1>2 DEF LifeInv, Stages
<1>5. /\ ulog.async_th # Null => Kind(ulog.async_th) = "th"
      /\ \A o \in Whole(ulog.async_rb) : o # Null => Kind(o) \in {"rb", "pool"}
      /\ ulog.async_rb # Null => Null \notin Whole(ulog.async_rb)
      /\ ulog.output_locker # Null => Kind(ulog.output_locker) = "locker"
      /\ Null \notin live
  <2>1. \A kind \in ObjectKinds : \A o \in Objects(kind) : Kind(o) = kind
    BY NullIsNoObject
  <2>2. Null \notin live
    BY <1>0, NullAssumption DEF HeapTyped
  <2>3. \A o \in Whole(ulog.async_rb) : o # Null => Kind(o) \in {"rb", "pool"}
    <3>1. CASE ulog.async_rb = Null
      BY <3>1, Wholes
    <3>2. CASE ulog.async_rb \in Objects("rb")
      BY <3>2, <2>1, WholeTyped DEF ObjectKinds
    <3>. QED  BY <3>1, <3>2, <1>0 DEF UlogTyped
  <2>. QED  BY <2>1, <2>2, <2>3, <1>0, <1>3 DEF UlogTyped, ObjectKinds
<1>6. \A o \in live : o # ulog.output_locker /\ Kind(o) \notin Passing => o \in live'
  <2>1. CASE OwnerStep
    <3>1. \/ InitCalled \/ LockerCreated \/ RbbCreated \/ NoticeCreated \/ ThreadCreated
          \/ InitReturns
      BY <2>1, <1>2, <1>4 DEF OwnerStep, NodesFreed, LockerDeleted, RbbDestroyed, ThreadDeleted,
         RbDestroyed, DeinitReturns, Runs, DeinitPlaces
    <3>. QED  BY <3>1 DEF InitCalled, LockerCreated, RbbCreated, NoticeCreated, ThreadCreated,
              InitReturns, heap
  <2>2. CASE Others
    BY <2>2, <1>0, OthersLive DEF LifeInv
  <2>. QED  BY <2>1, <2>2, OwnerOrOthers
<1>7. ASSUME ulog'.async_th # Null PROVE ulog'.async_th \in live'
  <2>1. CASE ulog'.async_th = ulog.async_th
    BY <2>1, <1>7, <1>3, <1>5, <1>6 DEF Passing
  <2>2. CASE ThreadCreated
    <3>1. ulog' = ulog \/ (ulog' = [ulog EXCEPT !.async_th = New("th")]
                           /\ live' = live \cup {New("th")})
      BY <2>2 DEF ThreadCreated
    <3>2. ulog' # ulog => ulog'.async_th = New("th") /\ New("th") \in live'
      BY <3>1, <1>0 DEF UlogTyped
    <3>. QED  BY <3>2, <2>1
  <2>3. ulog'.async_th = ulog.async_th \/ ThreadCreated
    <3>1. CASE Others
      BY <3>1, <1>0, OthersUlog
    <3>2. CASE OwnerStep
      BY <3>2, <1>0 DEF OwnerStep, InitCalled, LockerCreated, RbbCreated, NoticeCreated,
         InitReturns, DeinitCalled, NodesFreed, LockerDeleted, RbbDestroyed,
         ThreadDeleted, RbDestroyed, DeinitReturns, UlogTyped
    <3>. QED  BY <3>1, <3>2, OwnerOrOthers
  <2>. QED  BY <2>1, <2>2, <2>3
<1>8. ASSUME ulog'.async_rb # Null PROVE Whole(ulog'.async_rb) \subseteq live'
  <2>1. CASE ulog'.async_rb = ulog.async_rb
    <3>1. Whole(ulog.async_rb) \subseteq live /\ Null \notin Whole(ulog.async_rb)
      BY <2>1, <1>8, <1>3, <1>5
    <3>2. \A o \in Whole(ulog.async_rb) : o # ulog.output_locker /\ Kind(o) \notin Passing
      BY <3>1, <1>5 DEF Passing
    <3>. QED  BY <2>1, <3>1, <3>2, <1>6
  <2>2. ASSUME NEW c, RbCreated(c) PROVE Whole(ulog'.async_rb) \subseteq live'
    <3>1. ulog' = [ulog EXCEPT !.async_rb = New("rb")] /\ live' = live \cup Whole(New("rb"))
      BY <2>2, <1>8, <1>0 DEF RbCreated, UlogTyped
    <3>2. ulog'.async_rb = New("rb")
      BY <3>1, <1>0 DEF UlogTyped
    <3>. QED  BY <3>1, <3>2
  <2>3. ulog'.async_rb = ulog.async_rb \/ \E c : RbCreated(c)
    BY <1>0 DEF Next, vars, OwnerStep, InitCalled, LockerCreated, RbbCreated, NoticeCreated,
     ThreadCreated, InitReturns, DeinitCalled, NodesFreed, LockerDeleted, RbbDestroyed,
     ThreadDeleted, RbDestroyed, DeinitReturns, CallerStep, Called, Locked, NodeSet,
     Stored, RawPut, NoticeGiven, Unlocked, DrainStep, BlocksOutput, RawTested, RawMeasured,
     RawCopied, RawFreed, Noticed, TimedOut, Fault, UlogTyped
  <2>. QED  BY <2>1, <2>2, <2>3
<1>. QED  BY <1>7, <1>8

-----------------------------------------------------------------------------
\* Without overlap a call runs within a life.

\* A call that overlaps no ulog_deinit is within one life.
LEMMA NextCallsWithin == LifeInv /\ [Next]_vars => CallsWithin'
<1>. SUFFICES ASSUME LifeInv, [Next]_vars, ~ overlap'
              PROVE  \A c \in Callers : pc'[c] # "idle" => Up'
  BY DEF CallsWithin
<1>. USE TasksDiffer, OwnerMoves
<1>0. PlacesTyped /\ UlogTyped
  BY DEF LifeInv, Types
<1>1. ~ overlap
  BY DEF Next, vars, counts, OwnerStep, InitCalled, LockerCreated, RbbCreated, NoticeCreated,
     ThreadCreated, InitReturns, DeinitCalled, NodesFreed, LockerDeleted, RbbDestroyed,
     ThreadDeleted, RbDestroyed, DeinitReturns, CallerStep, Called, RbCreated, Locked, NodeSet,
     Stored, RawPut, NoticeGiven, Unlocked, DrainStep, BlocksOutput, RawTested, RawMeasured,
     RawCopied, RawFreed, Noticed, TimedOut, Fault
<1>2. \A c \in Callers : pc[c] # "idle" => Up
  BY <1>1 DEF LifeInv, CallsWithin
<1>3. CASE OwnerStep
  <2>1. \A c \in Callers : pc'[c] = pc[c]
    <3>1. CASE ThreadCreated
      BY <3>1, <1>0 DEF ThreadCreated, PlacesTyped, To
    <3>2. CASE ThreadDeleted
      BY <3>2, <1>0 DEF ThreadDeleted, PlacesTyped, To
    <3>3. ASSUME OwnerStep, ~ ThreadCreated, ~ ThreadDeleted
          PROVE  \E to : To(Owner, to)
      BY <3>3 DEF OwnerStep, InitCalled, LockerCreated, RbbCreated, NoticeCreated, InitReturns,
         DeinitCalled, NodesFreed, LockerDeleted, RbbDestroyed, RbDestroyed, DeinitReturns
    <3>. QED  BY <1>3, <1>0, <3>1, <3>2, <3>3
  <2>2. Up => DeinitCalled
    BY <1>3 DEF Up, OwnerStep, InitCalled, LockerCreated, RbbCreated, NoticeCreated,
         ThreadCreated, InitReturns, NodesFreed, LockerDeleted, RbbDestroyed, ThreadDeleted,
         RbDestroyed, DeinitReturns, Runs
  <2>3. DeinitCalled => \A c \in Callers : pc[c] = "idle"
    BY DEF DeinitCalled
  <2>. QED  BY <2>1, <2>2, <2>3, <1>2
<1>4. CASE Others
  <2>1. Up' <=> Up
    BY <1>4, <1>0, OthersPlaces, OthersUlog DEF Up
  <2>2. ASSUME NEW c \in Callers, Called(c) PROVE Up
    <3>1. ulog.init_ok /\ ~ Deiniting
      BY <2>2, <1>1 DEF Called
    <3>2. pc[Owner] \notin InitPlaces
      BY <3>1 DEF LifeInv, Stages
    <3>. QED  BY <3>1, <3>2, <1>0 DEF Deiniting, PlacesTyped, OwnerPlaces, DeinitPlaces, Up
  <2>3. ASSUME NEW c \in Callers, pc[c] = "idle", pc'[c] # "idle"
        PROVE  Called(c)
    <3>1. ASSUME NEW d \in Callers, CallerStep(d), d # c PROVE FALSE
      <4>1. \E to : To(d, to)
        BY <3>1 DEF CallerStep, Called, RbCreated, Locked, NodeSet, Stored, RawPut, NoticeGiven,
           Unlocked
      <4>. QED  BY <4>1, <3>1, <2>3, <1>0, MovesOne
    <3>2. CallerStep(c) => Called(c)
      BY <2>3 DEF CallerStep, RbCreated, Locked, NodeSet, Stored, RawPut, NoticeGiven, Unlocked,
         Runs
    <3>3. ASSUME NEW x \in Drainers, DrainStep(x) PROVE FALSE
      <4>1. (\E to : To(x, to)) /\ pc[x] # "idle"
        BY <3>3 DEF DrainStep, BlocksOutput, RawTested, RawMeasured, RawCopied, RawFreed, Runs
      <4>. QED  BY <4>1, <2>3, <1>0, MovesOne
    <3>4. ~ (Noticed \/ TimedOut)
      <4>1. Noticed \/ TimedOut => \E to : To(Thread, to)
        BY DEF Noticed, TimedOut
      <4>. QED  BY <4>1, <2>3, <1>0, MovesOne
    <3>5. ~ (UNCHANGED vars \/ \E x \in Tasks : Fault(x))
      BY <2>3 DEF vars, Fault
    <3>. QED  BY <1>4, <3>1, <3>2, <3>3, <3>4, <3>5 DEF Others
  <2>. QED  BY <2>1, <2>2, <2>3, <1>2
<1>. QED  BY <1>3, <1>4, OwnerOrOthers

-----------------------------------------------------------------------------
\* async_rb and the copies of the raw data.

\* How a drain comes to a place and leaves it.
LEMMA DrainMoves ==
  ASSUME LifeInv, [Next]_vars, NEW x \in Drainers
  PROVE  /\ pc'[x] = "put" => pc[x] = "put" \/ Stored(x)
         /\ pc'[x] = "len" => pc[x] = "len" \/ RawTested(x)
         /\ pc'[x] = "copy" => pc[x] = "copy" \/ RawMeasured(x)
         /\ pc'[x] = "free" => pc[x] = "free" \/ RawCopied(x)
         /\ pc[x] \in {"copy", "free"} =>
               \/ pc'[x] = pc[x]
               \/ RawCopied(x) \/ RawFreed(x)
               \/ x = Thread /\ ThreadDeleted /\ ulog.async_th # Null
<1>. USE TasksDiffer, OwnerMoves
<1>0. PlacesTyped
  BY DEF LifeInv, Types
<1>1. CASE UNCHANGED vars \/ \E y \in Tasks : Fault(y)
  BY <1>1 DEF vars, Fault
<1>2. CASE OwnerStep
  <2>1. CASE ThreadCreated
    <3>1. pc[Owner] = "th" /\ ~ Up
      BY <2>1 DEF ThreadCreated, Runs, Up
    <3>2. pc[Thread] = "none"
      BY <3>1 DEF LifeInv, ThreadThere
    <3>. QED  BY <2>1, <3>2, <1>0 DEF ThreadCreated, PlacesTyped, To
  <2>2. CASE ThreadDeleted
    BY <2>2, <1>0 DEF ThreadDeleted, PlacesTyped, To
  <2>3. ASSUME OwnerStep, ~ ThreadCreated, ~ ThreadDeleted
        PROVE  \E to : To(Owner, to)
    BY <2>3 DEF OwnerStep, InitCalled, LockerCreated, RbbCreated, NoticeCreated, InitReturns,
       DeinitCalled, NodesFreed, LockerDeleted, RbbDestroyed, RbDestroyed, DeinitReturns
  <2>. QED  BY <1>2, <1>0, <2>1, <2>2, <2>3
<1>3. ASSUME NEW c \in Callers, CallerStep(c)
      PROVE  /\ pc'[x] \in {"len", "copy", "free"} => pc[x] = pc'[x]
             /\ pc[x] \in {"copy", "free"} => pc[x] = pc'[x]
             /\ pc'[x] = "put" => pc[x] = "put" \/ Stored(x)
  <2>1. /\ \E to \in {"create", "blocks", "lock", "node", "store", "put", "give", "unlock",
                    "idle"} : To(c, to)
        /\ pc[c] \in {"idle", "create", "lock", "node", "store", "put", "give", "unlock"}
    BY <1>3 DEF CallerStep, Called, RbCreated, Locked, NodeSet, Stored, RawPut, NoticeGiven,
       Unlocked, Runs
  <2>2. ~ Stored(c) => ~ To(c, "put")
    <3>1. ~ Stored(c) => \E to \in {"create", "blocks", "lock", "node", "store", "give",
                                   "unlock", "idle"} : To(c, to)
      BY <1>3 DEF CallerStep, Called, RbCreated, Locked, NodeSet, RawPut, NoticeGiven, Unlocked
    <3>2. To(c, "put") => pc'[c] = "put"
      BY <1>0, MovesOne
    <3>. QED  BY <3>1, <3>2, <1>0, MovesOne
  <2>3. PICK to \in {"create", "blocks", "lock", "node", "store", "put", "give", "unlock",
                     "idle"} : To(c, to)
    BY <2>1
  <2>4. pc'[c] = to /\ \A y \in Tasks : y # c => pc'[y] = pc[y]
    BY <2>3, <1>0, MovesOne
  <2>. QED  BY <2>1, <2>2, <2>3, <2>4
<1>4. ASSUME NEW y \in Drainers, DrainStep(y), y # x PROVE pc'[x] = pc[x]
  <2>1. \E to : To(y, to)
    BY <1>4 DEF DrainStep, BlocksOutput, RawTested, RawMeasured, RawCopied, RawFreed
  <2>. QED  BY <2>1, <1>4, <1>0, MovesOne
<1>5. ASSUME DrainStep(x)
      PROVE  /\ pc'[x] # "put"
             /\ pc'[x] = "len" => RawTested(x)
             /\ pc'[x] = "copy" => RawMeasured(x)
             /\ pc'[x] = "free" => RawCopied(x)
             /\ pc[x] \in {"copy", "free"} => RawCopied(x) \/ RawFreed(x)
  <2>1. back[x] \notin {"put", "len", "copy", "free"}
    BY <1>0 DEF PlacesTyped
  <2>2. CASE BlocksOutput(x)
    BY <2>2, <1>0, MovesOne DEF BlocksOutput, RawTested, Runs
  <2>3. CASE RawMeasured(x)
    BY <2>1, <2>3, <1>0, MovesOne DEF RawMeasured, Runs
  <2>4. CASE RawCopied(x)
    BY <2>4, <1>0, MovesOne DEF RawCopied, Runs
  <2>5. CASE RawFreed(x)
    BY <2>1, <2>5, <1>0, MovesOne DEF RawFreed, Runs
  <2>6. CASE RawTested(x)
    BY <2>1, <2>6, <1>0, MovesOne DEF RawTested, Runs
  <2>. QED  BY <1>5, <2>2, <2>3, <2>4, <2>5, <2>6 DEF DrainStep
<1>6. CASE Noticed \/ TimedOut
  <2>1. pc[Thread] \in {"sleep", "wait"} /\ \E to \in {"blocks", "sleep"} : To(Thread, to)
    BY <1>6 DEF Noticed, TimedOut, Runs
  <2>. QED  BY <2>1, <1>0, MovesOne
<1>. QED  BY <1>1, <1>2, <1>3, <1>4, <1>5, <1>6 DEF Next, Drainers

\* A task comes to where async_rb is loaded again by a test that found it set.
LEMMA ToTested ==
  ASSUME LifeInv, [Next]_vars, NEW x \in Drainers, pc'[x] \in TestedPlaces
  PROVE  \/ pc[x] \in TestedPlaces
         \/ ulog.async_rb # Null /\ UNCHANGED <<ulog, made>>
<1>0. PlacesTyped /\ x \in Tasks /\ back[x] # "len"
  BY TasksDiffer DEF LifeInv, Types, PlacesTyped
<1>1. RawMeasured(x) => pc[x] = "len"
  BY DEF RawMeasured, Runs
<1>2. pc'[x] = "len" /\ RawTested(x) => ulog.async_rb # Null /\ UNCHANGED <<ulog, made>>
  BY <1>0, MovesOne DEF RawTested, heap
<1>3. pc'[x] = "put" /\ Stored(x) => ulog.async_rb # Null /\ UNCHANGED <<ulog, made>>
  BY <1>0, MovesOne DEF Stored, heap
<1>. QED  BY <1>1, <1>2, <1>3, DrainMoves DEF TestedPlaces

\* When async_rb can be set back to NULL.
LEMMA NextRb == LifeInv /\ [Next]_vars => Rb'
<1>. SUFFICES ASSUME LifeInv, [Next]_vars PROVE Rb'
  OBVIOUS
<1>0. UlogTyped /\ HeapTyped /\ Rb /\ made["rb"] \in Nat
  BY DEF LifeInv, Types, HeapTyped, Kinds
<1>1. ASSUME NEW c, RbCreated(c) PROVE Rb'
  <2>1. made'["rb"] = made["rb"] + 1
    BY <1>1, <1>0 DEF RbCreated, Made, HeapTyped, Kinds
  <2>2. made'["rb"] > 0 /\ (made["rb"] > 0 => made'["rb"] > 1)
    BY <2>1, <1>0
  <2>3. ASSUME NEW x \in Drainers, pc'[x] \in TestedPlaces PROVE made'["rb"] > 1
    <3>1. made' # made
      BY <2>1, <1>0
    <3>2. pc[x] \in TestedPlaces
      BY <2>3, <3>1, ToTested
    <3>3. made["rb"] > 0
      <4>1. ulog.async_rb = Null => made["rb"] > 1
        BY <3>2, <1>0 DEF Rb
      <4>. QED  BY <4>1, <1>0 DEF Rb
    <3>. QED  BY <2>2, <3>3
  <2>. QED  BY <2>2, <2>3 DEF Rb
<1>2. ASSUME \A c : ~ RbCreated(c) PROVE Rb'
  <2>1. ulog'.async_rb = ulog.async_rb /\ made'["rb"] = made["rb"]
    BY <1>0, <1>2 DEF Next, vars, OwnerStep, InitCalled, LockerCreated, RbbCreated,
     NoticeCreated, ThreadCreated, InitReturns, DeinitCalled, NodesFreed, LockerDeleted,
     RbbDestroyed, ThreadDeleted, RbDestroyed, DeinitReturns, CallerStep, Called, Locked,
     NodeSet, Stored, RawPut, NoticeGiven, Unlocked, DrainStep, BlocksOutput, RawTested,
     RawMeasured, RawCopied, RawFreed, Noticed, TimedOut, Fault, UlogTyped, HeapTyped, Kinds,
     heap, Made
  <2>2. ASSUME NEW x \in Drainers, pc'[x] \in TestedPlaces, ulog'.async_rb = Null
        PROVE  made'["rb"] > 1
    <3>1. pc[x] \in TestedPlaces
      BY <2>1, <2>2, ToTested
    <3>. QED  BY <3>1, <2>1, <2>2, <1>0 DEF Rb
  <2>. QED  BY <2>1, <2>2, <1>0 DEF Rb
<1>. QED  BY <1>1, <1>2

\* copy changes where a drain takes or frees its copy or the thread is deleted.
LEMMA CopySteps ==
  ASSUME LifeInv, [Next]_vars, NEW x \in Drainers, copy'[x] # copy[x]
  PROVE  RawMeasured(x) \/ RawFreed(x) \/ (x = Thread /\ ThreadDeleted)
<1>. USE TasksDiffer
<1>1. copy \in [Drainers -> Objects("log") \cup {Null}]
  BY DEF LifeInv, Types, HeapTyped
<1>2. ASSUME NEW y \in Drainers, DrainStep(y) PROVE RawMeasured(x) \/ RawFreed(x)
  <2>1. \/ RawMeasured(y) /\ (copy' = copy \/ copy' = [copy EXCEPT ![y] = NewAgain("log")])
        \/ RawFreed(y) /\ copy' = [copy EXCEPT ![y] = Null]
        \/ copy' = copy
    BY <1>2 DEF DrainStep, BlocksOutput, RawTested, RawMeasured, RawCopied, RawFreed, local
  <2>. QED  BY <2>1, <1>1
<1>3. ThreadDeleted => copy' = copy \/ copy' = [copy EXCEPT ![Thread] = Null]
  BY DEF ThreadDeleted
<1>4. (\A y \in Drainers : ~ DrainStep(y)) /\ ~ ThreadDeleted => copy' = copy
  BY DEF Next, vars, OwnerStep, InitCalled, LockerCreated, RbbCreated, NoticeCreated,
     ThreadCreated, InitReturns, DeinitCalled, NodesFreed, LockerDeleted, RbbDestroyed,
     RbDestroyed, DeinitReturns, CallerStep, Called, RbCreated, Locked, NodeSet,
     Stored, RawPut, NoticeGiven, Unlocked, Noticed, TimedOut, Fault, local, Drainers
<1>. QED  BY <1>1, <1>2, <1>3, <1>4

\* A copy of raw data is freed by the drain that holds it and nobody else.
LEMMA CopiesStayLive ==
  ASSUME LifeInv, [Next]_vars, NEW o \in Objects("log"), o \in live, o \notin live'
  PROVE  \E x \in Drainers : RawFreed(x) /\ o = copy[x]
<1>0. UlogTyped /\ HeapTyped
  BY DEF LifeInv, Types
<1>1. Kind(o) = "log" /\ o # Null /\ Null \notin live
  BY <1>0, NullIsNoObject, NullAssumption DEF ObjectKinds, HeapTyped
<1>2. \A p \in Whole(ulog.async_rbb) \cup Whole(ulog.async_rb) \cup nodes
               \cup {ulog.output_locker, ulog.async_th} : p # o
  <2>1. \A p \in nodes \cup {ulog.output_locker, ulog.async_th} : p = Null \/ Kind(p) # "log"
    BY <1>0, NullIsNoObject DEF UlogTyped, HeapTyped, ObjectKinds
  <2>2. \A p \in Whole(ulog.async_rbb) : p = Null \/ Kind(p) # "log"
    <3>1. CASE ulog.async_rbb = Null
      BY <3>1, Wholes
    <3>2. CASE ulog.async_rbb \in Objects("rbb")
      BY <3>2, NullIsNoObject, WholeTyped DEF ObjectKinds
    <3>. QED  BY <3>1, <3>2, <1>0 DEF UlogTyped
  <2>3. \A p \in Whole(ulog.async_rb) : p = Null \/ Kind(p) # "log"
    <3>1. CASE ulog.async_rb = Null
      BY <3>1, Wholes
    <3>2. CASE ulog.async_rb \in Objects("rb")
      BY <3>2, NullIsNoObject, WholeTyped DEF ObjectKinds
    <3>. QED  BY <3>1, <3>2, <1>0 DEF UlogTyped
  <2>. QED  BY <2>1, <2>2, <2>3, <1>1
<1>3. CASE OwnerStep
  BY <1>2, <1>3 DEF OwnerStep, InitCalled, LockerCreated, RbbCreated, NoticeCreated,
     ThreadCreated, InitReturns, DeinitCalled, NodesFreed, LockerDeleted, RbbDestroyed,
     ThreadDeleted, RbDestroyed, DeinitReturns, heap
<1>4. CASE \E c \in Callers : CallerStep(c)
  BY <1>2, <1>4 DEF CallerStep, Called, RbCreated, Locked, NodeSet, Stored, RawPut, NoticeGiven,
     Unlocked, heap
<1>5. CASE \E x \in Drainers : DrainStep(x)
  BY <1>5 DEF DrainStep, BlocksOutput, RawTested, RawMeasured, RawCopied, RawFreed, heap
<1>6. CASE Noticed \/ TimedOut \/ (\E x \in Tasks : Fault(x)) \/ UNCHANGED vars
  BY <1>6 DEF Noticed, TimedOut, Fault, vars, heap
<1>. QED  BY <1>3, <1>4, <1>5, <1>6 DEF Next, Drainers

\* Each copy has one owner.
LEMMA NextCopies == LifeInv /\ [Next]_vars => Copies'
<1>. SUFFICES ASSUME LifeInv, [Next]_vars PROVE Copies'
  OBVIOUS
<1>. USE TasksDiffer
<1>0. PlacesTyped /\ UlogTyped /\ HeapTyped /\ Copies /\ Null \notin live
  BY NullAssumption DEF LifeInv, Types, HeapTyped
<1>1. NewAgain("log") \in Objects("log") /\ NewAgain("log") \notin live
  BY <1>0, NewAgainIsNew DEF ObjectKinds
<1>2. ASSUME NEW x \in Drainers, RawMeasured(x)
      PROVE  /\ pc'[x] = "copy" => live' = live \cup {NewAgain("log")}
                                   /\ copy' = [copy EXCEPT ![x] = NewAgain("log")]
                                   /\ copy'[x] \in live' /\ copy'[x] \notin live
             /\ pc'[x] # "copy" => UNCHANGED <<live, copy>> /\ pc[x] = "len"
                                   /\ pc'[x] \notin {"copy", "free"}
  <2>1. pc[x] = "len" /\ back[x] \notin {"copy", "free"}
    BY <1>2, <1>0 DEF RawMeasured, Runs, PlacesTyped
  <2>2. CASE To(x, "copy") /\ live' = live \cup {NewAgain("log")}
             /\ copy' = [copy EXCEPT ![x] = NewAgain("log")]
    BY <2>2, <1>0, <1>1, MovesOne DEF HeapTyped
  <2>3. CASE To(x, back[x]) /\ UNCHANGED <<live, copy>>
    BY <2>1, <2>3, <1>0, MovesOne
  <2>. QED  BY <1>2, <2>2, <2>3 DEF RawMeasured
<1>3. ASSUME NEW x \in Drainers, RawFreed(x)
      PROVE  /\ pc[x] = "free" /\ live' = live \ {copy[x]} /\ copy'[x] = Null
             /\ pc'[x] \notin {"copy", "free"}
             /\ \A y \in Drainers : y # x => copy'[y] = copy[y]
  <2>1. back[x] \notin {"copy", "free"}
    BY <1>0 DEF PlacesTyped
  <2>. QED  BY <2>1, <1>3, <1>0, MovesOne DEF RawFreed, Runs, HeapTyped
<1>4. ASSUME NEW x \in Drainers, pc'[x] \in {"copy", "free"} PROVE copy'[x] \in live'
  <2>1. CASE RawMeasured(x)
    <3>1. pc'[x] = "copy"
      BY <2>1, <1>2, <1>4
    <3>. QED  BY <2>1, <3>1, <1>2
  <2>2. CASE ~ RawMeasured(x)
    <3>1. pc[x] \in {"copy", "free"}
      <4>1. RawCopied(x) => pc[x] = "copy"
        BY DEF RawCopied, Runs
      <4>. QED  BY <2>2, <1>4, <4>1, DrainMoves
    <3>2. ~ RawFreed(x)
      BY <1>3, <1>4
    <3>3. copy[x] \in live /\ copy[x] \in Objects("log")
      BY <3>1, <1>0 DEF Copies, HeapTyped
    <3>4. copy'[x] = copy[x]
      <4>1. CASE x = Thread /\ ThreadDeleted
        <5>1. CASE ulog.async_th = Null
          BY <4>1, <5>1 DEF ThreadDeleted
        <5>2. CASE ulog.async_th # Null
          <6>1. pc'[Thread] = "none"
            BY <4>1, <5>2, <1>0 DEF ThreadDeleted, PlacesTyped
          <6>. QED  BY <6>1, <4>1, <1>4
        <5>. QED  BY <5>1, <5>2
      <4>2. CASE ~ (x = Thread /\ ThreadDeleted)
        BY <4>2, <2>2, <3>2, CopySteps
      <4>. QED  BY <4>1, <4>2
    <3>5. copy[x] \in live'
      <4>. SUFFICES ASSUME copy[x] \notin live' PROVE FALSE
        OBVIOUS
      <4>1. PICK y \in Drainers : RawFreed(y) /\ copy[x] = copy[y]
        BY <3>3, CopiesStayLive
      <4>2. x = y
        BY <4>1, <3>3, <1>0 DEF Copies
      <4>. QED  BY <4>1, <4>2, <3>2
    <3>. QED  BY <3>4, <3>5
  <2>. QED  BY <2>1, <2>2
<1>5. ASSUME NEW x \in Drainers, copy'[x] # Null PROVE pc'[x] \in {"copy", "free"}
  <2>1. CASE copy'[x] = copy[x]
    <3>1. pc[x] \in {"copy", "free"}
      BY <2>1, <1>5, <1>0 DEF Copies
    <3>2. RawCopied(x) => pc'[x] = "free"
      BY <1>0, MovesOne DEF RawCopied
    <3>3. ~ RawFreed(x)
      BY <1>3, <1>5
    <3>4. x = Thread /\ ThreadDeleted /\ ulog.async_th # Null => copy'[x] = Null
      BY <1>0 DEF ThreadDeleted, HeapTyped
    <3>. QED  BY <3>1, <3>2, <3>3, <3>4, <1>5, DrainMoves
  <2>2. CASE copy'[x] # copy[x]
    <3>1. RawMeasured(x) => pc'[x] = "copy"
      BY <2>2, <1>2
    <3>2. x = Thread /\ ThreadDeleted => copy'[x] = copy[x] \/ copy'[x] = Null
      BY <1>0 DEF ThreadDeleted, HeapTyped
    <3>. QED  BY <2>2, <3>1, <3>2, <1>3, <1>5, CopySteps
  <2>. QED  BY <2>1, <2>2
<1>6. ASSUME NEW x \in Drainers, NEW y \in Drainers, copy'[x] = copy'[y], copy'[x] # Null
      PROVE  x = y
  <2>1. \A z \in Drainers : copy'[z] # Null =>
           \/ copy'[z] = copy[z] /\ copy[z] \in live
           \/ RawMeasured(z) /\ copy'[z] \notin live
    <3>1. ASSUME NEW z \in Drainers, copy'[z] # Null, copy'[z] = copy[z]
          PROVE  copy[z] \in live
      BY <3>1, <1>0 DEF Copies
    <3>2. ASSUME NEW z \in Drainers, copy'[z] # Null, copy'[z] # copy[z]
          PROVE  RawMeasured(z) /\ copy'[z] \notin live
      <4>1. z = Thread /\ ThreadDeleted => copy'[z] = copy[z] \/ copy'[z] = Null
        BY <1>0 DEF ThreadDeleted, HeapTyped
      <4>2. RawMeasured(z)
        BY <3>2, <4>1, <1>3, CopySteps
      <4>. QED  BY <3>2, <4>2, <1>2
    <3>. QED  BY <3>1, <3>2
  <2>2. RawMeasured(x) /\ RawMeasured(y) /\ copy'[x] # copy[x] => x = y
    BY <1>0, <1>2 DEF HeapTyped
  <2>. QED  BY <1>6, <2>1, <2>2, <1>0 DEF Copies
<1>. QED  BY <1>4, <1>5, <1>6 DEF Copies

-----------------------------------------------------------------------------
\* The accesses at each place.

\* What each place touches.
LEMMA AccessesAt ==
  ASSUME NEW x
  PROVE  /\ pc[x] \in {"lock", "unlock", "locker_delete"} => Accesses(x) = {ulog.output_locker}
         /\ pc[x] = "store" => Accesses(x) \subseteq Whole(ulog.async_rbb)
         /\ pc[x] \in {"put", "len"} => Accesses(x) = Whole(ulog.async_rb)
         /\ pc[x] \in {"blocks", "rbb_destroy"} => Accesses(x) = Whole(ulog.async_rbb)
         /\ pc[x] = "rb_destroy" =>
               IF ulog.async_rb = Null THEN Accesses(x) = {}
               ELSE Accesses(x) = Whole(ulog.async_rb)
         /\ pc[x] = "copy" => Accesses(x) = Whole(ulog.async_rb) \cup {copy[x]}
         /\ pc[x] = "free" => Accesses(x) = {copy[x]}
         /\ pc[x] \in {"give", "sleep", "wait"} => Accesses(x) = {ulog.async_notice}
         /\ pc[x] = "th_delete" => Accesses(x) \subseteq {ulog.async_th}
         /\ pc[x] \in {"out", "locker", "rbb", "notice", "th", "ok", "nodes", "not_ok", "none",
                       "idle", "create", "node", "raw"} => Accesses(x) = {}
<1>1. CASE pc[x] = "store"
  BY <1>1 DEF Accesses
<1>2. CASE pc[x] = "rb_destroy"
  BY <1>2 DEF Accesses
<1>3. CASE pc[x] = "th_delete"
  BY <1>3 DEF Accesses
<1>4. CASE pc[x] \notin {"store", "rb_destroy", "th_delete"}
  BY <1>4 DEF Accesses
<1>. QED  BY <1>1, <1>2, <1>3, <1>4

\* The cases of UsesLive in terms of the access that goes wrong.
LEMMA FaultsKnown ==
  ASSUME LifeInv, NEW x \in Tasks, ~ Accesses(x) \subseteq live, ~ overlap
  PROVE  \/ x = Thread /\ pc[Owner] = "th_delete" /\ Accesses(x) \ live = Whole(ulog.async_rbb)
         \/ deinits > 0 /\ Accesses(x) \ live \subseteq {ulog.async_th} \cup Whole(ulog.async_rb)
         \/ pc[x] = "link"
         \/ pc[x] = "put" /\ x \in Callers /\ Accesses(x) \ live = {Null} /\ made["rb"] > 1
         \/ pc[x] \in {"len", "copy"} /\ Accesses(x) \ live = {Null} /\ made["rb"] > 1
<1>0. /\ PlacesTyped /\ UlogTyped /\ HeapTyped /\ deinits \in Nat /\ Null \notin live
      /\ Stages /\ ThreadThere /\ FirstLife /\ CallsWithin /\ Rb /\ Copies
  BY NullAssumption DEF LifeInv, Types, HeapTyped
<1>. USE TasksDiffer, AccessesAt
<1>2. ASSUME ulog.async_rb # Null, ~ Whole(ulog.async_rb) \subseteq live PROVE deinits > 0
  BY <1>2, <1>0 DEF FirstLife
<1>3. CASE x = Owner
  <2>1. pc[x] \in OwnerPlaces
    BY <1>3, <1>0 DEF PlacesTyped
  <2>2. pc[x] \notin {"locker_delete", "rbb_destroy"}
    BY <1>3, <1>0 DEF Stages
  <2>3. pc[x] \in {"link", "th_delete", "rb_destroy"}
    BY <2>1, <2>2 DEF OwnerPlaces, InitPlaces, DeinitPlaces
  <2>4. pc[x] \in {"th_delete", "rb_destroy"} => deinits > 0
    BY <1>3, <1>0 DEF Stages, DeinitPlaces
  <2>. QED  BY <2>3, <2>4
<1>4. CASE x \in Drainers /\ pc[x] \in TestedPlaces
  <2>1. /\ Accesses(x) \ live \subseteq Whole(ulog.async_rb)
        /\ ~ Whole(ulog.async_rb) \subseteq live
    <3>1. CASE pc[x] = "copy"
      BY <3>1, <1>0, <1>4 DEF Copies
    <3>2. CASE pc[x] \in {"put", "len"}
      BY <3>2
    <3>. QED  BY <1>4, <3>1, <3>2 DEF TestedPlaces
  <2>2. CASE ulog.async_rb = Null
    <3>1. Whole(ulog.async_rb) = {Null}
      BY <2>2, Wholes
    <3>2. Accesses(x) \ live = {Null}
      BY <2>1, <3>1, <1>0
    <3>3. made["rb"] > 1
      BY <2>2, <1>0, <1>4 DEF Rb
    <3>4. pc[x] = "put" => x \in Callers
      BY <1>4, <1>0 DEF PlacesTyped, ThreadPlaces, DrainPlaces
    <3>. QED  BY <1>4, <3>2, <3>3, <3>4 DEF TestedPlaces
  <2>3. CASE ulog.async_rb # Null
    BY <2>1, <2>3, <1>2
  <2>. QED  BY <2>2, <2>3
<1>7. CASE x \in Drainers /\ pc[x] \in {"raw", "free"}
  BY <1>7, <1>0 DEF Copies
<1>5. CASE x = Thread /\ pc[x] \notin TestedPlaces \cup {"raw", "free"}
  <2>1. pc[x] \in {"sleep", "wait", "blocks"}
    BY <1>5, <1>0 DEF PlacesTyped, ThreadPlaces, DrainPlaces, TestedPlaces
  <2>2. Up \/ pc[Owner] \in {"ok", "nodes", "link", "locker_delete", "rbb_destroy", "th_delete"}
    BY <1>5, <2>1, <1>0 DEF ThreadThere
  <2>3. ulog.async_notice \in live
    BY <2>2, <1>0 DEF Stages
  <2>4. pc[x] = "blocks"
    BY <2>1, <2>3
  <2>5. pc[Owner] = "th_delete" \/ Whole(ulog.async_rbb) \subseteq live
    BY <2>2, <1>0 DEF Stages
  <2>6. pc[Owner] = "th_delete" => Whole(ulog.async_rbb) \cap live = {}
    BY <1>0 DEF Stages
  <2>7. Accesses(x) = Whole(ulog.async_rbb)
    BY <2>4
  <2>. QED  BY <1>5, <2>5, <2>6, <2>7
<1>6. CASE x \in Callers /\ pc[x] \notin TestedPlaces \cup {"raw", "free"}
  <2>1. pc[x] \in {"idle", "create", "lock", "node", "store", "give", "unlock", "blocks"}
    BY <1>6, <1>0 DEF PlacesTyped, CallPlaces, DrainPlaces, TestedPlaces
  <2>2. pc[x] # "idle" => Up
    BY <1>6, <1>0 DEF CallsWithin
  <2>3. pc[x] # "idle" => /\ ulog.output_locker \in live /\ ulog.async_notice \in live
                          /\ Whole(ulog.async_rbb) \subseteq live
    BY <2>2, <1>0 DEF Stages
  <2>. QED  BY <2>1, <2>3
<1>. QED  BY <1>3, <1>4, <1>5, <1>6, <1>7 DEF Tasks, Drainers

\* What is touched is live but in the known cases.
LEMMA NextUsesLive == LifeInv /\ [Next]_vars => UsesLive'
<1>. SUFFICES ASSUME LifeInv, [Next]_vars PROVE UsesLive'
  OBVIOUS
<1>1. ASSUME NEW x \in Tasks, Fault(x) PROVE UsesLive'
  <2>1. /\ fault' = [by |-> x, at |-> pc[x], dead |-> Accesses(x) \ live]
        /\ ~ Accesses(x) \subseteq live
        /\ UNCHANGED <<ulog, pc, deinits, overlap, made>>
    BY <1>1 DEF Fault, heap, counts
  <2>2. fault'.by = x /\ fault'.at = pc[x] /\ fault'.dead = Accesses(x) \ live
    BY <2>1
  <2>. QED  BY <2>1, <2>2, FaultsKnown DEF UsesLive
<1>2. CASE UNCHANGED vars
  <2>1. UNCHANGED <<ulog, pc, deinits, overlap, made, fault>>
    BY <1>2 DEF vars, heap, counts
  <2>. QED  BY <2>1 DEF LifeInv, UsesLive
<1>3. ASSUME ~ UNCHANGED vars, \A x \in Tasks : ~ Fault(x)
      PROVE  fault' = Null
  BY <1>3 DEF Next, OwnerStep, InitCalled, LockerCreated, RbbCreated, NoticeCreated,
     ThreadCreated, InitReturns, DeinitCalled, NodesFreed, LockerDeleted, RbbDestroyed,
     ThreadDeleted, RbDestroyed, DeinitReturns, CallerStep, Called, RbCreated, Locked, NodeSet,
     Stored, RawPut, NoticeGiven, Unlocked, DrainStep, BlocksOutput, RawTested, RawMeasured,
     RawCopied, RawFreed, Noticed, TimedOut, Runs
<1>. QED  BY <1>1, <1>2, <1>3 DEF UsesLive

\* Nothing was allocated at the beginning.
LEMMA InitLife == Init => LifeInv
<1>. SUFFICES ASSUME Init PROVE LifeInv
  OBVIOUS
<1>. USE TasksDiffer
<1>1. /\ pc[Owner] = "out" /\ pc[Thread] = "none" /\ \A c \in Callers : pc[c] = "idle"
      /\ \A x \in Drainers : copy[x] = Null
      /\ ~ ulog.init_ok /\ ulog.async_th = Null /\ ulog.async_rb = Null
      /\ deinits = 0 /\ fault = Null
  BY DEF Init, Drainers
<1>2. PlacesTyped
  BY DEF Init, PlacesTyped, OwnerPlaces, CallPlaces, ThreadPlaces, Drainers
<1>3. UlogTyped
  BY DEF Init, UlogTyped
<1>4. HeapTyped
  BY FS_EmptySet DEF Init, HeapTyped, Drainers
<1>5. Stages /\ ThreadThere
  BY <1>1 DEF Stages, ThreadThere, Up, InitPlaces, DeinitPlaces
<1>6. Rb /\ Copies
  <2>1. \A x \in Drainers : pc[x] \notin {"put", "len", "copy", "free"}
    BY <1>1
  <2>. QED  BY <1>1, <2>1 DEF Rb, Copies, TestedPlaces
<1>. QED  BY <1>1, <1>2, <1>3, <1>4, <1>5, <1>6
          DEF LifeInv, Types, FirstLife, CallsWithin, UsesLive

-----------------------------------------------------------------------------
\* What is there at every step, for any number of tasks, calls and lives: the
\* invariant the two theorems below need.
THEOREM LifeInvariant == Spec => []LifeInv
<1>1. LifeInv /\ [Next]_vars => LifeInv'
  <2>1. LifeInv => Types
    BY DEF LifeInv
  <2>. QED  BY <2>1, NextTypes, NextStages, NextFirstLife, NextCallsWithin, NextRb, NextCopies,
            NextUsesLive DEF LifeInv
<1>. QED  BY InitLife, <1>1, PTL DEF Spec

\* NULL or an object that was given back is accessed only in the six cases UsesLive
\* lists.
THEOREM OnlyKnownFaults == Spec => []UsesLive
<1>1. LifeInv => UsesLive
  BY DEF LifeInv
<1>. QED  BY <1>1, LifeInvariant, PTL

\* While init_ok is set and ulog_deinit has not begun, the mutex, the notice and
\* the whole block buffer are there, and in the first life the thread, if it could
\* be created.
THEOREM ReadyBetween == Spec => []ReadyWhenOk
<1>1. ASSUME LifeInv PROVE ReadyWhenOk
  <2>. SUFFICES ASSUME ulog.init_ok, ~ Deiniting
                PROVE  /\ {ulog.output_locker, ulog.async_notice} \cup Whole(ulog.async_rbb)
                            \subseteq live
                       /\ ulog.async_th \in live \cup {Null} \/ deinits > 0
    BY DEF ReadyWhenOk
  <2>1. pc[Owner] \in OwnerPlaces /\ pc[Owner] \notin InitPlaces /\ pc[Owner] \notin DeinitPlaces
    BY <1>1 DEF LifeInv, Stages, Types, PlacesTyped, Deiniting, DeinitPlaces
  <2>2. Up
    BY <2>1 DEF OwnerPlaces, Up
  <2>3. deinits \in Nat /\ (deinits = 0 \/ deinits > 0)
    BY <1>1 DEF LifeInv, Types
  <2>. QED  BY <1>1, <2>2, <2>3 DEF LifeInv, Stages, FirstLife
<1>. QED  BY <1>1, LifeInvariant, PTL
-----------------------------------------------------------------------------
\* What is lost.  Nothing that ulog_init allocates is, but what these count.

Of(kind) == live \cap Objects(kind)
One(condition) == IF condition THEN 1 ELSE 0
Down == pc[Owner] = "out" /\ ~ ulog.init_ok
BlockParts == {"rbb", "buf", "blk_set"}

LockersKnown ==
  /\ Of("locker") \subseteq {ulog.output_locker}
  /\ Down \/ pc[Owner] \in {"locker", "rbb_destroy", "th_delete", "rb_destroy", "not_ok"}
       => Of("locker") = {}

ThreadsKnown == Of("th") \subseteq {ulog.async_th}

\* The block buffer and the notice of the present life, and what was lost of
\* those before.
BlocksInUse == Up \/ pc[Owner] \in {"notice", "th", "ok", "nodes", "link", "locker_delete",
                                    "rbb_destroy"}
BlocksCounted ==
  \A part \in BlockParts : Cardinality(Of(part)) <= unnoticed + One(BlocksInUse)

NoticeInUse == Up \/ pc[Owner] \in {"th", "ok"}
NoticesCounted == Cardinality(Of("notice")) <= deinits + One(NoticeInUse)

\* Only the byte buffer created last can be the one async_rb points to, and it
\* is that one as long as it is there.
BytesCounted ==
  \A part \in {"rb", "pool"} : \A n \in Nat : <<part, n>> \in live =>
     /\ 1 <= n /\ n <= made["rb"]
     /\ n = made["rb"] => ulog.async_rb = <<"rb", n>>

\* A copy nobody holds was that of a thread that was deleted.
LostCopies == {o \in Of("log") : \A x \in Drainers : copy[x] # o}
ThreadDoomed ==
  pc[Owner] \in {"nodes", "link", "locker_delete", "rbb_destroy", "th_delete"}
CopiesCounted == Cardinality(LostCopies) + One(ThreadDoomed) <= deinits

NodesKnown ==
  ~ overlap =>
    /\ Of("node") \subseteq nodes
    /\ Up \/ pc[Owner] \in {"nodes", "link"} \/ nodes = {}

LeakInv ==
  /\ unnoticed \in Nat
  /\ LockersKnown /\ ThreadsKnown /\ BlocksCounted /\ NoticesCounted /\ BytesCounted
  /\ CopiesCounted /\ NodesKnown
-----------------------------------------------------------------------------
\* Objects of which kinds a step allocates or gives back.
Within(S) == \A o : o \notin S => (o \in live <=> o \in live')

\* An object of one kind is not of another.
LEMMA KindsApart ==
  \A j, k \in ObjectKinds : j # k => Objects(j) \cap Objects(k) = {}
BY DEF Objects

\* A step that touches no object of a kind leaves their number alone.
LEMMA WithinKeeps ==
  ASSUME NEW S, Within(S), NEW kind, Objects(kind) \cap S = {}
  PROVE  Of(kind)' = Of(kind)
BY DEF Within, Of, Objects

\* Which kinds the steps of ulog_init and ulog_deinit touch.
LEMMA OwnerWithin ==
  ASSUME Types, OwnerStep
  PROVE  /\ InitCalled \/ InitReturns \/ DeinitCalled \/ DeinitReturns => Within({})
         /\ LockerCreated \/ LockerDeleted => Within(Objects("locker"))
         /\ RbbCreated => Within(Objects("locker") \cup Objects("rbb") \cup Objects("buf")
                                   \cup Objects("blk_set"))
         /\ NoticeCreated => Within(Objects("locker") \cup Objects("notice"))
         /\ ThreadCreated \/ ThreadDeleted => Within(Objects("th"))
         /\ NodesFreed => Within(Objects("node"))
         /\ RbbDestroyed => Within(Objects("rbb") \cup Objects("buf") \cup Objects("blk_set"))
         /\ RbDestroyed => Within(Objects("rb") \cup Objects("pool"))
<1>0. /\ UlogTyped /\ HeapTyped /\ Null \notin live /\ Null \notin live'
      /\ New("locker") \in Objects("locker") /\ New("rbb") \in Objects("rbb")
      /\ New("notice") \in Objects("notice") /\ New("th") \in Objects("th")
  <2>1. HeapTyped'
    BY OwnerHeap DEF Types
  <2>. QED  BY <2>1, NewTyped, NullAssumption DEF Types, HeapTyped, Kinds
<1>1. /\ ulog.output_locker \in Objects("locker") \cup {Null}
      /\ ulog.async_th \in Objects("th") \cup {Null}
      /\ Whole(ulog.async_rbb) \subseteq Objects("rbb") \cup Objects("buf") \cup Objects("blk_set")
                                           \cup {Null}
      /\ Whole(ulog.async_rb) \subseteq Objects("rb") \cup Objects("pool") \cup {Null}
      /\ Whole(New("rbb")) \subseteq Objects("rbb") \cup Objects("buf") \cup Objects("blk_set")
      /\ nodes \subseteq Objects("node")
  BY <1>0, WholeTyped, Wholes DEF UlogTyped, HeapTyped
<1>2. InitCalled \/ InitReturns \/ DeinitCalled \/ DeinitReturns => Within({})
  BY DEF InitCalled, InitReturns, DeinitCalled, DeinitReturns, heap, Within
<1>3. LockerCreated \/ LockerDeleted => Within(Objects("locker"))
  BY <1>0, <1>1 DEF LockerCreated, LockerDeleted, heap, Within
<1>4. RbbCreated => Within(Objects("locker") \cup Objects("rbb") \cup Objects("buf")
                             \cup Objects("blk_set"))
  BY <1>0, <1>1, NothingLeft DEF RbbCreated, Within
<1>5. NoticeCreated => Within(Objects("locker") \cup Objects("notice"))
  BY <1>0, <1>1 DEF NoticeCreated, Within
<1>6. ThreadCreated \/ ThreadDeleted => Within(Objects("th"))
  BY <1>0, <1>1 DEF ThreadCreated, ThreadDeleted, heap, Within
<1>7. NodesFreed => Within(Objects("node"))
  BY <1>0, <1>1 DEF NodesFreed, Within
<1>8. RbbDestroyed => Within(Objects("rbb") \cup Objects("buf") \cup Objects("blk_set"))
  BY <1>0, <1>1 DEF RbbDestroyed, Within
<1>9. RbDestroyed => Within(Objects("rb") \cup Objects("pool"))
  BY <1>0, <1>1 DEF RbDestroyed, Within
<1>. QED  BY <1>2, <1>3, <1>4, <1>5, <1>6, <1>7, <1>8, <1>9

\* Calls and drains leave all objects of the kinds that ulog_init allocates.
LEMMA OthersFixed ==
  ASSUME LifeInv, Others
  PROVE  /\ \A kind \in Fixed : Of(kind)' = Of(kind)
         /\ UNCHANGED <<deinits, unnoticed>>
         /\ Up' = Up /\ pc'[Owner] = pc[Owner] /\ ulog'.init_ok = ulog.init_ok
         /\ ulog'.output_locker = ulog.output_locker /\ ulog'.async_th = ulog.async_th
<1>1. Types /\ Copies /\ PlacesTyped /\ UlogTyped
  BY DEF LifeInv, Types
<1>2. ASSUME NEW kind \in Fixed PROVE Of(kind)' = Of(kind)
  <2>1. kind \notin Passing /\ \A o \in Objects(kind) : Kind(o) = kind
    BY DEF Fixed, Passing, Objects, Kind
  <2>2. \A o \in Objects(kind) : o \in live <=> o \in live'
    BY <1>1, <1>2, <2>1, OthersLive
  <2>. QED  BY <2>2 DEF Of, Objects
<1>3. UNCHANGED unnoticed
  BY DEF Others, CallerStep, Called, RbCreated, Locked, NodeSet, Stored, RawPut, NoticeGiven,
     Unlocked, DrainStep, BlocksOutput, RawTested, RawMeasured, RawCopied, RawFreed, Noticed,
     TimedOut, Fault, vars, counts
<1>. QED  BY <1>1, <1>2, <1>3, OthersPlaces, OthersUlog DEF Up
\* Where each step of ulog_init and ulog_deinit leads.
LEMMA OwnerGoes ==
  ASSUME Types, OwnerStep
  PROVE  /\ InitCalled => Down /\ pc'[Owner] = "locker"
         /\ LockerCreated => /\ pc[Owner] = "locker"
                             /\ pc'[Owner] # "rbb" => pc'[Owner] = "out" /\ live' = live
         /\ RbbCreated => pc[Owner] = "rbb" /\ pc'[Owner] \in {"notice", "out"}
         /\ NoticeCreated => pc[Owner] = "notice" /\ pc'[Owner] \in {"th", "out"}
         /\ ThreadCreated => pc[Owner] = "th" /\ pc'[Owner] = "ok"
         /\ InitReturns => pc[Owner] = "ok" /\ pc'[Owner] = "out"
         /\ DeinitCalled => Up /\ pc'[Owner] = "nodes"
         /\ NodesFreed => /\ pc[Owner] = "nodes"
                          /\ \/ pc'[Owner] = "link"
                             \/ pc'[Owner] = "locker_delete" /\ nodes = {} /\ live' = live
         /\ LockerDeleted => pc[Owner] = "locker_delete" /\ pc'[Owner] = "rbb_destroy"
         /\ RbbDestroyed => pc[Owner] = "rbb_destroy" /\ pc'[Owner] = "th_delete"
         /\ ThreadDeleted => pc[Owner] = "th_delete" /\ pc'[Owner] = "rb_destroy"
         /\ RbDestroyed => pc[Owner] = "rb_destroy" /\ pc'[Owner] = "not_ok"
         /\ DeinitReturns => pc[Owner] = "not_ok" /\ pc'[Owner] = "out"
<1>0. PlacesTyped /\ Owner \in Tasks /\ Thread \in Tasks /\ Owner # Thread
  BY TasksDiffer DEF Types
<1>. USE <1>0, OwnerMoves
<1>1. /\ InitCalled => Down /\ pc'[Owner] = "locker"
      /\ LockerCreated => /\ pc[Owner] = "locker"
                          /\ pc'[Owner] # "rbb" => pc'[Owner] = "out" /\ live' = live
      /\ RbbCreated => pc[Owner] = "rbb" /\ pc'[Owner] \in {"notice", "out"}
      /\ NoticeCreated => pc[Owner] = "notice" /\ pc'[Owner] \in {"th", "out"}
      /\ InitReturns => pc[Owner] = "ok" /\ pc'[Owner] = "out"
  BY DEF InitCalled, LockerCreated, RbbCreated, NoticeCreated, InitReturns, Runs, Down, heap
<1>2. ThreadCreated => pc[Owner] = "th" /\ pc'[Owner] = "ok"
  <2>1. pc' = [pc EXCEPT ![Owner] = "ok", ![Thread] = "blocks"] => pc'[Owner] = "ok"
    BY DEF PlacesTyped
  <2>. QED  BY <2>1 DEF ThreadCreated, Runs
<1>3. ThreadDeleted => pc[Owner] = "th_delete" /\ pc'[Owner] = "rb_destroy"
  <2>1. pc' = [pc EXCEPT ![Owner] = "rb_destroy", ![Thread] = "none"] => pc'[Owner] = "rb_destroy"
    BY DEF PlacesTyped
  <2>. QED  BY <2>1 DEF ThreadDeleted, Runs
<1>4. /\ DeinitCalled => Up /\ pc'[Owner] = "nodes"
      /\ NodesFreed => /\ pc[Owner] = "nodes"
                       /\ \/ pc'[Owner] = "link"
                          \/ pc'[Owner] = "locker_delete" /\ nodes = {} /\ live' = live
      /\ LockerDeleted => pc[Owner] = "locker_delete" /\ pc'[Owner] = "rbb_destroy"
      /\ RbbDestroyed => pc[Owner] = "rbb_destroy" /\ pc'[Owner] = "th_delete"
      /\ RbDestroyed => pc[Owner] = "rb_destroy" /\ pc'[Owner] = "not_ok"
      /\ DeinitReturns => pc[Owner] = "not_ok" /\ pc'[Owner] = "out"
  BY DEF DeinitCalled, NodesFreed, LockerDeleted, RbbDestroyed, RbDestroyed, DeinitReturns,
     Runs, Up
<1>. QED  BY <1>1, <1>2, <1>3, <1>4

\* The mutex: deleted by every ulog_init that fails and by ulog_deinit.
LEMMA NextLockers == LifeInv /\ LockersKnown /\ [Next]_vars => LockersKnown'
<1>. SUFFICES ASSUME LifeInv, LockersKnown, [Next]_vars PROVE LockersKnown'
  OBVIOUS
<1>0. Types /\ UlogTyped /\ Stages
  BY DEF LifeInv, Types
<1>1. ASSUME Others PROVE LockersKnown'
  BY <1>1, OthersFixed DEF Fixed, LockersKnown, Down
<1>. USE KindsApart DEF ObjectKinds
<1>2. ASSUME InitCalled \/ ThreadCreated \/ InitReturns \/ DeinitCalled \/ NodesFreed
             \/ RbbDestroyed \/ ThreadDeleted \/ RbDestroyed \/ DeinitReturns
      PROVE  LockersKnown'
  <2>1. OwnerStep
    BY <1>2 DEF OwnerStep
  <2>2. Of("locker")' = Of("locker")
    BY <1>0, <1>2, <2>1, OwnerWithin, WithinKeeps
  <2>3. ulog'.output_locker = ulog.output_locker
    BY <1>0, <1>2 DEF UlogTyped, InitCalled, ThreadCreated, InitReturns, DeinitCalled,
       NodesFreed, RbbDestroyed, ThreadDeleted, RbDestroyed, DeinitReturns
  <2>4. Down' \/ pc'[Owner] \in {"locker", "rbb_destroy", "th_delete", "rb_destroy", "not_ok"}
         => Down \/ pc[Owner] \in {"locker", "rbb_destroy", "th_delete", "rb_destroy", "not_ok"}
    <3>1. InitReturns => ulog'.init_ok
      BY <1>0 DEF InitReturns, UlogTyped
    <3>. QED  BY <1>0, <1>2, <2>1, <3>1, OwnerGoes DEF Down
  <2>. QED  BY <2>2, <2>3, <2>4 DEF LockersKnown
<1>3. ASSUME LockerCreated PROVE LockersKnown'
  <2>1. OwnerStep /\ pc[Owner] = "locker" /\ Of("locker") = {}
    BY <1>0, <1>3, OwnerGoes DEF OwnerStep, LockersKnown
  <2>2. CASE /\ live' = live \cup {New("locker")} /\ To(Owner, "rbb")
             /\ ulog' = [ulog EXCEPT !.output_locker = New("locker")]
    <3>1. ulog'.output_locker = New("locker") /\ pc'[Owner] = "rbb"
      BY <1>0, <2>2, OwnerMoves DEF UlogTyped, Types
    <3>. QED  BY <2>1, <2>2, <3>1 DEF LockersKnown, Of, Down
  <2>3. CASE live' = live
    BY <2>1, <2>3 DEF LockersKnown, Of
  <2>. QED  BY <1>3, <2>2, <2>3 DEF LockerCreated, heap
<1>4. ASSUME RbbCreated \/ NoticeCreated PROVE LockersKnown'
  <2>1. OwnerStep /\ pc[Owner] \in {"rbb", "notice"} /\ Of("locker") \subseteq {ulog.output_locker}
    BY <1>0, <1>4, OwnerGoes DEF OwnerStep, LockersKnown
  <2>2. ulog'.output_locker = ulog.output_locker
    BY <1>0, <1>4 DEF UlogTyped, RbbCreated, NoticeCreated
  <2>3. CASE pc'[Owner] \in {"notice", "th"}
    <3>1. Of("locker")' \subseteq Of("locker")
      <4>1. ASSUME RbbCreated PROVE Of("locker")' \subseteq Of("locker")
        <5>1. New("rbb") \in Objects("rbb")
          BY <1>0, NewTyped DEF Types, Kinds
        <5>2. Whole(New("rbb")) \cap Objects("locker") = {}
          BY <5>1, WholeTyped
        <5>. QED  BY <4>1, <5>2, NothingLeft DEF RbbCreated, Of
      <4>2. ASSUME NoticeCreated PROVE Of("locker")' \subseteq Of("locker")
        <5>1. New("notice") \in Objects("notice")
          BY <1>0, NewTyped DEF Types, Kinds
        <5>. QED  BY <4>2, <5>1 DEF NoticeCreated, Of
      <4>. QED  BY <1>4, <4>1, <4>2
    <3>. QED  BY <2>1, <2>2, <2>3, <3>1 DEF LockersKnown, Down
  <2>4. CASE pc'[Owner] = "out"
    <3>1. live' = live \ {ulog.output_locker}
      BY <1>0, <1>4, <2>4, NothingLeft, OwnerMoves DEF RbbCreated, NoticeCreated, Types
    <3>. QED  BY <2>1, <3>1 DEF LockersKnown, Of
  <2>. QED  BY <1>0, <1>4, <2>1, <2>3, <2>4, OwnerGoes
<1>5. ASSUME LockerDeleted PROVE LockersKnown'
  <2>1. live' = live \ {ulog.output_locker} /\ Of("locker") \subseteq {ulog.output_locker}
    BY <1>5 DEF LockerDeleted, LockersKnown
  <2>. QED  BY <2>1 DEF LockersKnown, Of
<1>. QED  BY <1>1, <1>2, <1>3, <1>4, <1>5, OwnerOrOthers DEF OwnerStep

\* The thread: created only while async_th is NULL, which it never is again.
LEMMA NextThreads == LifeInv /\ ThreadsKnown /\ [Next]_vars => ThreadsKnown'
<1>. SUFFICES ASSUME LifeInv, ThreadsKnown, [Next]_vars PROVE ThreadsKnown'
  OBVIOUS
<1>0. Types /\ UlogTyped /\ Null \notin live
  BY NullAssumption DEF LifeInv, Types, HeapTyped
<1>1. ASSUME Others PROVE ThreadsKnown'
  BY <1>1, OthersFixed DEF Fixed, ThreadsKnown
<1>2. ASSUME OwnerStep, ~ ThreadCreated, ~ ThreadDeleted PROVE ThreadsKnown'
  <2>1. Of("th")' = Of("th")
    BY <1>0, <1>2, OwnerWithin, WithinKeeps, KindsApart DEF OwnerStep, ObjectKinds
  <2>2. ulog'.async_th = ulog.async_th
    BY <1>0, <1>2 DEF UlogTyped, OwnerStep, InitCalled, LockerCreated, RbbCreated,
       NoticeCreated, InitReturns, DeinitCalled, NodesFreed, LockerDeleted, RbbDestroyed,
       RbDestroyed, DeinitReturns
  <2>. QED  BY <2>1, <2>2 DEF ThreadsKnown
<1>3. ASSUME ThreadCreated PROVE ThreadsKnown'
  <2>1. CASE /\ ulog.async_th = Null /\ live' = live \cup {New("th")}
             /\ ulog' = [ulog EXCEPT !.async_th = New("th")]
    <3>1. ulog'.async_th = New("th") /\ Of("th") = {}
      BY <1>0, <2>1 DEF UlogTyped, ThreadsKnown, Of
    <3>. QED  BY <2>1, <3>1 DEF ThreadsKnown, Of
  <2>2. CASE UNCHANGED <<live, ulog>>
    BY <2>2 DEF ThreadsKnown, Of
  <2>. QED  BY <1>3, <2>1, <2>2 DEF ThreadCreated, heap
<1>4. ASSUME ThreadDeleted PROVE ThreadsKnown'
  BY <1>4 DEF ThreadDeleted, ThreadsKnown, Of
<1>. QED  BY <1>1, <1>2, <1>3, <1>4, OwnerOrOthers
-----------------------------------------------------------------------------
\* Counting.

\* The live objects of a kind can be counted.
LEMMA OfFinite ==
  ASSUME HeapTyped, NEW kind
  PROVE  IsFiniteSet(Of(kind)) /\ Cardinality(Of(kind)) \in Nat
<1>1. IsFiniteSet(live) /\ Of(kind) \subseteq live
  BY DEF HeapTyped, Of
<1>. QED  BY <1>1, FS_Subset, FS_CardinalityType

\* Counting: one object more,
LEMMA OneMore ==
  ASSUME NEW A, IsFiniteSet(A), NEW o, NEW B, B \subseteq A \cup {o}
  PROVE  IsFiniteSet(B) /\ Cardinality(B) \in Nat /\ Cardinality(B) <= Cardinality(A) + 1
<1>1. IsFiniteSet(A \cup {o}) /\ Cardinality(A \cup {o}) <= Cardinality(A) + 1
  <2>1. Cardinality(A) \in Nat
    BY FS_CardinalityType
  <2>. QED  BY <2>1, FS_AddElement
<1>2. IsFiniteSet(B) /\ Cardinality(B) <= Cardinality(A \cup {o})
  BY <1>1, FS_Subset
<1>3. Cardinality(A) \in Nat /\ Cardinality(B) \in Nat /\ Cardinality(A \cup {o}) \in Nat
  BY <1>1, <1>2, FS_CardinalityType
<1>. QED  BY <1>1, <1>2, <1>3

\* none more,
LEMMA NoMore ==
  ASSUME NEW A, IsFiniteSet(A), NEW B, B \subseteq A
  PROVE  IsFiniteSet(B) /\ Cardinality(B) \in Nat /\ Cardinality(B) <= Cardinality(A)
BY FS_Subset, FS_CardinalityType

\* and one less.
LEMMA OneLess ==
  ASSUME NEW A, IsFiniteSet(A), NEW o \in A, NEW B, B \subseteq A \ {o}
  PROVE  IsFiniteSet(B) /\ Cardinality(B) \in Nat /\ Cardinality(B) <= Cardinality(A) - 1
<1>1. IsFiniteSet(A \ {o}) /\ Cardinality(A \ {o}) = Cardinality(A) - 1
  BY FS_RemoveElement
<1>2. IsFiniteSet(B) /\ Cardinality(B) <= Cardinality(A \ {o})
  BY <1>1, FS_Subset
<1>. QED  BY <1>1, <1>2, FS_CardinalityType

\* unnoticed counts what its name says, deinits the calls of ulog_deinit.
LEMMA Counters ==
  ASSUME OwnerStep, unnoticed \in Nat, deinits \in Nat
  PROVE  /\ unnoticed' # unnoticed => NoticeCreated /\ unnoticed' = unnoticed + 1
         /\ deinits' # deinits => DeinitCalled /\ deinits' = deinits + 1
         /\ DeinitCalled => deinits' = deinits + 1
BY DEF OwnerStep, InitCalled, LockerCreated, RbbCreated, NoticeCreated, ThreadCreated,
   InitReturns, DeinitCalled, NodesFreed, LockerDeleted, RbbDestroyed, ThreadDeleted,
   RbDestroyed, DeinitReturns, counts

\* The parts of a block buffer have its number.
LEMMA PartsOfRbb ==
  ASSUME NEW o \in Objects("rbb"), NEW part \in BlockParts
  PROVE  /\ <<part, o[2]>> \in Whole(o)
         /\ Whole(o) \cap Objects(part) = {<<part, o[2]>>}
<1>1. PICK n \in Nat : o = <<"rbb", n>> /\ o[2] = n
  BY DEF Objects
<1>2. Whole(o) = {<<"rbb", n>>, <<"buf", n>>, <<"blk_set", n>>}
  BY <1>1, Wholes
<1>3. CASE part = "rbb"
  BY <1>1, <1>2, <1>3 DEF Objects
<1>4. CASE part = "buf"
  BY <1>1, <1>2, <1>4 DEF Objects
<1>5. CASE part = "blk_set"
  BY <1>1, <1>2, <1>5 DEF Objects
<1>. QED  BY <1>3, <1>4, <1>5 DEF BlockParts

\* As many block buffers are live as were lost, and one more while the present life
\* has one.
LEMMA NextBlocksCounted ==
  LifeInv /\ unnoticed \in Nat /\ BlocksCounted /\ [Next]_vars => BlocksCounted'
<1>. SUFFICES ASSUME LifeInv, unnoticed \in Nat, BlocksCounted, [Next]_vars, NEW part \in BlockParts
              PROVE  Cardinality(Of(part)') <= unnoticed' + One(BlocksInUse')
  BY Zenon DEF BlocksCounted, One, Of, Objects, BlocksInUse, Up, BlockParts
<1>0. /\ Types /\ UlogTyped /\ HeapTyped /\ deinits \in Nat
      /\ part \in Fixed /\ part \in ObjectKinds
      /\ IsFiniteSet(Of(part)) /\ Cardinality(Of(part)) \in Nat
      /\ Cardinality(Of(part)) <= unnoticed + One(BlocksInUse)
  BY OfFinite DEF LifeInv, Types, BlockParts, Fixed, ObjectKinds, BlocksCounted
<1>1. ASSUME Others PROVE Cardinality(Of(part)') <= unnoticed' + One(BlocksInUse')
  <2>1. Of(part)' = Of(part) /\ unnoticed' = unnoticed /\ (BlocksInUse' <=> BlocksInUse)
    BY <1>0, <1>1, OthersFixed DEF BlocksInUse
  <2>2. One(BlocksInUse') = One(BlocksInUse)
    BY <2>1 DEF One
  <2>. QED  BY <1>0, <2>1, <2>2
<1>2. ASSUME OwnerStep, ~ RbbCreated, ~ NoticeCreated, ~ RbbDestroyed
      PROVE  Cardinality(Of(part)') <= unnoticed' + One(BlocksInUse')
  <2>1. Of(part)' = Of(part)
    <3>1. \A k \in {"locker", "th", "node", "rb", "pool"} : Objects(part) \cap Objects(k) = {}
      BY KindsApart DEF ObjectKinds, BlockParts
    <3>2. \/ Within({}) \/ Within(Objects("locker")) \/ Within(Objects("th"))
          \/ Within(Objects("node")) \/ Within(Objects("rb") \cup Objects("pool"))
      BY <1>0, <1>2, OwnerWithin DEF OwnerStep
    <3>. QED  BY <3>1, <3>2, WithinKeeps
  <2>2. unnoticed' = unnoticed
    BY <1>0, <1>2, Counters
  <2>3. BlocksInUse => BlocksInUse'
    <3>1. InitReturns => ulog'.init_ok
      BY <1>0 DEF InitReturns, UlogTyped
    <3>. QED  BY <1>0, <1>2, <3>1, OwnerGoes DEF OwnerStep, BlocksInUse, Up, Down
  <2>4. One(BlocksInUse) <= One(BlocksInUse') /\ One(BlocksInUse) \in Nat /\ One(BlocksInUse') \in Nat
    BY <2>3 DEF One
  <2>. QED  BY <1>0, <2>1, <2>2, <2>4
<1>3. ASSUME RbbCreated PROVE Cardinality(Of(part)') <= unnoticed' + One(BlocksInUse')
  <2>1. OwnerStep /\ unnoticed' = unnoticed /\ New("rbb") \in Objects("rbb")
    BY <1>0, <1>3, NewTyped DEF OwnerStep, RbbCreated, counts, Kinds
  <2>2. One(BlocksInUse) = 0
    BY <1>0, <1>3, <2>1, OwnerGoes DEF BlocksInUse, Up, One
  <2>3. CASE live' = live \cup Whole(New("rbb")) /\ To(Owner, "notice")
    <3>1. Of(part)' \subseteq Of(part) \cup {<<part, New("rbb")[2]>>}
      BY <2>1, <2>3, PartsOfRbb DEF Of
    <3>2. One(BlocksInUse') = 1
      BY <1>0, <2>3, OwnerMoves DEF BlocksInUse, One, Types
    <3>. QED  BY <1>0, <2>1, <2>2, <3>1, <3>2, OneMore
  <2>4. CASE \E n \in 1 .. 3 : live' = (live \cup RbbLeft(n, New("rbb"))) \ {ulog.output_locker}
    <3>1. Of(part)' \subseteq Of(part)
      BY <2>4, NothingLeft DEF Of
    <3>2. One(BlocksInUse') \in {0, 1}
      BY DEF One
    <3>3. Cardinality(Of(part)') \in Nat /\ Cardinality(Of(part)') <= Cardinality(Of(part))
      BY <1>0, <3>1, NoMore
    <3>. QED  BY <1>0, <2>1, <2>2, <3>2, <3>3
  <2>. QED  BY <1>3, <2>3, <2>4 DEF RbbCreated
<1>4. ASSUME NoticeCreated PROVE Cardinality(Of(part)') <= unnoticed' + One(BlocksInUse')
  <2>1. OwnerStep /\ pc[Owner] = "notice" /\ One(BlocksInUse) = 1
    BY <1>0, <1>4, OwnerGoes DEF OwnerStep, BlocksInUse, One
  <2>2. Of(part)' = Of(part)
    <3>1. Objects(part) \cap (Objects("locker") \cup Objects("notice")) = {}
      BY KindsApart DEF ObjectKinds, BlockParts
    <3>. QED  BY <1>0, <1>4, <2>1, <3>1, OwnerWithin, WithinKeeps
  <2>3. CASE To(Owner, "th") /\ unnoticed' = unnoticed
    <3>1. One(BlocksInUse') = 1
      BY <1>0, <2>3, OwnerMoves DEF BlocksInUse, One, Types
    <3>. QED  BY <1>0, <2>1, <2>2, <2>3, <3>1
  <2>4. CASE unnoticed' = unnoticed + 1
    <3>1. One(BlocksInUse') \in {0, 1}
      BY DEF One
    <3>. QED  BY <1>0, <2>1, <2>2, <2>4, <3>1
  <2>. QED  BY <1>4, <2>3, <2>4 DEF NoticeCreated
<1>5. ASSUME RbbDestroyed PROVE Cardinality(Of(part)') <= unnoticed' + One(BlocksInUse')
  <2>1. /\ OwnerStep /\ pc[Owner] = "rbb_destroy" /\ One(BlocksInUse) = 1
        /\ unnoticed' = unnoticed
    BY <1>0, <1>5, OwnerGoes DEF OwnerStep, BlocksInUse, One, RbbDestroyed, counts
  <2>2. Whole(ulog.async_rbb) \subseteq live /\ ulog.async_rbb \in Objects("rbb")
    <3>1. Whole(ulog.async_rbb) \subseteq live /\ Null \notin live
      BY <2>1, <1>0, NullAssumption DEF LifeInv, Stages, HeapTyped
    <3>. QED  BY <3>1, <1>0, Wholes DEF UlogTyped
  <2>3. /\ <<part, ulog.async_rbb[2]>> \in Of(part)
        /\ Of(part)' \subseteq Of(part) \ {<<part, ulog.async_rbb[2]>>}
    <3>1. live' = live \ Whole(ulog.async_rbb)
      BY <1>5 DEF RbbDestroyed
    <3>. QED  BY <3>1, <2>2, PartsOfRbb DEF Of
  <2>4. Cardinality(Of(part)') \in Nat /\ Cardinality(Of(part)') <= Cardinality(Of(part)) - 1
    BY <1>0, <2>3, OneLess
  <2>5. One(BlocksInUse') \in {0, 1}
    BY DEF One
  <2>. QED  BY <1>0, <2>1, <2>4, <2>5
<1>. QED  BY <1>1, <1>2, <1>3, <1>4, <1>5, OwnerOrOthers
\* ulog_deinit deletes no notice.
LEMMA NextNoticesCounted ==
  LifeInv /\ unnoticed \in Nat /\ NoticesCounted /\ [Next]_vars => NoticesCounted'
<1>. SUFFICES ASSUME LifeInv, unnoticed \in Nat, NoticesCounted, [Next]_vars
              PROVE  Cardinality(Of("notice")') <= deinits' + One(NoticeInUse')
  BY Zenon DEF NoticesCounted, One, Of, Objects, NoticeInUse, Up
<1>0. /\ Types /\ UlogTyped /\ HeapTyped /\ deinits \in Nat
      /\ IsFiniteSet(Of("notice")) /\ Cardinality(Of("notice")) \in Nat
      /\ Cardinality(Of("notice")) <= deinits + One(NoticeInUse)
  BY OfFinite DEF LifeInv, Types, NoticesCounted
<1>1. ASSUME Others PROVE Cardinality(Of("notice")') <= deinits' + One(NoticeInUse')
  <2>1. Of("notice")' = Of("notice") /\ deinits' = deinits /\ (NoticeInUse' <=> NoticeInUse)
    BY <1>0, <1>1, OthersFixed DEF NoticeInUse, Fixed
  <2>2. One(NoticeInUse') = One(NoticeInUse)
    BY <2>1 DEF One
  <2>. QED  BY <1>0, <2>1, <2>2
<1>2. ASSUME OwnerStep, ~ NoticeCreated PROVE Of("notice")' = Of("notice")
  <2>1. /\ \A k \in ObjectKinds \ {"notice"} : Objects("notice") \cap Objects(k) = {}
        /\ "notice" \in ObjectKinds
    BY KindsApart DEF ObjectKinds
  <2>2. \/ Within({}) \/ Within(Objects("locker")) \/ Within(Objects("th"))
        \/ Within(Objects("node")) \/ Within(Objects("rb") \cup Objects("pool"))
        \/ Within(Objects("locker") \cup Objects("rbb") \cup Objects("buf") \cup Objects("blk_set"))
        \/ Within(Objects("rbb") \cup Objects("buf") \cup Objects("blk_set"))
    BY <1>0, <1>2, OwnerWithin DEF OwnerStep
  <2>. QED  BY <2>1, <2>2, WithinKeeps DEF ObjectKinds
<1>3. ASSUME OwnerStep, ~ NoticeCreated, ~ DeinitCalled
      PROVE  Cardinality(Of("notice")') <= deinits' + One(NoticeInUse')
  <2>1. Of("notice")' = Of("notice") /\ deinits' = deinits
    BY <1>0, <1>2, <1>3, Counters
  <2>2. NoticeInUse => NoticeInUse'
    <3>1. InitReturns => ulog'.init_ok
      BY <1>0 DEF InitReturns, UlogTyped
    <3>. QED  BY <1>0, <1>3, <3>1, OwnerGoes DEF OwnerStep, NoticeInUse, Up, Down
  <2>3. One(NoticeInUse) <= One(NoticeInUse') /\ One(NoticeInUse) \in Nat /\ One(NoticeInUse') \in Nat
    BY <2>2 DEF One
  <2>. QED  BY <1>0, <2>1, <2>3
<1>4. ASSUME DeinitCalled PROVE Cardinality(Of("notice")') <= deinits' + One(NoticeInUse')
  <2>1. OwnerStep /\ ~ NoticeCreated
    BY <1>0, <1>4 DEF OwnerStep, DeinitCalled, NoticeCreated, Runs
  <2>2. Of("notice")' = Of("notice") /\ deinits' = deinits + 1
    BY <1>0, <1>2, <1>4, <2>1, Counters
  <2>3. One(NoticeInUse) \in {0, 1} /\ One(NoticeInUse') \in {0, 1}
    BY DEF One
  <2>. QED  BY <1>0, <2>2, <2>3
<1>5. ASSUME NoticeCreated PROVE Cardinality(Of("notice")') <= deinits' + One(NoticeInUse')
  <2>1. OwnerStep /\ deinits' = deinits /\ New("notice") \in Objects("notice")
    BY <1>0, <1>5, NewTyped DEF OwnerStep, NoticeCreated, Kinds
  <2>2. One(NoticeInUse) = 0
    BY <1>0, <1>5, <2>1, OwnerGoes DEF NoticeInUse, Up, One
  <2>3. CASE live' = live \cup {New("notice")} /\ To(Owner, "th")
    <3>1. Of("notice")' \subseteq Of("notice") \cup {New("notice")}
      BY <2>3 DEF Of
    <3>2. One(NoticeInUse') = 1
      BY <1>0, <2>3, OwnerMoves DEF NoticeInUse, One, Types
    <3>3. /\ Cardinality(Of("notice")') \in Nat
          /\ Cardinality(Of("notice")') <= Cardinality(Of("notice")) + 1
      BY <1>0, <3>1, OneMore
    <3>. QED  BY <1>0, <2>1, <2>2, <3>2, <3>3
  <2>4. CASE live' = live \ {ulog.output_locker}
    <3>1. Of("notice")' \subseteq Of("notice")
      BY <2>4 DEF Of
    <3>2. One(NoticeInUse') \in {0, 1}
      BY DEF One
    <3>3. /\ Cardinality(Of("notice")') \in Nat
          /\ Cardinality(Of("notice")') <= Cardinality(Of("notice"))
      BY <1>0, <3>1, NoMore
    <3>. QED  BY <1>0, <2>1, <2>2, <3>2, <3>3
  <2>. QED  BY <1>5, <2>3, <2>4 DEF NoticeCreated
<1>. QED  BY <1>1, <1>3, <1>4, <1>5, OwnerOrOthers

-----------------------------------------------------------------------------
\* Byte buffers.

\* Only a call of ulog_raw that creates a byte buffer adds one.
LEMMA BytesKept ==
  ASSUME LifeInv, [Next]_vars, \A c \in Callers : ~ RbCreated(c)
  PROVE  /\ made'["rb"] = made["rb"] /\ ulog'.async_rb = ulog.async_rb
         /\ \A o \in Objects("rb") \cup Objects("pool") : o \in live' => o \in live
<1>0. /\ Types /\ UlogTyped /\ HeapTyped
  BY DEF LifeInv, Types
<1>. USE KindsApart DEF ObjectKinds
<1>1. ASSUME OwnerStep
      PROVE  \A o \in Objects("rb") \cup Objects("pool") : o \in live' => o \in live
  <2>1. RbDestroyed => live' \subseteq live
    BY DEF RbDestroyed
  <2>2. ~ RbDestroyed =>
          \E S : Within(S) /\ (Objects("rb") \cup Objects("pool")) \cap S = {}
    <3>1. ~ RbDestroyed =>
             \/ Within({}) \/ Within(Objects("locker")) \/ Within(Objects("th"))
             \/ Within(Objects("node")) \/ Within(Objects("locker") \cup Objects("notice"))
             \/ Within(Objects("locker") \cup Objects("rbb") \cup Objects("buf")
                         \cup Objects("blk_set"))
             \/ Within(Objects("rbb") \cup Objects("buf") \cup Objects("blk_set"))
      BY <1>0, <1>1, OwnerWithin DEF OwnerStep
    <3>2. /\ (Objects("rb") \cup Objects("pool")) \cap {} = {}
          /\ \A k \in {"locker", "th", "node", "notice", "rbb", "buf", "blk_set"} :
               (Objects("rb") \cup Objects("pool")) \cap Objects(k) = {}
      OBVIOUS
    <3>. QED  BY <3>1, <3>2
  <2>. QED  BY <2>1, <2>2 DEF Within
<1>2. ASSUME OwnerStep PROVE made'["rb"] = made["rb"] /\ ulog'.async_rb = ulog.async_rb
  <2>1. made'["rb"] = made["rb"]
    BY <1>0, <1>2 DEF HeapTyped, Kinds, OwnerStep, InitCalled, LockerCreated, RbbCreated,
       NoticeCreated, ThreadCreated, InitReturns, DeinitCalled, NodesFreed, LockerDeleted,
       RbbDestroyed, ThreadDeleted, RbDestroyed, DeinitReturns, heap, Made
  <2>2. ulog'.async_rb = ulog.async_rb
    BY <1>0, <1>2 DEF UlogTyped, OwnerStep, InitCalled, LockerCreated, RbbCreated,
       NoticeCreated, ThreadCreated, InitReturns, DeinitCalled, NodesFreed, LockerDeleted,
       RbbDestroyed, ThreadDeleted, RbDestroyed, DeinitReturns
  <2>. QED  BY <2>1, <2>2
<1>3. ASSUME Others
      PROVE  /\ made' = made /\ ulog' = ulog
             /\ live' \subseteq live \cup {NewAgain("node"), NewAgain("log")}
  BY <1>3 DEF Others, CallerStep, Called, Locked, NodeSet, Stored, RawPut, NoticeGiven,
     Unlocked, DrainStep, BlocksOutput, RawTested, RawMeasured, RawCopied, RawFreed, Noticed,
     TimedOut, Fault, vars, heap
<1>4. NewAgain("node") \in Objects("node") /\ NewAgain("log") \in Objects("log")
  BY <1>0, NewAgainIsNew
<1>. QED  BY <1>1, <1>2, <1>3, <1>4, OwnerOrOthers

\* Of the byte buffers, only that created last is known.
LEMMA NextBytesCounted == LifeInv /\ BytesCounted /\ [Next]_vars => BytesCounted'
<1>. SUFFICES ASSUME LifeInv, BytesCounted, [Next]_vars PROVE BytesCounted'
  OBVIOUS
<1>0. HeapTyped /\ UlogTyped /\ made["rb"] \in Nat
  BY DEF LifeInv, Types, HeapTyped, Kinds
<1>1. ASSUME \A c \in Callers : ~ RbCreated(c) PROVE BytesCounted'
  <2>1. /\ made'["rb"] = made["rb"] /\ ulog'.async_rb = ulog.async_rb
        /\ \A part \in {"rb", "pool"} : \A n \in Nat : <<part, n>> \in live' => <<part, n>> \in live
    BY <1>1, BytesKept DEF Objects
  <2>. QED  BY <2>1 DEF BytesCounted
<1>2. ASSUME NEW c \in Callers, RbCreated(c) PROVE BytesCounted'
  <2>1. PICK M \in Nat : M = made["rb"]
    BY <1>0
  <2>2. made'["rb"] = M + 1 /\ New("rb") = <<"rb", M + 1>>
    BY <1>0, <1>2, <2>1 DEF RbCreated, Made, New, HeapTyped, Kinds
  <2>3. \/ live' = live \cup Whole(<<"rb", M + 1>>) /\ ulog'.async_rb = <<"rb", M + 1>>
        \/ live' = live
    BY <1>0, <1>2, <2>2, NothingLeft DEF RbCreated, UlogTyped
  <2>4. Whole(<<"rb", M + 1>>) = {<<"rb", M + 1>>, <<"pool", M + 1>>}
    BY <2>1, Wholes
  <2>5. ASSUME NEW part \in {"rb", "pool"}, NEW n \in Nat, <<part, n>> \in live'
        PROVE  1 <= n /\ n <= M + 1 /\ (n = M + 1 => ulog'.async_rb = <<"rb", n>>)
    <3>1. CASE <<part, n>> \in live
      <4>1. 1 <= n /\ n <= M
        BY <2>1, <3>1 DEF BytesCounted
      <4>. QED  BY <4>1, <2>1
    <3>2. CASE <<part, n>> \notin live
      <4>1. n = M + 1 /\ ulog'.async_rb = <<"rb", M + 1>>
        BY <2>3, <2>4, <2>5, <3>2
      <4>. QED  BY <4>1, <2>1
    <3>. QED  BY <3>1, <3>2
  <2>. QED  BY <2>2, <2>5 DEF BytesCounted
<1>. QED  BY <1>1, <1>2
-----------------------------------------------------------------------------
\* Copies of raw data and filters.

\* Only the deletion of the thread loses a copy.
LEMMA CopiesLost ==
  ASSUME LifeInv, [Next]_vars, NEW o \in LostCopies', o \notin LostCopies
  PROVE  ThreadDeleted /\ o = copy[Thread]
<1>0. /\ HeapTyped /\ Copies /\ Null \notin live /\ Null \notin live' /\ HeapTyped'
  <2>1. Types'
    BY NextTypes DEF LifeInv
  <2>. QED  BY <2>1, NullAssumption DEF LifeInv, Types, HeapTyped
<1>1. o \in Objects("log") /\ o \in live' /\ o # Null /\ \A x \in Drainers : copy'[x] # o
  BY <1>0 DEF LostCopies, Of
<1>2. ASSUME o \notin live PROVE FALSE
  <2>1. \A c \in Callers : ~ RbCreated(c)
    <3>. SUFFICES ASSUME NEW c \in Callers, RbCreated(c) PROVE FALSE
      OBVIOUS
    <3>1. New("rb") \in Objects("rb")
      BY <1>0, NewTyped DEF Kinds
    <3>2. o \in Whole(New("rb"))
      BY <1>1, <1>2, NothingLeft DEF RbCreated
    <3>. QED  BY <1>1, <3>1, <3>2, WholeTyped, KindsApart DEF ObjectKinds, Objects
  <2>2. OwnerStep => FALSE
    <3>1. \A k \in ObjectKinds \ {"log"} : o \notin Objects(k)
      BY <1>1, KindsApart DEF ObjectKinds
    <3>. SUFFICES ASSUME OwnerStep PROVE FALSE
      OBVIOUS
    <3>2. \/ Within({}) \/ Within(Objects("locker")) \/ Within(Objects("th"))
          \/ Within(Objects("node")) \/ Within(Objects("locker") \cup Objects("notice"))
          \/ Within(Objects("locker") \cup Objects("rbb") \cup Objects("buf") \cup Objects("blk_set"))
          \/ Within(Objects("rbb") \cup Objects("buf") \cup Objects("blk_set"))
          \/ Within(Objects("rb") \cup Objects("pool"))
      BY OwnerWithin DEF OwnerStep, LifeInv
    <3>. QED  BY <1>1, <1>2, <3>1, <3>2 DEF Within, ObjectKinds
  <2>3. Others
    BY <2>2, OwnerOrOthers
  <2>4. \/ \E x \in Drainers : RawMeasured(x) /\ copy' = [copy EXCEPT ![x] = o]
        \/ o = NewAgain("node")
    BY <1>1, <1>2, <2>1, <2>3 DEF Others, CallerStep, Called, Locked, NodeSet, Stored, RawPut,
       NoticeGiven, Unlocked, DrainStep, BlocksOutput, RawTested, RawMeasured, RawCopied,
       RawFreed, Noticed, TimedOut, Fault, vars, heap
  <2>5. o # NewAgain("node")
    BY <1>0, <1>1, NewAgainIsNew, KindsApart DEF ObjectKinds
  <2>. QED  BY <1>0, <1>1, <2>4, <2>5 DEF HeapTyped
<1>3. o \in live
  BY <1>2
<1>4. PICK x \in Drainers : copy[x] = o
  BY <1>1, <1>3 DEF LostCopies, Of
<1>5. copy'[x] # copy[x]
  BY <1>1, <1>4
<1>6. CASE RawMeasured(x)
  BY <1>0, <1>1, <1>4, <1>6 DEF RawMeasured, Runs, Copies
<1>7. CASE RawFreed(x)
  BY <1>1, <1>4, <1>7 DEF RawFreed
<1>. QED  BY <1>4, <1>5, <1>6, <1>7, CopySteps

\* A copy no task holds was the thread's when ulog_deinit deleted it.
LEMMA NextCopiesCounted ==
  LifeInv /\ unnoticed \in Nat /\ CopiesCounted /\ [Next]_vars => CopiesCounted'
<1>. SUFFICES ASSUME LifeInv, unnoticed \in Nat, CopiesCounted, [Next]_vars
              PROVE  CopiesCounted'
  OBVIOUS
<1>0. Types /\ HeapTyped /\ deinits \in Nat
  BY DEF LifeInv, Types
<1>1. PICK A, B : A = LostCopies /\ B = LostCopies'
  OBVIOUS
<1>2. IsFiniteSet(A) /\ Cardinality(A) \in Nat
  <2>1. A \subseteq Of("log")
    BY <1>1 DEF LostCopies
  <2>. QED  BY <1>0, <2>1, OfFinite, NoMore
<1>3. B \subseteq A \cup {copy[Thread]} /\ (~ ThreadDeleted => B \subseteq A)
  BY <1>1, CopiesLost
<1>4. Cardinality(B) \in Nat /\ (~ ThreadDeleted => Cardinality(B) <= Cardinality(A))
      /\ Cardinality(B) <= Cardinality(A) + 1
  BY <1>2, <1>3, OneMore, NoMore
<1>5. PICK d, e \in {0, 1} : d = One(ThreadDoomed) /\ e = One(ThreadDoomed')
  BY DEF One
<1>6. Cardinality(A) + d <= deinits
  BY <1>1, <1>5 DEF CopiesCounted
<1>7. Cardinality(B) + e <= deinits'
  <2>1. CASE Others
    <3>1. deinits' = deinits /\ (ThreadDoomed' <=> ThreadDoomed)
      BY <2>1, OthersFixed DEF ThreadDoomed
    <3>2. e = d
      BY <1>5, <3>1 DEF One
    <3>3. ~ ThreadDeleted
      BY <1>0, <3>1, OwnerGoes DEF OwnerStep, ThreadDoomed
    <3>. QED  BY <1>0, <1>2, <1>4, <1>6, <3>1, <3>2, <3>3
  <2>2. CASE OwnerStep /\ ~ DeinitCalled /\ ~ ThreadDeleted
    <3>1. deinits' = deinits
      BY <1>0, <2>2, Counters
    <3>2. ThreadDoomed' => ThreadDoomed
      BY <1>0, <2>2, OwnerGoes DEF OwnerStep, ThreadDoomed
    <3>3. e <= d
      BY <1>5, <3>2 DEF One
    <3>. QED  BY <1>0, <1>2, <1>4, <1>6, <2>2, <3>1, <3>3
  <2>3. CASE DeinitCalled
    <3>1. OwnerStep /\ ~ ThreadDeleted
      BY <2>3 DEF OwnerStep, DeinitCalled, ThreadDeleted, Runs
    <3>2. deinits' = deinits + 1
      BY <1>0, <2>3, <3>1, Counters
    <3>. QED  BY <1>0, <1>2, <1>4, <1>5, <1>6, <3>1, <3>2
  <2>4. CASE ThreadDeleted
    <3>1. OwnerStep
      BY <2>4 DEF OwnerStep
    <3>2. pc[Owner] = "th_delete" /\ pc'[Owner] = "rb_destroy"
      BY <1>0, <2>4, <3>1, OwnerGoes
    <3>3. deinits' = deinits
      BY <2>4 DEF ThreadDeleted, counts
    <3>4. d = 1 /\ e = 0
      BY <1>5, <3>2 DEF One, ThreadDoomed
    <3>. QED  BY <1>0, <1>2, <1>4, <1>6, <3>3, <3>4
  <2>. QED  BY <2>1, <2>2, <2>3, <2>4, OwnerOrOthers
<1>8. Cardinality(LostCopies') + One(ThreadDoomed') <= deinits'
  BY <1>1, <1>5, <1>7
<1>. QED  BY Zenon, <1>8 DEF CopiesCounted, LostCopies, ThreadDoomed, One, Of, Objects, Drainers

\* Without calls that overlap ulog_deinit every tag filter is on the list.
LEMMA NextNodesKnown == LifeInv /\ NodesKnown /\ [Next]_vars => NodesKnown'
<1>. SUFFICES ASSUME LifeInv, NodesKnown, [Next]_vars, ~ overlap'
              PROVE  /\ Of("node")' \subseteq nodes'
                     /\ Up' \/ pc'[Owner] \in {"nodes", "link"} \/ nodes' = {}
  BY DEF NodesKnown
<1>0. /\ Types /\ UlogTyped /\ HeapTyped
  BY DEF LifeInv, Types
<1>1. ~ overlap
  BY DEF Next, vars, counts, OwnerStep, InitCalled, LockerCreated, RbbCreated, NoticeCreated,
     ThreadCreated, InitReturns, DeinitCalled, NodesFreed, LockerDeleted, RbbDestroyed,
     ThreadDeleted, RbDestroyed, DeinitReturns, CallerStep, Called, RbCreated, Locked, NodeSet,
     Stored, RawPut, NoticeGiven, Unlocked, DrainStep, BlocksOutput, RawTested, RawMeasured,
     RawCopied, RawFreed, Noticed, TimedOut, Fault
<1>2. Of("node") \subseteq nodes /\ (Up \/ pc[Owner] \in {"nodes", "link"} \/ nodes = {})
  BY <1>1 DEF NodesKnown
<1>3. ASSUME OwnerStep, ~ LockerCreated, ~ NodesFreed
      PROVE  /\ Of("node")' \subseteq nodes'
             /\ Up' \/ pc'[Owner] \in {"nodes", "link"} \/ nodes' = {}
  <2>1. nodes' = nodes
    BY <1>3 DEF OwnerStep, InitCalled, RbbCreated, NoticeCreated, ThreadCreated, InitReturns,
       DeinitCalled, LockerDeleted, RbbDestroyed, ThreadDeleted, RbDestroyed, DeinitReturns
  <2>2. Of("node")' = Of("node")
    <3>1. /\ \A k \in ObjectKinds \ {"node"} : Objects("node") \cap Objects(k) = {}
          /\ "node" \in ObjectKinds
      BY KindsApart DEF ObjectKinds
    <3>2. \/ Within({}) \/ Within(Objects("locker")) \/ Within(Objects("th"))
          \/ Within(Objects("rb") \cup Objects("pool")) \/ Within(Objects("locker") \cup Objects("notice"))
          \/ Within(Objects("locker") \cup Objects("rbb") \cup Objects("buf") \cup Objects("blk_set"))
          \/ Within(Objects("rbb") \cup Objects("buf") \cup Objects("blk_set"))
      BY <1>0, <1>3, OwnerWithin DEF OwnerStep
    <3>. QED  BY <3>1, <3>2, WithinKeeps DEF ObjectKinds
  <2>3. Up \/ pc[Owner] \in {"nodes", "link"} => pc'[Owner] = "nodes"
    BY <1>0, <1>3, OwnerGoes DEF OwnerStep, Up, Down
  <2>. QED  BY <1>2, <2>1, <2>2, <2>3
<1>4. ASSUME LockerCreated
      PROVE  Of("node")' \subseteq nodes' /\ nodes' = {}
  <2>1. OwnerStep
    BY <1>4 DEF OwnerStep
  <2>2. pc[Owner] = "locker" /\ Of("node") = {} /\ nodes = {}
    BY <1>0, <1>2, <1>4, <2>1, OwnerGoes DEF Up
  <2>3. Of("node")' = Of("node")
    <3>1. Within(Objects("locker")) /\ Objects("node") \cap Objects("locker") = {}
      BY <1>0, <1>4, <2>1, OwnerWithin, KindsApart DEF ObjectKinds
    <3>. QED  BY <3>1, WithinKeeps
  <2>. QED  BY <1>4, <2>2, <2>3 DEF LockerCreated
<1>5. ASSUME NodesFreed
      PROVE  /\ Of("node")' \subseteq nodes'
             /\ Up' \/ pc'[Owner] \in {"nodes", "link"} \/ nodes' = {}
  <2>1. OwnerStep /\ live' \subseteq live /\ nodes' = nodes
    BY <1>5 DEF OwnerStep, NodesFreed
  <2>. QED  BY <1>0, <1>2, <1>5, <2>1, OwnerGoes DEF Of
<1>6. ASSUME Others
      PROVE  /\ Of("node")' \subseteq nodes'
             /\ Up' \/ pc'[Owner] \in {"nodes", "link"} \/ nodes' = {}
  <2>1. Up' = Up /\ pc'[Owner] = pc[Owner]
    BY <1>6, OthersFixed
  <2>2. CASE \E c \in Callers : NodeSet(c)
    <3>1. PICK c \in Callers : NodeSet(c)
      BY <2>2
    <3>2. pc[c] = "node" /\ Up
      BY <1>1, <3>1 DEF LifeInv, CallsWithin, NodeSet, Runs
    <3>3. Of("node")' \subseteq nodes'
      BY <1>2, <3>1 DEF NodeSet, Of
    <3>. QED  BY <2>1, <3>2, <3>3
  <2>3. CASE \A c \in Callers : ~ NodeSet(c)
    <3>1. nodes' = nodes
      BY <1>6, <2>3 DEF Others, CallerStep, Called, RbCreated, Locked, Stored, RawPut,
         NoticeGiven, Unlocked, DrainStep, BlocksOutput, RawTested, RawMeasured, RawCopied,
         RawFreed, Noticed, TimedOut, Fault, vars
    <3>2. Of("node")' \subseteq Of("node")
      <4>1. \A c \in Callers : RbCreated(c) => live' \subseteq live \cup Whole(New("rb"))
        BY NothingLeft DEF RbCreated
      <4>2. (\A c \in Callers : ~ RbCreated(c)) => live' \subseteq live \cup {NewAgain("log")}
        BY <1>6, <2>3 DEF Others, CallerStep, Called, Locked, Stored, RawPut, NoticeGiven,
           Unlocked, DrainStep, BlocksOutput, RawTested, RawMeasured, RawCopied, RawFreed,
           Noticed, TimedOut, Fault, vars, heap
      <4>3. NewAgain("log") \in Objects("log") /\ New("rb") \in Objects("rb")
        BY <1>0, NewAgainIsNew, NewTyped DEF ObjectKinds, Kinds
      <4>4. Objects("node") \cap ({NewAgain("log")} \cup Whole(New("rb"))) = {}
        BY <4>3, WholeTyped, KindsApart DEF ObjectKinds
      <4>. QED  BY <4>1, <4>2, <4>4 DEF Of
    <3>. QED  BY <1>2, <2>1, <3>1, <3>2
  <2>. QED  BY <2>2, <2>3
<1>. QED  BY <1>3, <1>4, <1>5, <1>6, OwnerOrOthers
-----------------------------------------------------------------------------
\* An object is lost when no pointer of the program leads to it.
LEMMA LeakedAre ==
  ASSUME HeapTyped, NEW kind, NEW o \in Leaked(kind)
  PROVE  /\ o \in Of(kind) /\ o \notin nodes /\ \A x \in Drainers : copy[x] # o
         /\ o # ulog.output_locker /\ o # ulog.async_notice /\ o # ulog.async_th
         /\ o \notin Whole(ulog.async_rbb) /\ o \notin Whole(ulog.async_rb)
<1>. DEFINE handles == {ulog.output_locker, ulog.async_rbb, ulog.async_notice, ulog.async_th,
                        ulog.async_rb}
<1>1. /\ o \in live /\ Kind(o) = kind
      /\ o \notin UNION {Whole(p) : p \in handles} /\ o \notin nodes
      /\ o \notin {copy[x] : x \in Drainers}
  <2>. DEFINE wholes == UNION {Whole(p) : p \in handles}
              copies == {copy[x] : x \in Drainers}
  <2>1. o \in {p \in live \ (wholes \cup nodes \cup copies) : Kind(p) = kind}
    BY Zenon DEF Leaked, Drainers
  <2>. HIDE DEF wholes, copies
  <2>2. o \in live /\ Kind(o) = kind /\ o \notin wholes /\ o \notin nodes /\ o \notin copies
    BY <2>1
  <2>. QED  BY <2>2, Zenon DEF wholes, copies
<1>2. \A p \in handles : o \notin Whole(p) /\ o # p
  BY <1>1 DEF Whole
<1>3. o \in Objects(kind)
  BY <1>1 DEF HeapTyped, Objects, Kind
<1>. QED  BY <1>1, <1>2, <1>3 DEF Of

\* In numbers 1 .. M without the last.
LEMMA FewerThan ==
  ASSUME NEW M \in Nat, NEW part \in {"rb", "pool"}, NEW A, A # {},
         \A o \in A : \E n \in 1 .. M : n # M /\ o = <<part, n>>
  PROVE  Cardinality(A) < M
<1>. DEFINE all == {<<part, n>> : n \in 1 .. M - 1}
<1>1. M >= 1 /\ A \subseteq all
  <2>1. \A n \in 1 .. M : n # M => n \in 1 .. M - 1 /\ M >= 1
    OBVIOUS
  <2>. QED  BY <2>1
<1>2. IsFiniteSet(1 .. M - 1) /\ Cardinality(1 .. M - 1) = M - 1
  <2>1. 1 \in Int /\ M - 1 \in Int /\ (1 > M - 1 => M - 1 = 0) /\ (M - 1) - 1 + 1 = M - 1
    BY <1>1
  <2>. QED  BY <2>1, FS_Interval
<1>3. IsFiniteSet(all) /\ Cardinality(all) = M - 1
  <2>. DEFINE f == [n \in 1 .. M - 1 |-> <<part, n>>]
  <2>1. f \in Bijection(1 .. M - 1, all)
    BY <1>1 DEF Bijection, Injection, Surjection, IsInjective
  <2>. QED  BY <1>2, <2>1, FS_Bijection DEF ExistsBijection
<1>4. Cardinality(A) \in Nat /\ Cardinality(A) <= M - 1
  BY <1>1, <1>3, NoMore
<1>. QED  BY <1>4

\* The counts give what the property says.
LEMMA LeaksCounted ==
  ASSUME LifeInv, LeakInv
  PROVE  NothingElseLeaks
<1>0. /\ UlogTyped /\ HeapTyped /\ Stages /\ Null \notin live
      /\ deinits \in Nat /\ unnoticed \in Nat /\ made["rb"] \in Nat
  BY NullAssumption DEF LifeInv, LeakInv, Types, HeapTyped, Kinds
<1>1. ASSUME NEW part \in BlockParts PROVE Cardinality(Leaked(part)) <= unnoticed
  <2>1. /\ IsFiniteSet(Of(part)) /\ Cardinality(Of(part)) \in Nat
        /\ Cardinality(Of(part)) <= unnoticed + One(BlocksInUse)
    BY <1>0, OfFinite DEF LeakInv, BlocksCounted
  <2>2. Leaked(part) \subseteq Of(part)
    BY <1>0, LeakedAre
  <2>3. CASE BlocksInUse
    <3>1. ulog.async_rbb \in Objects("rbb") /\ Whole(ulog.async_rbb) \subseteq live
      <4>1. Whole(ulog.async_rbb) \subseteq live
        BY <1>0, <2>3 DEF Stages, BlocksInUse
      <4>. QED  BY <1>0, <4>1, Wholes DEF UlogTyped
    <3>2. <<part, ulog.async_rbb[2]>> \in Of(part)
      BY <3>1, PartsOfRbb DEF Of
    <3>3. Leaked(part) \subseteq Of(part) \ {<<part, ulog.async_rbb[2]>>}
      BY <1>0, <2>2, <3>1, PartsOfRbb, LeakedAre
    <3>4. /\ Cardinality(Leaked(part)) \in Nat
          /\ Cardinality(Leaked(part)) <= Cardinality(Of(part)) - 1
      BY <2>1, <3>2, <3>3, OneLess
    <3>5. One(BlocksInUse) \in {0, 1}
      BY DEF One
    <3>. QED  BY <1>0, <2>1, <3>4, <3>5
  <2>4. CASE ~ BlocksInUse
    <3>1. One(BlocksInUse) = 0
      BY <2>4 DEF One
    <3>2. Cardinality(Leaked(part)) \in Nat /\ Cardinality(Leaked(part)) <= Cardinality(Of(part))
      BY <2>1, <2>2, NoMore
    <3>. QED  BY <1>0, <2>1, <3>1, <3>2
  <2>. QED  BY <2>3, <2>4
<1>2. Cardinality(Leaked("notice")) <= deinits
  <2>1. /\ IsFiniteSet(Of("notice")) /\ Cardinality(Of("notice")) \in Nat
        /\ Cardinality(Of("notice")) <= deinits + One(NoticeInUse)
    BY <1>0, OfFinite DEF LeakInv, NoticesCounted
  <2>2. Leaked("notice") \subseteq Of("notice") \ {ulog.async_notice}
    BY <1>0, LeakedAre
  <2>3. CASE NoticeInUse
    <3>1. ulog.async_notice \in Of("notice")
      <4>1. ulog.async_notice \in live
        BY <1>0, <2>3 DEF Stages, NoticeInUse
      <4>. QED  BY <1>0, <4>1 DEF UlogTyped, Of
    <3>2. /\ Cardinality(Leaked("notice")) \in Nat
          /\ Cardinality(Leaked("notice")) <= Cardinality(Of("notice")) - 1
      BY <2>1, <2>2, <3>1, OneLess
    <3>3. One(NoticeInUse) \in {0, 1}
      BY DEF One
    <3>. QED  BY <1>0, <2>1, <3>2, <3>3
  <2>4. CASE ~ NoticeInUse
    <3>1. One(NoticeInUse) = 0
      BY <2>4 DEF One
    <3>2. Leaked("notice") \subseteq Of("notice")
      BY <2>2
    <3>3. /\ Cardinality(Leaked("notice")) \in Nat
          /\ Cardinality(Leaked("notice")) <= Cardinality(Of("notice"))
      BY <2>1, <3>2, NoMore
    <3>. QED  BY <1>0, <2>1, <3>1, <3>3
  <2>. QED  BY <2>3, <2>4
<1>3. ASSUME NEW part \in {"rb", "pool"}, Leaked(part) # {}
      PROVE  Cardinality(Leaked(part)) < made["rb"]
  <2>1. ASSUME NEW o \in Leaked(part)
        PROVE  \E n \in 1 .. made["rb"] : n # made["rb"] /\ o = <<part, n>>
    <3>1. PICK n \in Nat : o = <<part, n>> /\ <<part, n>> \in live
      BY <1>0, <2>1, LeakedAre DEF Of, Objects
    <3>2. 1 <= n /\ n <= made["rb"] /\ (n = made["rb"] => ulog.async_rb = <<"rb", n>>)
      BY <3>1 DEF LeakInv, BytesCounted
    <3>3. <<part, n>> \in Whole(<<"rb", n>>)
      BY <1>3, Wholes
    <3>4. n # made["rb"]
      BY <1>0, <2>1, <3>1, <3>2, <3>3, LeakedAre
    <3>. QED  BY <1>0, <3>1, <3>2, <3>4
  <2>2. PICK M, A : M = made["rb"] /\ A = Leaked(part)
    OBVIOUS
  <2>3. M \in Nat /\ A # {} /\ \A o \in A : \E n \in 1 .. M : n # M /\ o = <<part, n>>
    BY <1>0, <1>3, <2>1, <2>2
  <2>4. Cardinality(A) < M
    BY <2>3, <1>3, FewerThan
  <2>. QED  BY <2>2, <2>4
<1>4. Cardinality(Leaked("log")) <= deinits
  <2>1. Leaked("log") \subseteq LostCopies /\ LostCopies \subseteq Of("log")
    BY <1>0, LeakedAre DEF LostCopies
  <2>2. IsFiniteSet(LostCopies) /\ Cardinality(LostCopies) \in Nat
    BY <1>0, <2>1, OfFinite, NoMore
  <2>3. /\ Cardinality(Leaked("log")) \in Nat
        /\ Cardinality(Leaked("log")) <= Cardinality(LostCopies)
    BY <2>1, <2>2, NoMore
  <2>4. Cardinality(LostCopies) + One(ThreadDoomed) <= deinits /\ One(ThreadDoomed) \in {0, 1}
    BY DEF LeakInv, CopiesCounted, One
  <2>. QED  BY <1>0, <2>2, <2>3, <2>4
<1>5. Leaked("node") # {} => overlap
  BY <1>0, LeakedAre DEF LeakInv, NodesKnown
<1>6. Leaked("locker") = {} /\ Leaked("th") = {}
  BY <1>0, LeakedAre DEF LeakInv, LockersKnown, ThreadsKnown
<1>. QED  BY <1>1, <1>2, <1>3, <1>4, <1>5, <1>6 DEF NothingElseLeaks, BlockParts

\* Nothing was lost at the beginning.
LEMMA InitLeak == Init => LeakInv
<1>. SUFFICES ASSUME Init PROVE LeakInv
  OBVIOUS
<1>1. /\ live = {} /\ nodes = {} /\ unnoticed = 0 /\ deinits = 0
      /\ pc[Owner] = "out" /\ \A kind : Of(kind) = {}
  BY TasksDiffer DEF Init, Of
<1>2. Cardinality({}) = 0
  BY FS_EmptySet
<1>3. /\ One(BlocksInUse) \in {0, 1} /\ One(NoticeInUse) \in {0, 1}
      /\ ~ ThreadDoomed
  BY <1>1 DEF One, ThreadDoomed
<1>4. One(ThreadDoomed) = 0
  BY <1>3 DEF One
<1>5. LostCopies = {}
  BY <1>1 DEF LostCopies
<1>6. BlocksCounted /\ NoticesCounted
  <2>1. PICK m, n \in {0, 1} : m = One(BlocksInUse) /\ n = One(NoticeInUse)
    BY <1>3
  <2>2. 0 <= 0 + m /\ 0 <= 0 + n
    OBVIOUS
  <2>. QED  BY <1>1, <1>2, <2>1, <2>2 DEF BlocksCounted, NoticesCounted
<1>7. CopiesCounted
  BY <1>1, <1>2, <1>4, <1>5 DEF CopiesCounted
<1>. QED  BY <1>1, <1>6, <1>7
          DEF LeakInv, LockersKnown, ThreadsKnown, BytesCounted, NodesKnown

\* The counts are inductive.
LEMMA NextLeak == LifeInv /\ LeakInv /\ [Next]_vars => LeakInv'
<1>. SUFFICES ASSUME LifeInv, LeakInv, [Next]_vars PROVE LeakInv'
  OBVIOUS
<1>1. unnoticed' \in Nat
  <2>1. OwnerStep => unnoticed' \in Nat
    <3>1. deinits \in Nat /\ unnoticed \in Nat
      BY DEF LifeInv, Types, LeakInv
    <3>. QED  BY <3>1, Counters
  <2>2. Others => unnoticed' = unnoticed
    BY OthersFixed
  <2>. QED  BY <2>1, <2>2, OwnerOrOthers DEF LeakInv
<1>2. LockersKnown' /\ ThreadsKnown' /\ BytesCounted' /\ NodesKnown'
  BY NextLockers, NextThreads, NextBytesCounted, NextNodesKnown DEF LeakInv
<1>3. BlocksCounted' /\ NoticesCounted' /\ CopiesCounted'
  BY NextBlocksCounted, NextNoticesCounted, NextCopiesCounted DEF LeakInv
<1>. QED  BY <1>1, <1>2, <1>3 DEF LeakInv

\* Through all failures and lives nothing is lost but what NothingElseLeaks
\* counts: no mutex and no thread, a block buffer only by an ulog_init that fails
\* at the notice, a notice and a copy by each ulog_deinit, a filter only when
\* calls overlap ulog_deinit, and never the byte buffer created last.
THEOREM LeaksAreCounted == Spec => []NothingElseLeaks
<1>1. LifeInv /\ LeakInv /\ [Next]_vars => LeakInv'
  BY NextLeak
<1>2. LifeInv /\ LeakInv => NothingElseLeaks
  BY LeaksCounted
<1>. QED  BY <1>1, <1>2, InitLeak, LifeInvariant, PTL DEF Spec
=============================================================================
