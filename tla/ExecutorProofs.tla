--------------------------- MODULE ExecutorProofs ---------------------------
(***************************************************************************)
(* Theorems about the executor, for every set of futures, every loop and   *)
(* every bound.                                                            *)
(***************************************************************************)
EXTENDS Executor, FiniteSetTheorems, TLAPS

(* Strengthenings.  A source that is about to store has an id to store, a  *)
(* future in the reactor's batch has a waker to wake, and a shard that has *)
(* published `parked` either still has it set or has been unparked.        *)
SourceArmed == \A f \in All : spc[f] = "store" => sid[f] # NoWaker
BatchArmed  == \A f \in batch : waker[f] # NoWaker
ParkedUnlessWoken ==
    pc \in {"recheck", "sleep"} => parked \/ unpark \/ \E f \in All : spc[f] = "unpark"

(* Every live task is queued, being drained, about to be queued, or has    *)
(* left its waker where the event will find it.                            *)
Reachable(i, f) ==
    \/ i \in Elems(ready) \/ i \in Elems(buf)
    \/ spc[f] = "store" /\ sid[f] = i
    \/ waker[f] = i /\ (f \in IoFutures \/ ~event[f])

TaskReachable == \A i \in Ids : tasks.slots[i] # NoTask => Reachable(i, tasks.slots[i])

IInv == /\ TypeOK /\ SourceArmed /\ BatchArmed
        /\ ParkedUnlessWoken /\ NoSleepOverReady
        /\ SlabExact /\ TaskReachable

-----------------------------------------------------------------------------
(* What the sequence operators do to the set of queued ids.                *)
LEMMA ElemsAppend ==
    ASSUME NEW S, NEW s \in Seq(S), NEW x \in S
    PROVE  Append(s, x) \in Seq(S) /\ Elems(Append(s, x)) = Elems(s) \cup {x}
BY DEF Elems

LEMMA ElemsConcat ==
    ASSUME NEW S, NEW s \in Seq(S), NEW t \in Seq(S)
    PROVE  s \o t \in Seq(S) /\ Elems(s \o t) = Elems(s) \cup Elems(t)
<1>1. s \o t \in Seq(S)
  OBVIOUS
<1>2. ASSUME NEW x \in Elems(s \o t) PROVE x \in Elems(s) \cup Elems(t)
  BY DEF Elems
<1>3. ASSUME NEW x \in Elems(s) PROVE x \in Elems(s \o t)
  BY DEF Elems
<1>4. ASSUME NEW x \in Elems(t) PROVE x \in Elems(s \o t)
  <2>1. PICK k \in 1 .. Len(t) : x = t[k]
    BY DEF Elems
  <2>2. Len(s) + k \in 1 .. Len(s \o t) /\ (s \o t)[Len(s) + k] = x
    BY <2>1
  <2> QED BY <2>2 DEF Elems
<1> QED BY <1>1, <1>2, <1>3, <1>4

LEMMA ElemsTail ==
    ASSUME NEW S, NEW s \in Seq(S), s # <<>>
    PROVE  /\ Tail(s) \in Seq(S) /\ Head(s) \in S
           /\ Elems(s) = Elems(Tail(s)) \cup {Head(s)}
<1>1. Len(s) \in Nat \ {0} /\ Head(s) = s[1] /\ Tail(s) \in Seq(S) /\ Head(s) \in S
  OBVIOUS
<1>2. ASSUME NEW x \in Elems(s) PROVE x \in Elems(Tail(s)) \cup {Head(s)}
  <2>1. PICK k \in 1 .. Len(s) : x = s[k]
    BY DEF Elems
  <2>2. CASE k = 1
    BY <2>1, <2>2, <1>1
  <2>3. CASE k # 1
    <3>1. k - 1 \in 1 .. Len(Tail(s)) /\ Tail(s)[k - 1] = x
      BY <2>1, <2>3, <1>1
    <3> QED BY <3>1 DEF Elems
  <2> QED BY <2>2, <2>3
<1>3. ASSUME NEW x \in Elems(Tail(s)) PROVE x \in Elems(s)
  <2>1. PICK k \in 1 .. Len(Tail(s)) : x = Tail(s)[k]
    BY DEF Elems
  <2>2. k + 1 \in 1 .. Len(s) /\ s[k + 1] = x
    BY <2>1, <1>1
  <2> QED BY <2>2 DEF Elems
<1>4. Head(s) \in Elems(s)
  BY <1>1 DEF Elems
<1> QED BY <1>1, <1>2, <1>3, <1>4

LEMMA ElemsEmpty == Elems(<<>>) = {}
BY DEF Elems

-----------------------------------------------------------------------------
(* Slab::insert takes a slot no task has; Slab::remove makes it reusable.  *)
LEMMA InsertSlab ==
    ASSUME NEW t \in Slab, GoodSlab(t), HasRoom(t), NEW f \in Futures,
           \A i \in Ids : t.slots[i] # f
    PROVE  /\ NewId(t) \in Ids /\ t.slots[NewId(t)] = NoTask
           /\ SlabInsert(t, f) \in Slab
           /\ SlabInsert(t, f).slots = [t.slots EXCEPT ![NewId(t)] = f]
           /\ GoodSlab(SlabInsert(t, f))
<1> DEFINE u == SlabInsert(t, f)
<1>0. /\ t.slots \in [Ids -> Futures \cup {NoTask}] /\ t.free \in Seq(Ids)
      /\ t.size \in 0 .. MaxTasks /\ MaxTasks \in Nat \ {0} /\ NoTask # f
  BY ExecutorAssumption DEF Slab
<1>1. NewId(t) \in Ids /\ t.slots[NewId(t)] = NoTask
  <2>1. CASE t.free # <<>>
    <3>1. Len(t.free) \in 1 .. Len(t.free)
      BY <1>0, <2>1
    <3> QED BY <1>0, <2>1, <3>1 DEF NewId, GoodSlab, Elems
  <2>2. CASE t.free = <<>>
    BY <1>0, <2>2 DEF NewId, HasRoom, GoodSlab, Ids
  <2> QED BY <2>1, <2>2
<1>2. u.slots = [t.slots EXCEPT ![NewId(t)] = f]
  BY DEF SlabInsert
<1>3. u.slots \in [Ids -> Futures \cup {NoTask}]
  BY <1>0, <1>1, <1>2
<1>4. CASE t.free # <<>>
  <2>1. u.free = SubSeq(t.free, 1, Len(t.free) - 1) /\ u.size = t.size
    BY <1>4 DEF SlabInsert
  <2>2. /\ u.free \in Seq(Ids) /\ Len(u.free) = Len(t.free) - 1
        /\ \A m \in 1 .. Len(u.free) : u.free[m] = t.free[m]
        /\ Len(t.free) \in Nat \ {0} /\ NewId(t) = t.free[Len(t.free)]
    BY <1>0, <1>4, <2>1 DEF NewId
  <2>3. u \in Slab
    BY <1>0, <1>3, <2>1, <2>2 DEF Slab, SlabInsert
  <2> HIDE DEF u
  <2>a. \A m \in 1 .. Len(u.free) : m \in 1 .. Len(t.free) /\ m # Len(t.free)
    BY <2>2
  <2>b. \A m \in 1 .. Len(t.free) : m # Len(t.free) => m \in 1 .. Len(u.free)
    BY <2>2
  <2>c. \A m, n \in 1 .. Len(t.free) : t.free[m] = t.free[n] => m = n
    BY DEF GoodSlab
  <2>4. \A m, n \in 1 .. Len(u.free) : u.free[m] = u.free[n] => m = n
    BY <2>2, <2>a, <2>c
  <2>5. \A i \in Ids : i \in Elems(u.free) <=> i \in Elems(t.free) /\ i # NewId(t)
    <3>1. Len(t.free) \in 1 .. Len(t.free)
      BY <2>2
    <3>2. ASSUME NEW m \in 1 .. Len(u.free)
          PROVE  u.free[m] \in Elems(t.free) /\ u.free[m] # NewId(t)
      BY <2>2, <2>a, <2>c, <3>1 DEF Elems
    <3>3. ASSUME NEW m \in 1 .. Len(t.free), t.free[m] # NewId(t)
          PROVE  t.free[m] \in Elems(u.free)
      <4>1. m \in 1 .. Len(u.free)
        BY <2>2, <2>b, <3>3
      <4> QED BY <2>2, <4>1 DEF Elems
    <3> QED BY <3>2, <3>3 DEF Elems
  <2>6. \A i, j \in Ids : u.slots[i] = u.slots[j] /\ u.slots[i] # NoTask => i = j
    BY <1>0, <1>1, <1>2 DEF GoodSlab
  <2>7. ASSUME NEW i \in Ids
        PROVE  /\ i \in Elems(u.free) <=> i < u.size /\ u.slots[i] = NoTask
               /\ i >= u.size => u.slots[i] = NoTask
    <3>1. NewId(t) \in Elems(t.free)
      BY <2>2 DEF Elems
    <3>2. NewId(t) < t.size
      BY <1>0, <1>1, <3>1 DEF GoodSlab
    <3>3. CASE i = NewId(t)
      BY <1>0, <1>1, <1>2, <2>1, <2>5, <3>2, <3>3 DEF Ids
    <3>4. CASE i # NewId(t)
      BY <1>0, <1>1, <1>2, <2>1, <2>5, <3>4 DEF GoodSlab
    <3> QED BY <3>3, <3>4
  <2>8. GoodSlab(u)
    BY <2>4, <2>6, <2>7 DEF GoodSlab
  <2> QED BY <1>1, <1>2, <2>3, <2>8 DEF u
<1>5. CASE t.free = <<>>
  <2>1. u.free = <<>> /\ u.size = t.size + 1 /\ NewId(t) = t.size /\ t.size < MaxTasks
    BY <1>0, <1>5 DEF SlabInsert, NewId, HasRoom
  <2>2. u \in Slab
    BY <1>0, <1>3, <2>1 DEF Slab, SlabInsert
  <2>3. Elems(u.free) = {} /\ Elems(t.free) = {}
    BY <1>5, <2>1, ElemsEmpty
  <2>4. GoodSlab(u)
    <3>1. \A i, j \in Ids : u.slots[i] = u.slots[j] /\ u.slots[i] # NoTask => i = j
      BY <1>0, <1>1, <1>2 DEF GoodSlab
    <3>2. ASSUME NEW i \in Ids
          PROVE  /\ i \in Elems(u.free) <=> i < u.size /\ u.slots[i] = NoTask
                 /\ i >= u.size => u.slots[i] = NoTask
      BY <1>0, <1>1, <1>2, <2>1, <2>3 DEF GoodSlab, Ids
    <3>3. Len(u.free) = 0
      BY <2>1
    <3> QED BY <3>1, <3>2, <3>3 DEF GoodSlab
  <2> QED BY <1>1, <1>2, <2>2, <2>4
<1> QED BY <1>4, <1>5

LEMMA RemoveSlab ==
    ASSUME NEW t \in Slab, GoodSlab(t), NEW k \in Ids, t.slots[k] # NoTask
    PROVE  /\ SlabRemove(t, k) \in Slab
           /\ SlabRemove(t, k).slots = [t.slots EXCEPT ![k] = NoTask]
           /\ GoodSlab(SlabRemove(t, k))
<1> DEFINE u == SlabRemove(t, k)
<1>0. /\ t.slots \in [Ids -> Futures \cup {NoTask}] /\ t.free \in Seq(Ids)
      /\ t.size \in 0 .. MaxTasks
  BY DEF Slab
<1>1. u = [slots |-> [t.slots EXCEPT ![k] = NoTask], free |-> Append(t.free, k),
           size |-> t.size]
  BY DEF SlabRemove
<1>2. Append(t.free, k) \in Seq(Ids) /\ Elems(Append(t.free, k)) = Elems(t.free) \cup {k}
  BY <1>0, ElemsAppend
<1>3. u \in Slab
  BY <1>0, <1>1, <1>2 DEF Slab
<1>4. k < t.size /\ k \notin Elems(t.free)
  BY <1>0 DEF GoodSlab, Ids
<1>5. \A m, n \in 1 .. Len(u.free) : u.free[m] = u.free[n] => m = n
  BY <1>0, <1>1, <1>4 DEF GoodSlab, Elems
<1>6. GoodSlab(u)
  BY <1>0, <1>1, <1>2, <1>4, <1>5 DEF GoodSlab
<1> QED BY <1>1, <1>3, <1>6

-----------------------------------------------------------------------------
LEMMA Schedule ==
    ASSUME TypeOK, NEW ids \in Seq(Ids), NEW main \in BOOLEAN, ScheduleHere(ids, main)
    PROVE  /\ ready' \in Seq(Ids) /\ Elems(ready') = Elems(ready) \cup Elems(ids)
           /\ parked' \in BOOLEAN /\ mainWoken' \in BOOLEAN /\ unpark' \in BOOLEAN
<1>1. ready' \in Seq(Ids) /\ Elems(ready') = Elems(ready) \cup Elems(ids)
  BY ElemsConcat DEF TypeOK, ScheduleHere
<1>2. parked' \in BOOLEAN /\ mainWoken' \in BOOLEAN /\ unpark' \in BOOLEAN
  BY DEF TypeOK, ScheduleHere
<1> QED BY <1>1, <1>2

LEMMA OneId ==
    ASSUME NEW i \in Ids
    PROVE  <<i>> \in Seq(Ids) /\ Elems(<<i>>) = {i}
BY DEF Elems

LEMMA NoIds == <<>> \in Seq(Ids)
OBVIOUS

(* A future that can be spawned has no slot yet, so the insert is sound.   *)
LEMMA SpawnSlab ==
    ASSUME TypeOK, SlabExact, NEW g \in Futures, CanSpawn(g)
    PROVE  /\ NewId(tasks) \in Ids /\ tasks.slots[NewId(tasks)] = NoTask
           /\ SlabInsert(tasks, g) \in Slab
           /\ SlabInsert(tasks, g).slots = [tasks.slots EXCEPT ![NewId(tasks)] = g]
           /\ GoodSlab(SlabInsert(tasks, g))
<1>1. tasks \in Slab /\ GoodSlab(tasks) /\ HasRoom(tasks)
  BY DEF TypeOK, SlabExact, CanSpawn
<1>2. \A i \in Ids : tasks.slots[i] # g
  BY DEF SlabExact, CanSpawn
<1> QED BY <1>1, <1>2, InsertSlab

(* What one step of PollReady leaves in the slab.                          *)
LEMMA PollReadySlab ==
    ASSUME TypeOK, SlabExact, NEW f \in Futures, NEW k \in Ids, tasks.slots[k] = f,
           NEW g \in Futures, CanSpawn(g)
    PROVE  /\ SlabRemove(SlabInsert(tasks, g), k) \in Slab
           /\ SlabRemove(SlabInsert(tasks, g), k).slots =
                 [tasks.slots EXCEPT ![NewId(tasks)] = g, ![k] = NoTask]
           /\ GoodSlab(SlabRemove(SlabInsert(tasks, g), k))
           /\ NewId(tasks) \in Ids /\ NewId(tasks) # k
<1> DEFINE t == SlabInsert(tasks, g)
<1>1. /\ NewId(tasks) \in Ids /\ tasks.slots[NewId(tasks)] = NoTask
      /\ t \in Slab /\ GoodSlab(t)
      /\ t.slots = [tasks.slots EXCEPT ![NewId(tasks)] = g]
  BY SpawnSlab
<1>2. f # NoTask
  BY ExecutorAssumption
<1>3. NewId(tasks) # k
  BY <1>1, <1>2
<1>4. tasks.slots \in [Ids -> Futures \cup {NoTask}]
  BY DEF TypeOK, Slab
<1>5. t.slots[k] = f
  BY <1>1, <1>3, <1>4
<1> HIDE DEF t
<1>6. /\ SlabRemove(t, k) \in Slab
      /\ SlabRemove(t, k).slots = [t.slots EXCEPT ![k] = NoTask]
      /\ GoodSlab(SlabRemove(t, k))
  BY <1>1, <1>2, <1>5, RemoveSlab
<1> QED BY <1>1, <1>3, <1>6 DEF t

-----------------------------------------------------------------------------
(* The types, and the two facts they need: whoever schedules has an id.    *)
Typed == TypeOK /\ SourceArmed /\ BatchArmed

LEMMA TypeInit == Init => Typed
<1> SUFFICES ASSUME Init PROVE Typed
  OBVIOUS
<1>1. EmptySlab \in Slab
  BY ExecutorAssumption DEF EmptySlab, Slab
<1>2. tasks \in Slab
  BY <1>1 DEF Init
<1>3. ready \in Seq(Ids) /\ buf \in Seq(Ids)
  BY NoIds DEF Init
<1>4. /\ pc \in {"take", "enter"} /\ tick \in Nat /\ batch \subseteq IoFutures
      /\ state \in [All -> {"unborn", "live", "done"}]
      /\ early \in 0 .. MaxEarly /\ loop \in Loops
  BY ExecutorAssumption DEF Init
<1>5. /\ event \in [All -> BOOLEAN] /\ elapsed \in BOOLEAN
      /\ parked \in BOOLEAN /\ mainWoken \in BOOLEAN /\ unpark \in BOOLEAN
      /\ waker \in [All -> Ids \cup {MAIN_TASK, NoWaker}]
      /\ sid \in [All -> Ids \cup {MAIN_TASK, NoWaker}]
      /\ spc \in [All -> {"idle", "store", "swap", "unpark"}]
  BY DEF Init
<1>6. TypeOK
  BY <1>2, <1>3, <1>4, <1>5 DEF TypeOK
<1> QED BY <1>6 DEF Typed, Init, SourceArmed, BatchArmed

LEMMA TypeStep == Typed /\ SlabExact /\ [Next]_vars => Typed'
<1> SUFFICES ASSUME Typed, SlabExact, [Next]_vars PROVE Typed'
  OBVIOUS
<1> USE DEF Typed
<1>1. ASSUME NEW f \in Futures, SpawnFirst(f) PROVE Typed'
  <2>1. /\ SlabInsert(tasks, f) \in Slab /\ NewId(tasks) \in Ids
    BY <1>1, SpawnSlab DEF SpawnFirst
  <2>2. /\ ready' \in Seq(Ids) /\ parked' \in BOOLEAN
        /\ mainWoken' \in BOOLEAN /\ unpark' \in BOOLEAN
    BY <1>1, <2>1, Schedule, OneId DEF SpawnFirst
  <2> QED
    BY <1>1, <2>1, <2>2 DEF SpawnFirst, TypeOK, SourceArmed, BatchArmed, srcVars, All
<1>2. CASE Enter
  BY <1>2 DEF Enter, TypeOK, SourceArmed, BatchArmed, srcVars
<1>3. CASE TakeMain
  BY <1>3 DEF TakeMain, TypeOK, SourceArmed, BatchArmed, srcVars
<1>4. CASE PollMain
  <2>1. CASE event[Main] /\ UNCHANGED <<ready, parked, mainWoken, unpark, tasks, waker>>
             /\ state' = [state EXCEPT ![Main] = "done"] /\ pc' = "returned"
    BY <1>4, <2>1 DEF PollMain, TypeOK, SourceArmed, BatchArmed, srcVars, All
  <2>2. ASSUME NEW yield \in BOOLEAN, ScheduleHere(<<>>, yield), UNCHANGED <<tasks, state>>,
               waker' = [waker EXCEPT ![Main] = MAIN_TASK], pc' = "drain"
        PROVE  Typed'
    <3>1. /\ ready' \in Seq(Ids) /\ parked' \in BOOLEAN
          /\ mainWoken' \in BOOLEAN /\ unpark' \in BOOLEAN
      BY <2>2, Schedule, NoIds
    <3> QED BY <1>4, <2>2, <3>1, ExecutorAssumption
            DEF PollMain, TypeOK, SourceArmed, BatchArmed, srcVars, All, MAIN_TASK, NoWaker
  <2>3. ASSUME NEW yield \in BOOLEAN, NEW g \in Futures, CanSpawn(g),
               ScheduleHere(<<NewId(tasks)>>, yield), tasks' = SlabInsert(tasks, g),
               state' = [state EXCEPT ![g] = "live"],
               waker' = [waker EXCEPT ![Main] = MAIN_TASK], pc' = "drain"
        PROVE  Typed'
    <3>1. SlabInsert(tasks, g) \in Slab /\ NewId(tasks) \in Ids
      BY <2>3, SpawnSlab
    <3>2. /\ ready' \in Seq(Ids) /\ parked' \in BOOLEAN
          /\ mainWoken' \in BOOLEAN /\ unpark' \in BOOLEAN
      BY <2>3, <3>1, Schedule, OneId
    <3> QED BY <1>4, <2>3, <3>1, <3>2, ExecutorAssumption
            DEF PollMain, TypeOK, SourceArmed, BatchArmed, srcVars, All, MAIN_TASK, NoWaker
  <2> QED BY <1>4, <2>1, <2>2, <2>3 DEF PollMain
<1>5. CASE Drain
  <2>1. buf' \in Seq(Ids) /\ ready' \in Seq(Ids)
    BY <1>5, ElemsConcat DEF Drain, TypeOK
  <2> QED BY <1>5, <2>1 DEF Drain, TypeOK, SourceArmed, BatchArmed, srcVars
<1>6. CASE PollEmptySlot
  <2>1. buf' \in Seq(Ids)
    BY <1>6, ElemsTail DEF PollEmptySlot, TypeOK
  <2> QED BY <1>6, <2>1 DEF PollEmptySlot, TypeOK, SourceArmed, BatchArmed, srcVars
<1>7. ASSUME NEW f \in Futures, PollReady(f) PROVE Typed'
  <2>0. buf' \in Seq(Ids) /\ Head(buf) \in Ids /\ f # NoTask
    BY <1>7, ElemsTail, ExecutorAssumption DEF PollReady, TypeOK
  <2>1. CASE /\ tasks' = SlabRemove(tasks, Head(buf))
             /\ state' = [state EXCEPT ![f] = "done"]
             /\ UNCHANGED <<ready, parked, mainWoken, unpark>>
    <3>1. tasks' \in Slab
      BY <1>7, <2>0, <2>1, RemoveSlab DEF PollReady, TypeOK, SlabExact
    <3> QED BY <1>7, <2>0, <2>1, <3>1
            DEF PollReady, TypeOK, SourceArmed, BatchArmed, srcVars, All
  <2>2. ASSUME NEW g \in Futures, CanSpawn(g),
               tasks' = SlabRemove(SlabInsert(tasks, g), Head(buf)),
               state' = [state EXCEPT ![f] = "done", ![g] = "live"],
               ScheduleHere(<<NewId(tasks)>>, FALSE)
        PROVE  Typed'
    <3>1. tasks' \in Slab /\ NewId(tasks) \in Ids
      BY <1>7, <2>0, <2>2, PollReadySlab DEF PollReady
    <3>2. /\ ready' \in Seq(Ids) /\ parked' \in BOOLEAN
          /\ mainWoken' \in BOOLEAN /\ unpark' \in BOOLEAN
      BY <2>2, <3>1, Schedule, OneId
    <3> QED BY <1>7, <2>0, <2>2, <3>1, <3>2
            DEF PollReady, TypeOK, SourceArmed, BatchArmed, srcVars, All
  <2> QED BY <1>7, <2>1, <2>2 DEF PollReady
<1>8. ASSUME NEW f \in Futures, PollPending(f) PROVE Typed'
  <2>0. buf' \in Seq(Ids) /\ Head(buf) \in Ids /\ Head(buf) # NoWaker
    <3>1. buf' \in Seq(Ids) /\ Head(buf) \in Ids
      BY <1>8, ElemsTail DEF PollPending, TypeOK
    <3> QED BY <3>1, ExecutorAssumption DEF Ids, NoWaker
  <2>1. PICK yield \in {<<>>, <<Head(buf)>>} :
          \/ /\ ScheduleHere(yield, FALSE)
             /\ UNCHANGED <<tasks, state>>
          \/ \E g \in Futures :
                /\ CanSpawn(g)
                /\ tasks' = SlabInsert(tasks, g)
                /\ state' = [state EXCEPT ![g] = "live"]
                /\ ScheduleHere(<<NewId(tasks)>> \o yield, FALSE)
    BY <1>8 DEF PollPending
  <2>2. yield \in Seq(Ids)
    BY <2>0, NoIds, OneId
  <2>3. CASE ScheduleHere(yield, FALSE) /\ UNCHANGED <<tasks, state>>
    <3>1. /\ ready' \in Seq(Ids) /\ parked' \in BOOLEAN
          /\ mainWoken' \in BOOLEAN /\ unpark' \in BOOLEAN
      BY <2>2, <2>3, Schedule
    <3> QED BY <1>8, <2>0, <2>3, <3>1, ExecutorAssumption
            DEF PollPending, TypeOK, SourceArmed, BatchArmed, srcVars, All
  <2>4. ASSUME NEW g \in Futures, CanSpawn(g), tasks' = SlabInsert(tasks, g),
               state' = [state EXCEPT ![g] = "live"],
               ScheduleHere(<<NewId(tasks)>> \o yield, FALSE)
        PROVE  Typed'
    <3>1. SlabInsert(tasks, g) \in Slab /\ NewId(tasks) \in Ids
      BY <2>4, SpawnSlab
    <3>2. <<NewId(tasks)>> \o yield \in Seq(Ids)
      BY <2>2, <3>1, OneId, ElemsConcat
    <3>3. /\ ready' \in Seq(Ids) /\ parked' \in BOOLEAN
          /\ mainWoken' \in BOOLEAN /\ unpark' \in BOOLEAN
      BY <2>4, <3>2, Schedule
    <3> QED BY <1>8, <2>0, <2>4, <3>1, <3>3, ExecutorAssumption
            DEF PollPending, TypeOK, SourceArmed, BatchArmed, srcVars, All
  <2> QED BY <2>1, <2>3, <2>4
<1>9. CASE Drained
  BY <1>9, ExecutorAssumption
  DEF Drained, TypeOK, SourceArmed, BatchArmed, srcVars
<1>10. CASE CheckReady \/ Park \/ Recheck \/ AbortPark
  BY <1>10
  DEF CheckReady, Park, Recheck, AbortPark, LoopTop, TypeOK, SourceArmed, BatchArmed, srcVars
<1>11. CASE PollReturns \/ Periodic \/ PollIoNow
  <2>1. Pollable \subseteq IoFutures /\ \A f \in Pollable : waker[f] # NoWaker
    BY DEF Pollable
  <2>2. CASE PollReturns
    BY <2>1, <2>2 DEF PollReturns, TypeOK, SourceArmed, BatchArmed, srcVars
  <2>3. CASE Periodic
    <3>1. CASE tick + 1 >= Rounds /\ elapsed /\ tick' = 0 /\ PollNow
      BY <2>1, <2>3, <3>1 DEF Periodic, PollNow, TypeOK, SourceArmed, BatchArmed, srcVars
    <3>2. CASE tick' \in {0, tick + 1} /\ pc' = LoopTop /\ UNCHANGED <<unpark, batch>>
      BY <2>3, <3>2 DEF Periodic, LoopTop, TypeOK, SourceArmed, BatchArmed, srcVars
    <3> QED BY <2>3, <3>1, <3>2 DEF Periodic
  <2>4. CASE PollIoNow
    BY <2>1, <2>4 DEF PollIoNow, PollNow, TypeOK, SourceArmed, BatchArmed, srcVars
  <2> QED BY <1>11, <2>2, <2>3, <2>4
<1>12. CASE PollInterrupted \/ PollFails \/ Awake \/ CallAgain \/ Clock
  <2>1. CASE PollInterrupted
    BY <2>1 DEF PollInterrupted, TypeOK, SourceArmed, BatchArmed, srcVars
  <2>2. CASE PollFails
    BY <2>2 DEF PollFails, TypeOK, SourceArmed, BatchArmed, srcVars
  <2>3. CASE Awake
    BY <2>3 DEF Awake, LoopTop, TypeOK, SourceArmed, BatchArmed, srcVars
  <2>4. CASE CallAgain
    BY <2>4 DEF CallAgain, TypeOK, SourceArmed, BatchArmed, srcVars
  <2>5. CASE Clock
    BY <2>5 DEF Clock, TypeOK, SourceArmed, BatchArmed, srcVars
  <2> QED BY <1>12, <2>1, <2>2, <2>3, <2>4, <2>5
<1>13. ASSUME NEW f \in IoFutures, WakeIo(f) PROVE Typed'
  <2>1. f \in All /\ waker[f] # NoWaker
    BY <1>13, ExecutorAssumption DEF WakeIo, BatchArmed, All
  <2>2. /\ ready' \in Seq(Ids) /\ parked' \in BOOLEAN
        /\ mainWoken' \in BOOLEAN /\ unpark' \in BOOLEAN
    <3>1. CASE waker[f] = MAIN_TASK
      BY <1>13, <3>1, Schedule, NoIds DEF WakeIo
    <3>2. CASE waker[f] # MAIN_TASK
      <4>1. waker[f] \in Ids
        BY <2>1, <3>2 DEF TypeOK
      <4> QED BY <1>13, <3>2, <4>1, Schedule, OneId DEF WakeIo
    <3> QED BY <3>1, <3>2
  <2> QED BY <1>13, <2>1, <2>2 DEF WakeIo, TypeOK, SourceArmed, BatchArmed, srcVars
<1>14. ASSUME NEW f \in All, Fire(f) PROVE Typed'
  <2>1. TypeOK' /\ SourceArmed'
    <3>1. CASE waker[f] # NoWaker
      BY <1>14, <3>1 DEF Fire, TypeOK, SourceArmed, execVars
    <3>2. CASE waker[f] = NoWaker
      BY <1>14, <3>2 DEF Fire, TypeOK, SourceArmed, execVars
    <3> QED BY <3>1, <3>2
  <2>2. BatchArmed'
    BY <1>14 DEF Fire, Threads, TypeOK, BatchArmed, execVars
  <2> QED BY <2>1, <2>2
<1>15. ASSUME NEW f \in All, EarlyWake(f) PROVE Typed'
  BY <1>15, ExecutorAssumption DEF EarlyWake, TypeOK, SourceArmed, BatchArmed, execVars
<1>16. ASSUME NEW f \in All, ScheduleStore(f) PROVE Typed'
  <2>1. sid[f] # NoWaker
    BY <1>16 DEF ScheduleStore, SourceArmed
  <2>2. ready' \in Seq(Ids) /\ mainWoken' \in BOOLEAN
    <3>1. CASE sid[f] = MAIN_TASK
      BY <1>16, <3>1 DEF ScheduleStore, TypeOK
    <3>2. CASE sid[f] # MAIN_TASK
      <4>1. sid[f] \in Ids
        BY <2>1, <3>2 DEF TypeOK
      <4>2. Append(ready, sid[f]) \in Seq(Ids)
        BY <4>1 DEF TypeOK
      <4> QED BY <1>16, <3>2, <4>2 DEF ScheduleStore, TypeOK
    <3> QED BY <3>1, <3>2
  <2> QED BY <1>16, <2>2 DEF ScheduleStore, TypeOK, SourceArmed, BatchArmed, execVars
<1>17. ASSUME NEW f \in All, ScheduleSwap(f) \/ ScheduleUnpark(f) \/ IoReady(f) PROVE Typed'
  BY <1>17
  DEF ScheduleSwap, ScheduleUnpark, IoReady, TypeOK, SourceArmed, BatchArmed, execVars, srcVars
<1>18. CASE UNCHANGED vars
  BY <1>18 DEF vars, execVars, srcVars, TypeOK, SourceArmed, BatchArmed
<1> QED
  BY <1>1, <1>2, <1>3, <1>4, <1>5, <1>6, <1>7, <1>8, <1>9, <1>10, <1>11, <1>12, <1>13,
     <1>14, <1>15, <1>16, <1>17, <1>18
  DEF Next, Shard, PollTask, Source

-----------------------------------------------------------------------------
(* The handshake of park and schedule.                                     *)
ParkInv == ParkedUnlessWoken /\ NoSleepOverReady

LEMMA ParkStep == Typed /\ ParkInv /\ [Next]_vars => ParkInv'
<1> SUFFICES ASSUME Typed, ParkInv, [Next]_vars PROVE ParkInv'
  OBVIOUS
<1> USE DEF ParkInv
<1>1. CASE pc' \notin {"recheck", "sleep"}
  BY <1>1 DEF ParkedUnlessWoken, NoSleepOverReady
<1>2. CASE Park
  BY <1>2 DEF Park, ParkedUnlessWoken, NoSleepOverReady
<1>3. CASE Recheck
  BY <1>3 DEF Recheck, ParkedUnlessWoken, NoSleepOverReady, srcVars
<1>4. ASSUME NEW f \in All, Fire(f) \/ EarlyWake(f) PROVE ParkInv'
  <2>1. \A g \in All : spc[g] \in {"swap", "unpark"} => spc'[g] = spc[g]
    BY <1>4 DEF Fire, EarlyWake, Typed, TypeOK
  <2>2. UNCHANGED <<ready, parked, unpark, pc>>
    BY <1>4 DEF Fire, EarlyWake, execVars
  <2> QED BY <2>1, <2>2 DEF ParkedUnlessWoken, NoSleepOverReady
<1>5. ASSUME NEW f \in All, ScheduleStore(f) PROVE ParkInv'
  <2>1. spc'[f] = "swap" /\ \A g \in All : spc[g] = "unpark" => spc'[g] = "unpark"
    BY <1>5 DEF ScheduleStore, Typed, TypeOK
  <2>2. UNCHANGED <<parked, unpark, pc>>
    BY <1>5 DEF ScheduleStore, execVars
  <2> QED BY <2>1, <2>2 DEF ParkedUnlessWoken, NoSleepOverReady
<1>6. ASSUME NEW f \in All, ScheduleSwap(f) PROVE ParkInv'
  <2>1. UNCHANGED <<ready, unpark, pc>> /\ parked' = FALSE
    BY <1>6 DEF ScheduleSwap, execVars
  <2>2. CASE parked
    <3>1. spc'[f] = "unpark"
      BY <1>6, <2>2 DEF ScheduleSwap, Typed, TypeOK
    <3> QED BY <3>1 DEF ParkedUnlessWoken, NoSleepOverReady
  <2>3. CASE ~parked
    <3>1. \A g \in All : spc[g] = "unpark" => spc'[g] = "unpark"
      BY <1>6 DEF ScheduleSwap, Typed, TypeOK
    <3> QED BY <2>1, <2>3, <3>1 DEF ParkedUnlessWoken, NoSleepOverReady
  <2> QED BY <2>2, <2>3
<1>7. ASSUME NEW f \in All, ScheduleUnpark(f) PROVE ParkInv'
  BY <1>7 DEF ScheduleUnpark, ParkedUnlessWoken, NoSleepOverReady
<1>8. ASSUME NEW f \in All, IoReady(f) PROVE ParkInv'
  BY <1>8 DEF IoReady, execVars, srcVars, ParkedUnlessWoken, NoSleepOverReady
<1>9. CASE Clock \/ UNCHANGED vars
  BY <1>9 DEF Clock, vars, execVars, srcVars, ParkedUnlessWoken, NoSleepOverReady
<1>10. ASSUME NEW f \in Futures, SpawnFirst(f) \/ PollReady(f) \/ PollPending(f)
       PROVE  pc' \notin {"recheck", "sleep"}
  BY <1>10 DEF SpawnFirst, PollReady, PollPending
<1>a. loop \in {"run", "block_on", "run_until_stalled"}
  BY ExecutorAssumption DEF Typed, TypeOK
<1>11. CASE Enter \/ TakeMain \/ PollMain \/ Drain \/ PollEmptySlot \/ Drained \/ CheckReady
  BY <1>1, <1>11, <1>a
  DEF Enter, TakeMain, PollMain, Drain, PollEmptySlot, Drained, CheckReady
<1>12. CASE AbortPark \/ PollReturns \/ Awake \/ Periodic \/ PollIoNow \/ CallAgain
           \/ PollInterrupted \/ PollFails
  BY <1>1, <1>12
  DEF AbortPark, PollReturns, Awake, Periodic, PollIoNow, PollNow, CallAgain,
      PollInterrupted, PollFails, LoopTop
<1>13. ASSUME NEW f \in IoFutures, WakeIo(f) PROVE pc' \notin {"recheck", "sleep"}
  BY <1>13 DEF WakeIo
<1> QED
  BY <1>1, <1>2, <1>3, <1>4, <1>5, <1>6, <1>7, <1>8, <1>9, <1>10, <1>11, <1>12, <1>13
  DEF Next, Shard, PollTask, Source

-----------------------------------------------------------------------------
(* The slab.                                                               *)
LEMMA SlabStep == Typed /\ SlabExact /\ [Next]_vars => SlabExact'
<1> SUFFICES ASSUME Typed, SlabExact, [Next]_vars PROVE SlabExact'
  OBVIOUS
<1>0. /\ tasks.slots \in [Ids -> Futures \cup {NoTask}] /\ state \in [All -> {"unborn", "live", "done"}]
      /\ NoTask \notin Futures /\ Main \notin Futures
  BY ExecutorAssumption DEF Typed, TypeOK, Slab
\* Spawning g.
<1>1. ASSUME NEW g \in Futures, CanSpawn(g), tasks' = SlabInsert(tasks, g),
             state' = [state EXCEPT ![g] = "live"]
      PROVE  SlabExact'
  <2>1. /\ NewId(tasks) \in Ids /\ tasks.slots[NewId(tasks)] = NoTask
        /\ tasks'.slots = [tasks.slots EXCEPT ![NewId(tasks)] = g] /\ GoodSlab(tasks')
    BY <1>1, SpawnSlab DEF Typed
  <2>2. ASSUME NEW f \in Futures
        PROVE  state'[f] = "live" <=> \E i \in Ids : tasks'.slots[i] = f
    <3>1. CASE f = g
      BY <1>0, <1>1, <2>1, <3>1 DEF All
    <3>2. CASE f # g
      BY <1>0, <1>1, <2>1, <3>2 DEF All, SlabExact
    <3> QED BY <3>1, <3>2
  <2>3. GoodSlab(tasks)'
    BY <2>1 DEF GoodSlab
  <2> QED BY <2>2, <2>3 DEF SlabExact
<1>2. ASSUME NEW f \in Futures, PollReady(f) PROVE SlabExact'
  <2> DEFINE k == Head(buf)
  <2>0. k \in Ids /\ tasks.slots[k] = f /\ f # NoTask /\ tasks \in Slab /\ GoodSlab(tasks)
    BY <1>0, <1>2, ElemsTail DEF PollReady, Typed, TypeOK, SlabExact
  <2> HIDE DEF k
  <2>1. CASE tasks' = SlabRemove(tasks, k) /\ state' = [state EXCEPT ![f] = "done"]
    <3>1. tasks'.slots = [tasks.slots EXCEPT ![k] = NoTask] /\ GoodSlab(tasks')
      BY <2>0, <2>1, RemoveSlab
    <3>2. ASSUME NEW g \in Futures
          PROVE  state'[g] = "live" <=> \E i \in Ids : tasks'.slots[i] = g
      <4>1. CASE g = f
        BY <1>0, <2>0, <2>1, <3>1, <4>1 DEF All, GoodSlab
      <4>2. CASE g # f
        BY <1>0, <2>0, <2>1, <3>1, <4>2 DEF All, SlabExact
      <4> QED BY <4>1, <4>2
    <3>3. GoodSlab(tasks)'
      BY <3>1 DEF GoodSlab
    <3> QED BY <3>2, <3>3 DEF SlabExact
  <2>2. ASSUME NEW h \in Futures, CanSpawn(h),
               tasks' = SlabRemove(SlabInsert(tasks, h), k),
               state' = [state EXCEPT ![f] = "done", ![h] = "live"]
        PROVE  SlabExact'
    <3> DEFINE n == NewId(tasks)
    <3>0. h # f /\ tasks.slots[n] = NoTask
      BY <2>0, <2>2, SpawnSlab DEF CanSpawn, SlabExact, Typed
    <3>1. /\ tasks'.slots = [tasks.slots EXCEPT ![n] = h, ![k] = NoTask]
          /\ GoodSlab(tasks') /\ n \in Ids /\ n # k
      BY <2>0, <2>2, PollReadySlab DEF Typed
    <3> HIDE DEF n
    <3>2. ASSUME NEW g \in Futures
          PROVE  state'[g] = "live" <=> \E i \in Ids : tasks'.slots[i] = g
      <4>1. CASE g = f
        BY <1>0, <2>0, <2>2, <3>0, <3>1, <4>1 DEF All, GoodSlab
      <4>2. CASE g = h
        BY <1>0, <2>0, <2>2, <3>0, <3>1, <4>2 DEF All
      <4>3. CASE g # f /\ g # h
        BY <1>0, <2>0, <2>2, <3>0, <3>1, <4>3 DEF All, SlabExact
      <4> QED BY <4>1, <4>2, <4>3
    <3>3. GoodSlab(tasks)'
      BY <3>1 DEF GoodSlab
    <3> QED BY <3>2, <3>3 DEF SlabExact
  <2> QED BY <1>2, <2>1, <2>2 DEF PollReady, k
<1>3. CASE UNCHANGED <<tasks, state>>
  BY <1>3 DEF SlabExact, GoodSlab
<1>4. CASE PollMain
  <2>1. CASE state' = [state EXCEPT ![Main] = "done"] /\ UNCHANGED tasks
    BY <1>0, <2>1 DEF SlabExact, GoodSlab, All
  <2> QED BY <1>1, <1>3, <1>4, <2>1 DEF PollMain
<1>5. ASSUME NEW f \in Futures, SpawnFirst(f) \/ PollPending(f) PROVE SlabExact'
  BY <1>1, <1>3, <1>5 DEF SpawnFirst, PollPending
<1>6. ASSUME NEW f \in All, Fire(f) \/ EarlyWake(f) \/ Source(f) \/ IoReady(f)
      PROVE  UNCHANGED <<tasks, state>>
  BY <1>6
  DEF Fire, EarlyWake, Source, ScheduleStore, ScheduleSwap, ScheduleUnpark, IoReady, execVars
<1>7. CASE Enter \/ TakeMain \/ Drain \/ PollEmptySlot \/ Drained \/ CheckReady \/ Park
           \/ Recheck \/ AbortPark \/ PollReturns \/ Awake \/ Periodic \/ PollIoNow
           \/ PollInterrupted \/ PollFails \/ CallAgain \/ Clock \/ UNCHANGED vars
  BY <1>3, <1>7
  DEF Enter, TakeMain, Drain, PollEmptySlot, Drained, CheckReady, Park, Recheck, AbortPark,
      PollReturns, Awake, Periodic, PollIoNow, PollInterrupted, PollFails, CallAgain, Clock,
      vars, execVars
<1>8. ASSUME NEW f \in IoFutures, WakeIo(f) PROVE UNCHANGED <<tasks, state>>
  BY <1>8 DEF WakeIo
<1> QED
  BY <1>2, <1>3, <1>4, <1>5, <1>6, <1>7, <1>8 DEF Next, Shard, PollTask

-----------------------------------------------------------------------------
(* No live task is ever out of reach of a wake.                            *)
LEMMA ReachStep == Typed /\ SlabExact /\ TaskReachable /\ [Next]_vars => TaskReachable'
<1> SUFFICES ASSUME Typed, SlabExact, TaskReachable, [Next]_vars,
                    NEW i \in Ids, tasks'.slots[i] # NoTask
             PROVE  Reachable(i, tasks.slots[i])'
  BY DEF TaskReachable
<1>0. /\ tasks.slots \in [Ids -> Futures \cup {NoTask}]
      /\ ready \in Seq(Ids) /\ buf \in Seq(Ids) /\ waker \in [All -> Ids \cup {MAIN_TASK, NoWaker}]
      /\ spc \in [All -> {"idle", "store", "swap", "unpark"}]
      /\ sid \in [All -> Ids \cup {MAIN_TASK, NoWaker}] /\ event \in [All -> BOOLEAN]
  BY DEF Typed, TypeOK, Slab
<1>a. i # MAIN_TASK /\ i # NoWaker /\ NoTask \notin Futures /\ Main \notin Futures
  BY ExecutorAssumption DEF Ids, MAIN_TASK, NoWaker
\* Steps that touch none of it.
<1>1. CASE UNCHANGED <<ready, buf, tasks, spc, sid, waker, event>>
  BY <1>1 DEF TaskReachable, Reachable
<1>2. CASE Drain
  <2>1. Elems(buf') = Elems(buf) \cup Elems(ready)
    BY <1>0, <1>2, ElemsConcat DEF Drain
  <2> QED BY <1>2, <2>1 DEF Drain, srcVars, TaskReachable, Reachable
<1>3. CASE PollEmptySlot
  <2>1. Elems(buf) = Elems(buf') \cup {Head(buf)}
    BY <1>0, <1>3, ElemsTail DEF PollEmptySlot
  <2> QED BY <1>3, <2>1 DEF PollEmptySlot, srcVars, TaskReachable, Reachable
<1>4. ASSUME NEW g \in Futures, CanSpawn(g), tasks' = SlabInsert(tasks, g),
             NewId(tasks) \in Elems(ready')
      PROVE  \/ i \in Elems(ready')
             \/ i # NewId(tasks) /\ tasks'.slots[i] = tasks.slots[i]
  BY <1>0, <1>4, SpawnSlab DEF Typed
<1>5. ASSUME NEW f \in Futures, SpawnFirst(f) PROVE Reachable(i, tasks.slots[i])'
  <2>1. NewId(tasks) \in Ids
    BY <1>5, SpawnSlab DEF Typed, SpawnFirst
  <2>2. Elems(ready') = Elems(ready) \cup {NewId(tasks)}
    BY <1>5, <2>1, Schedule, OneId DEF Typed, SpawnFirst
  <2> QED BY <1>4, <1>5, <2>2 DEF SpawnFirst, srcVars, TaskReachable, Reachable
<1>6. CASE PollMain
  <2>0. \A g \in Futures : waker'[g] = waker[g]
    BY <1>0, <1>6, <1>a DEF PollMain, All
  <2>1. UNCHANGED <<buf, event, spc, sid>>
    BY <1>6 DEF PollMain, srcVars
  <2>2. ASSUME UNCHANGED tasks, Elems(ready) \subseteq Elems(ready')
        PROVE  Reachable(i, tasks.slots[i])'
    <3>1. tasks.slots[i] \in Futures
      BY <1>0, <2>2
    <3> QED BY <2>0, <2>1, <2>2, <3>1 DEF TaskReachable, Reachable
  <2>3. ASSUME NEW yield \in BOOLEAN, ScheduleHere(<<>>, yield), UNCHANGED tasks
        PROVE  Reachable(i, tasks.slots[i])'
    BY <2>2, <2>3, Schedule, NoIds DEF Typed
  <2>4. ASSUME NEW yield \in BOOLEAN, NEW g \in Futures, CanSpawn(g),
               tasks' = SlabInsert(tasks, g), ScheduleHere(<<NewId(tasks)>>, yield)
        PROVE  Reachable(i, tasks.slots[i])'
    <3>1. NewId(tasks) \in Ids
      BY <2>4, SpawnSlab DEF Typed
    <3>2. Elems(ready') = Elems(ready) \cup {NewId(tasks)}
      BY <2>4, <3>1, Schedule, OneId DEF Typed
    <3>3. CASE i \in Elems(ready')
      BY <3>3 DEF Reachable
    <3>4. CASE tasks'.slots[i] = tasks.slots[i]
      <4>1. tasks.slots[i] \in Futures
        BY <1>0, <3>4
      <4> QED BY <2>0, <2>1, <3>2, <3>4, <4>1 DEF TaskReachable, Reachable
    <3> QED BY <1>4, <2>4, <3>2, <3>3, <3>4
  <2> QED BY <1>6, <2>2, <2>3, <2>4 DEF PollMain
<1>7. ASSUME NEW f \in Futures, PollReady(f) PROVE Reachable(i, tasks.slots[i])'
  <2>0. /\ Head(buf) \in Ids /\ Elems(buf) = Elems(buf') \cup {Head(buf)}
        /\ tasks.slots[Head(buf)] = f /\ f # NoTask /\ tasks \in Slab /\ GoodSlab(tasks)
    BY <1>0, <1>7, <1>a, ElemsTail DEF PollReady, Typed, TypeOK, SlabExact
  <2>1. CASE tasks' = SlabRemove(tasks, Head(buf)) /\ UNCHANGED ready
    <3>1. tasks'.slots = [tasks.slots EXCEPT ![Head(buf)] = NoTask]
      BY <2>0, <2>1, RemoveSlab
    <3>2. i # Head(buf) /\ tasks'.slots[i] = tasks.slots[i]
      BY <1>0, <2>0, <3>1
    <3> QED BY <1>7, <2>0, <2>1, <3>2 DEF PollReady, srcVars, TaskReachable, Reachable
  <2>2. ASSUME NEW g \in Futures, CanSpawn(g),
               tasks' = SlabRemove(SlabInsert(tasks, g), Head(buf)),
               ScheduleHere(<<NewId(tasks)>>, FALSE)
        PROVE  Reachable(i, tasks.slots[i])'
    <3>1. /\ tasks'.slots = [tasks.slots EXCEPT ![NewId(tasks)] = g, ![Head(buf)] = NoTask]
          /\ NewId(tasks) \in Ids
      BY <2>0, <2>2, PollReadySlab DEF Typed
    <3>2. Elems(ready') = Elems(ready) \cup {NewId(tasks)}
      BY <2>2, <3>1, Schedule, OneId DEF Typed
    <3>3. i # Head(buf) /\ (i = NewId(tasks) \/ tasks'.slots[i] = tasks.slots[i])
      BY <1>0, <2>0, <3>1
    <3> QED BY <1>7, <2>0, <3>2, <3>3 DEF PollReady, srcVars, TaskReachable, Reachable
  <2> QED BY <1>7, <2>1, <2>2 DEF PollReady
<1>8. ASSUME NEW f \in Futures, PollPending(f) PROVE Reachable(i, tasks.slots[i])'
  <2>0. /\ Head(buf) \in Ids /\ Elems(buf) = Elems(buf') \cup {Head(buf)}
        /\ tasks.slots[Head(buf)] = f /\ f # NoTask /\ GoodSlab(tasks) /\ f \in All
    BY <1>0, <1>8, <1>a, ElemsTail DEF PollPending, SlabExact, All
  <2>1. /\ waker'[f] = Head(buf) /\ ~event'[f]
        /\ \A g \in All : g # f => waker'[g] = waker[g]
        /\ UNCHANGED <<event, spc, sid>>
    BY <1>0, <1>8, <2>0 DEF PollPending, srcVars
  \* A task that was in the slab before the poll.
  <2>2. ASSUME tasks'.slots[i] = tasks.slots[i], Elems(ready) \subseteq Elems(ready')
        PROVE  Reachable(i, tasks.slots[i])'
    <3>1. CASE i = Head(buf)
      BY <2>0, <2>1, <2>2, <3>1 DEF Reachable
    <3>2. CASE i # Head(buf)
      <4>1. tasks.slots[i] # f /\ tasks.slots[i] \in All
        BY <1>0, <2>0, <2>2, <3>2 DEF GoodSlab, All
      <4> QED BY <2>0, <2>1, <2>2, <3>2, <4>1 DEF TaskReachable, Reachable
    <3> QED BY <3>1, <3>2
  <2>3. PICK yield \in {<<>>, <<Head(buf)>>} :
          \/ /\ ScheduleHere(yield, FALSE)
             /\ UNCHANGED <<tasks, state>>
          \/ \E g \in Futures :
                /\ CanSpawn(g)
                /\ tasks' = SlabInsert(tasks, g)
                /\ state' = [state EXCEPT ![g] = "live"]
                /\ ScheduleHere(<<NewId(tasks)>> \o yield, FALSE)
    BY <1>8 DEF PollPending
  <2>4. yield \in Seq(Ids)
    BY <2>0, NoIds, OneId
  <2>5. CASE ScheduleHere(yield, FALSE) /\ UNCHANGED tasks
    BY <2>2, <2>4, <2>5, Schedule DEF Typed
  <2>6. ASSUME NEW g \in Futures, CanSpawn(g), tasks' = SlabInsert(tasks, g),
               ScheduleHere(<<NewId(tasks)>> \o yield, FALSE)
        PROVE  Reachable(i, tasks.slots[i])'
    <3>1. NewId(tasks) \in Ids
      BY <2>6, SpawnSlab DEF Typed
    <3>2. /\ <<NewId(tasks)>> \o yield \in Seq(Ids)
          /\ NewId(tasks) \in Elems(<<NewId(tasks)>> \o yield)
      <4> DEFINE n == <<NewId(tasks)>>
      <4>1. n \in Seq(Ids) /\ Elems(n) = {NewId(tasks)}
        BY <3>1, OneId
      <4> HIDE DEF n
      <4>2. n \o yield \in Seq(Ids) /\ Elems(n \o yield) = Elems(n) \cup Elems(yield)
        BY <2>4, <4>1, ElemsConcat
      <4> QED BY <4>1, <4>2 DEF n
    <3>3. Elems(ready) \subseteq Elems(ready') /\ NewId(tasks) \in Elems(ready')
      BY <2>6, <3>2, Schedule DEF Typed
    <3>4. CASE i \in Elems(ready')
      BY <3>4 DEF Reachable
    <3> QED BY <1>4, <2>2, <2>6, <3>3, <3>4
  <2> QED BY <2>3, <2>5, <2>6
<1>9. ASSUME NEW f \in IoFutures, WakeIo(f) PROVE Reachable(i, tasks.slots[i])'
  <2>1. f \in All /\ waker[f] # NoWaker
    BY <1>9, ExecutorAssumption DEF WakeIo, Typed, BatchArmed, All
  <2>2. Elems(ready) \subseteq Elems(ready')
        /\ (waker[f] # MAIN_TASK => waker[f] \in Elems(ready'))
    <3>1. CASE waker[f] = MAIN_TASK
      BY <1>9, <3>1, Schedule, NoIds DEF WakeIo, Typed
    <3>2. CASE waker[f] # MAIN_TASK
      <4>1. waker[f] \in Ids
        BY <1>0, <2>1, <3>2
      <4> QED BY <1>9, <3>2, <4>1, Schedule, OneId DEF WakeIo, Typed
    <3> QED BY <3>1, <3>2
  <2>3. \A g \in All : g # f => waker'[g] = waker[g]
    BY <1>0, <1>9 DEF WakeIo
  <2>4. tasks.slots[i] \in All /\ UNCHANGED <<tasks, buf, event, spc, sid>>
    BY <1>0, <1>9 DEF WakeIo, srcVars, All
  <2>5. CASE tasks.slots[i] = f
    BY <1>a, <2>2, <2>4, <2>5 DEF TaskReachable, Reachable
  <2>6. CASE tasks.slots[i] # f
    BY <2>2, <2>3, <2>4, <2>6 DEF TaskReachable, Reachable
  <2> QED BY <2>5, <2>6
<1>10. ASSUME NEW f \in All, Fire(f) PROVE Reachable(i, tasks.slots[i])'
  <2>1. tasks.slots[i] \in All /\ UNCHANGED <<tasks, buf, ready>>
    BY <1>0, <1>10 DEF Fire, execVars, All
  <2>2. \A g \in All : g # f => /\ waker'[g] = waker[g] /\ event'[g] = event[g]
                                 /\ spc'[g] = spc[g] /\ sid'[g] = sid[g]
    BY <1>0, <1>10 DEF Fire
  <2>3. spc[f] = "idle" /\ (waker[f] # NoWaker => spc'[f] = "store" /\ sid'[f] = waker[f])
    BY <1>0, <1>10 DEF Fire
  <2>4. CASE tasks.slots[i] = f
    BY <1>a, <2>1, <2>3, <2>4 DEF TaskReachable, Reachable
  <2>5. CASE tasks.slots[i] # f
    BY <2>1, <2>2, <2>5 DEF TaskReachable, Reachable
  <2> QED BY <2>4, <2>5
<1>11. ASSUME NEW f \in All, EarlyWake(f) PROVE Reachable(i, tasks.slots[i])'
  <2>1. tasks.slots[i] \in All /\ UNCHANGED <<tasks, buf, ready, waker, event>>
    BY <1>0, <1>11 DEF EarlyWake, execVars, All
  <2>2. /\ spc[f] = "idle"
        /\ \A g \in All : g # f => spc'[g] = spc[g] /\ sid'[g] = sid[g]
    BY <1>0, <1>11 DEF EarlyWake
  <2> QED BY <2>1, <2>2 DEF TaskReachable, Reachable
<1>12. ASSUME NEW f \in All, ScheduleStore(f) PROVE Reachable(i, tasks.slots[i])'
  <2>1. /\ tasks.slots[i] \in All /\ UNCHANGED <<tasks, buf, waker, event, sid>>
        /\ \A g \in All : g # f => spc'[g] = spc[g]
    BY <1>0, <1>12 DEF ScheduleStore, execVars, All
  <2>2. sid[f] # NoWaker
    BY <1>12 DEF ScheduleStore, Typed, SourceArmed
  <2>3. Elems(ready) \subseteq Elems(ready') /\ (sid[f] # MAIN_TASK => sid[f] \in Elems(ready'))
    <3>1. CASE sid[f] = MAIN_TASK
      BY <1>12, <3>1 DEF ScheduleStore
    <3>2. CASE sid[f] # MAIN_TASK
      <4>1. sid[f] \in Ids
        BY <1>0, <2>2, <3>2
      <4>2. Elems(Append(ready, sid[f])) = Elems(ready) \cup {sid[f]}
        BY <1>0, <4>1, ElemsAppend
      <4> QED BY <1>12, <3>2, <4>2 DEF ScheduleStore
    <3> QED BY <3>1, <3>2
  <2> QED BY <1>a, <2>1, <2>3 DEF TaskReachable, Reachable
<1>13. ASSUME NEW f \in All, ScheduleSwap(f) \/ ScheduleUnpark(f)
       PROVE  Reachable(i, tasks.slots[i])'
  <2>1. /\ UNCHANGED <<tasks, buf, ready, waker, event, sid>>
        /\ \A g \in All : spc[g] = "store" => spc'[g] = "store"
    BY <1>0, <1>13 DEF ScheduleSwap, ScheduleUnpark, execVars
  <2>2. tasks.slots[i] \in All
    BY <1>0, <2>1 DEF All
  <2> QED BY <2>1, <2>2 DEF TaskReachable, Reachable
<1>14. ASSUME NEW f \in All, IoReady(f) PROVE Reachable(i, tasks.slots[i])'
  <2>1. /\ UNCHANGED <<tasks, buf, ready, waker, spc, sid>>
        /\ \A g \in All : g \notin IoFutures => event'[g] = event[g]
    BY <1>0, <1>14 DEF IoReady, execVars, srcVars
  <2>2. tasks.slots[i] \in All
    BY <1>0, <2>1 DEF All
  <2> QED BY <2>1, <2>2 DEF TaskReachable, Reachable
<1>15. CASE Enter \/ TakeMain \/ Drained \/ CheckReady \/ Park
           \/ Recheck \/ AbortPark \/ PollReturns \/ Awake \/ Periodic \/ PollIoNow
           \/ PollInterrupted \/ PollFails \/ CallAgain \/ Clock \/ UNCHANGED vars
  BY <1>1, <1>15
  DEF Enter, TakeMain, Drained, CheckReady, Park, Recheck, AbortPark,
      PollReturns, Awake, Periodic, PollIoNow, PollInterrupted, PollFails, CallAgain, Clock,
      vars, execVars, srcVars
<1> QED
  BY <1>2, <1>3, <1>5, <1>6, <1>7, <1>8, <1>9, <1>10, <1>11, <1>12, <1>13, <1>14, <1>15
  DEF Next, Shard, PollTask, Source

-----------------------------------------------------------------------------
LEMMA InvInit == Init => IInv
<1> SUFFICES ASSUME Init PROVE IInv
  OBVIOUS
<1>1. Typed
  BY TypeInit
<1>2. ParkedUnlessWoken /\ NoSleepOverReady
  BY DEF Init, ParkedUnlessWoken, NoSleepOverReady
<1>3. \A i \in Ids : tasks.slots[i] = NoTask
  BY DEF Init, EmptySlab
<1>4. tasks.free = <<>> /\ tasks.size = 0
  BY DEF Init, EmptySlab
<1>5. GoodSlab(tasks)
  <2>1. Elems(tasks.free) = {} /\ Len(tasks.free) = 0
    BY <1>4, ElemsEmpty
  <2> QED BY <1>3, <1>4, <2>1 DEF GoodSlab, Ids
<1>6. \A f \in Futures : state[f] # "live" /\ f # NoTask
  BY ExecutorAssumption DEF Init, All
<1>7. SlabExact
  BY <1>3, <1>5, <1>6 DEF SlabExact
<1>8. TaskReachable
  BY <1>3 DEF TaskReachable
<1> QED BY <1>1, <1>2, <1>7, <1>8 DEF IInv, Typed

LEMMA InvStep == IInv /\ [Next]_vars => IInv'
BY TypeStep, ParkStep, SlabStep, ReachStep DEF IInv, Typed, ParkInv

LEMMA Invariant == Spec => []IInv
BY InvInit, InvStep, PTL DEF Spec

(* The shared state of a shard (task.rs Shared, executor.rs Inner) keeps   *)
(* its types; above all, whatever is scheduled is the id of a slot.        *)
THEOREM TypeCorrect == Spec => []TypeOK
<1>1. IInv => TypeOK
  BY DEF IInv
<1> QED BY Invariant, <1>1, PTL

(* The claim of park's comment, executor.rs:134-137: no wake of a spawned  *)
(* task is lost to a shard that is going to sleep, for any number of       *)
(* tasks and of threads that wake them.                                    *)
THEOREM NoLostWakeup == Spec => []NoSleepOverReady
<1>1. IInv => NoSleepOverReady
  BY DEF IInv
<1> QED BY Invariant, <1>1, PTL

(* Ids are reused, yet a live task keeps its slot to itself and none is    *)
(* overwritten (executor.rs:39-69).                                        *)
THEOREM SlabIsExact == Spec => []SlabExact
<1>1. IInv => SlabExact
  BY DEF IInv
<1> QED BY Invariant, <1>1, PTL

(* A live task whose condition is met is queued, or its source is about to *)
(* queue it: schedule, drain_ready and poll_task drop no wake.             *)
THEOREM NoForgottenTask == Spec => []WokenIsQueued
<1>1. ASSUME IInv PROVE WokenIsQueued
  <2> SUFFICES ASSUME NEW i \in Ids, tasks.slots[i] # NoTask, event[tasks.slots[i]]
               PROVE  \/ i \in Elems(ready) \cup Elems(buf)
                      \/ spc[tasks.slots[i]] = "store" /\ sid[tasks.slots[i]] = i
                      \/ tasks.slots[i] \in IoFutures /\ waker[tasks.slots[i]] = i
    BY DEF WokenIsQueued
  <2> QED BY <1>1 DEF IInv, TaskReachable, Reachable
<1> QED BY Invariant, <1>1, PTL

-----------------------------------------------------------------------------
LEMMA Intervals ==
    ASSUME NEW n \in Nat, n > 0, NEW i \in 0 .. n - 1
    PROVE  /\ IsFiniteSet(1 .. n) /\ Cardinality(1 .. n) = n
           /\ IsFiniteSet((0 .. n - 1) \ {i}) /\ Cardinality((0 .. n - 1) \ {i}) = n - 1
<1>1. 0 \in Int /\ 1 \in Int /\ n \in Int /\ n - 1 \in Int
  OBVIOUS
<1>2. IsFiniteSet(1 .. n) /\ Cardinality(1 .. n) = IF 1 > n THEN 0 ELSE n - 1 + 1
  BY <1>1, FS_Interval, Zenon
<1>3. IsFiniteSet(0 .. n - 1) /\ Cardinality(0 .. n - 1) = IF 0 > n - 1 THEN 0 ELSE n - 1 - 0 + 1
  BY <1>1, FS_Interval, Zenon
<1>4. /\ IsFiniteSet((0 .. n - 1) \ {i})
      /\ Cardinality((0 .. n - 1) \ {i}) = Cardinality(0 .. n - 1) - 1
  BY <1>3, FS_RemoveElement
<1> QED BY <1>2, <1>3, <1>4

(* len() = 0 means that no slot is taken: the free list, which repeats     *)
(* nothing, is then as long as the slab.                                   *)
LEMMA LenZero ==
    ASSUME NEW t \in Slab, GoodSlab(t), SlabLen(t) = 0, NEW i \in Ids
    PROVE  t.slots[i] = NoTask
<1> DEFINE n == t.size
           S == 1 .. n
           T == (0 .. n - 1) \ {i}
<1>0. t.free \in Seq(Ids) /\ n \in Nat /\ Len(t.free) = n /\ i \in Nat
  BY ExecutorAssumption DEF Slab, SlabLen, Ids
<1> SUFFICES ASSUME t.slots[i] # NoTask PROVE FALSE
  OBVIOUS
<1>1. i < n /\ i \notin Elems(t.free)
  BY <1>0 DEF GoodSlab, Ids
<1>2. \A m \in S : t.free[m] \in T
  <2> SUFFICES ASSUME NEW m \in S PROVE t.free[m] \in T
    OBVIOUS
  <2>1. t.free[m] \in Ids /\ t.free[m] \in Elems(t.free)
    BY <1>0 DEF Elems
  <2>2. t.free[m] < n
    BY <2>1 DEF GoodSlab
  <2> QED BY <1>0, <1>1, <2>1, <2>2 DEF Ids
<1>3. n > 0 /\ i \in 0 .. n - 1
  BY <1>0, <1>1
<1>5. /\ IsFiniteSet(S) /\ Cardinality(S) = n
      /\ IsFiniteSet(T) /\ Cardinality(T) = n - 1
  <2> HIDE DEF n
  <2> QED BY <1>0, <1>3, Intervals
<1> DEFINE h == [m \in S |-> t.free[m]]
<1>6. h \in [S -> T]
  BY <1>2
<1> HIDE DEF S, T, h
<1>7. \E x, y \in S : x # y /\ h[x] = h[y]
  BY <1>0, <1>5, <1>6, FS_PigeonHole
<1> QED BY <1>0, <1>7 DEF GoodSlab, S, h

MainOnlyInBlockOn == pc \in {"take", "main"} => loop = "block_on"

(* run returns only when every spawned task has completed                  *)
(* (executor.rs:314-327): its test of len() is a test of the task set.     *)
THEOREM RunCompletesEveryTask == Spec => []RunLeavesNoTask
<1>1. Init => MainOnlyInBlockOn /\ RunLeavesNoTask
  BY DEF Init, MainOnlyInBlockOn, RunLeavesNoTask
<1>2. ASSUME IInv, MainOnlyInBlockOn, RunLeavesNoTask, [Next]_vars
      PROVE  MainOnlyInBlockOn' /\ RunLeavesNoTask'
  <2>1. CASE Drained
    <3>1. ASSUME loop = "run", pc' = "returned", NEW f \in Futures PROVE state'[f] # "live"
      <4>1. SlabLen(tasks) = 0 /\ UNCHANGED state
        BY <2>1, <3>1 DEF Drained
      <4>2. \A i \in Ids : tasks.slots[i] = NoTask
        BY <1>2, <4>1, LenZero DEF IInv, TypeOK, SlabExact
      <4> QED BY <1>2, <4>1, <4>2, ExecutorAssumption DEF IInv, SlabExact
    <3>2. loop \in {"run", "block_on", "run_until_stalled"} /\ loop' = loop
      BY <1>2, <2>1, ExecutorAssumption DEF IInv, TypeOK, Drained
    <3>3. MainOnlyInBlockOn'
      BY <2>1, <3>2 DEF Drained, MainOnlyInBlockOn
    <3> QED BY <3>1, <3>2, <3>3 DEF RunLeavesNoTask
  <2>2. CASE Enter \/ TakeMain \/ PollMain \/ Drain
    BY <1>2, <2>2, ExecutorAssumption
    DEF Enter, TakeMain, PollMain, Drain, MainOnlyInBlockOn, RunLeavesNoTask
  <2>3. CASE PollEmptySlot \/ CheckReady \/ Park \/ Recheck \/ AbortPark
    BY <1>2, <2>3, ExecutorAssumption
    DEF PollEmptySlot, CheckReady, Park, Recheck, AbortPark, LoopTop, MainOnlyInBlockOn,
        RunLeavesNoTask
  <2>4. CASE PollReturns \/ Awake \/ Periodic \/ PollIoNow \/ PollInterrupted \/ PollFails
    BY <1>2, <2>4
    DEF PollReturns, Awake, Periodic, PollIoNow, PollNow, PollInterrupted, PollFails,
        LoopTop, MainOnlyInBlockOn, RunLeavesNoTask
  <2>5. CASE CallAgain \/ Clock \/ UNCHANGED vars
    BY <1>2, <2>5
    DEF CallAgain, Clock, vars, execVars, MainOnlyInBlockOn, RunLeavesNoTask
  <2>6. ASSUME NEW f \in Futures, SpawnFirst(f) \/ PollReady(f) \/ PollPending(f)
        PROVE  MainOnlyInBlockOn' /\ RunLeavesNoTask'
    BY <1>2, <2>6 DEF SpawnFirst, PollReady, PollPending, MainOnlyInBlockOn, RunLeavesNoTask
  <2>7. ASSUME NEW f \in All, Fire(f) \/ EarlyWake(f) \/ Source(f) \/ IoReady(f)
        PROVE  MainOnlyInBlockOn' /\ RunLeavesNoTask'
    BY <1>2, <2>7
    DEF Fire, EarlyWake, Source, ScheduleStore, ScheduleSwap, ScheduleUnpark, IoReady,
        execVars, MainOnlyInBlockOn, RunLeavesNoTask
  <2>8. ASSUME NEW f \in IoFutures, WakeIo(f) PROVE MainOnlyInBlockOn' /\ RunLeavesNoTask'
    BY <1>2, <2>8 DEF WakeIo, MainOnlyInBlockOn, RunLeavesNoTask
  <2> QED BY <1>2, <2>1, <2>2, <2>3, <2>4, <2>5, <2>6, <2>7, <2>8 DEF Next, Shard, PollTask
<1> QED BY Invariant, <1>1, <1>2, PTL DEF Spec
=============================================================================
