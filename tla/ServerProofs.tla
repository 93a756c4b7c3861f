---------------------------- MODULE ServerProofs ----------------------------
(***************************************************************************)
(* TLAPS proofs about the server's runtime: the shutdown signal, for any   *)
(* number of waiters and of threads that trigger it; the timers of a       *)
(* shard, for any number of sleeping tasks; and the life of the server     *)
(* process, for any number of shards and connections.                      *)
(***************************************************************************)
EXTENDS MCServer, ConnectionProofs, WellFoundedInduction

\* A nonempty set of naturals has a least element.
LEMMA LeastNatural ==
    ASSUME NEW T, T \subseteq Nat, T # {}
    PROVE  \E n \in T : \A m \in T : n <= m
<1> DEFINE Less == {ss \in Nat \X Nat : ss[1] < ss[2]}
<1>1. IsWellFoundedOn(Less, Nat)
  BY NatLessThanWellFounded DEF OpToRel
<1>2. PICK n \in T : \A y \in T : ~(<<y, n>> \in Less)
  BY <1>1, WFMin
<1>3. ASSUME NEW m \in T PROVE n <= m
  <2>1. m \in Nat /\ n \in Nat
    OBVIOUS
  <2>2. ~(m < n)
    <3>1. <<m, n>> \in Nat \X Nat /\ <<m, n>>[1] = m /\ <<m, n>>[2] = n
      BY <2>1
    <3> QED BY <1>2, <3>1
  <2> QED BY <2>1, <2>2
<1> QED BY <1>3

-----------------------------------------------------------------------------
(* Timers.                                                                 *)
Entries == [deadline : 0 .. MaxNow, id : 1 .. MaxTimers]

\* A task's Sleep has an id of its own, and while the waker under that id is live, the heap
\* holds its entry; the waker of a waiting task is live, and the executor does not sleep
\* past it.
TimersInv ==
    /\ TimersTypeOK /\ parkedTill \in Nat
    /\ sleep \in [Sleepers -> [deadline : 0 .. MaxNow, id : 0 .. nextId]]
    /\ \A t, u \in Sleepers : sleep[t].id = sleep[u].id /\ sleep[t].id # 0 => t = u
    /\ \A t \in Sleepers :
          task[t] # "none" /\ sleep[t].id \in wakers =>
             [deadline |-> sleep[t].deadline, id |-> sleep[t].id] \in heap
    /\ \A t \in Sleepers :
          task[t] = "waiting" => sleep[t].id \in wakers /\ (~Awake => parkedTill <= sleep[t].deadline)

\* The heap has a top: entries are ordered by deadline, and by id where that is the same.
LEMMA TopExists ==
    ASSUME NEW h \in SUBSET Entries, h # {}
    PROVE  Top(h) \in h /\ \A e \in h : e # Top(h) => Before(Top(h), e)
<1> DEFINE D == {e.deadline : e \in h}
<1>0. \A e \in h : e.deadline \in Nat /\ e.id \in Nat /\ e = [deadline |-> e.deadline, id |-> e.id]
  BY TimersAssumption DEF Entries
<1>1. PICK d \in D : \A m \in D : d <= m
  <2>1. D \subseteq Nat /\ D # {}
    BY <1>0
  <2> QED BY <2>1, LeastNatural
<1> DEFINE I == {e.id : e \in {f \in h : f.deadline = d}}
<1>2. PICK i \in I : \A m \in I : i <= m
  <2>1. I \subseteq Nat /\ I # {}
    BY <1>0, <1>1
  <2> QED BY <2>1, LeastNatural
<1>3. PICK e \in h : e.deadline = d /\ e.id = i
  BY <1>2
<1>4. \A f \in h \ {e} : Before(e, f)
  <2> TAKE f \in h \ {e}
  <2>1. d <= f.deadline /\ (f.deadline = d => i <= f.id)
    BY <1>1, <1>2
  <2>2. f.deadline = d => f.id # i
    BY <1>0, <1>3
  <2> QED BY <2>1, <2>2, <1>0, <1>3 DEF Before
<1> QED BY <1>4 DEF Top

\* Parking keeps the entries of live timers and sleeps no longer than the earliest of them.
LEMMA LiveHeapFacts ==
    ASSUME TimersTypeOK
    PROVE  /\ LiveHeap \subseteq heap
           /\ \A e \in heap : e.id \in wakers =>
                 e \in LiveHeap /\ Top(LiveHeap).deadline <= e.deadline
           /\ LiveHeap # {} => Top(LiveHeap).deadline \in 0 .. MaxNow
<1> DEFINE live == {e \in heap : e.id \in wakers}
<1>1. heap \subseteq Entries
  BY TimersAssumption DEF TimersTypeOK, Entries
<1>2. \A e \in heap : e.deadline \in 0 .. MaxNow /\ e.deadline \in Nat /\ e.id \in Nat
  BY <1>1, TimersAssumption DEF Entries
<1>3. CASE live = {}
  BY <1>3 DEF LiveHeap
<1>4. CASE live # {}
  <2>1. Top(live) \in live /\ \A e \in live : e # Top(live) => Before(Top(live), e)
    BY <1>1, <1>4, TopExists
  <2>2. LiveHeap = {e \in heap : e = Top(live) \/ Before(Top(live), e)}
    BY <1>4 DEF LiveHeap
  <2>3. live \subseteq LiveHeap /\ LiveHeap \subseteq heap /\ LiveHeap # {}
    BY <2>1, <2>2
  <2>4. Top(LiveHeap) \in LiveHeap /\ \A e \in LiveHeap : e # Top(LiveHeap) => Before(Top(LiveHeap), e)
    BY <1>1, <2>3, TopExists
  <2>5. \A e \in live : Top(LiveHeap).deadline <= e.deadline
    BY <2>3, <2>4, <1>2 DEF Before
  <2> QED BY <2>3, <2>4, <2>5, <1>2
<1> QED BY <1>3, <1>4

LEMMA TimersInitial == TimersInit => TimersInv
<1> SUFFICES ASSUME TimersInit PROVE TimersInv
  OBVIOUS
<1> QED BY TimersAssumption DEF TimersInit, TimersInv, TimersTypeOK, Awake

LEMMA TimersStep == TimersInv /\ [TimersNext]_timerVars => TimersInv'
<1> SUFFICES ASSUME TimersInv, [TimersNext]_timerVars PROVE TimersInv'
  OBVIOUS
<1>0. TimersTypeOK /\ MaxNow \in Nat /\ MaxTimers \in Nat
  BY TimersAssumption DEF TimersInv
<1>1. ASSUME NEW t \in Sleepers, StartSleep(t) PROVE TimersInv'
  <2>1. PICK d \in now .. MaxNow : sleep' = [sleep EXCEPT ![t] = [deadline |-> d, id |-> 0]]
    BY <1>1 DEF StartSleep
  <2>2. d \in 0 .. MaxNow /\ 0 \in 0 .. nextId
    BY <1>0 DEF TimersTypeOK
  <2>3. sleep' \in [Sleepers -> [deadline : 0 .. MaxNow, id : 0 .. nextId]]
    BY <2>1, <2>2 DEF TimersInv
  <2>4. \A u \in Sleepers : u # t => sleep'[u] = sleep[u] /\ task'[u] = task[u]
    BY <1>1, <2>1 DEF StartSleep, TimersInv, TimersTypeOK
  <2>5. sleep'[t].id = 0 /\ task'[t] = "scheduled" /\ 0 \notin wakers
    BY <1>0, <1>1, <2>1 DEF StartSleep, TimersInv, TimersTypeOK
  <2>6. TimersTypeOK' /\ UNCHANGED <<heap, wakers, nextId, parkedTill>>
    BY <1>0, <1>1 DEF StartSleep, TimersTypeOK
  <2> QED BY <2>3, <2>4, <2>5, <2>6 DEF TimersInv, Awake
<1>2. ASSUME NEW t \in Sleepers, PollSleepPending(t) PROVE TimersInv'
  <2> DEFINE id == IF sleep[t].id = 0 THEN nextId + 1 ELSE sleep[t].id
             e  == [deadline |-> sleep[t].deadline, id |-> id]
  <2>1. /\ sleep[t] \in [deadline : 0 .. MaxNow, id : 0 .. nextId] /\ nextId \in Nat
        /\ nextId' \in {nextId, nextId + 1} /\ nextId' <= MaxTimers /\ id \in 1 .. nextId'
    BY <1>0, <1>2 DEF PollSleepPending, TimersInv, TimersTypeOK
  <2>2. /\ sleep' = [sleep EXCEPT ![t].id = id] /\ wakers' = wakers \union {id}
        /\ heap' = IF id \in wakers THEN heap ELSE heap \union {e}
        /\ task' = [task EXCEPT ![t] = "waiting"] /\ UNCHANGED <<now, parkedTill>> /\ Awake
    BY <1>2 DEF PollSleepPending
  <2>3. sleep' \in [Sleepers -> [deadline : 0 .. MaxNow, id : 0 .. nextId']]
    BY <2>1, <2>2 DEF TimersInv
  <2>4. /\ \A u \in Sleepers : u # t => sleep'[u] = sleep[u] /\ task'[u] = task[u]
        /\ sleep'[t].id = id /\ sleep'[t].deadline = sleep[t].deadline /\ task'[t] = "waiting"
    BY <2>2, <2>1 DEF TimersInv, TimersTypeOK
  <2>5. \A u \in Sleepers : u # t => sleep[u].id # id
    BY <2>1 DEF TimersInv
  <2> HIDE DEF id
  <2>6. e \in [deadline : 0 .. MaxNow, id : 1 .. nextId'] /\ 1 .. nextId \subseteq 1 .. nextId'
    BY <2>1
  <2>7. TimersTypeOK'
    <3>1. nextId' \in 0 .. MaxTimers /\ now' \in 0 .. MaxNow
      BY <1>0, <2>1, <2>2 DEF TimersTypeOK
    <3>2. wakers' \subseteq 1 .. nextId'
      BY <1>0, <2>1, <2>2, <2>6 DEF TimersTypeOK
    <3>3. heap' \subseteq [deadline : 0 .. MaxNow, id : 1 .. nextId']
      BY <1>0, <2>2, <2>6 DEF TimersTypeOK
    <3> QED BY <3>1, <3>2, <3>3, <1>0, <2>2 DEF TimersTypeOK
  <2>8. e \in heap'
    <3>1. CASE id \in wakers
      <4>1. id = sleep[t].id /\ task[t] # "none"
        BY <3>1, <1>0, <1>2, <2>1 DEF id, TimersTypeOK, PollSleepPending
      <4> QED BY <3>1, <4>1, <2>2 DEF TimersInv
    <3>2. CASE id \notin wakers
      BY <3>2, <2>2
    <3> QED BY <3>1, <3>2
  <2>9. \A u \in Sleepers : task'[u] # "none" /\ sleep'[u].id \in wakers' =>
            [deadline |-> sleep'[u].deadline, id |-> sleep'[u].id] \in heap'
    <3> TAKE u \in Sleepers
    <3>1. CASE u = t
      BY <3>1, <2>4, <2>8
    <3>2. CASE u # t
      BY <3>2, <2>2, <2>4, <2>5 DEF TimersInv
    <3> QED BY <3>1, <3>2
  <2>10. \A u \in Sleepers : task'[u] = "waiting" =>
            sleep'[u].id \in wakers' /\ (~Awake' => parkedTill' <= sleep'[u].deadline)
    BY <2>2, <2>4 DEF TimersInv, Awake
  <2>11. \A u, v \in Sleepers : sleep'[u].id = sleep'[v].id /\ sleep'[u].id # 0 => u = v
    BY <2>4, <2>5 DEF TimersInv
  <2> QED BY <2>2, <2>3, <2>7, <2>9, <2>10, <2>11 DEF TimersInv
<1>3. ASSUME NEW t \in Sleepers, PollSleepReady(t) \/ DropSleep(t) PROVE TimersInv'
  <2>1. /\ wakers' = wakers \ {sleep[t].id} /\ task' = [task EXCEPT ![t] = "none"]
        /\ UNCHANGED <<now, heap, nextId, sleep, parkedTill>>
    BY <1>3 DEF PollSleepReady, DropSleep
  <2>2. /\ \A u \in Sleepers : u # t => task'[u] = task[u]
        /\ task'[t] = "none"
    BY <1>0, <2>1 DEF TimersTypeOK
  <2>3. TimersTypeOK'
    BY <1>0, <2>1 DEF TimersTypeOK
  <2>4. \A u \in Sleepers : task'[u] = "waiting" => sleep[u].id # sleep[t].id
    <3> SUFFICES ASSUME NEW u \in Sleepers, task'[u] = "waiting" PROVE sleep[u].id # sleep[t].id
      OBVIOUS
    <3>1. u # t /\ sleep[u].id \in wakers
      BY <2>2 DEF TimersInv
    <3>2. sleep[u].id # 0
      BY <3>1, <1>0 DEF TimersTypeOK
    <3> QED BY <3>1, <3>2 DEF TimersInv
  <2> QED BY <2>1, <2>2, <2>3, <2>4 DEF TimersInv, Awake
<1>4. ASSUME NEW t \in Sleepers, Woken(t) PROVE TimersInv'
  <2>1. /\ task' = [task EXCEPT ![t] = "scheduled"] /\ parkedTill' = 0 /\ task[t] = "waiting"
        /\ UNCHANGED <<now, heap, wakers, nextId, sleep>>
    BY <1>4 DEF Woken
  <2>2. /\ \A u \in Sleepers : u # t => task'[u] = task[u]
        /\ task'[t] = "scheduled" /\ TimersTypeOK'
    BY <1>0, <2>1 DEF TimersTypeOK
  <2> QED BY <2>1, <2>2 DEF TimersInv, Awake
<1>5. CASE FireExpired
  <2> DEFINE due == {e \in heap : e.deadline <= now}
  <2>1. /\ heap' = heap \ due /\ wakers' = wakers \ {e.id : e \in due} /\ parkedTill' = 0
        /\ task' = [t \in Sleepers |-> IF task[t] = "waiting" /\ sleep[t].id \in wakers \ wakers'
                                       THEN "scheduled" ELSE task[t]]
        /\ UNCHANGED <<now, nextId, sleep>>
    BY <1>5 DEF FireExpired
  <2>2. \A t \in Sleepers : /\ task'[t] = "none" <=> task[t] = "none"
                            /\ task'[t] = "waiting" =>
                                  task[t] = "waiting" /\ sleep[t].id \notin wakers \ wakers'
    BY <2>1
  <2>3. \A e \in heap : e.id \in wakers' => e \in heap'
    BY <2>1
  <2>4. TimersTypeOK'
    BY <1>0, <2>1 DEF TimersTypeOK
  <2> HIDE DEF due
  <2>5. ASSUME NEW t \in Sleepers, task'[t] # "none", sleep'[t].id \in wakers'
        PROVE  [deadline |-> sleep'[t].deadline, id |-> sleep'[t].id] \in heap'
    <3>1. [deadline |-> sleep[t].deadline, id |-> sleep[t].id] \in heap
      BY <2>1, <2>2, <2>5 DEF TimersInv
    <3> QED BY <3>1, <2>1, <2>3, <2>5
  <2>6. \A t \in Sleepers : task'[t] = "waiting" => sleep'[t].id \in wakers'
    BY <2>1, <2>2 DEF TimersInv
  <2> QED BY <2>1, <2>4, <2>5, <2>6 DEF TimersInv, Awake
<1>6. CASE ParkTimers
  <2>1. /\ heap' = LiveHeap /\ parkedTill' = IF LiveHeap = {} THEN Forever ELSE Top(LiveHeap).deadline
        /\ UNCHANGED <<now, wakers, nextId, sleep, task>>
    BY <1>6 DEF ParkTimers
  <2>2. /\ LiveHeap \subseteq heap
        /\ \A e \in heap : e.id \in wakers =>
              e \in LiveHeap /\ Top(LiveHeap).deadline <= e.deadline
        /\ LiveHeap # {} => Top(LiveHeap).deadline \in 0 .. MaxNow
    BY <1>0, LiveHeapFacts
  <2>3. TimersTypeOK' /\ parkedTill' \in Nat
    BY <1>0, <2>1, <2>2 DEF TimersTypeOK, Forever
  <2>4. ASSUME NEW t \in Sleepers, task[t] # "none", sleep[t].id \in wakers
        PROVE  /\ [deadline |-> sleep[t].deadline, id |-> sleep[t].id] \in heap'
               /\ parkedTill' <= sleep[t].deadline
    <3>1. [deadline |-> sleep[t].deadline, id |-> sleep[t].id] \in heap
      BY <2>4 DEF TimersInv
    <3>2. /\ [deadline |-> sleep[t].deadline, id |-> sleep[t].id] \in LiveHeap
          /\ Top(LiveHeap).deadline <= sleep[t].deadline
      BY <3>1, <2>2, <2>4
    <3> QED BY <3>2, <2>1
  <2> QED BY <2>1, <2>3, <2>4 DEF TimersInv
<1>7. CASE PollTimesOut
  BY <1>0, <1>7 DEF PollTimesOut, TimersInv, TimersTypeOK, Awake
<1>8. CASE Advance
  BY <1>0, <1>8 DEF Advance, TimersInv, TimersTypeOK, Awake
<1>9. CASE UNCHANGED timerVars
  BY <1>9 DEF timerVars, TimersInv, TimersTypeOK, Awake
<1> QED BY <1>1, <1>2, <1>3, <1>4, <1>5, <1>6, <1>7, <1>8, <1>9 DEF TimersNext

LEMMA TimersInvariance == TimersSpec => []TimersInv
<1> QED BY TimersInitial, TimersStep, PTL DEF TimersSpec

\* Heap, wakers and clock keep their ranges: an id is handed out once (Timers).
THEOREM TimersTypeCorrect == TimersSpec => []TimersTypeOK
<1>1. TimersInv => TimersTypeOK
  BY DEF TimersInv
<1> QED BY <1>1, TimersInvariance, PTL

\* No sleep is lost or late, whatever is cancelled, fired or polled in between (next_deadline,
\* fire_timers, Sleep::poll).
THEOREM NoSleepIsLate == TimersSpec => []NoOversleep
<1>1. TimersInv => NoOversleep
  <2> SUFFICES ASSUME TimersInv, NEW t \in Waiting
               PROVE  /\ sleep[t].id \in wakers
                      /\ \E e \in heap : e.id = sleep[t].id /\ e.deadline = sleep[t].deadline
                      /\ ~Awake => parkedTill <= sleep[t].deadline
    BY DEF NoOversleep
  <2>1. t \in Sleepers /\ task[t] = "waiting"
    BY DEF Waiting
  <2>2. [deadline |-> sleep[t].deadline, id |-> sleep[t].id] \in heap
    BY <2>1 DEF TimersInv
  <2> QED BY <2>1, <2>2 DEF TimersInv
<1> QED BY <1>1, TimersInvariance, PTL

-----------------------------------------------------------------------------
(* Shards.                                                                 *)

\* Shards are started in order and joined in order; a shard that does not run serves nobody,
\* and one that dropped a connection has ended, by its deadline if it ended well.
ShardsInv ==
    /\ ShardsTypeOK
    /\ main = "bind" => next = 1
    /\ main \in {"bind", "start"} => \A s \in ShardIds : s >= next => shard[s] = "unborn"
    /\ main = "join" => \A s \in ShardIds : s < next => shard[s] = "ok"
    /\ main = "ok" => \A s \in ShardIds : shard[s] = "ok"
    /\ \A c \in Clients : conn[c] \in {"queued", "serving", "dropped"} => home[c] \in ShardIds
    /\ \A s \in ShardIds : ~Running(s) => Tasks(s) = {}
    /\ \A c \in Clients : conn[c] = "dropped" =>
          /\ shard[home[c]] \in Ended \union {"gone"}
          /\ shard[home[c]] = "ok" => left[home[c]] = 0

LEMMA ShardsInitial == ShardsInit => ShardsInv
<1> SUFFICES ASSUME ShardsInit PROVE ShardsInv
  OBVIOUS
<1>1. ShardsTypeOK
  <2>1. 1 \in ShardIds /\ 0 \in 0 .. NumShards /\ DrainTicks \in 0 .. DrainTicks
    BY ShardsAssumption DEF ShardIds
  <2> QED BY <2>1 DEF ShardsInit, ShardsTypeOK
<1> QED BY <1>1 DEF ShardsInit, ShardsInv, Tasks

\* What the end of a shard's thread does to the invariant.
LEMMA ShardEnds ==
    ASSUME ShardsInv, NEW s \in ShardIds, NEW how \in Ended, Running(s), End(s, how),
           how = "ok" => Tasks(s) = {} \/ left[s] = 0,
           UNCHANGED <<home, left, main, next, signal, watcher, interrupted>>
    PROVE  ShardsInv'
<1>1. /\ shard' = [shard EXCEPT ![s] = how] /\ listening' = listening \ {s}
      /\ conn' = [c \in Clients |-> CASE c \in Tasks(s)   -> "dropped"
                                      [] c \in Backlog(s) -> "reset"
                                      [] OTHER            -> conn[c]]
  BY DEF End
<1>2. /\ \A r \in ShardIds : r # s => shard'[r] = shard[r]
      /\ shard'[s] = how
  BY <1>1 DEF ShardsInv, ShardsTypeOK
<1>3. \A c \in Clients :
         /\ c \in Tasks(s) => conn'[c] = "dropped"
         /\ c \notin Tasks(s) /\ c \in Backlog(s) => conn'[c] = "reset"
         /\ c \notin Tasks(s) /\ c \notin Backlog(s) => conn'[c] = conn[c]
  <2>1. \A c \in Clients : ~(c \in Tasks(s) /\ c \in Backlog(s))
    BY DEF Tasks, Backlog
  <2> QED BY <1>1, <2>1
<1>4. ShardsTypeOK'
  <2>1. conn' \in [Clients -> {"away", "queued", "serving", "done", "dropped", "reset", "refused"}]
    BY <1>1 DEF ShardsInv, ShardsTypeOK
  <2> QED BY <1>1, <2>1 DEF ShardsInv, ShardsTypeOK
<1>5. /\ main' = main /\ next' = next
      /\ shard[s] \notin {"unborn", "ok"}
  BY DEF Running
<1>6. \A r \in ShardIds : ~Running(r)' => Tasks(r)' = {}
  BY <1>2, <1>3 DEF ShardsInv, Running, Tasks
<1>7. ASSUME NEW c \in Clients, conn'[c] = "dropped"
      PROVE  /\ home'[c] \in ShardIds
             /\ shard'[home'[c]] \in Ended \union {"gone"}
             /\ shard'[home'[c]] = "ok" => left'[home'[c]] = 0
  <2>1. CASE c \in Tasks(s)
    BY <2>1, <1>2 DEF Tasks
  <2>2. CASE c \notin Tasks(s)
    <3>1. conn[c] = "dropped"
      BY <2>2, <1>3, <1>7
    <3>2. home[c] # s
      BY <3>1 DEF ShardsInv, Running, Ended
    <3> QED BY <3>1, <3>2, <1>2 DEF ShardsInv
  <2> QED BY <2>1, <2>2
<1>8. \A c \in Clients : conn'[c] \in {"queued", "serving"} => home'[c] \in ShardIds
  BY <1>3 DEF ShardsInv
<1> QED BY <1>2, <1>4, <1>5, <1>6, <1>7, <1>8 DEF ShardsInv

LEMMA ShardsStep == ShardsInv /\ [ShardsNext]_shardVars => ShardsInv'
<1> SUFFICES ASSUME ShardsInv, [ShardsNext]_shardVars PROVE ShardsInv'
  OBVIOUS
<1>0. ShardsTypeOK /\ ShardIds \subseteq Nat /\ NumShards \in ShardIds /\ 1 \in ShardIds
  BY ShardsAssumption DEF ShardsInv, ShardIds
<1>1. CASE Bind
  BY <1>0, <1>1 DEF Bind, ShardsInv, ShardsTypeOK, Running, Tasks
<1>2. CASE StartShard
  <2>1. /\ main = "start" /\ next \in ShardIds /\ UNCHANGED <<home, left, signal, watcher, interrupted>>
        /\ \A s \in ShardIds : s >= next => shard[s] = "unborn"
        /\ shard[next] = "unborn"
    BY <1>0, <1>2 DEF StartShard, ShardsInv, ShardsTypeOK
  <2>2. CASE /\ shard' = [shard EXCEPT ![next] = "accept"]
             /\ main' = IF next = NumShards THEN "join" ELSE "start"
             /\ next' = IF next = NumShards THEN 1 ELSE next + 1
             /\ UNCHANGED <<listening, conn>>
    <3>1. /\ \A s \in ShardIds : s # next => shard'[s] = shard[s]
          /\ shard'[next] = "accept"
      BY <1>0, <2>1, <2>2 DEF ShardsTypeOK
    <3>2. next' \in ShardIds /\ (main' = "start" => next' = next + 1) /\ (main' = "join" => next' = 1)
      BY <1>0, <2>1, <2>2, ShardsAssumption DEF ShardIds
    <3>3. ShardsTypeOK'
      BY <1>0, <2>1, <2>2, <3>2 DEF ShardsTypeOK
    <3>4. main' \in {"start", "join"} /\ (main' = "start" => \A s \in ShardIds : s >= next' => shard'[s] = "unborn")
      BY <1>0, <2>1, <2>2, <3>1, <3>2
    <3>5. main' = "join" => ~\E s \in ShardIds : s < next'
      BY <3>2 DEF ShardIds
    <3>6. \A s \in ShardIds : ~Running(s)' => Tasks(s)' = {}
      BY <2>1, <2>2, <3>1 DEF ShardsInv, Running, Tasks
    <3>7. \A c \in Clients : conn'[c] = "dropped" => home'[c] # next
      BY <2>1, <2>2 DEF ShardsInv, Ended
    <3> QED BY <2>1, <2>2, <3>1, <3>3, <3>4, <3>5, <3>6, <3>7 DEF ShardsInv
  <2>3. CASE /\ main' = "err" /\ listening' = listening \ (next .. NumShards)
             /\ conn' = [c \in Clients |-> IF conn[c] = "queued" /\ home[c] >= next THEN "reset" ELSE conn[c]]
             /\ UNCHANGED <<shard, next>>
    <3>1. ShardsTypeOK'
      BY <1>0, <2>1, <2>3 DEF ShardsTypeOK
    <3>2. \A c \in Clients : conn'[c] \in {conn[c], "reset"}
      BY <2>3
    <3>3. \A s \in ShardIds : Running(s)' = Running(s) /\ Tasks(s)' \subseteq Tasks(s)
      BY <2>1, <2>3, <3>2 DEF Running, Tasks
    <3> QED BY <2>1, <2>3, <3>1, <3>2, <3>3 DEF ShardsInv
  <2> QED BY <1>2, <2>2, <2>3 DEF StartShard
<1>3. CASE Join
  <2>1. /\ main = "join" /\ next \in ShardIds /\ shard[next] \in Ended
        /\ UNCHANGED <<shard, listening, conn, home, left, signal, watcher, interrupted>>
        /\ main' \in {"err", "ok", "join"} /\ (main' # "err" => shard[next] = "ok")
        /\ main' = "ok" => next = NumShards
        /\ main' = "join" => next # NumShards
        /\ next' = IF main' = "join" THEN next + 1 ELSE next
    <3>1. next \in ShardIds
      BY <1>0 DEF ShardsTypeOK
    <3> QED BY <1>3, <3>1 DEF Join
  <2>2. next' \in ShardIds
    BY <2>1, <1>0, ShardsAssumption DEF ShardIds
  <2>3. ShardsTypeOK'
    BY <1>0, <2>1, <2>2 DEF ShardsTypeOK
  <2>4. \A s \in ShardIds : s < next => shard[s] = "ok"
    BY <2>1 DEF ShardsInv
  <2>5. main' = "join" => \A s \in ShardIds : s < next' => shard[s] = "ok"
    BY <1>0, <2>1, <2>4
  <2>6. main' = "ok" => \A s \in ShardIds : shard[s] = "ok"
    BY <2>1, <2>4, ShardsAssumption DEF ShardIds
  <2> QED BY <2>1, <2>3, <2>5, <2>6 DEF ShardsInv, Running, Tasks
<1>4. ASSUME NEW s \in ShardIds, Accept(s) PROVE ShardsInv'
  <2>1. shard[s] = "accept" /\ UNCHANGED <<listening, home, left, main, next, signal, watcher, interrupted>>
    BY <1>4 DEF Accept
  <2>2. CASE shard' = [shard EXCEPT ![s] = "check"] /\ UNCHANGED conn
    BY <1>0, <2>1, <2>2 DEF ShardsInv, ShardsTypeOK, Running, Tasks, Ended
  <2>3. CASE UNCHANGED shard /\ \E c \in Backlog(s) : conn' = [conn EXCEPT ![c] = "serving"]
    <3>1. PICK c \in Backlog(s) : conn' = [conn EXCEPT ![c] = "serving"]
      BY <2>3
    <3>2. c \in Clients /\ home[c] = s /\ conn[c] = "queued"
      BY DEF Backlog
    <3>3. ShardsTypeOK'
      BY <1>0, <2>1, <2>3, <3>1, <3>2 DEF ShardsTypeOK
    <3>4. conn'[c] = "serving" /\ \A d \in Clients : d # c => conn'[d] = conn[d]
      BY <1>0, <3>1, <3>2 DEF ShardsTypeOK
    <3>5. Running(s)
      BY <2>1 DEF Running
    <3>6. \A r \in ShardIds : ~Running(r)' => Tasks(r)' = {}
      BY <2>1, <2>3, <3>2, <3>4, <3>5 DEF ShardsInv, Running, Tasks
    <3> QED BY <2>1, <2>3, <3>2, <3>3, <3>4, <3>6 DEF ShardsInv
  <2> QED BY <1>4, <2>2, <2>3 DEF Accept
<1>5. ASSUME NEW s \in ShardIds, CheckSignal(s) PROVE ShardsInv'
  <2>1. /\ shard[s] = "check" /\ UNCHANGED <<listening, conn, home, left, main, next, signal, watcher, interrupted>>
        /\ shard'[s] \in {"closing", "accept"} /\ \A r \in ShardIds : r # s => shard'[r] = shard[r]
        /\ ShardsTypeOK'
    BY <1>0, <1>5 DEF CheckSignal, ShardsTypeOK
  <2> QED BY <1>0, <2>1 DEF ShardsInv, Running, Tasks, Ended
<1>6. ASSUME NEW s \in ShardIds, CloseListener(s) PROVE ShardsInv'
  <2>1. /\ shard[s] = "closing" /\ UNCHANGED <<home, left, main, next, signal, watcher, interrupted>>
        /\ shard'[s] = "drain" /\ \A r \in ShardIds : r # s => shard'[r] = shard[r]
        /\ \A c \in Clients : conn'[c] \in {conn[c], "reset"}
        /\ ShardsTypeOK'
    BY <1>0, <1>6 DEF CloseListener, ShardsTypeOK
  <2>2. \A r \in ShardIds : ~Running(r)' => Tasks(r)' = {}
    BY <2>1 DEF ShardsInv, Running, Tasks
  <2>3. \A c \in Clients : conn'[c] \in {"queued", "serving", "dropped"} => conn'[c] = conn[c]
    BY <2>1
  <2>4. \A c \in Clients : conn[c] = "dropped" => home[c] # s
    BY <2>1 DEF ShardsInv, Ended
  <2>5. \A c \in Clients : conn'[c] \in {"queued", "serving", "dropped"} => home'[c] \in ShardIds
    BY <2>1, <2>3 DEF ShardsInv
  <2>6. \A c \in Clients : conn'[c] = "dropped" =>
           /\ shard'[home'[c]] \in Ended \union {"gone"}
           /\ shard'[home'[c]] = "ok" => left'[home'[c]] = 0
    BY <2>1, <2>3, <2>4 DEF ShardsInv
  <2>7. \A r \in ShardIds : shard[r] \in {"unborn", "ok"} => shard'[r] = shard[r]
    BY <2>1
  <2> QED BY <2>1, <2>2, <2>5, <2>6, <2>7 DEF ShardsInv
<1>7. ASSUME NEW s \in ShardIds, Drain(s) PROVE ShardsInv'
  BY <1>7, ShardEnds DEF Drain, Running, Ended
<1>8. ASSUME NEW s \in ShardIds, Elapse(s) PROVE ShardsInv'
  <2>1. /\ shard[s] = "drain" /\ UNCHANGED <<shard, listening, conn, home, main, next, signal, watcher, interrupted>>
        /\ \A r \in ShardIds : r # s => left'[r] = left[r]
        /\ ShardsTypeOK'
    BY <1>0, <1>8, ShardsAssumption DEF Elapse, ShardsTypeOK
  <2>2. \A r \in ShardIds : Running(r)' = Running(r) /\ Tasks(r)' = Tasks(r)
    BY <2>1 DEF Running, Tasks
  <2>3. ASSUME NEW c \in Clients, conn[c] = "dropped"
        PROVE  shard[home[c]] \in Ended \union {"gone"} /\ (shard[home[c]] = "ok" => left'[home[c]] = 0)
    <3>1. home[c] \in ShardIds /\ shard[home[c]] \in Ended \union {"gone"} /\ (shard[home[c]] = "ok" => left[home[c]] = 0)
      BY <2>3 DEF ShardsInv
    <3> QED BY <2>1, <3>1
  <2> QED BY <2>1, <2>2, <2>3 DEF ShardsInv
<1>9. ASSUME NEW s \in ShardIds, Fail(s) PROVE ShardsInv'
  BY <1>9, ShardEnds DEF Fail, Ended
<1>10. ASSUME NEW c \in Clients, Connect(c) PROVE ShardsInv'
  <2>1. /\ conn[c] = "away" /\ UNCHANGED <<shard, listening, left, main, next, signal, watcher, interrupted>>
        /\ \A d \in Clients : d # c => conn'[d] = conn[d] /\ home'[d] = home[d]
        /\ \/ conn'[c] = "refused" /\ home'[c] = home[c]
           \/ conn'[c] = "queued" /\ home'[c] \in ShardIds
        /\ ShardsTypeOK'
    <3>1. CASE conn' = [conn EXCEPT ![c] = "refused"] /\ UNCHANGED home
      BY <1>0, <1>10, <3>1 DEF Connect, ShardsTypeOK
    <3>2. CASE \E s \in listening : conn' = [conn EXCEPT ![c] = "queued"] /\ home' = [home EXCEPT ![c] = s]
      <4>1. ShardIds \subseteq 0 .. NumShards
        BY ShardsAssumption DEF ShardIds
      <4> QED BY <1>0, <1>10, <3>2, <4>1 DEF Connect, ShardsTypeOK
    <3> QED BY <1>10, <3>1, <3>2 DEF Connect
  <2> QED BY <1>0, <2>1 DEF ShardsInv, Running, Tasks
<1>11. ASSUME NEW c \in Clients, Served(c) PROVE ShardsInv'
  <2>1. /\ UNCHANGED <<shard, listening, home, left, main, next, signal, watcher, interrupted>>
        /\ conn'[c] = "done" /\ \A d \in Clients : d # c => conn'[d] = conn[d]
        /\ ShardsTypeOK'
    BY <1>0, <1>11 DEF Served, ShardsTypeOK
  <2> QED BY <1>0, <2>1 DEF ShardsInv, Running, Tasks
<1>12. CASE Interrupt
  <2>1. UNCHANGED <<home, left, next, signal, watcher>>
    BY <1>12 DEF Interrupt
  <2>2. CASE interrupted' = TRUE /\ UNCHANGED <<shard, listening, conn, main>>
    BY <1>0, <2>1, <2>2 DEF ShardsInv, ShardsTypeOK, Running, Tasks
  <2>3. CASE /\ main' = "killed" /\ listening' = {} /\ shard' = [s \in ShardIds |-> "gone"]
             /\ conn' = [c \in Clients |-> IF conn[c] \in {"queued", "serving"} THEN "reset" ELSE conn[c]]
             /\ UNCHANGED interrupted
    <3>1. ShardsTypeOK'
      BY <1>0, <2>1, <2>3 DEF ShardsTypeOK
    <3>2. \A c \in Clients : conn'[c] \notin {"queued", "serving"} /\ (conn'[c] = "dropped" => conn[c] = "dropped")
      BY <2>3
    <3> QED BY <2>1, <2>3, <3>1, <3>2 DEF ShardsInv, Tasks
  <2> QED BY <1>12, <2>2, <2>3 DEF Interrupt
<1>13. CASE Watch
  <2>1. UNCHANGED <<shard, listening, conn, home, left, main, next, interrupted>>
    BY <1>13 DEF Watch
  <2>2. signal' \in BOOLEAN /\ watcher' \in {"waiting", "restored", "called"}
    BY <1>0, <1>13 DEF Watch, ShardsTypeOK
  <2>3. ShardsTypeOK'
    BY <1>0, <2>1, <2>2 DEF ShardsTypeOK
  <2> QED BY <2>1, <2>3 DEF ShardsInv, Running, Tasks
<1>14. CASE UNCHANGED shardVars
  BY <1>14 DEF shardVars, ShardsInv, ShardsTypeOK, Running, Tasks
<1> QED
  BY <1>1, <1>2, <1>3, <1>4, <1>5, <1>6, <1>7, <1>8, <1>9, <1>10, <1>11, <1>12, <1>13, <1>14
  DEF ShardsNext, Main, Shard

LEMMA ShardsInvariance == ShardsSpec => []ShardsInv
<1> QED BY ShardsInitial, ShardsStep, PTL DEF ShardsSpec

\* Shards, connections and the main thread stay in their ranges (run_shards_with_shutdown).
THEOREM ShardsTypeCorrect == ShardsSpec => []ShardsTypeOK
<1>1. ShardsInv => ShardsTypeOK
  BY DEF ShardsInv
<1> QED BY <1>1, ShardsInvariance, PTL

\* A graceful stop cuts off only what outlasts the drain deadline, and run returns Ok only
\* with every shard ended and nothing left unserved (shard_main, run_shards_with_shutdown).
THEOREM StopLosesNothing == ShardsSpec => []StopLosesNoWork
<1>1. ShardsInv => StopLosesNoWork
  BY DEF ShardsInv, StopLosesNoWork, Running
<1> QED BY <1>1, ShardsInvariance, PTL

-----------------------------------------------------------------------------
(* The shutdown signal.                                                    *)
(* One call of trigger() got past the swap, and exists once the flag is    *)
(* up; only that one ever holds wakers.                                    *)
OneTrigger ==
    /\ \A x, y \in Triggers :
          tpc[x] \in {"drain", "wake", "done"} /\ tpc[y] \in {"drain", "wake", "done"} => x = y
    /\ triggered <=> \E x \in Triggers : tpc[x] \in {"drain", "wake", "done"}

\* A waiter that has registered holds a slot as long as the list is whole.
Registered == ~Drained => \A w \in Waiters : wpc[w] \in {"recheck", "pending"} => slot[w] # NoSlot

ShutdownInv == TypeOK /\ OneTrigger /\ Registered /\ SlotsExact /\ NoMissedSignal

-----------------------------------------------------------------------------
\* The three changes of the list that may happen, with what they keep.
LEMMA FreeTop ==
    ASSUME NEW S, NEW q \in Seq(S), q # <<>>
    PROVE  /\ Len(q) \in Nat \ {0} /\ q[Len(q)] \in S
           /\ SubSeq(q, 1, Len(q) - 1) \in Seq(S)
           /\ Len(SubSeq(q, 1, Len(q) - 1)) = Len(q) - 1
           /\ \A i \in 1 .. Len(q) - 1 : SubSeq(q, 1, Len(q) - 1)[i] = q[i]
<1>1. Len(q) \in Nat \ {0}
  OBVIOUS
<1>2. q[Len(q)] \in S
  BY <1>1
<1> DEFINE n == Len(q) - 1
<1>3. n \in Nat /\ n + 1 = Len(q) /\ \A i \in 1 .. n : q[i] \in S
  BY <1>1
<1> HIDE DEF n
<1>4. /\ SubSeq(q, 1, n) \in Seq(S) /\ Len(SubSeq(q, 1, n)) = n
      /\ \A i \in 1 .. n : SubSeq(q, 1, n)[i] = q[i]
  BY <1>3
<1> QED  BY <1>1, <1>2, <1>3, <1>4 DEF n

LEMMA AppendFacts ==
    ASSUME NEW S, NEW q \in Seq(S), NEW e \in S
    PROVE  /\ Append(q, e) \in Seq(S)
           /\ Len(Append(q, e)) = Len(q) + 1 /\ Len(q) \in Nat
           /\ Append(q, e)[Len(q) + 1] = e
           /\ \A i \in 1 .. Len(q) : Append(q, e)[i] = q[i]
OBVIOUS

LEMMA UpdateFacts ==
    ASSUME NEW S, NEW q \in Seq(S), NEW k \in 1 .. Len(q), NEW e \in S
    PROVE  /\ [q EXCEPT ![k] = e] \in Seq(S)
           /\ Len([q EXCEPT ![k] = e]) = Len(q)
           /\ \A i \in 1 .. Len(q) : [q EXCEPT ![k] = e][i] = IF i = k THEN e ELSE q[i]
OBVIOUS

-----------------------------------------------------------------------------
LEMMA ShutdownTypeInit == Init => TypeOK
<1> SUFFICES ASSUME Init PROVE TypeOK
  OBVIOUS
<1>1. <<>> \in Seq(Waiters \cup {NoWaiter}) /\ <<>> \in Seq(Nat \ {0}) /\ Len(<<>>) = 0
  OBVIOUS
<1>2. Elems(<<>>) = {}
  BY <1>1 DEF Elems
<1> QED  BY <1>1, <1>2 DEF Init, TypeOK, NoSlot

(* What Register and Release do to the list and to the slot of w.          *)
LEMMA ListTyped ==
    ASSUME TypeOK, NEW w \in Waiters,
           \/ wpc[w] = "register" /\ slot[w] # NoSlot /\ Replace(w)
           \/ wpc[w] = "register" /\ slot[w] = NoSlot /\ Insert(w)
           \/ RemoveEntry(w)
    PROVE  /\ entries' \in Seq(Waiters \cup {NoWaiter}) /\ free' \in Seq(Nat \ {0})
           /\ Elems(free') \subseteq 1 .. Len(entries')
           /\ slot' \in [Waiters -> Nat]
<1> DEFINE E == Waiters \cup {NoWaiter}
<1>0. entries \in Seq(E) /\ free \in Seq(Nat \ {0}) /\ slot \in [Waiters -> Nat]
      /\ Elems(free) \subseteq 1 .. Len(entries) /\ Len(entries) \in Nat /\ Len(free) \in Nat
      /\ w \in E /\ NoWaiter \in E
  BY DEF TypeOK
<1>1. CASE slot[w] # NoSlot /\ Replace(w)
  <2>1. slot[w] \in Nat /\ slot[w] # 0
    BY <1>0, <1>1 DEF NoSlot
  <2>2. entries' \in Seq(E) /\ Len(entries') = Len(entries)
    <3>1. CASE slot[w] <= Len(entries)
      BY <1>0, <1>1, <2>1, <3>1, UpdateFacts DEF Replace
    <3>2. CASE ~(slot[w] <= Len(entries))
      BY <1>0, <1>1, <3>2 DEF Replace
    <3> QED  BY <3>1, <3>2
  <2> QED  BY <1>0, <1>1, <2>2 DEF Replace
<1>2. CASE Insert(w) /\ free # <<>>
  <2> DEFINE i == free[Len(free)]
  <2>1. i \in Elems(free) /\ i \in 1 .. Len(entries)
    BY <1>0, <1>2, FreeTop DEF Elems
  <2>2. entries' = [entries EXCEPT ![i] = w] /\ free' = SubSeq(free, 1, Len(free) - 1)
        /\ slot' = [slot EXCEPT ![w] = i]
    BY <1>2 DEF Insert
  <2>3. entries' \in Seq(E) /\ Len(entries') = Len(entries)
    BY <1>0, <2>1, <2>2, UpdateFacts
  <2>4. free' \in Seq(Nat \ {0}) /\ Elems(free') \subseteq Elems(free)
    BY <1>0, <1>2, <2>2, FreeTop DEF Elems
  <2> QED  BY <1>0, <2>1, <2>2, <2>3, <2>4
<1>3. CASE Insert(w) /\ free = <<>>
  <2>1. entries' = Append(entries, w) /\ free' = free /\ slot' = [slot EXCEPT ![w] = Len(entries) + 1]
    BY <1>3 DEF Insert
  <2> QED  BY <1>0, <2>1, AppendFacts
<1>4. CASE RemoveEntry(w)
  <2> DEFINE taken == slot[w] # NoSlot /\ slot[w] <= Len(entries) /\ entries[slot[w]] # NoWaiter
  <2>1. slot' \in [Waiters -> Nat]
    BY <1>0, <1>4 DEF RemoveEntry, NoSlot
  <2>2. CASE taken
    <3>1. slot[w] \in 1 .. Len(entries)
      BY <1>0, <2>2 DEF NoSlot
    <3>2. entries' = [entries EXCEPT ![slot[w]] = NoWaiter] /\ free' = Append(free, slot[w])
      BY <1>4, <2>2 DEF RemoveEntry
    <3>3. entries' \in Seq(E) /\ Len(entries') = Len(entries)
      BY <1>0, <3>1, <3>2, UpdateFacts
    <3>4. free' \in Seq(Nat \ {0}) /\ Elems(free') \subseteq Elems(free) \cup {slot[w]}
      <4>1. slot[w] \in Nat \ {0}
        BY <3>1, <1>0
      <4> QED  BY <1>0, <4>1, <3>2, AppendFacts DEF Elems
    <3> QED  BY <1>0, <2>1, <3>1, <3>3, <3>4
  <2>3. CASE ~taken
    BY <1>0, <1>4, <2>1, <2>3 DEF RemoveEntry, list
  <2> QED  BY <2>2, <2>3
<1> QED  BY <1>1, <1>2, <1>3, <1>4

LEMMA ShutdownTypeStep == TypeOK /\ [Next]_vars => TypeOK'
<1> SUFFICES ASSUME TypeOK, [Next]_vars PROVE TypeOK'
  OBVIOUS
<1>1. ASSUME NEW x \in Triggers, Swap(x) PROVE TypeOK'
  BY <1>1 DEF Swap, TypeOK, list
<1>2. ASSUME NEW x \in Triggers, DrainWaiters(x) PROVE TypeOK'
  <2>1. {entries[i] : i \in 1 .. Len(entries)} \ {NoWaiter} \subseteq Waiters
    BY DEF TypeOK
  <2>2. wake' \in [Triggers -> SUBSET Waiters]
    BY <1>2, <2>1 DEF DrainWaiters, TypeOK
  <2>3. entries' \in Seq(Waiters \cup {NoWaiter}) /\ free' \in Seq(Nat \ {0}) /\ Elems(free') = {}
    BY <1>2 DEF DrainWaiters, Elems
  <2> QED  BY <1>2, <2>2, <2>3 DEF DrainWaiters, TypeOK
<1>3. ASSUME NEW x \in Triggers, NEW w \in Waiters, WakeOne(x, w) PROVE TypeOK'
  BY <1>3 DEF WakeOne, TypeOK, list
<1>4. ASSUME NEW x \in Triggers, WokeAll(x) PROVE TypeOK'
  BY <1>4 DEF WokeAll, TypeOK, list
<1>5. ASSUME NEW w \in Waiters, Start(w) \/ WorkDone(w) \/ DropTask(w) \/ Load(w) \/ Recheck(w)
      PROVE  TypeOK'
  BY <1>5 DEF Start, WorkDone, DropTask, Load, Recheck, TypeOK, list
<1>6. ASSUME NEW w \in Waiters, Repoll(w) PROVE TypeOK'
  BY <1>6 DEF Repoll, TypeOK, list
<1>7. ASSUME NEW w \in Waiters, Register(w) PROVE TypeOK'
  <2>1. /\ entries' \in Seq(Waiters \cup {NoWaiter}) /\ free' \in Seq(Nat \ {0})
        /\ Elems(free') \subseteq 1 .. Len(entries') /\ slot' \in [Waiters -> Nat]
    BY <1>7, ListTyped DEF Register
  <2> QED  BY <1>7, <2>1 DEF Register, TypeOK
<1>8. ASSUME NEW w \in Waiters, Release(w) PROVE TypeOK'
  <2>1. /\ entries' \in Seq(Waiters \cup {NoWaiter}) /\ free' \in Seq(Nat \ {0})
        /\ Elems(free') \subseteq 1 .. Len(entries') /\ slot' \in [Waiters -> Nat]
    BY <1>8, ListTyped DEF Release
  <2> QED  BY <1>8, <2>1 DEF Release, TypeOK
<1>9. CASE UNCHANGED vars
  BY <1>9 DEF vars, list, TypeOK
<1> QED  BY <1>1, <1>2, <1>3, <1>4, <1>5, <1>6, <1>7, <1>8, <1>9 DEF Next, Trigger, Poll

LEMMA TriggerStep == TypeOK /\ OneTrigger /\ [Next]_vars => OneTrigger'
<1> SUFFICES ASSUME TypeOK, OneTrigger, [Next]_vars PROVE OneTrigger'
  OBVIOUS
<1>1. ASSUME NEW x \in Triggers, Swap(x) PROVE OneTrigger'
  BY <1>1 DEF Swap, TypeOK, OneTrigger
<1>2. ASSUME NEW x \in Triggers, DrainWaiters(x) PROVE OneTrigger'
  BY <1>2 DEF DrainWaiters, TypeOK, OneTrigger
<1>3. ASSUME NEW x \in Triggers, NEW w \in Waiters, WakeOne(x, w) PROVE OneTrigger'
  BY <1>3 DEF WakeOne, OneTrigger
<1>4. ASSUME NEW x \in Triggers, WokeAll(x) PROVE OneTrigger'
  BY <1>4 DEF WokeAll, TypeOK, OneTrigger
<1>5. CASE UNCHANGED <<triggered, tpc>>
  BY <1>5 DEF OneTrigger
<1> QED  BY <1>1, <1>2, <1>3, <1>4, <1>5
         DEF Next, Trigger, Poll, Start, Repoll, WorkDone, Load, Register, Recheck, Release,
             DropTask, vars

-----------------------------------------------------------------------------
(* The list stays exact through each of the three changes.                 *)
LEMMA InsertExact ==
    ASSUME TypeOK, ListExact, NEW w \in Waiters, slot[w] = NoSlot, Insert(w)
    PROVE  ListExact' /\ slot'[w] # NoSlot
<1>0. /\ entries \in Seq(Waiters \cup {NoWaiter}) /\ free \in Seq(Nat \ {0})
      /\ slot \in [Waiters -> Nat] /\ Len(entries) \in Nat /\ Len(free) \in Nat
      /\ Elems(free) \subseteq 1 .. Len(entries) /\ w # NoWaiter /\ NoWaiter \notin Waiters
  BY ShutdownAssumption DEF TypeOK
<1>w. \A i \in 1 .. Len(entries) : entries[i] # w
  BY <1>0 DEF ListExact, NoSlot
<1>1. CASE free # <<>>
  <2> DEFINE k == free[Len(free)]
  <2>1. /\ entries' = [entries EXCEPT ![k] = w] /\ slot' = [slot EXCEPT ![w] = k]
        /\ free' = SubSeq(free, 1, Len(free) - 1)
    BY <1>1 DEF Insert
  <2>2. Len(free) \in 1 .. Len(free) /\ k \in Elems(free) /\ k \in 1 .. Len(entries)
        /\ entries[k] = NoWaiter
    BY <1>0, <1>1, FreeTop DEF Elems, ListExact
  <2>3. /\ Len(entries') = Len(entries)
        /\ \A i \in 1 .. Len(entries) : entries'[i] = IF i = k THEN w ELSE entries[i]
    BY <1>0, <2>1, <2>2, UpdateFacts
  <2>4. /\ Len(free') = Len(free) - 1
        /\ \A i \in 1 .. Len(free) - 1 : free'[i] = free[i]
    BY <1>0, <1>1, <2>1, FreeTop
  <2> HIDE DEF k
  <2>5. \A i \in 1 .. Len(free') : i \in 1 .. Len(free) /\ i # Len(free) /\ free'[i] = free[i]
    BY <1>0, <2>4
  <2>6. \A i, j \in 1 .. Len(free') : i # j => free'[i] # free'[j]
    BY <2>5 DEF ListExact
  <2>7. \A i \in Elems(free') : i \in Elems(free) /\ i # k
    BY <2>2, <2>5 DEF ListExact, Elems, k
  <2>8. \A i \in Elems(free) : i # k => i \in Elems(free')
    <3>1. ASSUME NEW j \in 1 .. Len(free), free[j] # k PROVE free[j] \in Elems(free')
      <4>1. j \in 1 .. Len(free') /\ free'[j] = free[j]
        BY <1>0, <2>4, <3>1 DEF k
      <4> QED  BY <4>1 DEF Elems
    <3> QED  BY <3>1 DEF Elems
  <2>9. \A i \in Elems(free') : entries'[i] = NoWaiter
    BY <1>0, <2>3, <2>7 DEF ListExact
  <2>10. \A v \in Waiters : slot'[v] # NoSlot => slot'[v] <= Len(entries') /\ entries'[slot'[v]] = v
    <3>1. ASSUME NEW v \in Waiters, slot'[v] # NoSlot
          PROVE  slot'[v] <= Len(entries') /\ entries'[slot'[v]] = v
      <4>1. CASE v = w
        BY <1>0, <2>1, <2>2, <2>3, <4>1
      <4>2. CASE v # w
        <5>1. slot'[v] = slot[v] /\ slot[v] \in 1 .. Len(entries) /\ entries[slot[v]] = v
          BY <1>0, <2>1, <3>1, <4>2 DEF ListExact, NoSlot
        <5> QED  BY <1>0, <2>2, <2>3, <5>1
      <4> QED  BY <4>1, <4>2
    <3> QED  BY <3>1
  <2>11. \A i \in 1 .. Len(entries') :
            IF entries'[i] = NoWaiter THEN i \in Elems(free') ELSE slot'[entries'[i]] = i
    <3>1. ASSUME NEW i \in 1 .. Len(entries')
          PROVE  IF entries'[i] = NoWaiter THEN i \in Elems(free') ELSE slot'[entries'[i]] = i
      <4>1. CASE i = k
        BY <1>0, <2>1, <2>2, <2>3, <4>1
      <4>2. CASE i # k
        <5>1. entries'[i] = entries[i] /\ i \in 1 .. Len(entries) /\ entries[i] # w
              /\ entries[i] \in Waiters \cup {NoWaiter}
          BY <1>0, <1>w, <2>3, <4>2
        <5> QED  BY <1>0, <2>1, <2>8, <4>2, <5>1 DEF ListExact
      <4> QED  BY <4>1, <4>2
    <3> QED  BY <3>1
  <2>12. slot'[w] # NoSlot
    BY <1>0, <2>1, <2>2 DEF NoSlot
  <2>13. ListExact'
    BY <2>6, <2>9, <2>10, <2>11 DEF ListExact
  <2> QED  BY <2>12, <2>13
<1>2. CASE free = <<>>
  <2>1. entries' = Append(entries, w) /\ slot' = [slot EXCEPT ![w] = Len(entries) + 1] /\ free' = free
    BY <1>2 DEF Insert
  <2>2. /\ Len(entries') = Len(entries) + 1 /\ entries'[Len(entries) + 1] = w
        /\ \A i \in 1 .. Len(entries) : entries'[i] = entries[i]
    BY <1>0, <2>1, AppendFacts
  <2>3. ASSUME NEW v \in Waiters, slot'[v] # NoSlot
        PROVE  slot'[v] <= Len(entries') /\ entries'[slot'[v]] = v
    <3>1. CASE v = w
      BY <1>0, <2>1, <2>2, <3>1
    <3>2. CASE v # w
      <4>1. slot'[v] = slot[v] /\ slot[v] \in 1 .. Len(entries) /\ entries[slot[v]] = v
        BY <1>0, <2>1, <2>3, <3>2 DEF ListExact, NoSlot
      <4> QED  BY <1>0, <2>2, <4>1
    <3> QED  BY <3>1, <3>2
  <2>4. ASSUME NEW i \in 1 .. Len(entries')
        PROVE  IF entries'[i] = NoWaiter THEN i \in Elems(free') ELSE slot'[entries'[i]] = i
    <3>1. CASE i = Len(entries) + 1
      BY <1>0, <2>1, <2>2, <3>1
    <3>2. CASE i # Len(entries) + 1
      <4>1. i \in 1 .. Len(entries) /\ entries'[i] = entries[i] /\ entries[i] # w
            /\ entries[i] \in Waiters \cup {NoWaiter}
        BY <1>0, <1>w, <2>2, <3>2
      <4> QED  BY <1>0, <2>1, <4>1 DEF ListExact
    <3> QED  BY <3>1, <3>2
  <2>5. \A i \in Elems(free') : entries'[i] = NoWaiter
    BY <1>0, <2>1, <2>2 DEF ListExact
  <2>6. \A i, j \in 1 .. Len(free') : i # j => free'[i] # free'[j]
    BY <2>1 DEF ListExact
  <2>7. slot'[w] # NoSlot
    BY <1>0, <2>1 DEF NoSlot
  <2>8. ListExact'
    BY <2>3, <2>4, <2>5, <2>6 DEF ListExact
  <2> QED  BY <2>7, <2>8
<1> QED  BY <1>1, <1>2

LEMMA ReplaceExact ==
    ASSUME TypeOK, ListExact, NEW w \in Waiters, slot[w] # NoSlot, Replace(w)
    PROVE  ListExact' /\ slot'[w] # NoSlot
<1>1. /\ entries \in Seq(Waiters \cup {NoWaiter}) /\ slot[w] \in 1 .. Len(entries)
      /\ entries[slot[w]] = w
  BY DEF TypeOK, ListExact, NoSlot
<1>2. entries' = entries
  BY <1>1, UpdateFacts DEF Replace
<1> QED  BY <1>2 DEF Replace, ListExact, Elems

LEMMA RemoveExact ==
    ASSUME TypeOK, ListExact, NEW w \in Waiters, RemoveEntry(w)
    PROVE  ListExact'
<1>0. /\ entries \in Seq(Waiters \cup {NoWaiter}) /\ free \in Seq(Nat \ {0})
      /\ slot \in [Waiters -> Nat] /\ Len(entries) \in Nat /\ Len(free) \in Nat
      /\ Elems(free) \subseteq 1 .. Len(entries) /\ w # NoWaiter /\ NoWaiter \notin Waiters
  BY ShutdownAssumption DEF TypeOK
<1>1. CASE slot[w] = NoSlot
  <2>1. entries' = entries /\ free' = free /\ slot' = slot
    BY <1>0, <1>1 DEF RemoveEntry, list
  <2> QED  BY <2>1 DEF ListExact, Elems
<1>2. CASE slot[w] # NoSlot
  <2> DEFINE k == slot[w]
  <2>1. k \in 1 .. Len(entries) /\ entries[k] = w /\ k \in Nat \ {0}
    BY <1>0, <1>2 DEF ListExact, NoSlot
  <2>2. /\ entries' = [entries EXCEPT ![k] = NoWaiter] /\ free' = Append(free, k)
        /\ slot' = [slot EXCEPT ![w] = NoSlot]
    BY <1>0, <1>2, <2>1 DEF RemoveEntry
  <2>3. /\ Len(entries') = Len(entries)
        /\ \A i \in 1 .. Len(entries) : entries'[i] = IF i = k THEN NoWaiter ELSE entries[i]
    BY <1>0, <2>1, <2>2, UpdateFacts
  <2>4. /\ Len(free') = Len(free) + 1 /\ free'[Len(free) + 1] = k
        /\ \A i \in 1 .. Len(free) : free'[i] = free[i]
    BY <1>0, <2>1, <2>2, AppendFacts
  <2>5. k \notin Elems(free)
    BY <1>0, <2>1 DEF ListExact
  <2>k. \A v \in Waiters : slot'[v] = IF v = w THEN NoSlot ELSE slot[v]
    BY <1>0, <2>2
  <2> HIDE DEF k
  <2>6. \A i \in 1 .. Len(free') : i \in 1 .. Len(free) \/ i = Len(free) + 1
    BY <1>0, <2>4
  <2>7. \A i, j \in 1 .. Len(free') : i # j => free'[i] # free'[j]
    BY <2>4, <2>5, <2>6 DEF ListExact, Elems
  <2>8. Elems(free') = Elems(free) \cup {k}
    <3>1. Elems(free') \subseteq Elems(free) \cup {k}
      BY <2>4, <2>6 DEF Elems
    <3>2. k \in Elems(free')
      <4>1. Len(free) + 1 \in 1 .. Len(free')
        BY <1>0, <2>4
      <4> QED  BY <2>4, <4>1 DEF Elems
    <3>3. ASSUME NEW i \in 1 .. Len(free) PROVE free[i] \in Elems(free')
      <4>1. i \in 1 .. Len(free')
        BY <1>0, <2>4
      <4> QED  BY <2>4, <4>1 DEF Elems
    <3> QED  BY <3>1, <3>2, <3>3 DEF Elems
  <2>9. \A i \in Elems(free') : entries'[i] = NoWaiter
    BY <1>0, <2>1, <2>3, <2>8 DEF ListExact
  <2>10. ASSUME NEW v \in Waiters, slot'[v] # NoSlot
         PROVE  slot'[v] <= Len(entries') /\ entries'[slot'[v]] = v
    <3>1. v # w /\ slot'[v] = slot[v] /\ slot[v] \in 1 .. Len(entries) /\ entries[slot[v]] = v
      BY <1>0, <2>k, <2>10 DEF ListExact, NoSlot
    <3>2. slot[v] # k
      BY <2>1, <3>1
    <3> QED  BY <1>0, <2>3, <3>1, <3>2
  <2>11. ASSUME NEW i \in 1 .. Len(entries')
         PROVE  IF entries'[i] = NoWaiter THEN i \in Elems(free') ELSE slot'[entries'[i]] = i
    <3>1. CASE i = k
      BY <2>1, <2>3, <2>8, <3>1
    <3>2. CASE i # k
      <4>1. i \in 1 .. Len(entries) /\ entries'[i] = entries[i]
            /\ entries[i] \in Waiters \cup {NoWaiter}
        BY <1>0, <2>3, <3>2
      <4>2. entries[i] # w
        BY <1>0, <3>2, <4>1 DEF ListExact, k
      <4> QED  BY <1>0, <2>k, <2>8, <4>1, <4>2 DEF ListExact
    <3> QED  BY <3>1, <3>2
  <2> QED  BY <2>7, <2>9, <2>10, <2>11 DEF ListExact
<1> QED  BY <1>1, <1>2

-----------------------------------------------------------------------------
(* Until the list is taken, only Register and Release touch it, and only   *)
(* Register leads to the second look at the flag.                          *)
LEMMA ListStep == TypeOK /\ Registered /\ SlotsExact /\ [Next]_vars => Registered' /\ SlotsExact'
<1> SUFFICES ASSUME TypeOK, Registered, SlotsExact, [Next]_vars, ~Drained'
             PROVE  /\ ListExact'
                    /\ \A w \in Waiters : wpc'[w] \in {"recheck", "pending"} => slot'[w] # NoSlot
  BY DEF Registered, SlotsExact
<1>1. ~Drained
  <2>1. ASSUME NEW x \in Triggers, tpc[x] \in {"wake", "done"} PROVE tpc'[x] \in {"wake", "done"}
    BY <2>1 DEF Next, Trigger, Poll, Swap, DrainWaiters, WakeOne, WokeAll, Start, Repoll, WorkDone,
                Load, Register, Recheck, Release, DropTask, vars, TypeOK
  <2> QED  BY <2>1 DEF Drained
<1>2. ListExact /\ \A w \in Waiters : wpc[w] \in {"recheck", "pending"} => slot[w] # NoSlot
  BY <1>1 DEF Registered, SlotsExact
<1>3. ASSUME UNCHANGED <<list, slot>> PROVE ListExact'
  BY <1>2, <1>3 DEF ListExact, Elems, list
<1>4. ASSUME NEW x \in Triggers, DrainWaiters(x) PROVE FALSE
  BY <1>4 DEF DrainWaiters, Drained, TypeOK
<1>5. ASSUME NEW w \in Waiters,
             Start(w) \/ Repoll(w) \/ WorkDone(w) \/ DropTask(w) \/ Load(w) \/ Recheck(w)
      PROVE  /\ UNCHANGED <<list, slot>>
             /\ \A v \in Waiters : wpc'[v] \in {"recheck", "pending"} => slot'[v] # NoSlot
  BY <1>2, <1>5 DEF Start, Repoll, WorkDone, DropTask, Load, Recheck, TypeOK
<1>6. CASE UNCHANGED <<list, slot, wpc>>
  BY <1>2, <1>3, <1>6
<1>7. ASSUME NEW w \in Waiters, Register(w)
      PROVE  /\ ListExact'
             /\ \A v \in Waiters : wpc'[v] \in {"recheck", "pending"} => slot'[v] # NoSlot
  <2>1. ListExact' /\ slot'[w] # NoSlot
    BY <1>2, <1>7, InsertExact, ReplaceExact DEF Register
  <2>2. \A v \in Waiters : v # w => wpc'[v] = wpc[v] /\ slot'[v] = slot[v]
    BY <1>7 DEF Register, Insert, Replace, TypeOK
  <2> QED  BY <1>2, <2>1, <2>2
<1>8. ASSUME NEW w \in Waiters, Release(w)
      PROVE  /\ ListExact'
             /\ \A v \in Waiters : wpc'[v] \in {"recheck", "pending"} => slot'[v] # NoSlot
  <2>1. ListExact'
    BY <1>2, <1>8, RemoveExact DEF Release
  <2>2. \A v \in Waiters : v # w => wpc'[v] = wpc[v] /\ slot'[v] = slot[v]
    BY <1>8 DEF Release, RemoveEntry, TypeOK
  <2>3. wpc'[w] \notin {"recheck", "pending"}
    BY <1>8 DEF Release, TypeOK
  <2> QED  BY <1>2, <2>1, <2>2, <2>3
<1> QED  BY <1>3, <1>4, <1>5, <1>6, <1>7, <1>8
         DEF Next, Trigger, Poll, Swap, WakeOne, WokeAll, vars

(* While the list is whole every sleeper is in it.  Once it was taken,     *)
(* nobody goes to sleep any more, and whoever sleeps is in the trigger's   *)
(* hands or was woken by it.                                               *)
LEMMA SignalStep ==
    ASSUME TypeOK, OneTrigger, Registered, SlotsExact, NoMissedSignal, [Next]_vars,
           OneTrigger', Registered', SlotsExact', TypeOK'
    PROVE  NoMissedSignal'
<1> SUFFICES ASSUME NEW w \in Waiters, triggered', wpc'[w] = "pending"
             PROVE  \/ scheduled'[w]
                    \/ \E x \in Triggers : w \in wake'[x]
                    \/ w \in Elems(entries') /\ \E x \in Triggers : tpc'[x] = "drain"
  BY DEF NoMissedSignal
<1>1. CASE ~Drained'
  <2>1. \E x \in Triggers : tpc'[x] = "drain"
    BY <1>1 DEF OneTrigger, Drained
  <2>2. slot'[w] # NoSlot /\ ListExact'
    BY <1>1 DEF Registered, SlotsExact
  <2>3. slot'[w] \in 1 .. Len(entries') /\ entries'[slot'[w]] = w
    BY <2>2 DEF ListExact, TypeOK, NoSlot
  <2> QED  BY <2>1, <2>3 DEF Elems
<1>2. CASE Drained' /\ ~Drained
  <2>1. PICK x \in Triggers : DrainWaiters(x)
    BY <1>2 DEF Drained, Next, Trigger, Poll, Swap, WakeOne, WokeAll, Start, Repoll, WorkDone,
                Load, Register, Recheck, Release, DropTask, vars, TypeOK
  <2>2. wpc[w] = "pending"
    BY <2>1 DEF DrainWaiters
  <2>3. slot[w] \in 1 .. Len(entries) /\ entries[slot[w]] = w
    BY <1>2, <2>2 DEF Registered, SlotsExact, ListExact, TypeOK, NoSlot
  <2>4. w \in wake'[x]
    BY <2>1, <2>3, ShutdownAssumption DEF DrainWaiters, TypeOK
  <2> QED  BY <2>4
<1>3. CASE Drained
  <2>1. triggered /\ \A x \in Triggers : tpc[x] # "drain"
    BY <1>3 DEF Drained, OneTrigger
  <2>2. wpc[w] = "pending"
    BY <2>1 DEF Next, Trigger, Poll, Swap, DrainWaiters, WakeOne, WokeAll, Start, Repoll, WorkDone,
                Load, Register, Recheck, Release, DropTask, vars, TypeOK
  <2>3. scheduled[w] \/ \E x \in Triggers : w \in wake[x]
    BY <2>1, <2>2 DEF NoMissedSignal
  <2>4. ASSUME scheduled[w] PROVE scheduled'[w]
    BY <2>4, <2>1, <2>2
    DEF Next, Trigger, Poll, Swap, DrainWaiters, WakeOne, WokeAll, Start, Repoll, WorkDone, Load,
        Register, Recheck, Release, DropTask, vars, TypeOK
  <2>5. ASSUME NEW x \in Triggers, w \in wake[x] PROVE w \in wake'[x] \/ scheduled'[w]
    <3>1. ASSUME NEW y \in Triggers, NEW v \in Waiters, WakeOne(y, v)
          PROVE  w \in wake'[x] \/ scheduled'[w]
      BY <2>5, <3>1 DEF WakeOne, TypeOK
    <3>2. CASE UNCHANGED wake
      BY <2>5, <3>2
    <3> QED  BY <2>1, <3>1, <3>2
             DEF Next, Trigger, Poll, Swap, DrainWaiters, WokeAll, Start, Repoll, WorkDone, Load,
                 Register, Recheck, Release, DropTask, vars
  <2> QED  BY <2>3, <2>4, <2>5
<1> QED  BY <1>1, <1>2, <1>3

-----------------------------------------------------------------------------
LEMMA ShutdownInitial == Init => ShutdownInv
<1> SUFFICES ASSUME Init PROVE ShutdownInv
  OBVIOUS
<1>1. TypeOK
  BY ShutdownTypeInit
<1>2. OneTrigger
  BY DEF Init, OneTrigger
<1>3. Registered
  BY DEF Init, Registered
<1>4. Len(entries) = 0 /\ Len(free) = 0
  BY DEF Init
<1>5. SlotsExact
  BY <1>4 DEF Init, SlotsExact, ListExact, Elems, NoSlot
<1>6. NoMissedSignal
  BY DEF Init, NoMissedSignal
<1> QED  BY <1>1, <1>2, <1>3, <1>5, <1>6 DEF ShutdownInv

LEMMA ShutdownStep == ShutdownInv /\ [Next]_vars => ShutdownInv'
BY ShutdownTypeStep, TriggerStep, ListStep, SignalStep DEF ShutdownInv

LEMMA ShutdownInvariance == Spec => []ShutdownInv
BY ShutdownInitial, ShutdownStep, PTL DEF Spec

(* The slot indices and the free list are well formed in every reachable   *)
(* state, stale indices after the trigger included (Slots, 28-59).         *)
THEOREM ShutdownTypeCorrect == Spec => []TypeOK
<1>1. ShutdownInv => TypeOK
  BY DEF ShutdownInv
<1> QED  BY <1>1, ShutdownInvariance, PTL

(* Until the signal no slot leaks, none is shared, none is freed twice, for *)
(* any number of waiters on any number of shards.                           *)
THEOREM SlotsAreExact == Spec => []SlotsExact
<1>1. ShutdownInv => SlotsExact
  BY DEF ShutdownInv
<1> QED  BY <1>1, ShutdownInvariance, PTL

(* No waiter sleeps through the signal, for any number of waiters and of   *)
(* threads that trigger it.                                                *)
THEOREM NoSignalMissed == Spec => []NoMissedSignal
<1>1. ShutdownInv => NoMissedSignal
  BY DEF ShutdownInv
<1> QED  BY <1>1, ShutdownInvariance, PTL

-----------------------------------------------------------------------------
(* The blocking pool, and the parts together.                              *)
Slots == [value : {"none", "value"}, waker : BOOLEAN, finished : BOOLEAN]
PoolInv == PoolTypeOK /\ slots \in [Jobs -> Slots]

LEMMA PoolInitial == PoolInit => PoolInv
<1>1. <<>> \in Seq(Jobs)
  OBVIOUS
<1> QED  BY <1>1 DEF PoolInit, PoolInv, PoolTypeOK, Slots

LEMMA PoolStep == PoolInv /\ [PoolNext]_poolVars => PoolInv'
<1> SUFFICES ASSUME PoolInv, [PoolNext]_poolVars PROVE PoolInv'
  OBVIOUS
<1> USE DEF PoolInv, PoolTypeOK
<1>1. ASSUME NEW j \in Jobs, SpawnBlocking(j) PROVE PoolInv'
  <2>1. Append(channel, j) \in Seq(Jobs)
    OBVIOUS
  <2> QED  BY <1>1, <2>1 DEF SpawnBlocking
<1>2. ASSUME NEW j \in Jobs, PollBlocking(j) PROVE PoolInv'
  <2>1. slots[j] \in Slots
    OBVIOUS
  <2>2. slots[j].value \in {"none", "value"} /\ slots[j].finished \in BOOLEAN
    BY <2>1 DEF Slots
  <2>3. slots' \in [Jobs -> Slots]
    <3>1. [slots[j] EXCEPT !.value = "none"] \in Slots /\ [slots[j] EXCEPT !.waker = TRUE] \in Slots
      BY <2>1 DEF Slots
    <3>2. slots' = [slots EXCEPT ![j] = [slots[j] EXCEPT !.value = "none"]]
          \/ slots' = [slots EXCEPT ![j] = [slots[j] EXCEPT !.waker = TRUE]]
      BY <1>2 DEF PollBlocking
    <3> QED  BY <3>1, <3>2
  <2>4. caller' \in [Jobs -> {"before", "poll", "parked", "value", "none", "dropped"}]
    BY <1>2, <2>2 DEF PollBlocking
  <2> QED  BY <1>2, <2>3, <2>4 DEF PollBlocking
<1>3. ASSUME NEW j \in Jobs, DropBlocking(j) PROVE PoolInv'
  BY <1>3 DEF DropBlocking
<1>4. ASSUME NEW w \in PoolWorkers, Receive(w) PROVE PoolInv'
  <2>1. Head(channel) \in Jobs /\ Tail(channel) \in Seq(Jobs)
    BY <1>4 DEF Receive
  <2> QED  BY <1>4, <2>1 DEF Receive
<1>5. ASSUME NEW w \in PoolWorkers, FinishJob(w) PROVE PoolInv'
  <2>1. doing[w] \in Jobs
    BY <1>5 DEF FinishJob
  <2>2. PICK v \in {"value", "none"} :
             slots' = [slots EXCEPT ![doing[w]] = [value |-> v, waker |-> FALSE, finished |-> TRUE]]
    BY <1>5 DEF FinishJob
  <2>3. slots' \in [Jobs -> Slots]
    <3>1. [value |-> v, waker |-> FALSE, finished |-> TRUE] \in Slots
      BY DEF Slots
    <3> QED  BY <2>1, <2>2, <3>1
  <2> QED  BY <1>5, <2>1, <2>3 DEF FinishJob
<1>6. ASSUME NEW j \in Jobs, WakeCaller(j) PROVE PoolInv'
  <2>1. caller' \in [Jobs -> {"before", "poll", "parked", "value", "none", "dropped"}]
    BY <1>6 DEF WakeCaller
  <2> QED  BY <1>6, <2>1 DEF WakeCaller
<1>7. CASE UNCHANGED poolVars
  BY <1>7 DEF poolVars
<1> QED  BY <1>1, <1>2, <1>3, <1>4, <1>5, <1>6, <1>7 DEF PoolNext

\* The parts share no variable: a step of one leaves the invariants of the others alone.
ServerInv == ShutdownInv /\ ConnInv /\ ShardsInv /\ TimersInv /\ PoolInv

LEMMA ServerInitial == ServerInit => ServerInv
BY ShutdownInitial, ConnInvInit, ShardsInitial, TimersInitial, PoolInitial DEF ServerInit, ServerInv

LEMMA ServerStep == ServerInv /\ [ServerNext]_allVars => ServerInv'
<1> SUFFICES ASSUME ServerInv, [ServerNext]_allVars PROVE ServerInv'
  OBVIOUS
<1>1. [Next]_vars /\ [ConnNext]_connVars /\ [ShardsNext]_shardVars /\ [TimersNext]_timerVars /\ [PoolNext]_poolVars
  BY DEF ServerNext, allVars
<1> QED  BY <1>1, ShutdownStep, ConnInvNext, ShardsStep, TimersStep, PoolStep DEF ServerInv

LEMMA ServerInvariance == ServerSpec => []ServerInv
BY ServerInitial, ServerStep, PTL DEF ServerSpec

(* Whatever part runs, every variable keeps its type: the slot list, the   *)
(* connection's counters, the shards, the timers and the slots of blocking *)
(* calls, for any number of each.                                          *)
THEOREM ServerIsTyped == ServerSpec => []ServerTypeOK
<1>1. ServerInv => ServerTypeOK
  BY DEF ServerInv, ServerTypeOK, ShutdownInv, ConnInv, ShardsInv, TimersInv, PoolInv
<1> QED  BY <1>1, ServerInvariance, PTL
=============================================================================
