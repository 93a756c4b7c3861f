------------------------------- MODULE Timers -------------------------------
(***************************************************************************)
(* The timers of a shard (crates/rt-core/src/time.rs) and the two places   *)
(* of the executor that serve them (Inner::park, Inner::fire_timers).      *)
(*                                                                         *)
(* A Sleep takes an id and a heap entry at its first pending poll; polled  *)
(* again it only replaces its waker.  Cancelling removes the waker and     *)
(* leaves the heap entry, which is discarded when it surfaces: heap and    *)
(* wakers are two views of the live timers that must not drift apart.      *)
(***************************************************************************)
EXTENDS Naturals, FiniteSets

CONSTANTS Sleepers,   \* tasks, each awaiting Sleeps (alone, or inside a Timeout)
          MaxNow,     \* the clock's bound
          MaxTimers   \* bound on the ids allocated

ASSUME TimersAssumption == MaxNow \in Nat /\ MaxTimers \in Nat

VARIABLES
    now,        \* Instant::now()
    heap,       \* Timers.heap: entries [deadline, id]
    wakers,     \* Timers.wakers: the ids of live timers
    nextId,     \* Timers.next_id
    sleep,      \* each task's Sleep: [deadline, id], id 0 before its first poll
    task,       \* each task: no Sleep, scheduled, or waiting for its waker
    parkedTill  \* the executor runs (0), or sleeps in poll until this instant

timerVars == <<now, heap, wakers, nextId, sleep, task, parkedTill>>

Forever == MaxNow + 1

Before(e, f) == e.deadline < f.deadline \/ (e.deadline = f.deadline /\ e.id < f.id)
Top(h) == CHOOSE e \in h : \A f \in h \ {e} : Before(e, f)

\* The live timers as the tasks see them.
Waiting == {t \in Sleepers : task[t] = "waiting"}

TimersInit ==
    /\ now = 0 /\ heap = {} /\ wakers = {} /\ nextId = 0
    /\ sleep = [t \in Sleepers |-> [deadline |-> 0, id |-> 0]]
    /\ task = [t \in Sleepers |-> "none"]
    /\ parkedTill = 0

Awake == parkedTill = 0

\* sleep(duration), timeout(duration, future): nothing is registered yet.
StartSleep(t) ==
    /\ Awake /\ task[t] = "none"
    /\ \E d \in now .. MaxNow : sleep' = [sleep EXCEPT ![t] = [deadline |-> d, id |-> 0]]
    /\ task' = [task EXCEPT ![t] = "scheduled"]
    /\ UNCHANGED <<now, heap, wakers, nextId, parkedTill>>

\* Sleep::poll before the deadline: allocate an id once, then park (or replace) the waker.
PollSleepPending(t) ==
    /\ Awake /\ task[t] = "scheduled" /\ now < sleep[t].deadline
    /\ sleep[t].id # 0 \/ nextId < MaxTimers
    /\ LET id == IF sleep[t].id = 0 THEN nextId + 1 ELSE sleep[t].id IN
       /\ nextId' = IF sleep[t].id = 0 THEN nextId + 1 ELSE nextId
       /\ sleep' = [sleep EXCEPT ![t].id = id]
       /\ wakers' = wakers \union {id}
       /\ heap' = IF id \in wakers THEN heap ELSE heap \union {[deadline |-> sleep[t].deadline, id |-> id]}
    /\ task' = [task EXCEPT ![t] = "waiting"]
    /\ UNCHANGED <<now, parkedTill>>

\* Sleep::poll at or past the deadline: the registration goes.
PollSleepReady(t) ==
    /\ Awake /\ task[t] = "scheduled" /\ now >= sleep[t].deadline
    /\ wakers' = wakers \ {sleep[t].id}
    /\ task' = [task EXCEPT ![t] = "none"]
    /\ UNCHANGED <<now, heap, nextId, sleep, parkedTill>>

\* The task is polled for another reason: Timeout::poll tries its future first.  Either the
\* future is ready and the Sleep is dropped, or the Sleep is polled again.
Woken(t) ==
    /\ task[t] = "waiting"
    /\ task' = [task EXCEPT ![t] = "scheduled"]
    /\ parkedTill' = 0
    /\ UNCHANGED <<now, heap, wakers, nextId, sleep>>

DropSleep(t) ==
    /\ Awake /\ task[t] = "scheduled"
    /\ wakers' = wakers \ {sleep[t].id}
    /\ task' = [task EXCEPT ![t] = "none"]
    /\ UNCHANGED <<now, heap, nextId, sleep, parkedTill>>

\* fire_timers after every round and after every park: entries due now are popped, and the
\* wakers among them that are still live are called.
FireExpired ==
    /\ LET due == {e \in heap : e.deadline <= now} IN
       /\ due # {}
       /\ heap' = heap \ due
       /\ wakers' = wakers \ {e.id : e \in due}
       /\ task' = [t \in Sleepers |-> IF task[t] = "waiting" /\ sleep[t].id \in wakers \ wakers'
                                      THEN "scheduled" ELSE task[t]]
    /\ parkedTill' = 0
    /\ UNCHANGED <<now, nextId, sleep>>

\* Variant for the mutation runs: a cancelled entry at the top hides the timers under it.
LiveHeapTopOnly ==
    IF heap # {} /\ Top(heap).id \notin wakers THEN {} ELSE heap

\* next_deadline drops cancelled entries off the top until a live one surfaces.
LiveHeap ==
    LET live == {e \in heap : e.id \in wakers} IN
    IF live = {} THEN {} ELSE {e \in heap : e = Top(live) \/ Before(Top(live), e)}

\* Inner::park with nothing scheduled: sleep until the nearest deadline, or for ever.
ParkTimers ==
    /\ Awake /\ \A t \in Sleepers : task[t] # "scheduled"
    /\ heap' = LiveHeap
    /\ parkedTill' = IF LiveHeap = {} THEN Forever ELSE Top(LiveHeap).deadline
    /\ UNCHANGED <<now, wakers, nextId, sleep, task>>

\* Poll returns at its timeout; fire_timers is next.
PollTimesOut ==
    /\ parkedTill # 0 /\ parkedTill <= now
    /\ parkedTill' = 0
    /\ UNCHANGED <<now, heap, wakers, nextId, sleep, task>>

Advance ==
    /\ now < MaxNow /\ now' = now + 1
    /\ UNCHANGED <<heap, wakers, nextId, sleep, task, parkedTill>>

TimersNext ==
    \/ \E t \in Sleepers : StartSleep(t) \/ PollSleepPending(t) \/ PollSleepReady(t) \/ Woken(t) \/ DropSleep(t)
    \/ FireExpired \/ ParkTimers \/ PollTimesOut \/ Advance

TimersSpec == TimersInit /\ [][TimersNext]_timerVars

-----------------------------------------------------------------------------
TimersTypeOK ==
    /\ now \in 0 .. MaxNow /\ nextId \in 0 .. MaxTimers /\ wakers \subseteq 1 .. nextId
    /\ heap \subseteq [deadline : 0 .. MaxNow, id : 1 .. nextId]
    /\ task \in [Sleepers -> {"none", "scheduled", "waiting"}]

\* No sleep is lost or late: while a task waits for its timer the heap holds its entry and
\* the waker is live, and a parked executor wakes no later than the earliest of them.
NoOversleep ==
    \A t \in Waiting :
      /\ sleep[t].id \in wakers
      /\ \E e \in heap : e.id = sleep[t].id /\ e.deadline = sleep[t].deadline
      /\ ~Awake => parkedTill <= sleep[t].deadline
=============================================================================
