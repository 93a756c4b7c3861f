------------------------------ MODULE Executor ------------------------------
(***************************************************************************)
(* One shard's executor (crates/rt-core): the ready queue, `parked` and    *)
(* `main_woken` flags every waker shares with the shard (task.rs), the     *)
(* slab of spawned tasks, and the three loops that drive them              *)
(* (executor.rs: run, block_on, run_until_stalled).                        *)
(*                                                                         *)
(* One process is the shard's thread.  Every future also has the party     *)
(* that wakes it: another thread holding a clone of its waker (a blocking  *)
(* worker, a signal watcher, another shard), whose call of                 *)
(* Shared::schedule interleaves with the shard step by step, or, for the   *)
(* futures in IoFutures, the shard's own reactor.  What a future waits for *)
(* is abstracted to one condition, `event`; a future's poll tests it and   *)
(* leaves its waker behind in one step, as the leaf futures of rt-core do  *)
(* under their lock.                                                       *)
(***************************************************************************)
EXTENDS Integers, Sequences

CONSTANTS Futures,    \* the futures that may be spawned, each at most once
          Main,       \* the future block_on drives; it has no slab slot
          IoFutures,  \* the futures the shard's own reactor wakes
          NoTask,     \* an empty slot of the slab
          Loops,      \* the loops that may drive the shard
          MaxTasks,   \* bound: slots of the slab
          MaxEarly,   \* bound: wakes that come before their event
          Rounds      \* ROUNDS_PER_CLOCK_READ

ASSUME ExecutorAssumption ==
    /\ Main \notin Futures
    /\ NoTask \notin Futures \cup {Main}
    /\ IoFutures \subseteq Futures \cup {Main}
    /\ Loops \subseteq {"run", "block_on", "run_until_stalled"}
    /\ MaxTasks \in Nat \ {0}
    /\ MaxEarly \in Nat
    /\ Rounds \in Nat \ {0}

Ids       == 0 .. MaxTasks - 1
MAIN_TASK == MaxTasks           \* usize::MAX in the code: no slot has this id
NoWaker   == -1
All       == Futures \cup {Main}
Threads   == All \ IoFutures    \* futures woken by a thread of their own

VARIABLES
    ready,     \* Shared.ready: ids woken since the last drain
    parked,    \* Shared.parked
    mainWoken, \* Shared.main_woken
    unpark,    \* an unparker event the reactor has not collected yet
    tasks,     \* Inner.tasks, the slab
    buf,       \* ids of the drain under way
    tick,      \* Inner.io_tick
    elapsed,   \* last_io_poll is at least IO_POLL_INTERVAL ago
    batch,     \* futures whose readiness the reactor's last poll() returned
    pc,        \* where the shard's thread is
    state,     \* life of each future
    event,     \* what the future waits for has happened
    waker,     \* id in the waker the future left with its source, or NoWaker
    spc, sid,  \* where the source is in schedule(), and the id it schedules
    early,     \* wakes so far that came before their event
    loop       \* the loop the shard's thread called; never changes

execVars == <<tasks, buf, tick, elapsed, batch, pc, state, loop>>
srcVars  == <<spc, sid, early>>
vars     == <<ready, parked, mainWoken, unpark, execVars, event, waker, srcVars>>

-----------------------------------------------------------------------------
(* The slab.  Slot ids are reused, most recently freed first.              *)

EmptySlab == [slots |-> [i \in Ids |-> NoTask], free |-> <<>>, size |-> 0]

\* The id Slab::insert hands out, and whether the slab has room for it.
NewId(t)  == IF t.free # <<>> THEN t.free[Len(t.free)] ELSE t.size
HasRoom(t) == t.free # <<>> \/ t.size < MaxTasks

\* Variant for the mutation runs: the slot that is reused stays in the free list.
SlabInsertNoPop(t, f) ==
    [slots |-> [t.slots EXCEPT ![NewId(t)] = f],
     free  |-> t.free,
     size  |-> IF t.free # <<>> THEN t.size ELSE t.size + 1]

SlabInsert(t, f) ==
    [slots |-> [t.slots EXCEPT ![NewId(t)] = f],
     free  |-> IF t.free # <<>> THEN SubSeq(t.free, 1, Len(t.free) - 1) ELSE t.free,
     size  |-> IF t.free # <<>> THEN t.size ELSE t.size + 1]

SlabRemove(t, i) ==
    IF t.slots[i] # NoTask
    THEN [slots |-> [t.slots EXCEPT ![i] = NoTask],
          free  |-> Append(t.free, i),
          size  |-> t.size]
    ELSE t

\* Variant for the mutation runs: a free slot is counted twice.
SlabLenOff(t) == IF t.size > 2 * Len(t.free) THEN t.size - 2 * Len(t.free) ELSE 0

SlabLen(t) == t.size - Len(t.free)

Slab == [slots : [Ids -> Futures \cup {NoTask}], free : Seq(Ids), size : 0 .. MaxTasks]

-----------------------------------------------------------------------------
(* The loop a shard restarts from once it has drained and maybe slept.     *)
LoopTop == IF loop = "block_on" THEN "take" ELSE "drain"

Init ==
    /\ ready = <<>> /\ parked = FALSE /\ mainWoken = FALSE /\ unpark = FALSE
    /\ buf = <<>> /\ tick = 0 /\ elapsed = FALSE /\ batch = {}
    /\ event = [f \in All |-> FALSE]
    /\ waker = [f \in All |-> NoWaker]
    /\ spc = [f \in All |-> "idle"]
    /\ sid = [f \in All |-> NoWaker]
    /\ early = 0
    /\ loop \in Loops
    /\ tasks = EmptySlab
    /\ state = [f \in All |->
                  IF f = Main /\ loop = "block_on" THEN "live" ELSE "unborn"]
    /\ pc = IF loop = "block_on" THEN "take" ELSE "enter"

-----------------------------------------------------------------------------
(* Shared::schedule on the shard's own thread.                             *)
ScheduleHere(ids, main) ==
    /\ ready' = ready \o ids
    /\ mainWoken' = (mainWoken \/ main)
    /\ parked' = IF ids # <<>> \/ main THEN FALSE ELSE parked
    /\ unpark' = (unpark \/ (parked /\ (ids # <<>> \/ main)))

\* Handle::spawn inserts the task and schedules it; here, whether it can.
CanSpawn(f) == state[f] = "unborn" /\ HasRoom(tasks)

(* Before run or run_until_stalled the owner spawns through the handle.    *)
SpawnFirst(f) ==
    /\ pc = "enter"
    /\ CanSpawn(f)
    /\ tasks' = SlabInsert(tasks, f)
    /\ state' = [state EXCEPT ![f] = "live"]
    /\ ScheduleHere(<<NewId(tasks)>>, FALSE)
    /\ UNCHANGED <<buf, tick, elapsed, batch, pc, event, waker, srcVars, loop>>

Enter ==
    /\ pc = "enter"
    /\ pc' = IF loop = "run" THEN "drain" ELSE "ionow"
    /\ UNCHANGED <<ready, parked, mainWoken, unpark, tasks, buf, tick, elapsed, batch,
                   state, event, waker, srcVars, loop>>

(* block_on: consume a pending wake of the main future before polling it.  *)
TakeMain ==
    /\ pc = "take"
    /\ mainWoken' = FALSE
    /\ pc' = "main"
    /\ UNCHANGED <<ready, parked, unpark, tasks, buf, tick, elapsed, batch, state,
                   event, waker, srcVars, loop>>

PollMain ==
    /\ pc = "main"
    /\ \/ /\ event[Main]
          /\ state' = [state EXCEPT ![Main] = "done"]
          /\ pc' = "returned"
          /\ UNCHANGED <<ready, parked, mainWoken, unpark, tasks, waker>>
       \/ /\ ~event[Main]
          /\ waker' = [waker EXCEPT ![Main] = MAIN_TASK]
          /\ pc' = "drain"
          /\ \E yield \in BOOLEAN :
               \/ /\ ScheduleHere(<<>>, yield)
                  /\ UNCHANGED <<tasks, state>>
               \/ \E g \in Futures :
                     /\ CanSpawn(g)
                     /\ tasks' = SlabInsert(tasks, g)
                     /\ state' = [state EXCEPT ![g] = "live"]
                     /\ ScheduleHere(<<NewId(tasks)>>, yield)
    /\ UNCHANGED <<buf, tick, elapsed, batch, event, srcVars, loop>>

(* drain_ready: take the whole queue.  Wakes that arrive from here on wait *)
(* for the next drain.  run_until_stalled returns when there was nothing.  *)
\* Variant for the mutation runs: the drain keeps only the first id.
DrainFirst ==
    /\ pc = "drain"
    /\ buf' = buf \o (IF ready = <<>> THEN <<>> ELSE <<Head(ready)>>)
    /\ ready' = <<>>
    /\ pc' = IF loop = "run_until_stalled" /\ ready = <<>> THEN "returned" ELSE "tasks"
    /\ UNCHANGED <<parked, mainWoken, unpark, tasks, tick, elapsed, batch, state,
                   event, waker, srcVars, loop>>

Drain ==
    /\ pc = "drain"
    /\ buf' = buf \o ready
    /\ ready' = <<>>
    /\ pc' = IF loop = "run_until_stalled" /\ ready = <<>> THEN "returned" ELSE "tasks"
    /\ UNCHANGED <<parked, mainWoken, unpark, tasks, tick, elapsed, batch, state,
                   event, waker, srcVars, loop>>

(* poll_task: a wake for an id whose task has finished is a no-op.         *)
PollEmptySlot ==
    /\ pc = "tasks" /\ buf # <<>>
    /\ tasks.slots[Head(buf)] = NoTask
    /\ buf' = Tail(buf)
    /\ UNCHANGED <<ready, parked, mainWoken, unpark, tasks, tick, elapsed, batch, pc,
                   state, event, waker, srcVars, loop>>

\* The future completes, perhaps spawning another on the way.
PollReady(f) ==
    /\ pc = "tasks" /\ buf # <<>>
    /\ tasks.slots[Head(buf)] = f /\ event[f]
    /\ buf' = Tail(buf)
    /\ \/ /\ tasks' = SlabRemove(tasks, Head(buf))
          /\ state' = [state EXCEPT ![f] = "done"]
          /\ UNCHANGED <<ready, parked, mainWoken, unpark>>
       \/ \E g \in Futures :
             /\ CanSpawn(g)
             /\ tasks' = SlabRemove(SlabInsert(tasks, g), Head(buf))
             /\ state' = [state EXCEPT ![f] = "done", ![g] = "live"]
             /\ ScheduleHere(<<NewId(tasks)>>, FALSE)
    /\ UNCHANGED <<tick, elapsed, batch, pc, event, waker, srcVars, loop>>

\* The future stays pending: it leaves its waker, may wake itself (a yield)
\* and may spawn another future.
PollPending(f) ==
    /\ pc = "tasks" /\ buf # <<>>
    /\ tasks.slots[Head(buf)] = f /\ ~event[f]
    /\ buf' = Tail(buf)
    /\ waker' = [waker EXCEPT ![f] = Head(buf)]
    /\ \E yield \in {<<>>, <<Head(buf)>>} :
         \/ /\ ScheduleHere(yield, FALSE)
            /\ UNCHANGED <<tasks, state>>
         \/ \E g \in Futures :
               /\ CanSpawn(g)
               /\ tasks' = SlabInsert(tasks, g)
               /\ state' = [state EXCEPT ![g] = "live"]
               /\ ScheduleHere(<<NewId(tasks)>> \o yield, FALSE)
    /\ UNCHANGED <<tick, elapsed, batch, pc, event, srcVars, loop>>

PollTask == PollEmptySlot \/ \E f \in Futures : PollReady(f) \/ PollPending(f)

(* The decision after a drain: run returns once no task is left; block_on  *)
(* looks at main_woken first, and both then look at the queue.             *)
Drained ==
    /\ pc = "tasks" /\ buf = <<>>
    /\ pc' = CASE loop = "run_until_stalled" -> "drain"
               [] loop = "run"      -> IF SlabLen(tasks) = 0 THEN "returned" ELSE "check"
               [] loop = "block_on" -> IF mainWoken THEN "periodic" ELSE "check"
    /\ mainWoken' = IF loop = "block_on" THEN FALSE ELSE mainWoken
    /\ UNCHANGED <<ready, parked, unpark, tasks, buf, tick, elapsed, batch, state,
                   event, waker, srcVars, loop>>

CheckReady ==
    /\ pc = "check"
    /\ pc' = IF ready # <<>> THEN "periodic" ELSE "park"
    /\ UNCHANGED <<ready, parked, mainWoken, unpark, tasks, buf, tick, elapsed, batch,
                   state, event, waker, srcVars, loop>>

(* park: publish `parked`, look at the queue once more, then sleep.        *)
Park ==
    /\ pc = "park"
    /\ parked' = TRUE
    /\ pc' = "recheck"
    /\ UNCHANGED <<ready, mainWoken, unpark, tasks, buf, tick, elapsed, batch, state,
                   event, waker, srcVars, loop>>

\* Variant for the mutation runs: no second look at the queue.
RecheckNot ==
    /\ pc = "recheck"
    /\ pc' = "sleep"
    /\ UNCHANGED <<ready, parked, mainWoken, unpark, tasks, buf, tick, elapsed, batch,
                   state, event, waker, srcVars, loop>>

Recheck ==
    /\ pc = "recheck"
    /\ pc' = IF ready # <<>> THEN "abort" ELSE "sleep"
    /\ UNCHANGED <<ready, parked, mainWoken, unpark, tasks, buf, tick, elapsed, batch,
                   state, event, waker, srcVars, loop>>

AbortPark ==
    /\ pc = "abort"
    /\ parked' = FALSE
    /\ pc' = LoopTop
    /\ UNCHANGED <<ready, mainWoken, unpark, tasks, buf, tick, elapsed, batch, state,
                   event, waker, srcVars, loop>>

(* Reactor::poll as the loops see it: an unpark event is swallowed, and    *)
(* every I/O future that is ready and has a waiter is woken in turn.       *)
Pollable == {f \in IoFutures : event[f] /\ waker[f] # NoWaker}

PollReturns ==
    /\ pc = "sleep"
    /\ unpark \/ Pollable # {}
    /\ unpark' = FALSE
    /\ batch' = Pollable
    /\ pc' = "wake"
    /\ UNCHANGED <<ready, parked, mainWoken, tasks, buf, tick, elapsed, state, event,
                   waker, srcVars, loop>>

\* poll() cut short by a signal: reported as success with nothing woken.  The
\* OS hands out events that are pending before it reports a signal.
PollInterrupted ==
    /\ pc = "sleep"
    /\ ~unpark /\ Pollable = {}
    /\ pc' = "wake"
    /\ UNCHANGED <<ready, parked, mainWoken, unpark, tasks, buf, tick, elapsed, batch,
                   state, event, waker, srcVars, loop>>

\* poll() fails: park or poll_io_periodic restarts the budget and hands the
\* error out of the loop.  (run_until_stalled ignores it.)
PollFails ==
    /\ \/ pc = "sleep"
       \/ pc = "periodic" /\ tick + 1 >= Rounds /\ elapsed
    /\ parked' = FALSE
    /\ tick' = 0 /\ elapsed' = FALSE
    /\ pc' = "failed"
    /\ UNCHANGED <<ready, mainWoken, unpark, tasks, buf, batch, state, event, waker,
                   srcVars, loop>>

WakeIo(f) ==
    /\ pc = "wake" /\ f \in batch
    /\ batch' = batch \ {f}
    /\ waker' = [waker EXCEPT ![f] = NoWaker]
    /\ IF waker[f] = MAIN_TASK THEN ScheduleHere(<<>>, TRUE)
                               ELSE ScheduleHere(<<waker[f]>>, FALSE)
    /\ UNCHANGED <<tasks, buf, tick, elapsed, pc, state, event, srcVars, loop>>

(* After the poll: clear `parked`, restart the I/O budget.                 *)
Awake ==
    /\ pc = "wake" /\ batch = {}
    /\ parked' = FALSE
    /\ tick' = 0 /\ elapsed' = FALSE
    /\ pc' = LoopTop
    /\ UNCHANGED <<ready, mainWoken, unpark, tasks, buf, batch, state, event, waker,
                   srcVars, loop>>

(* poll_io_periodic: every Rounds-th round of a busy queue reads the clock *)
(* and polls the reactor if the budget is spent.                           *)
PollNow == unpark' = FALSE /\ batch' = Pollable /\ pc' = "wake"

Periodic ==
    /\ pc = "periodic"
    /\ \/ /\ tick + 1 >= Rounds /\ elapsed
          /\ tick' = 0
          /\ PollNow
       \/ /\ tick + 1 >= Rounds /\ ~elapsed
          /\ tick' = 0 /\ pc' = LoopTop
          /\ UNCHANGED <<unpark, batch>>
       \/ /\ tick + 1 < Rounds
          /\ tick' = tick + 1 /\ pc' = LoopTop
          /\ UNCHANGED <<unpark, batch>>
    /\ UNCHANGED <<ready, parked, mainWoken, tasks, buf, elapsed, state, event, waker,
                   srcVars, loop>>

(* run_until_stalled starts with an unconditional poll_io_now, and may be  *)
(* called again by the outer loop it is embedded in.                       *)
PollIoNow ==
    /\ pc = "ionow"
    /\ PollNow
    /\ UNCHANGED <<ready, parked, mainWoken, tasks, buf, tick, elapsed, state, event,
                   waker, srcVars, loop>>

CallAgain ==
    /\ loop = "run_until_stalled" /\ pc = "returned"
    /\ pc' = "ionow"
    /\ UNCHANGED <<ready, parked, mainWoken, unpark, tasks, buf, tick, elapsed, batch,
                   state, event, waker, srcVars, loop>>

Shard == \/ Enter \/ TakeMain \/ PollMain \/ Drain \/ PollTask \/ Drained \/ CheckReady
         \/ Park \/ Recheck \/ AbortPark \/ PollReturns
         \/ (\E f \in IoFutures : WakeIo(f)) \/ Awake \/ Periodic \/ PollIoNow

-----------------------------------------------------------------------------
(* The sources.  A thread makes the condition true and takes the waker, if *)
(* one was left, in one critical section, and calls wake() outside it.     *)
\* Variant for the mutation runs: wake() is called whether or not a waker was left.
FireAnyway(f) ==
    /\ f \in Threads /\ ~event[f] /\ spc[f] = "idle"
    /\ event' = [event EXCEPT ![f] = TRUE]
    /\ waker' = [waker EXCEPT ![f] = NoWaker]
    /\ spc' = [spc EXCEPT ![f] = "store"]
    /\ sid' = [sid EXCEPT ![f] = waker[f]]
    /\ UNCHANGED <<ready, parked, mainWoken, unpark, execVars, early>>

Fire(f) ==
    /\ f \in Threads /\ ~event[f] /\ spc[f] = "idle"
    /\ event' = [event EXCEPT ![f] = TRUE]
    /\ waker' = [waker EXCEPT ![f] = NoWaker]
    /\ IF waker[f] # NoWaker
       THEN /\ spc' = [spc EXCEPT ![f] = "store"]
            /\ sid' = [sid EXCEPT ![f] = waker[f]]
       ELSE UNCHANGED <<spc, sid>>
    /\ UNCHANGED <<ready, parked, mainWoken, unpark, execVars, early>>

\* A wake_by_ref ahead of the event: a spurious wake.
EarlyWake(f) ==
    /\ f \in Threads /\ ~event[f] /\ spc[f] = "idle"
    /\ waker[f] # NoWaker /\ early < MaxEarly
    /\ early' = early + 1
    /\ spc' = [spc EXCEPT ![f] = "store"]
    /\ sid' = [sid EXCEPT ![f] = waker[f]]
    /\ UNCHANGED <<ready, parked, mainWoken, unpark, execVars, event, waker>>

(* Shared::schedule from another thread, one shared access per step.       *)
ScheduleStore(f) ==
    /\ spc[f] = "store"
    /\ spc' = [spc EXCEPT ![f] = "swap"]
    /\ IF sid[f] = MAIN_TASK
       THEN mainWoken' = TRUE /\ UNCHANGED ready
       ELSE ready' = Append(ready, sid[f]) /\ UNCHANGED mainWoken
    /\ UNCHANGED <<parked, unpark, execVars, event, waker, sid, early>>

\* Variant for the mutation runs: the sleeping shard is not interrupted.
ScheduleSwapOnly(f) ==
    /\ spc[f] = "swap"
    /\ parked' = FALSE
    /\ spc' = [spc EXCEPT ![f] = "idle"]
    /\ UNCHANGED <<ready, mainWoken, unpark, execVars, event, waker, sid, early>>

ScheduleSwap(f) ==
    /\ spc[f] = "swap"
    /\ parked' = FALSE
    /\ spc' = [spc EXCEPT ![f] = IF parked THEN "unpark" ELSE "idle"]
    /\ UNCHANGED <<ready, mainWoken, unpark, execVars, event, waker, sid, early>>

ScheduleUnpark(f) ==
    /\ spc[f] = "unpark"
    /\ unpark' = TRUE
    /\ spc' = [spc EXCEPT ![f] = "idle"]
    /\ UNCHANGED <<ready, parked, mainWoken, execVars, event, waker, sid, early>>

Source(f) == ScheduleStore(f) \/ ScheduleSwap(f) \/ ScheduleUnpark(f)

(* The kernel makes a socket ready; the reactor learns of it in a poll.    *)
IoReady(f) ==
    /\ f \in IoFutures /\ ~event[f]
    /\ event' = [event EXCEPT ![f] = TRUE]
    /\ UNCHANGED <<ready, parked, mainWoken, unpark, execVars, waker, srcVars>>

(* Time passes: IO_POLL_INTERVAL since the reactor was last polled.        *)
Clock ==
    /\ ~elapsed
    /\ elapsed' = TRUE
    /\ UNCHANGED <<ready, parked, mainWoken, unpark, tasks, buf, tick, batch, pc, state,
                   event, waker, srcVars, loop>>

Next ==
    \/ \E f \in Futures : SpawnFirst(f)
    \/ Shard
    \/ PollInterrupted \/ PollFails
    \/ CallAgain
    \/ \E f \in All : Fire(f) \/ EarlyWake(f) \/ Source(f) \/ IoReady(f)
    \/ Clock

Spec == Init /\ [][Next]_vars

(* The OS keeps running the shard's thread and every thread that has       *)
(* entered schedule(), and time keeps passing.  Nothing obliges an event   *)
(* to happen, a signal to interrupt a sleeping poll(), or the owner of     *)
(* run_until_stalled to call it again.                                     *)
Fairness ==
    /\ WF_vars(Shard)
    /\ \A f \in All : WF_vars(Source(f))
    /\ WF_vars(Clock)

FairSpec == Spec /\ Fairness

-----------------------------------------------------------------------------
Elems(s) == {s[i] : i \in 1 .. Len(s)}

GoodSlab(t) ==
    /\ \A i, j \in Ids : t.slots[i] = t.slots[j] /\ t.slots[i] # NoTask => i = j
    /\ \A i \in Ids : i \in Elems(t.free) <=> i < t.size /\ t.slots[i] = NoTask
    /\ \A i \in Ids : i >= t.size => t.slots[i] = NoTask
    /\ \A m, n \in 1 .. Len(t.free) : t.free[m] = t.free[n] => m = n

TypeOK ==
    /\ ready \in Seq(Ids) /\ buf \in Seq(Ids)
    /\ parked \in BOOLEAN /\ mainWoken \in BOOLEAN /\ unpark \in BOOLEAN
    /\ tasks \in Slab
    /\ tick \in Nat /\ elapsed \in BOOLEAN /\ batch \subseteq IoFutures
    /\ pc \in {"enter", "ionow", "take", "main", "drain", "tasks", "check", "periodic",
               "park", "recheck", "abort", "sleep", "wake", "returned", "failed"}
    /\ state \in [All -> {"unborn", "live", "done"}]
    /\ event \in [All -> BOOLEAN]
    /\ waker \in [All -> Ids \cup {MAIN_TASK, NoWaker}]
    /\ spc \in [All -> {"idle", "store", "swap", "unpark"}]
    /\ sid \in [All -> Ids \cup {MAIN_TASK, NoWaker}]
    /\ early \in 0 .. MaxEarly
    /\ loop \in Loops

(* park's comment (executor.rs:134-137): publishing `parked` before the    *)
(* last look at the queue closes the lost-wakeup race.  Whenever the shard *)
(* sleeps in poll() although a task is queued, some thread inside          *)
(* schedule() has still to interrupt it, or already has.                   *)
NoSleepOverReady ==
    pc = "sleep" /\ ready # <<>> =>
        \/ unpark
        \/ \E f \in All : spc[f] = "unpark"
        \/ parked /\ \E f \in All : spc[f] = "swap"

(* A live task whose condition is met is never forgotten, whatever the     *)
(* order of its waker's steps, of drains and of id reuse: its id is queued *)
(* or being drained, or its source is about to queue it.                   *)
WokenIsQueued ==
    \A i \in Ids : LET f == tasks.slots[i] IN
        f # NoTask /\ event[f] =>
            \/ i \in Elems(ready) \cup Elems(buf)
            \/ spc[f] = "store" /\ sid[f] = i
            \/ f \in IoFutures /\ waker[f] = i

(* The slab hands every live task exactly one slot and never a slot that   *)
(* is taken, so no spawned future is overwritten by a later spawn, and the *)
(* free list holds every reusable slot once, so len() counts the tasks.    *)
SlabExact ==
    /\ \A f \in Futures : state[f] = "live" <=> \E i \in Ids : tasks.slots[i] = f
    /\ GoodSlab(tasks)

(* run returns "as soon as the task set is empty" (executor.rs:314-317),   *)
(* and not before: no task is abandoned by a loop that ended well.         *)
RunLeavesNoTask ==
    pc = "returned" /\ loop = "run" => \A f \in Futures : state[f] # "live"

\* The loop failed, or returned and left its tasks to the next loop.
LoopOver == pc = "failed" \/ (loop # "run" /\ pc = "returned")

(* Every task whose condition is met is polled to completion, even when    *)
(* other tasks keep the queue busy by waking themselves and the wake comes *)
(* from the reactor, which a busy queue polls only now and then.           *)
(* (run_until_stalled polls the reactor once per call, so what it owes its *)
(* I/O futures is left to the call after it returns.)                      *)
FiredTaskCompletes ==
    \A f \in Futures :
        /\ state[f] = "live" /\ event[f]
        /\ f \in IoFutures => loop # "run_until_stalled"
        ~> state[f] = "done" \/ LoopOver

(* task.rs:50-52: without main_woken "a wake landing between the           *)
(* executor's 'anything ready?' check and its park would be lost, and      *)
(* `block_on` would sleep forever holding a future that is actually        *)
(* ready".  With it, block_on should therefore return.                     *)
BlockOnReturns == event[Main] ~> pc \in {"returned", "failed"}
=============================================================================
