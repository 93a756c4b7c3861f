---------------------------- MODULE BlockingPool ----------------------------
(***************************************************************************)
(* spawn_blocking (crates/rt-core/src/blocking.rs): a channel of jobs, a   *)
(* fixed number of worker threads, and one slot per call that the worker   *)
(* fills and the awaiting task takes from.                                 *)
(***************************************************************************)
EXTENDS Naturals, Sequences

CONSTANTS Jobs,         \* the calls, each awaited by a task of its own
          PoolWorkers,  \* the worker threads
          NoJob

VARIABLES
    channel,   \* jobs sent and not received
    doing,     \* the job each worker runs
    slots,     \* Slot of each call: [value, waker, finished]
    wakeLate,  \* calls whose waker a worker took and has not called yet
    caller     \* the awaiting task: before the call, to be polled, parked, or its result

poolVars == <<channel, doing, slots, wakeLate, caller>>

PoolInit ==
    /\ channel = <<>> /\ doing = [w \in PoolWorkers |-> NoJob]
    /\ slots = [j \in Jobs |-> [value |-> "none", waker |-> FALSE, finished |-> FALSE]]
    /\ wakeLate = {} /\ caller = [j \in Jobs |-> "before"]

SpawnBlocking(j) ==
    /\ caller[j] = "before"
    /\ caller' = [caller EXCEPT ![j] = "poll"]
    /\ channel' = Append(channel, j)
    /\ UNCHANGED <<doing, slots, wakeLate>>

\* Blocking::poll, under the slot's lock.
PollBlocking(j) ==
    /\ caller[j] = "poll"
    /\ IF slots[j].finished
       THEN /\ caller' = [caller EXCEPT ![j] = slots[j].value]
            /\ slots' = [slots EXCEPT ![j].value = "none"]
       ELSE /\ caller' = [caller EXCEPT ![j] = "parked"]
            /\ slots' = [slots EXCEPT ![j].waker = TRUE]
    /\ UNCHANGED <<channel, doing, wakeLate>>

\* The awaiting task may be dropped (a timeout around it); the job runs all the same.
DropBlocking(j) ==
    /\ caller[j] \in {"poll", "parked"}
    /\ caller' = [caller EXCEPT ![j] = "dropped"]
    /\ UNCHANGED <<channel, doing, slots, wakeLate>>

Receive(w) ==
    /\ doing[w] = NoJob /\ channel # <<>>
    /\ doing' = [doing EXCEPT ![w] = Head(channel)]
    /\ channel' = Tail(channel)
    /\ UNCHANGED <<slots, wakeLate, caller>>

\* Variant for the mutation runs: a panic unwinds past the slot.
FinishJobLosesPanic(w) ==
    LET j == doing[w] IN
    /\ j # NoJob
    /\ \/ slots' = [slots EXCEPT ![j] = [value |-> "value", waker |-> FALSE, finished |-> TRUE]]
       \/ slots' = slots
    /\ wakeLate' = IF slots[j].waker THEN wakeLate \union {j} ELSE wakeLate
    /\ doing' = [doing EXCEPT ![w] = NoJob]
    /\ UNCHANGED <<channel, caller>>

\* The closure returns, or panics and is caught: either way the slot is finished and its
\* waker taken, under the lock.
FinishJob(w) ==
    LET j == doing[w] IN
    /\ j # NoJob
    /\ \E v \in {"value", "none"} :
          slots' = [slots EXCEPT ![j] = [value |-> v, waker |-> FALSE, finished |-> TRUE]]
    /\ wakeLate' = IF slots[j].waker THEN wakeLate \union {j} ELSE wakeLate
    /\ doing' = [doing EXCEPT ![w] = NoJob]
    /\ UNCHANGED <<channel, caller>>

\* waker.wake(), outside the lock.
WakeCaller(j) ==
    /\ j \in wakeLate /\ wakeLate' = wakeLate \ {j}
    /\ caller' = [caller EXCEPT ![j] = IF @ = "parked" THEN "poll" ELSE @]
    /\ UNCHANGED <<channel, doing, slots>>

PoolNext ==
    \/ \E j \in Jobs : SpawnBlocking(j) \/ PollBlocking(j) \/ DropBlocking(j) \/ WakeCaller(j)
    \/ \E w \in PoolWorkers : Receive(w) \/ FinishJob(w)

PoolFairness ==
    /\ \A j \in Jobs : WF_poolVars(PollBlocking(j)) /\ WF_poolVars(WakeCaller(j))
    /\ \A w \in PoolWorkers : WF_poolVars(Receive(w)) /\ WF_poolVars(FinishJob(w))

-----------------------------------------------------------------------------
PoolTypeOK ==
    /\ caller \in [Jobs -> {"before", "poll", "parked", "value", "none", "dropped"}]
    /\ doing \in [PoolWorkers -> Jobs \union {NoJob}]
    /\ channel \in Seq(Jobs) /\ wakeLate \subseteq Jobs

\* "Set even when the closure panics, so the future never hangs" (blocking.rs:60): a task
\* that awaits a blocking call gets an answer, with fewer workers than calls.
BlockingAnswers == \A j \in Jobs : caller[j] \in {"poll", "parked"} ~> caller[j] \in {"value", "none", "dropped"}
=============================================================================
