------------------------------ MODULE Shutdown ------------------------------
(***************************************************************************)
(* The latching shutdown signal (crates/rt-core/src/shutdown.rs): a flag,  *)
(* and a list of the wakers to call when it is raised, shared by every     *)
(* shard and by the threads that trigger it.                               *)
(*                                                                         *)
(* A waiter is a task racing some work against the signal (UntilShutdown). *)
(* It polls the work first; when the work is done the Waiting is dropped,  *)
(* and the task may start another race with a new one, as the accept loop  *)
(* does for each connection.  Waiters run on different shards, so the      *)
(* steps of their polls interleave with each other and with the trigger:   *)
(* every access to the flag and every critical section is a step.          *)
(*                                                                         *)
(* A slot index outlives the list it belongs to: the trigger empties the   *)
(* list while waiters still hold indices into it.                          *)
(***************************************************************************)
EXTENDS Integers, Sequences

CONSTANTS Waiters,   \* tasks that wait for the signal
          Triggers,  \* threads that may raise it (a signal handler, an endpoint)
          NoWaiter   \* an empty slot

ASSUME ShutdownAssumption == NoWaiter \notin Waiters

NoSlot == 0

VARIABLES
    triggered,  \* State.triggered
    entries,    \* Slots.entries: whose waker each slot holds
    free,       \* Slots.free
    tpc,        \* where each trigger() call is
    wake,       \* wakers a trigger() call collected and has not called yet
    wpc,        \* where each waiter is in its poll
    slot,       \* Waiting.slot
    scheduled   \* the waiter's task has been woken and not polled since

list == <<entries, free>>
vars == <<triggered, list, tpc, wake, wpc, slot, scheduled>>

Init ==
    /\ triggered = FALSE /\ entries = <<>> /\ free = <<>>
    /\ tpc = [x \in Triggers |-> "idle"]
    /\ wake = [x \in Triggers |-> {}]
    /\ wpc = [w \in Waiters |-> "out"]
    /\ slot = [w \in Waiters |-> NoSlot]
    /\ scheduled = [w \in Waiters |-> FALSE]

-----------------------------------------------------------------------------
(* Slots: insert reuses a freed slot, replace and remove ignore an index   *)
(* that is out of range, remove frees a slot only if it was taken.         *)
Insert(w) ==
    IF free # <<>>
    THEN LET i == free[Len(free)] IN
         /\ entries' = [entries EXCEPT ![i] = w]
         /\ free' = SubSeq(free, 1, Len(free) - 1)
         /\ slot' = [slot EXCEPT ![w] = i]
    ELSE /\ entries' = Append(entries, w)
         /\ slot' = [slot EXCEPT ![w] = Len(entries) + 1]
         /\ UNCHANGED free

Replace(w) ==
    /\ entries' = IF slot[w] <= Len(entries) THEN [entries EXCEPT ![slot[w]] = w] ELSE entries
    /\ UNCHANGED <<free, slot>>

\* Variant for the mutation runs: the slot is emptied but never reused.
RemoveLeaks(w) ==
    /\ IF slot[w] # NoSlot /\ slot[w] <= Len(entries)
       THEN entries' = [entries EXCEPT ![slot[w]] = NoWaiter]
       ELSE UNCHANGED entries
    /\ slot' = [slot EXCEPT ![w] = NoSlot]
    /\ UNCHANGED free

RemoveEntry(w) ==
    /\ IF slot[w] # NoSlot /\ slot[w] <= Len(entries) /\ entries[slot[w]] # NoWaiter
       THEN /\ entries' = [entries EXCEPT ![slot[w]] = NoWaiter]
            /\ free' = Append(free, slot[w])
       ELSE UNCHANGED list
    /\ slot' = [slot EXCEPT ![w] = NoSlot]

-----------------------------------------------------------------------------
(* Shutdown::trigger: raise the flag; the first call then takes all wakers *)
(* under the lock and calls them one by one outside it.                    *)
Swap(x) ==
    /\ tpc[x] = "idle"
    /\ triggered' = TRUE
    /\ tpc' = [tpc EXCEPT ![x] = IF triggered THEN "noop" ELSE "drain"]
    /\ UNCHANGED <<list, wake, wpc, slot, scheduled>>

\* Variant for the mutation runs: the free list is not cleared.
DrainKeepsFree(x) ==
    /\ tpc[x] = "drain"
    /\ wake' = [wake EXCEPT ![x] = {entries[i] : i \in 1 .. Len(entries)} \ {NoWaiter}]
    /\ entries' = <<>>
    /\ tpc' = [tpc EXCEPT ![x] = "wake"]
    /\ UNCHANGED <<triggered, free, wpc, slot, scheduled>>

DrainWaiters(x) ==
    /\ tpc[x] = "drain"
    /\ wake' = [wake EXCEPT ![x] = {entries[i] : i \in 1 .. Len(entries)} \ {NoWaiter}]
    /\ entries' = <<>> /\ free' = <<>>
    /\ tpc' = [tpc EXCEPT ![x] = "wake"]
    /\ UNCHANGED <<triggered, wpc, slot, scheduled>>

\* Variant for the mutation runs: one waker for all of them.
WakeOnlyOne(x, w) ==
    /\ tpc[x] = "wake" /\ w \in wake[x]
    /\ wake' = [wake EXCEPT ![x] = {}]
    /\ scheduled' = [scheduled EXCEPT ![w] = TRUE]
    /\ UNCHANGED <<triggered, list, tpc, wpc, slot>>

WakeOne(x, w) ==
    /\ tpc[x] = "wake" /\ w \in wake[x]
    /\ wake' = [wake EXCEPT ![x] = @ \ {w}]
    /\ scheduled' = [scheduled EXCEPT ![w] = TRUE]
    /\ UNCHANGED <<triggered, list, tpc, wpc, slot>>

WokeAll(x) ==
    /\ tpc[x] = "wake" /\ wake[x] = {}
    /\ tpc' = [tpc EXCEPT ![x] = "done"]
    /\ UNCHANGED <<triggered, list, wake, wpc, slot, scheduled>>

-----------------------------------------------------------------------------
(* A task starts a race, or is polled again: because it was woken by the   *)
(* signal, or by the work it races.                                        *)
Start(w) ==
    /\ wpc[w] = "out"
    /\ wpc' = [wpc EXCEPT ![w] = "load"]
    /\ UNCHANGED <<triggered, list, tpc, wake, slot, scheduled>>

Repoll(w) ==
    /\ wpc[w] = "pending"
    /\ wpc' = [wpc EXCEPT ![w] = "load"]
    /\ scheduled' = [scheduled EXCEPT ![w] = FALSE]
    /\ UNCHANGED <<triggered, list, tpc, wake, slot>>

\* UntilShutdown::poll tries the work before the signal.  Done: the Waiting is dropped.
WorkDone(w) ==
    /\ wpc[w] = "load"
    /\ wpc' = [wpc EXCEPT ![w] = "drop"]
    /\ UNCHANGED <<triggered, list, tpc, wake, slot, scheduled>>

(* Waiting::poll: look at the flag, register, look again.                  *)
Load(w) ==
    /\ wpc[w] = "load"
    /\ wpc' = [wpc EXCEPT ![w] = IF triggered THEN "release" ELSE "register"]
    /\ UNCHANGED <<triggered, list, tpc, wake, slot, scheduled>>

Register(w) ==
    /\ wpc[w] = "register"
    /\ IF slot[w] # NoSlot THEN Replace(w) ELSE Insert(w)
    /\ wpc' = [wpc EXCEPT ![w] = "recheck"]
    /\ UNCHANGED <<triggered, tpc, wake, scheduled>>

\* Variant for the mutation runs: no second look at the flag.
RecheckNot(w) ==
    /\ wpc[w] = "recheck"
    /\ wpc' = [wpc EXCEPT ![w] = "pending"]
    /\ UNCHANGED <<triggered, list, tpc, wake, slot, scheduled>>

Recheck(w) ==
    /\ wpc[w] = "recheck"
    /\ wpc' = [wpc EXCEPT ![w] = IF triggered THEN "release" ELSE "pending"]
    /\ UNCHANGED <<triggered, list, tpc, wake, slot, scheduled>>

(* The signal won, or the Waiting is dropped: either way its slot is given *)
(* back.  A task may also be dropped while it waits.                       *)
Release(w) ==
    /\ wpc[w] \in {"release", "drop"}
    /\ RemoveEntry(w)
    /\ wpc' = [wpc EXCEPT ![w] = IF wpc[w] = "release" THEN "stopped" ELSE "out"]
    /\ UNCHANGED <<triggered, tpc, wake, scheduled>>

DropTask(w) ==
    /\ wpc[w] = "pending"
    /\ wpc' = [wpc EXCEPT ![w] = "drop"]
    /\ UNCHANGED <<triggered, list, tpc, wake, slot, scheduled>>

Trigger(x) == DrainWaiters(x) \/ (\E w \in Waiters : WakeOne(x, w)) \/ WokeAll(x)
Poll(w) == Load(w) \/ Register(w) \/ Recheck(w) \/ Release(w)

Next ==
    \/ \E x \in Triggers : Swap(x) \/ Trigger(x)
    \/ \E w \in Waiters : Start(w) \/ Repoll(w) \/ WorkDone(w) \/ Poll(w) \/ DropTask(w)

Spec == Init /\ [][Next]_vars

(* A trigger() call and a poll that have begun go on; an executor polls a  *)
(* task that was woken.                                                    *)
FairSpec ==
    /\ Spec
    /\ \A x \in Triggers : WF_vars(Trigger(x))
    /\ \A w \in Waiters : WF_vars(Poll(w)) /\ WF_vars(scheduled[w] /\ Repoll(w))

-----------------------------------------------------------------------------
Drained == \E x \in Triggers : tpc[x] \in {"wake", "done"}
Elems(s) == {s[i] : i \in 1 .. Len(s)}

TypeOK ==
    /\ triggered \in BOOLEAN
    /\ entries \in Seq(Waiters \cup {NoWaiter}) /\ free \in Seq(Nat \ {0})
    /\ Elems(free) \subseteq 1 .. Len(entries)
    /\ tpc \in [Triggers -> {"idle", "drain", "wake", "done", "noop"}]
    /\ wake \in [Triggers -> SUBSET Waiters]
    /\ wpc \in [Waiters -> {"out", "load", "register", "recheck", "pending", "release", "drop",
                            "stopped"}]
    /\ slot \in [Waiters -> Nat]
    /\ scheduled \in [Waiters -> BOOLEAN]

(* shutdown.rs:16-17, 194-196: a waiter cannot miss the signal.  Whatever  *)
(* the order of the trigger's steps and of the polls, and although waiters *)
(* hold indices into a list that was emptied and refilled, a waiter asleep *)
(* after the trigger is scheduled, or its waker is in the trigger's hands, *)
(* or it is in the list the trigger is about to take.                      *)
NoMissedSignal ==
    \A w \in Waiters : triggered /\ wpc[w] = "pending" =>
        \/ scheduled[w]
        \/ \E x \in Triggers : w \in wake[x]
        \/ w \in Elems(entries) /\ \E x \in Triggers : tpc[x] = "drain"

ListExact ==
    /\ \A w \in Waiters : slot[w] # NoSlot => slot[w] <= Len(entries) /\ entries[slot[w]] = w
    /\ \A i \in 1 .. Len(entries) :
          IF entries[i] = NoWaiter THEN i \in Elems(free) ELSE slot[entries[i]] = i
    /\ \A i, j \in 1 .. Len(free) : i # j => free[i] # free[j]
    /\ \A i \in Elems(free) : entries[i] = NoWaiter

(* "Slots are reused so a long-lived server [...] does not grow this       *)
(* vector without bound" (shutdown.rs:25-26), and no dead waker is left    *)
(* behind (shutdown.rs:206-207): until the signal, each taken slot is that *)
(* of a live waiter, two waiters never share one, and every other slot is  *)
(* on the free list once.                                                  *)
SlotsExact == ~Drained => ListExact

(* After the signal every race ends: each waiter learns of it, or its own  *)
(* work finished first.                                                    *)
SignalEndsWait ==
    \A w \in Waiters : triggered /\ wpc[w] = "pending" ~> wpc[w] \in {"stopped", "out"}
=============================================================================
