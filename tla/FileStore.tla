------------------------------ MODULE FileStore -----------------------------
(***************************************************************************)
(* A file-backed store of kernway-security (FileBackedSessionStore,        *)
(* FileBackedBans, FileBackedActivity): a registry in memory that every    *)
(* write changes first, logged through the engine of module Wal and        *)
(* snapshotted after every CHECKPOINT_EVERY writes.  The store is shared   *)
(* by the shards' threads; a call of one of them is a process that takes   *)
(* the steps of the async function one by one, and the engine's writer     *)
(* thread runs in between.                                                 *)
(*                                                                         *)
(* The registry is the set of keys it holds (a session id, a ban rule, a   *)
(* visitor); what is stored under a key is left out.                       *)
(***************************************************************************)
EXTENDS Integers, Sequences, FiniteSets, TLC

CONSTANTS Policies, MaxCmds, MaxFaults, MaxCrashes,  \* see Wal
          Threads,           \* the callers
          Keys,
          CHECKPOINT_EVERY

VARIABLES policy, channel, kind, sent, done, cmd, wpc, dirty, wal, stable, tmp, snap,
          faults, crashes, buffered, promised

VARIABLES
    mem,     \* the registry in memory
    body,    \* what each command carries: a write, or a snapshot of the registry
    since,   \* since_checkpoint
    tpc,     \* where each thread is in its call
    top,     \* the write, then the snapshot, a thread is about to send
    tcmd,    \* the command a thread awaits
    prior    \* history: the registry when the thread's call began

W == INSTANCE Wal

engine == <<policy, channel, kind, sent, done, cmd, wpc, dirty, wal, stable, tmp, snap,
            faults, crashes, buffered, promised>>
calls == <<tpc, top, tcmd, prior>>
store == <<mem, body, since>>
vars  == <<engine, store, calls>>

-----------------------------------------------------------------------------
(* A write puts keys in and takes keys out: insert, ban and record put one *)
(* in, remove and unban take one out, remove_user takes out all of a       *)
(* user's (here: all).  touch changes only what is stored under a key that *)
(* is there, but is logged and counted like the others.                    *)
Put(k)     == [add |-> {k}, del |-> {}]
TakeOut(k) == [add |-> {}, del |-> {k}]
TakeAll    == [add |-> {}, del |-> Keys]
NoOp       == [add |-> {}, del |-> {}]
Touch      == NoOp
Ops        == {Put(k) : k \in Keys} \cup {TakeOut(k) : k \in Keys} \cup {TakeAll, Touch}

\* Nothing tells one key from another.
KeySymmetry == Permutations(Keys)

ASSUME FileStoreAssumption ==
    /\ Policies \subseteq {"every", "batched", "never"}
    /\ MaxCmds \in Nat /\ MaxFaults \in Nat /\ MaxCrashes \in Nat
    /\ IsFiniteSet(Threads)
    /\ CHECKPOINT_EVERY \in Nat \ {0}

Apply(m, o) == (m \ o.del) \cup o.add

\* snapshot_bytes: the whole registry, framed as records that put each key in.
Snapshot(m) == [add |-> m, del |-> {}]

\* replay: the snapshot, then the log on top of it.
Replayed(w) ==
    LET base == IF snap = W!NoCmd THEN {} ELSE Apply({}, body[snap])
        at[n \in 0 .. Len(w)] == IF n = 0 THEN base ELSE Apply(at[n - 1], body[w[n].id])
    IN  at[W!LoadedLen(w)]

Init ==
    /\ W!Init
    /\ mem = {} /\ since = 0
    /\ body = [i \in W!Cmds |-> NoOp]
    /\ tpc = [t \in Threads |-> "idle"]
    /\ top = [t \in Threads |-> NoOp]
    /\ tcmd = [t \in Threads |-> W!NoCmd]
    /\ prior = [t \in Threads |-> {}]

-----------------------------------------------------------------------------
(* A call: change memory, under its lock ...                               *)
Begin(t, o) ==
    /\ W!Accepting /\ tpc[t] = "idle"
    /\ mem' = Apply(mem, o)
    /\ prior' = [prior EXCEPT ![t] = mem]
    /\ top' = [top EXCEPT ![t] = o]
    /\ tpc' = [tpc EXCEPT ![t] = "append"]
    /\ UNCHANGED <<engine, body, since, tcmd>>

Submit(t, k) ==
    /\ W!Dispatch(k)
    /\ body' = [body EXCEPT ![sent + 1] = top[t]]
    /\ tcmd' = [tcmd EXCEPT ![t] = sent + 1]
    /\ UNCHANGED <<policy, done, cmd, wpc, dirty, wal, stable, tmp, snap, faults, crashes,
                   buffered, promised, mem, since, top, prior>>

\* The call is over; what it kept on the way goes with it.
Return(t) ==
    /\ tpc' = [tpc EXCEPT ![t] = "idle"]
    /\ top' = [top EXCEPT ![t] = NoOp]
    /\ tcmd' = [tcmd EXCEPT ![t] = W!NoCmd]
    /\ prior' = [prior EXCEPT ![t] = {}]

(* ... log(): append the record, await it; an error ends the call ...      *)
SendAppend(t) ==
    /\ tpc[t] = "append"
    /\ Submit(t, "append")
    /\ tpc' = [tpc EXCEPT ![t] = "appended"]

Appended(t) ==
    /\ tpc[t] = "appended" /\ done[tcmd[t]] # "none"
    /\ \/ /\ done[tcmd[t]] = "ok" /\ since + 1 >= CHECKPOINT_EVERY
          /\ since' = since + 1
          /\ tpc' = [tpc EXCEPT ![t] = "reset"]
          /\ UNCHANGED <<top, tcmd, prior>>
       \/ /\ done[tcmd[t]] = "ok" /\ since + 1 < CHECKPOINT_EVERY
          /\ since' = since + 1
          /\ Return(t)
       \/ /\ done[tcmd[t]] = "err"
          /\ Return(t)
          /\ UNCHANGED since
    /\ UNCHANGED <<engine, mem, body>>

(* ... and after enough of them, snapshot the registry as it is by now,    *)
(* hand it to the engine and await that, too.                              *)
\* Variant for the mutation runs: the counter is not reset.
ResetNot(t) ==
    /\ tpc[t] = "reset"
    /\ tpc' = [tpc EXCEPT ![t] = "snapshot"]
    /\ UNCHANGED <<engine, mem, body, since, top, tcmd, prior>>

Reset(t) ==
    /\ tpc[t] = "reset"
    /\ since' = 0
    /\ tpc' = [tpc EXCEPT ![t] = "snapshot"]
    /\ UNCHANGED <<engine, mem, body, top, tcmd, prior>>

\* Variant for the mutation runs: the registry as it was before the call.
SnapshotPrior(t) ==
    /\ tpc[t] = "snapshot"
    /\ top' = [top EXCEPT ![t] = Snapshot(prior[t])]
    /\ tpc' = [tpc EXCEPT ![t] = "checkpoint"]
    /\ UNCHANGED <<engine, store, tcmd, prior>>

SnapshotBytes(t) ==
    /\ tpc[t] = "snapshot"
    /\ top' = [top EXCEPT ![t] = Snapshot(mem)]
    /\ tpc' = [tpc EXCEPT ![t] = "checkpoint"]
    /\ UNCHANGED <<engine, store, tcmd, prior>>

SendCheckpoint(t) ==
    /\ tpc[t] = "checkpoint"
    /\ Submit(t, "checkpoint")
    /\ tpc' = [tpc EXCEPT ![t] = "saving"]

Saved(t) ==
    /\ tpc[t] = "saving" /\ done[tcmd[t]] # "none"
    /\ Return(t)
    /\ UNCHANGED <<engine, store>>

Caller(t) ==
    \/ \E o \in Ops : Begin(t, o)
    \/ SendAppend(t) \/ Appended(t) \/ Reset(t) \/ SnapshotBytes(t) \/ SendCheckpoint(t) \/ Saved(t)

-----------------------------------------------------------------------------
\* The last owner of the store drops it; the engine flushes and stops.
Drop ==
    /\ \A t \in Threads : tpc[t] = "idle"
    /\ W!Call("shutdown")
    /\ UNCHANGED <<store, calls>>

Engine == (W!Writer \/ W!Fail) /\ UNCHANGED <<store, calls>>

\* A crash takes the registry and the calls with it, open() rebuilds it.
Crash ==
    /\ W!Kill \/ W!PowerLoss
    /\ mem' = {} /\ since' = 0
    /\ tpc' = [t \in Threads |-> "idle"]
    /\ top' = [t \in Threads |-> NoOp]
    /\ tcmd' = [t \in Threads |-> W!NoCmd]
    /\ prior' = [t \in Threads |-> {}]
    /\ UNCHANGED body

Reopen ==
    /\ W!Open
    /\ mem' = Replayed(wal)
    /\ UNCHANGED <<body, since, calls>>

Next ==
    \/ \E t \in Threads : Caller(t)
    \/ Drop \/ Engine \/ Crash \/ Reopen

Spec == Init /\ [][Next]_vars

-----------------------------------------------------------------------------
TypeOK ==
    /\ mem \subseteq Keys
    /\ body \in [W!Cmds -> [add : SUBSET Keys, del : SUBSET Keys]]
    /\ since \in 0 .. CHECKPOINT_EVERY - 1 + Cardinality(Threads)
    /\ tpc \in [Threads -> {"idle", "append", "appended", "reset", "snapshot", "checkpoint", "saving"}]
    /\ top \in [Threads -> [add : SUBSET Keys, del : SUBSET Keys]]
    /\ tcmd \in [Threads -> W!Cmds \cup {W!NoCmd}]
    /\ prior \in [Threads -> SUBSET Keys]

\* What a restart may find: anything a power loss can leave under EveryWrite,
\* otherwise what was written.  open() does not sync what it finds, so a record
\* whose call a kill cut off may still vanish after it was replayed once: such
\* logs are judged as written.  (A tear inside the log is Wal's concern.)
CutOff == \E i \in 1 .. Len(wal) : done[wal[i].id] = "err"
Restarts == {w \in IF policy = "every" /\ ~CutOff THEN W!Survivors ELSE {wal} : W!Framed(w)}

(* "A restart replays the log onto the snapshot and loses nothing"         *)
(* (file_bans.rs:5-6): with every call returned and none failed, the       *)
(* registry a restart would rebuild is the one in memory.                  *)
RestartLosesNothing ==
    W!Up /\ faults = 0 /\ (\A t \in Threads : tpc[t] = "idle") =>
        \A w \in Restarts : Replayed(w) = mem

(* With one shard, a crash in the middle of a call, its checkpoint         *)
(* included, leaves the registry as it was before the call or after it.    *)
CallsAreAtomic ==
    \A t \in Threads : tpc[t] # "idle" /\ faults = 0 =>
        \A w \in Restarts : Replayed(w) \in {mem, prior[t]}
=============================================================================
