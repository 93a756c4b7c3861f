------------------------------ MODULE Presence ------------------------------
(***************************************************************************)
(* Who is here now: Presence and UserPresence (kernway-security/src/       *)
(* presence.rs) and Activity (activity.rs), in memory and over Redis.      *)
(* `tracker` says which of them a behaviour is about:                      *)
(*   "memory"    one map, reads prune and list in one critical section;    *)
(*   "devices"   user -> device, reads prune, unlock, lock and list;       *)
(*   "redis"     a sorted set, reads prune with one command and list with  *)
(*               the next;                                                 *)
(*   "activity"  the sorted set and a key per visitor that expires; a      *)
(*               record writes one and then the other.                     *)
(* Callers bring their own `now`, read up to ClockLag ticks before the     *)
(* step that uses it.  Times start at 1; 0 stands for none.                *)
(***************************************************************************)
EXTENDS Naturals, FiniteSets, FiniteSetsExt

CONSTANTS Visitors,   \* users, or user and device, or visitor ids
          Readers, Recorders,
          OnlineWindow, ClockLag,
          LastTime    \* bound on the clock

ASSUME PresenceAssumption == OnlineWindow \in Nat /\ ClockLag \in Nat /\ LastTime \in Nat \ {0}

VARIABLES
    tracker, time,
    last,      \* the recorded time of each visitor's last beat
    data,      \* activity over Redis: the tick a visitor's record expires at
    recorder,  \* records between their two commands: [who, at]
    reader,    \* reads between prune and list: [now]
    begun, complete   \* when each visitor's latest beat reached the store, and the latest that returned

presenceVars == <<tracker, time, last, data, recorder, reader, begun, complete>>

Lagging == {t \in 1 .. time : time - t <= ClockLag}
Since(now) == IF now > OnlineWindow THEN now - OnlineWindow ELSE 0

PresenceInit ==
    /\ tracker \in {"memory", "devices", "redis", "activity"} /\ time = 1
    /\ last = [v \in Visitors |-> 0] /\ data = [v \in Visitors |-> 0]
    /\ recorder = [r \in Recorders |-> {}] /\ reader = [r \in Readers |-> 0]
    /\ begun = [v \in Visitors |-> 0] /\ complete = [v \in Visitors |-> 0]

-----------------------------------------------------------------------------
\* Variant for the mutation runs: a beat only enters a visitor who is not there yet.
HeartbeatOnce(v, now) ==
    /\ tracker # "activity"
    /\ last' = [last EXCEPT ![v] = IF @ = 0 THEN now ELSE @]
    /\ begun' = [begun EXCEPT ![v] = time] /\ complete' = [complete EXCEPT ![v] = time]
    /\ UNCHANGED <<tracker, time, data, recorder, reader>>

Heartbeat(v, now) ==
    /\ tracker # "activity"
    /\ last' = [last EXCEPT ![v] = now]
    /\ begun' = [begun EXCEPT ![v] = time] /\ complete' = [complete EXCEPT ![v] = time]
    /\ UNCHANGED <<tracker, time, data, recorder, reader>>

\* forget: the device goes, and its user with the last one.
Forget(v) ==
    /\ tracker = "devices" /\ last[v] # 0
    /\ last' = [last EXCEPT ![v] = 0]
    /\ begun' = [begun EXCEPT ![v] = 0] /\ complete' = [complete EXCEPT ![v] = 0]
    /\ UNCHANGED <<tracker, time, data, recorder, reader>>

\* ActivityTracking records every request before it is served and ignores an error, so a
\* record may stop after the first of its two commands.
RecordIndex(r, v, now) ==
    /\ tracker = "activity" /\ recorder[r] = {}
    /\ last' = [last EXCEPT ![v] = now] /\ begun' = [begun EXCEPT ![v] = time]
    /\ recorder' = [recorder EXCEPT ![r] = {[who |-> v, at |-> time]}]
    /\ UNCHANGED <<tracker, time, data, reader, complete>>

RecordData(r) ==
    /\ \E w \in recorder[r] :
          /\ data' = [data EXCEPT ![w.who] = time + Max({OnlineWindow, 1})]
          /\ complete' = [complete EXCEPT ![w.who] = Max({@, w.at})]
    /\ recorder' = [recorder EXCEPT ![r] = {}]
    /\ UNCHANGED <<tracker, time, last, reader, begun>>

RecordError(r) ==
    /\ recorder[r] # {} /\ recorder' = [recorder EXCEPT ![r] = {}]
    /\ UNCHANGED <<tracker, time, last, data, reader, begun, complete>>

-----------------------------------------------------------------------------
\* prune: what is older than the window goes, its last moment excluded.
Pruned(now) == [v \in Visitors |-> IF last[v] < Since(now) THEN 0 ELSE last[v]]

\* The first half of online, active, and of every read of UserPresence.
Prune(r, now) ==
    /\ tracker # "memory" /\ reader[r] = 0
    /\ last' = Pruned(now) /\ reader' = [reader EXCEPT ![r] = now]
    /\ UNCHANGED <<tracker, time, data, recorder, begun, complete>>

\* What the second half lists: UserPresence whatever is there by then, Redis by score again,
\* Activity those whose record is still there.
Listed(r) ==
    {v \in Visitors : /\ last[v] # 0
                      /\ tracker \in {"redis", "activity"} => last[v] >= Since(reader[r])
                      /\ tracker = "activity" => data[v] > time}

List(r) ==
    /\ reader[r] # 0 /\ reader' = [reader EXCEPT ![r] = 0]
    /\ UNCHANGED <<tracker, time, last, data, recorder, begun, complete>>

\* The memory trackers' online and active: one critical section.
OnlineMemory(now) ==
    /\ tracker = "memory" /\ last' = Pruned(now)
    /\ UNCHANGED <<tracker, time, data, recorder, reader, begun, complete>>

\* is_online and count of the others look without pruning.
IsOnline(v, now) == last[v] # 0 /\ last[v] >= Since(now)

PresenceTick ==
    /\ time < LastTime /\ time' = time + 1
    /\ UNCHANGED <<tracker, last, data, recorder, reader, begun, complete>>

PresenceNext ==
    \/ \E now \in Lagging : \/ \E v \in Visitors : Heartbeat(v, now) \/ \E r \in Recorders : RecordIndex(r, v, now)
                            \/ \E r \in Readers : Prune(r, now)
                            \/ OnlineMemory(now)
    \/ \E v \in Visitors : Forget(v)
    \/ \E r \in Recorders : RecordData(r) \/ RecordError(r)
    \/ \E r \in Readers : List(r)
    \/ PresenceTick

-----------------------------------------------------------------------------
PresenceTypeOK ==
    /\ time \in 1 .. LastTime
    /\ \A v \in Visitors : last[v] \in 0 .. time /\ complete[v] <= begun[v] /\ begun[v] <= time

\* Whose latest beat lies inside the window, the clocks' lag allowed for, is in every list
\* and online: another reader's prune, a late beat or a half-written record drops nobody.
\* Nobody is listed whose latest beat had left the reader's window when it began.
PresenceWindow ==
    /\ \A v \in Visitors :
          complete[v] # 0 /\ time + ClockLag < complete[v] + OnlineWindow
             => /\ tracker # "activity" => \A now \in Lagging : IsOnline(v, now)
                /\ \A r \in Readers : reader[r] # 0 => v \in Listed(r)
    /\ \A r \in Readers : reader[r] # 0 =>
          \A v \in Listed(r) : begun[v] # 0 /\ begun[v] + OnlineWindow >= reader[r]
=============================================================================
