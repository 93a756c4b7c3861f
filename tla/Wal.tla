-------------------------------- MODULE Wal ---------------------------------
(***************************************************************************)
(* The durable log engine (crates/kernway-persist): a writer thread that   *)
(* services a channel of commands, appends records to `wal`, and replaces  *)
(* `snapshot` while truncating the log.  A caller holds a Durable for each *)
(* command, resolved when the writer completes or drops its Ack.           *)
(*                                                                         *)
(* Commands are numbered in the order they enter the channel; a record or  *)
(* a snapshot is identified by the number of its command.  A log record is *)
(* `whole` once its bytes follow its length; a record that is not whole is *)
(* one a crash or a failed write cut short.  Its length prefix makes       *)
(* read_wal swallow or reject the bytes that follow, so reading stops      *)
(* there.  Every system call of the writer is a step of its own, may fail, *)
(* and may be the last one before the process is killed (what was written  *)
(* stays) or the power is lost (what was not synced may be lost).          *)
(* Renames are durable once made, as on a journalling file system.         *)
(***************************************************************************)
EXTENDS Integers, Sequences, FiniteSets

CONSTANTS Policies,    \* the Fsync policies the engine may be opened with
          MaxCmds,     \* bound: commands sent over the whole run
          MaxFaults,   \* bound: failing system calls
          MaxCrashes   \* bound: kills and power losses

ASSUME WalAssumption ==
    /\ Policies \subseteq {"every", "batched", "never"}
    /\ MaxCmds \in Nat /\ MaxFaults \in Nat /\ MaxCrashes \in Nat

Cmds == 1 .. MaxCmds
Kinds == {"append", "checkpoint", "flush", "shutdown"}
NoCmd == 0

VARIABLES
    policy,    \* Writer.fsync; never changes
    channel,   \* commands sent and not received, oldest first
    kind,      \* what each command sent so far is
    sent,      \* number of commands sent
    done,      \* Shared.done of each command's Durable
    cmd, wpc,  \* the command in the writer's hands, and where it is in it
    dirty,     \* Writer.dirty
    wal,       \* the log as the file system shows it
    stable,    \* the log as of its last successful sync
    tmp, snap, \* the snapshot.tmp and snapshot files, NoCmd when absent
    faults, crashes,
    buffered,  \* history: appends acknowledged since open(), not promised
    promised   \* history: appends the engine has promised to keep

callerVars == <<channel, kind, sent>>
diskVars   == <<wal, stable, tmp, snap>>
promises   == <<buffered, promised>>
vars == <<policy, callerVars, done, cmd, wpc, dirty, diskVars, faults, crashes, promises>>

Init ==
    /\ policy \in Policies
    /\ channel = <<>> /\ sent = 0
    /\ kind = [i \in Cmds |-> "none"]
    /\ done = [i \in Cmds |-> "none"]
    /\ cmd = NoCmd /\ wpc = "recv" /\ dirty = FALSE
    /\ wal = <<>> /\ stable = <<>> /\ tmp = NoCmd /\ snap = NoCmd
    /\ faults = 0 /\ crashes = 0
    /\ buffered = {} /\ promised = {}

-----------------------------------------------------------------------------
(* read_wal: the records before the first one that is not whole.           *)
Readable(w) == {n \in 0 .. Len(w) : \A i \in 1 .. n : w[i].whole}
LoadedLen(w) == CHOOSE n \in Readable(w) : \A m \in Readable(w) : m <= n
Loaded(w) == {w[i].id : i \in 1 .. LoadedLen(w)}

\* The last record may be cut short, none before it is.
Framed(w) == \A i \in 1 .. Len(w) - 1 : w[i].whole

Tear(w) == [w EXCEPT ![Len(w)] = [@ EXCEPT !.whole = FALSE]]

\* What the log may be after a power loss: at least what was synced, perhaps
\* more, the last of it perhaps in part.  A truncation that was not synced
\* may be undone.
Extends == Len(wal) >= Len(stable) /\ SubSeq(wal, 1, Len(stable)) = stable
Kept    == {SubSeq(wal, 1, n) : n \in (IF Extends THEN Len(stable) ELSE 0) .. Len(wal)}
Survivors == {stable} \cup Kept \cup {Tear(w) : w \in Kept \ {<<>>, stable}}

-----------------------------------------------------------------------------
(* Persister::dispatch.  The channel is closed to new commands once the    *)
(* Persister has been dropped.                                             *)
Up == wpc # "down"
Dropped == \E i \in 1 .. Len(channel) : kind[channel[i]] = "shutdown"
Accepting == Up /\ wpc # "stopped" /\ ~Dropped /\ (cmd # NoCmd => kind[cmd] # "shutdown")

Dispatch(k) ==
    /\ Accepting /\ sent < MaxCmds
    /\ sent' = sent + 1
    /\ kind' = [kind EXCEPT ![sent + 1] = k]
    /\ channel' = Append(channel, sent + 1)

Call(k) == Dispatch(k) /\ UNCHANGED <<policy, done, cmd, wpc, dirty, diskVars, faults, crashes, promises>>

-----------------------------------------------------------------------------
(* The writer.  Complete resolves the caller's Durable.  With it come the  *)
(* promises: an append acknowledged under EveryWrite is on disk, and so is *)
(* everything acknowledged before a flush or an orderly stop.              *)
\* Variant for the mutation runs: a failing command drops its Ack unresolved.
CompleteIfOk(ok) ==
    /\ done' = [done EXCEPT ![cmd] = IF ok THEN "ok" ELSE @]
    /\ cmd' = NoCmd
    /\ wpc' = IF kind[cmd] = "shutdown" THEN "stopped" ELSE "recv"
    /\ UNCHANGED promises

Complete(ok) ==
    /\ done' = [done EXCEPT ![cmd] = IF ok THEN "ok" ELSE "err"]
    /\ cmd' = NoCmd
    /\ wpc' = IF kind[cmd] = "shutdown" THEN "stopped" ELSE "recv"
    /\ CASE ok /\ kind[cmd] = "append" /\ policy = "every" ->
              promised' = promised \cup {cmd} /\ UNCHANGED buffered
         [] ok /\ kind[cmd] = "append" /\ policy # "every" ->
              buffered' = buffered \cup {cmd} /\ UNCHANGED promised
         [] ok /\ kind[cmd] \in {"flush", "shutdown"} ->
              promised' = promised \cup buffered /\ buffered' = {}
         [] OTHER -> UNCHANGED promises

Recv ==
    /\ wpc = "recv" /\ channel # <<>>
    /\ cmd' = Head(channel)
    /\ channel' = Tail(channel)
    /\ wpc' = CASE kind[Head(channel)] = "append"     -> "len"
                [] kind[Head(channel)] = "checkpoint" -> "tmp"
                [] OTHER                              -> "sync"
    /\ UNCHANGED <<policy, kind, sent, done, dirty, diskVars, faults, crashes, promises>>

(* Writer::append: the length, the bytes, and a sync if the policy wants   *)
(* one now.  (Batched: whenever the interval has passed.)                  *)
WriteLen ==
    /\ wpc = "len"
    /\ wal' = Append(wal, [id |-> cmd, whole |-> FALSE])
    /\ wpc' = "body"
    /\ UNCHANGED <<policy, callerVars, done, cmd, dirty, stable, tmp, snap, faults, crashes, promises>>

\* Variant for the mutation runs: the log is not marked dirty.
WriteBodyClean ==
    /\ wpc = "body"
    /\ wal' = [wal EXCEPT ![Len(wal)] = [@ EXCEPT !.whole = TRUE]]
    /\ \/ /\ policy \in {"every", "batched"}
          /\ wpc' = "sync"
          /\ UNCHANGED <<done, cmd, promises>>
       \/ /\ policy \in {"batched", "never"}
          /\ Complete(TRUE)
    /\ UNCHANGED <<policy, callerVars, dirty, stable, tmp, snap, faults, crashes>>

WriteBody ==
    /\ wpc = "body"
    /\ wal' = [wal EXCEPT ![Len(wal)] = [@ EXCEPT !.whole = TRUE]]
    /\ dirty' = TRUE
    /\ \/ /\ policy \in {"every", "batched"}
          /\ wpc' = "sync"
          /\ UNCHANGED <<done, cmd, promises>>
       \/ /\ policy \in {"batched", "never"}
          /\ Complete(TRUE)
    /\ UNCHANGED <<policy, callerVars, stable, tmp, snap, faults, crashes>>

(* Writer::sync, for an append, a flush and the final flush at shutdown.   *)
Sync ==
    /\ wpc = "sync"
    /\ stable' = IF dirty THEN wal ELSE stable
    /\ dirty' = FALSE
    /\ Complete(TRUE)
    /\ UNCHANGED <<policy, callerVars, wal, tmp, snap, faults, crashes>>

(* Writer::checkpoint: temporary file, rename, truncate, sync.             *)
WriteTmp ==
    /\ wpc = "tmp"
    /\ tmp' = cmd
    /\ wpc' = "rename"
    /\ UNCHANGED <<policy, callerVars, done, cmd, dirty, wal, stable, snap, faults, crashes, promises>>

\* Variant for the mutation runs: the rename is left out.
RenameNot ==
    /\ wpc = "rename"
    /\ wpc' = "truncate"
    /\ UNCHANGED <<policy, callerVars, done, cmd, dirty, diskVars, faults, crashes, promises>>

Rename ==
    /\ wpc = "rename"
    /\ snap' = tmp /\ tmp' = NoCmd
    /\ wpc' = "truncate"
    /\ UNCHANGED <<policy, callerVars, done, cmd, dirty, wal, stable, faults, crashes, promises>>

\* Variant for the mutation runs: the first record stays.
TruncateToFirst ==
    /\ wpc = "truncate"
    /\ wal' = IF wal = <<>> THEN <<>> ELSE <<Head(wal)>>
    /\ wpc' = "synclog"
    /\ buffered' = {} /\ promised' = {}
    /\ UNCHANGED <<policy, callerVars, done, cmd, dirty, stable, tmp, snap, faults, crashes>>

\* From here on the snapshot answers for every record sent before it.
Truncate ==
    /\ wpc = "truncate"
    /\ wal' = <<>>
    /\ wpc' = "synclog"
    /\ buffered' = {} /\ promised' = {}
    /\ UNCHANGED <<policy, callerVars, done, cmd, dirty, stable, tmp, snap, faults, crashes>>

SyncLog ==
    /\ wpc = "synclog"
    /\ stable' = wal
    /\ dirty' = FALSE
    /\ Complete(TRUE)
    /\ UNCHANGED <<policy, callerVars, wal, tmp, snap, faults, crashes>>

(* A system call fails: `?` leaves the function, the caller gets the       *)
(* error, and whatever was done so far stays.  A failing write may have    *)
(* written a part; the log then ends in a record that is not whole.        *)
Fail ==
    /\ wpc \in {"len", "body", "tmp", "rename", "truncate", "synclog"} \/ (wpc = "sync" /\ dirty)
    /\ faults < MaxFaults
    /\ faults' = faults + 1
    /\ \/ UNCHANGED wal
       \/ wpc = "len" /\ wal' = Append(wal, [id |-> cmd, whole |-> FALSE])
    /\ Complete(FALSE)
    /\ UNCHANGED <<policy, callerVars, dirty, stable, tmp, snap, crashes>>

Writer == Recv \/ WriteLen \/ WriteBody \/ Sync \/ WriteTmp \/ Rename \/ Truncate \/ SyncLog

-----------------------------------------------------------------------------
(* The process ends without warning.  Its commands go with it: the Ack of  *)
(* each is dropped, or its caller is gone as well.                         *)
\* Variant for the mutation runs: the command in hand outlives the process.
DownKeepsCmd ==
    /\ Up /\ crashes < MaxCrashes
    /\ crashes' = crashes + 1
    /\ wpc' = "down" /\ channel' = <<>> /\ dirty' = FALSE
    /\ done' = [i \in Cmds |-> IF kind[i] # "none" /\ done[i] = "none" THEN "err" ELSE done[i]]
    /\ buffered' = {}
    /\ UNCHANGED <<policy, kind, sent, cmd, tmp, snap, faults, promised>>

Down ==
    /\ Up /\ crashes < MaxCrashes
    /\ crashes' = crashes + 1
    /\ wpc' = "down" /\ cmd' = NoCmd /\ channel' = <<>> /\ dirty' = FALSE
    /\ done' = [i \in Cmds |-> IF kind[i] # "none" /\ done[i] = "none" THEN "err" ELSE done[i]]
    /\ buffered' = {}
    /\ UNCHANGED <<policy, kind, sent, tmp, snap, faults, promised>>

Kill == Down /\ UNCHANGED <<wal, stable>>

PowerLoss ==
    /\ Down
    /\ wal' \in Survivors
    /\ stable' = wal'

(* Persister::open: read what is there, append after the last byte of it.  *)
Open ==
    /\ wpc = "down"
    /\ wpc' = "recv"
    /\ UNCHANGED <<policy, callerVars, done, cmd, dirty, diskVars, faults, crashes, promises>>

Next ==
    \/ \E k \in Kinds : Call(k)
    \/ Writer \/ Fail
    \/ Kill \/ PowerLoss \/ Open

Spec == Init /\ [][Next]_vars

(* The writer thread runs as long as the process does.                     *)
FairSpec == Spec /\ WF_vars(Writer)

-----------------------------------------------------------------------------
TypeOK ==
    /\ policy \in Policies
    /\ channel \in Seq(Cmds) /\ sent \in 0 .. MaxCmds
    /\ kind \in [Cmds -> Kinds \cup {"none"}]
    /\ done \in [Cmds -> {"none", "ok", "err"}]
    /\ cmd \in Cmds \cup {NoCmd}
    /\ wpc \in {"recv", "len", "body", "sync", "tmp", "rename", "truncate", "synclog",
                "stopped", "down"}
    /\ cmd = NoCmd <=> wpc \in {"recv", "stopped", "down"}
    /\ dirty \in BOOLEAN
    /\ wal \in Seq([id : Cmds, whole : BOOLEAN]) /\ stable \in Seq([id : Cmds, whole : BOOLEAN])
    /\ tmp \in Cmds \cup {NoCmd} /\ snap \in Cmds \cup {NoCmd}
    /\ faults \in 0 .. MaxFaults /\ crashes \in 0 .. MaxCrashes
    /\ buffered \subseteq Cmds /\ promised \subseteq Cmds

(* "Zero loss" under EveryWrite (lib.rs:19-21), flush() "before a critical *)
(* point" and "a dropped Persister guarantees everything buffered is on    *)
(* disk" (lib.rs:241-242): whatever moment the power goes, the log read    *)
(* back holds every promised append the snapshot has not superseded.       *)
PromisedSurvive == \A w \in Survivors : promised \subseteq Loaded(w)

(* The same as long as no record in the middle of the log is cut short.    *)
PromisedSurviveUnlessTorn == \A w \in Survivors : Framed(w) => promised \subseteq Loaded(w)

(* A crash between the snapshot and the truncation leaves records the      *)
(* snapshot already covers, which are replayed on top of it (lib.rs:25-28).*)
(* Idempotent records make that harmless only if the replay is in order    *)
(* and stops nowhere in between: with a covered record come all            *)
(* acknowledged ones between it and the snapshot, or an old value would    *)
(* win over a newer one.                                                   *)
ReplayConverges ==
    \A w \in Survivors : Framed(w) =>
        LET n == LoadedLen(w) IN
        /\ \A i, j \in 1 .. n : i < j => w[i].id < w[j].id
        /\ policy = "every" =>
              \A i \in 1 .. n : \A j \in w[i].id .. snap :
                  kind[j] = "append" /\ done[j] = "ok" => j \in Loaded(w)

(* An acknowledged checkpoint stays: the snapshot on disk is that one or a *)
(* later one.                                                              *)
CheckpointKept ==
    \A i \in Cmds : kind[i] = "checkpoint" /\ done[i] = "ok" => snap >= i

(* A caller never hangs (lib.rs:104-106): every command sent is resolved,  *)
(* whatever fails on the way.                                              *)
EveryCallResolves ==
    \A i \in Cmds : kind[i] # "none" ~> done[i] # "none"
=============================================================================
