----------------------------- MODULE WalProofs ------------------------------
(***************************************************************************)
(* TLAPS proofs about Wal: promises survive every crash that leaves the    *)
(* log framed, the replay over a snapshot converges and an acknowledged    *)
(* checkpoint is kept, for any number of commands, failures and crashes    *)
(* under every sync policy.                                                *)
(***************************************************************************)
EXTENDS Wal, SequenceTheorems, TLAPS

Records == [id : Cmds, whole : BOOLEAN]

\* Command p can be read from log w, if nothing before it is torn.
Has(w, p) == \E i \in 1 .. Len(w) : w[i].id = p /\ w[i].whole

\* Command n came after everything that is on disk or resolved.
Newer(n) ==
    /\ \A i \in 1 .. Len(wal) : wal[i].id < n
    /\ \A i \in 1 .. Len(stable) : stable[i].id < n
    /\ snap < n
    /\ \A j \in Cmds : done[j] # "none" => j < n

\* Commands are received in the order of their numbers.
Ordered ==
    /\ \A i, j \in 1 .. Len(channel) : i < j => channel[i] < channel[j]
    /\ \A i \in 1 .. Len(channel) : channel[i] <= sent /\ cmd < channel[i] /\ Newer(channel[i])
    /\ cmd <= sent /\ Newer(sent + 1)
    /\ cmd # NoCmd => \A j \in Cmds : done[j] # "none" => j < cmd
    /\ \A j \in Cmds : kind[j] # "none" => j <= sent

\* Where the writer is says which kind of command it serves, and what it has done of it.
InHand ==
    /\ wpc \in {"len", "body"} => kind[cmd] = "append"
    /\ wpc \in {"tmp", "rename", "truncate", "synclog"} => kind[cmd] = "checkpoint"
    /\ wpc = "sync" => kind[cmd] # "checkpoint"
    /\ wpc = "len" => /\ \A i \in 1 .. Len(wal) : wal[i].id < cmd
                      /\ \A i \in 1 .. Len(stable) : stable[i].id < cmd
    /\ wpc = "body" => wal # <<>> /\ wal[Len(wal)].id = cmd /\ (Extends => Len(stable) < Len(wal))
    /\ wpc = "sync" /\ kind[cmd] = "append" => dirty /\ Has(wal, cmd)
    /\ wpc = "rename" => tmp = cmd
    /\ wpc \in {"truncate", "synclog"} => snap = cmd

\* Promised appends are synced, and the log still continues what was synced; buffered ones are
\* in the log, and synced too when the log is not dirty.
Promises ==
    /\ promised # {} => Extends
    /\ \A p \in promised : Has(stable, p)
    /\ \A p \in buffered : Has(wal, p)
    /\ ~dirty /\ buffered # {} => Extends
    /\ ~dirty => \A p \in buffered : Has(stable, p)

Increasing(w) == \A i, j \in 1 .. Len(w) : i < j => w[i].id < w[j].id

\* Under EveryWrite an acknowledged append is missing from the log only if everything as old
\* as it is missing too.
Acked(j) == kind[j] = "append" /\ done[j] = "ok"
NoGaps ==
    /\ Increasing(wal) /\ Increasing(stable)
    /\ policy = "every" =>
          \A j \in Cmds : Acked(j) =>
             /\ (\E i \in 1 .. Len(stable) : stable[i].id <= j) => Has(stable, j)
             /\ (\E i \in 1 .. Len(wal) : wal[i].id <= j) => Extends /\ Has(stable, j)

IInv == TypeOK /\ Ordered /\ InHand /\ CheckpointKept /\ Promises /\ NoGaps

-----------------------------------------------------------------------------
(* Types.                                                                  *)
LEMMA CmdsAreNat == /\ \A i \in Cmds : i \in Nat /\ i >= 1
                    /\ NoCmd \notin Cmds /\ NoCmd \in Nat /\ MaxCmds \in Nat
BY WalAssumption DEF Cmds, NoCmd

LEMMA LogTypes == TypeOK => /\ wal \in Seq(Records) /\ stable \in Seq(Records)
                            /\ Len(wal) \in Nat /\ Len(stable) \in Nat
                            /\ \A i \in 1 .. Len(wal) : wal[i] \in Records
                            /\ \A i \in 1 .. Len(stable) : stable[i] \in Records
<1> SUFFICES ASSUME TypeOK PROVE wal \in Seq(Records) /\ stable \in Seq(Records)
  BY LenProperties
<1> QED BY DEF TypeOK, Records

LEMMA TornType ==
    ASSUME NEW w \in Seq(Records), w # <<>>
    PROVE  /\ Len(w) \in Nat \ {0}
           /\ Tear(w) \in Seq(Records) /\ Len(Tear(w)) = Len(w)
           /\ \A i \in 1 .. Len(w) : Tear(w)[i].id = w[i].id
           /\ \A i \in 1 .. Len(w) : i < Len(w) => Tear(w)[i] = w[i]
<1> DEFINE r == [w[Len(w)] EXCEPT !.whole = FALSE]
<1>1. Len(w) \in Nat \ {0}
  BY EmptySeq
<1>2. w[Len(w)] \in Records
  BY <1>1, ElementOfSeq
<1>3. r \in Records /\ r.id = w[Len(w)].id
  BY <1>2 DEF Records
<1>4. Tear(w) = [w EXCEPT ![Len(w)] = r]
  BY DEF Tear
<1> HIDE DEF r
<1> QED BY <1>1, <1>3, <1>4, ExceptSeq

LEMMA PrefixPoints ==
    ASSUME NEW w \in Seq(Records), NEW v \in Seq(Records), Len(w) >= Len(v)
    PROVE  SubSeq(w, 1, Len(v)) = v <=> \A i \in 1 .. Len(v) : w[i] = v[i]
<1> DEFINE s == SubSeq(w, 1, Len(v))
<1>1. s \in Seq(Records) /\ Len(s) = Len(v) /\ \A i \in 1 .. Len(v) : s[i] = w[i]
  <2>1. Len(v) \in Nat /\ \A i \in 1 .. Len(v) : w[i] \in Records
    BY LenProperties
  <2> QED BY <2>1, SubSeqProperties
<1> HIDE DEF s
<1>2. (\A i \in 1 .. Len(v) : s[i] = v[i]) => s = v
  BY <1>1, SeqEqual
<1>3. s = v => \A i \in 1 .. Len(v) : w[i] = v[i]
  BY <1>1
<1>4. (\A i \in 1 .. Len(v) : w[i] = v[i]) => s = v
  BY <1>1, <1>2
<1> QED BY <1>3, <1>4 DEF s

LEMMA ExtendsPoints ==
    TypeOK => (Extends <=> /\ Len(wal) >= Len(stable)
                           /\ \A i \in 1 .. Len(stable) : wal[i] = stable[i])
BY LogTypes, PrefixPoints DEF Extends

\* What a crash may leave is what was synced, or a prefix of the log with its last record
\* perhaps torn; if the log continues what was synced, so does the prefix.
LEMMA SurvivorShape ==
    ASSUME TypeOK, NEW w \in Survivors
    PROVE  /\ w \in Seq(Records)
           /\ \/ w = stable
              \/ /\ Len(w) <= Len(wal)
                 /\ \A i \in 1 .. Len(w) : w[i].id = wal[i].id
                 /\ Extends => Len(w) >= Len(stable) /\ \A i \in 1 .. Len(stable) : w[i] = stable[i]
<1> DEFINE Lo == IF Extends THEN Len(stable) ELSE 0
           Shape(v) == /\ v \in Seq(Records) /\ Len(v) <= Len(wal)
                       /\ \A i \in 1 .. Len(v) : v[i].id = wal[i].id
                       /\ Extends => Len(v) >= Len(stable) /\ \A i \in 1 .. Len(stable) : v[i] = stable[i]
<1>1. ASSUME NEW n \in Lo .. Len(wal)
      PROVE  /\ Shape(SubSeq(wal, 1, n)) /\ Len(SubSeq(wal, 1, n)) = n
             /\ \A i \in 1 .. n : SubSeq(wal, 1, n)[i] = wal[i]
  <2>1. n \in Nat /\ n <= Len(wal) /\ (Extends => Len(stable) <= n)
    BY LogTypes
  <2>2. \A i \in 1 .. n : wal[i] \in Records
    BY <2>1, LogTypes
  <2>3. /\ SubSeq(wal, 1, n) \in Seq(Records) /\ Len(SubSeq(wal, 1, n)) = n
        /\ \A i \in 1 .. n : SubSeq(wal, 1, n)[i] = wal[i]
    BY <2>1, <2>2, SubSeqProperties
  <2> QED BY <2>1, <2>3, ExtendsPoints, LogTypes
<1>2. CASE w = stable
  BY <1>2, LogTypes
<1>3. CASE w \in Kept
  <2>1. PICK n \in Lo .. Len(wal) : w = SubSeq(wal, 1, n)
    BY <1>3 DEF Kept
  <2>2. Shape(w)
    BY <2>1, <1>1
  <2> QED BY <2>2
<1>4. CASE w \in {Tear(v) : v \in Kept \ {<<>>, stable}}
  <2>1. PICK v \in Kept : v # <<>> /\ v # stable /\ w = Tear(v)
    BY <1>4
  <2>2. PICK n \in Lo .. Len(wal) : v = SubSeq(wal, 1, n)
    BY <2>1 DEF Kept
  <2>3. Shape(v) /\ Len(v) = n /\ n \in Nat
    BY <2>2, <1>1, LogTypes
  <2>4. /\ w \in Seq(Records) /\ Len(w) = Len(v) /\ Len(v) \in Nat \ {0}
        /\ \A i \in 1 .. Len(v) : w[i].id = v[i].id
        /\ \A i \in 1 .. Len(v) : i < Len(v) => w[i] = v[i]
    BY <2>1, <2>3, TornType
  <2>5. ASSUME Extends PROVE Len(stable) < Len(v)
    <3>1. Len(v) >= Len(stable) /\ \A i \in 1 .. Len(stable) : v[i] = stable[i]
      BY <2>3, <2>5
    <3>2. Len(v) # Len(stable)
      BY <3>1, <2>1, <2>3, SeqEqual, LogTypes
    <3> QED BY <3>1, <3>2, <2>3, LogTypes
  <2>6. Shape(w)
    BY <2>3, <2>4, <2>5, LogTypes
  <2> QED BY <2>6
<1> QED BY <1>2, <1>3, <1>4 DEF Survivors

\* From a framed log every whole record is read.
LEMMA FramedLoads ==
    ASSUME NEW w \in Seq(Records), Framed(w)
    PROVE  /\ LoadedLen(w) \in 0 .. Len(w)
           /\ \A p : Has(w, p) => p \in Loaded(w)
<1> DEFINE n == IF Len(w) = 0 \/ w[Len(w)].whole THEN Len(w) ELSE Len(w) - 1
<1>1. Len(w) \in Nat /\ \A i \in 1 .. Len(w) : w[i] \in Records
  BY LenProperties
<1>2. n \in Readable(w) /\ n \in 0 .. Len(w)
  BY <1>1 DEF Framed, Readable
<1>3. \A m \in Readable(w) : m <= n
  BY <1>1 DEF Readable
<1>4. LoadedLen(w) \in Readable(w) /\ \A m \in Readable(w) : m <= LoadedLen(w)
  BY <1>2, <1>3 DEF LoadedLen
<1>5. Readable(w) \subseteq 0 .. Len(w)
  BY DEF Readable
<1>6. LoadedLen(w) = n
  BY <1>1, <1>2, <1>3, <1>4, <1>5
<1>7. ASSUME NEW p, Has(w, p) PROVE p \in Loaded(w)
  <2>1. PICK i \in 1 .. Len(w) : w[i].id = p /\ w[i].whole
    BY <1>7 DEF Has
  <2>2. i \in 1 .. n
    BY <1>1, <2>1
  <2> QED BY <2>1, <2>2, <1>6 DEF Loaded
<1> QED BY <1>2, <1>6, <1>7

LEMMA TypeInit == Init => TypeOK
<1> SUFFICES ASSUME Init PROVE TypeOK
  OBVIOUS
<1>1. <<>> \in Seq(Cmds) /\ <<>> \in Seq([id : Cmds, whole : BOOLEAN])
  BY EmptySeq
<1>2. 0 \in 0 .. MaxCmds /\ 0 \in 0 .. MaxFaults /\ 0 \in 0 .. MaxCrashes
  BY WalAssumption
<1> QED BY <1>1, <1>2 DEF Init, TypeOK, NoCmd

\* What Complete does, whatever the command.
LEMMA CompleteFacts ==
    ASSUME TypeOK, cmd \in Cmds, NEW ok \in BOOLEAN, Complete(ok)
    PROVE  /\ cmd' = NoCmd /\ wpc' \in {"recv", "stopped"}
           /\ done' \in [Cmds -> {"none", "ok", "err"}]
           /\ done'[cmd] = IF ok THEN "ok" ELSE "err"
           /\ \A j \in Cmds : j # cmd => done'[j] = done[j]
           /\ promised' \subseteq Cmds /\ buffered' \subseteq Cmds
<1>1. done' = [done EXCEPT ![cmd] = IF ok THEN "ok" ELSE "err"]
  BY DEF Complete
<1>2. cmd' = NoCmd /\ wpc' \in {"recv", "stopped"}
  BY DEF Complete
<1>3. promised' \subseteq Cmds /\ buffered' \subseteq Cmds
  BY DEF Complete, TypeOK, promises
<1> QED BY <1>1, <1>2, <1>3 DEF TypeOK

LEMMA TypeStep == TypeOK /\ [Next]_vars => TypeOK'
<1> SUFFICES ASSUME TypeOK, [Next]_vars PROVE TypeOK'
  OBVIOUS
<1> USE DEF callerVars, diskVars, promises
<1>1. ASSUME NEW k \in Kinds, Call(k) PROVE TypeOK'
  <2>1. sent + 1 \in Cmds /\ sent' \in 0 .. MaxCmds
    BY <1>1, WalAssumption DEF Call, Dispatch, TypeOK, Cmds
  <2>2. channel' \in Seq(Cmds)
    BY <1>1, <2>1 DEF Call, Dispatch, TypeOK
  <2>3. kind' \in [Cmds -> Kinds \cup {"none"}]
    BY <1>1, <2>1 DEF Call, Dispatch, TypeOK
  <2> QED BY <1>1, <2>1, <2>2, <2>3 DEF Call, TypeOK
<1>2. CASE Recv
  <2>1. Head(channel) \in Cmds /\ Tail(channel) \in Seq(Cmds)
    BY <1>2, HeadTailProperties DEF Recv, TypeOK
  <2>2. /\ channel' \in Seq(Cmds) /\ cmd' \in Cmds /\ cmd' # NoCmd
        /\ wpc' \in {"len", "tmp", "sync"}
    BY <1>2, <2>1, CmdsAreNat DEF Recv
  <2> QED BY <1>2, <2>2 DEF Recv, TypeOK
<1>3. CASE WriteLen
  <2>1. cmd \in Cmds
    BY <1>3 DEF WriteLen, TypeOK
  <2>2. wal' \in Seq(Records)
    <3>1. [id |-> cmd, whole |-> FALSE] \in Records
      BY <2>1 DEF Records
    <3> QED BY <1>3, <3>1, LogTypes DEF WriteLen
  <2> QED BY <1>3, <2>1, <2>2, CmdsAreNat DEF WriteLen, TypeOK, Records
<1>4. CASE WriteBody
  <2>1. cmd \in Cmds
    BY <1>4 DEF WriteBody, TypeOK
  <2>2. wal' \in Seq(Records)
    <3>1. CASE wal = <<>>
      <4>1. wal' = wal
        BY <1>4, <3>1 DEF WriteBody
      <4> QED BY <4>1, LogTypes
    <3>2. CASE wal # <<>>
      <4>1. Len(wal) \in 1 .. Len(wal) /\ wal[Len(wal)] \in Records
        BY <3>2, LogTypes, EmptySeq
      <4>2. [wal[Len(wal)] EXCEPT !.whole = TRUE] \in Records
        BY <4>1 DEF Records
      <4> QED BY <1>4, <4>1, <4>2, LogTypes, ExceptSeq DEF WriteBody
    <3> QED BY <3>1, <3>2
  <2>3. dirty' = TRUE /\ UNCHANGED <<policy, callerVars, stable, tmp, snap, faults, crashes>>
    BY <1>4 DEF WriteBody
  <2>4. CASE wpc' = "sync" /\ UNCHANGED <<done, cmd, promises>>
    BY <2>1, <2>2, <2>3, <2>4, CmdsAreNat DEF TypeOK, Records
  <2>5. CASE Complete(TRUE)
    BY <2>1, <2>2, <2>3, <2>5, CompleteFacts, CmdsAreNat DEF TypeOK, Records
  <2> QED BY <1>4, <2>4, <2>5 DEF WriteBody
<1>5. CASE Sync
  <2>1. cmd \in Cmds /\ Complete(TRUE) /\ wal' = wal /\ dirty' = FALSE
        /\ stable' \in {wal, stable}
        /\ UNCHANGED <<policy, callerVars, wal, tmp, snap, faults, crashes>>
    BY <1>5 DEF Sync, TypeOK
  <2> QED BY <2>1, CompleteFacts, CmdsAreNat DEF TypeOK
<1>6. CASE WriteTmp
  BY <1>6, CmdsAreNat DEF WriteTmp, TypeOK
<1>7. CASE Rename
  BY <1>7, CmdsAreNat DEF Rename, TypeOK
<1>8. CASE Truncate
  <2>1. wal' \in Seq([id : Cmds, whole : BOOLEAN])
    BY <1>8, EmptySeq DEF Truncate
  <2> QED BY <1>8, <2>1, CmdsAreNat DEF Truncate, TypeOK
<1>9. CASE SyncLog
  <2>1. cmd \in Cmds /\ Complete(TRUE) /\ stable' = wal /\ dirty' = FALSE
        /\ UNCHANGED <<policy, callerVars, wal, tmp, snap, faults, crashes>>
    BY <1>9 DEF SyncLog, TypeOK
  <2> QED BY <2>1, CompleteFacts, CmdsAreNat DEF TypeOK
<1>10. CASE Fail
  <2>1. /\ cmd \in Cmds /\ Complete(FALSE) /\ faults' \in 0 .. MaxFaults
        /\ UNCHANGED <<policy, callerVars, dirty, stable, tmp, snap, crashes>>
    <3>1. cmd \in Cmds
      BY <1>10 DEF Fail, TypeOK
    <3>2. faults' \in 0 .. MaxFaults
      BY <1>10, WalAssumption DEF Fail, TypeOK
    <3>3. Complete(FALSE) /\ UNCHANGED <<policy, callerVars, dirty, stable, tmp, snap, crashes>>
      BY <1>10 DEF Fail
    <3> QED BY <3>1, <3>2, <3>3
  <2>2. [id |-> cmd, whole |-> FALSE] \in Records
    BY <2>1 DEF Records
  <2>3. wal' \in Seq(Records)
    <3>1. wal' = wal \/ wal' = Append(wal, [id |-> cmd, whole |-> FALSE])
      BY <1>10 DEF Fail
    <3>2. wal \in Seq(Records)
      BY LogTypes
    <3>3. PICK q \in Records : q = [id |-> cmd, whole |-> FALSE]
      BY <2>2
    <3>4. Append(wal, q) \in Seq(Records)
      BY <3>2, AppendProperties
    <3> QED BY <3>1, <3>2, <3>3, <3>4
  <2> QED BY <2>1, <2>3, CompleteFacts, CmdsAreNat DEF TypeOK, Records
<1>11. ASSUME Down, wal' \in Seq(Records), stable' \in Seq(Records) PROVE TypeOK'
  <2>1. channel' \in Seq(Cmds) /\ crashes' \in 0 .. MaxCrashes
    BY <1>11, EmptySeq, WalAssumption DEF Down, TypeOK
  <2>2. done' \in [Cmds -> {"none", "ok", "err"}]
    BY <1>11 DEF Down, TypeOK
  <2> QED BY <1>11, <2>1, <2>2 DEF Down, TypeOK, Records
<1>12. CASE Kill
  BY <1>11, <1>12, LogTypes DEF Kill
<1>13. CASE PowerLoss
  <2>1. wal' \in Seq(Records)
    BY <1>13, SurvivorShape DEF PowerLoss
  <2> QED BY <1>11, <1>13, <2>1 DEF PowerLoss
<1>14. CASE Open
  BY <1>14 DEF Open, TypeOK
<1>15. CASE UNCHANGED vars
  BY <1>15 DEF vars, TypeOK
<1> QED
  BY <1>1, <1>2, <1>3, <1>4, <1>5, <1>6, <1>7, <1>8, <1>9, <1>10, <1>12, <1>13, <1>14, <1>15
  DEF Next, Writer

\* The state of the engine has the types of the code (TypeOK).
THEOREM TypeCorrect == Spec => []TypeOK
<1> QED BY TypeInit, TypeStep, PTL DEF Spec

-----------------------------------------------------------------------------
(* The inductive invariant.                                                *)
LEMMA InitInv == Init => IInv
<1> SUFFICES ASSUME Init PROVE IInv
  OBVIOUS
<1>1. TypeOK
  BY TypeInit
<1>2. Len(channel) = 0 /\ Len(wal) = 0 /\ Len(stable) = 0
  BY EmptySeq DEF Init
<1>3. Ordered
  BY <1>2, CmdsAreNat DEF Init, Ordered, Newer, NoCmd
<1>4. InHand
  BY DEF Init, InHand
<1>5. CheckpointKept
  BY DEF Init, CheckpointKept
<1>6. Promises
  BY DEF Init, Promises
<1>7. NoGaps
  BY <1>2 DEF Init, NoGaps, Increasing, Acked
<1> QED BY <1>1, <1>3, <1>4, <1>5, <1>6, <1>7 DEF IInv

\* Appending a record, whole or not, leaves what the log says as it is.
LEMMA AppendFacts ==
    ASSUME TypeOK, cmd \in Cmds, wal' = Append(wal, [id |-> cmd, whole |-> FALSE]), stable' = stable
    PROVE  /\ wal' \in Seq(Records) /\ Len(wal') = Len(wal) + 1
           /\ \A i \in 1 .. Len(wal) : wal'[i] = wal[i]
           /\ wal'[Len(wal) + 1].id = cmd
           /\ Extends => Extends'
           /\ \A p : Has(wal, p) => Has(wal', p)
<1> DEFINE r == [id |-> cmd, whole |-> FALSE]
<1>1. r \in Records /\ r.id = cmd
  BY DEF Records
<1> HIDE DEF r
<1>2. wal' = Append(wal, r)
  BY DEF r
<1>3. /\ wal' \in Seq(Records) /\ Len(wal') = Len(wal) + 1
      /\ \A i \in 1 .. Len(wal) : wal'[i] = wal[i]
      /\ wal'[Len(wal) + 1] = r
  BY <1>1, <1>2, LogTypes, AppendProperties
<1>4. Extends => Extends'
  <2> SUFFICES ASSUME Extends PROVE Extends'
    OBVIOUS
  <2>1. Len(wal) >= Len(stable) /\ \A i \in 1 .. Len(stable) : wal[i] = stable[i]
    BY ExtendsPoints
  <2>2. Len(wal') >= Len(stable') /\ \A i \in 1 .. Len(stable') : wal'[i] = stable'[i]
    BY <2>1, <1>3, LogTypes
  <2> QED BY <2>2, <1>3, LogTypes, PrefixPoints DEF Extends
<1>5. ASSUME NEW p, Has(wal, p) PROVE Has(wal', p)
  BY <1>3, <1>5, LogTypes DEF Has
<1> QED BY <1>1, <1>3, <1>4, <1>5

\* Completing the record at the end of the log changes nothing that was synced.
LEMMA BodyFacts ==
    ASSUME TypeOK, InHand, wpc = "body", stable' = stable,
           wal' = [wal EXCEPT ![Len(wal)] = [wal[Len(wal)] EXCEPT !.whole = TRUE]]
    PROVE  /\ wal' \in Seq(Records) /\ Len(wal') = Len(wal)
           /\ \A i \in 1 .. Len(wal) : wal'[i].id = wal[i].id
           /\ Extends => Extends'
           /\ \A p : Has(wal, p) => Has(wal', p)
           /\ Has(wal', cmd)
<1> DEFINE r == [wal[Len(wal)] EXCEPT !.whole = TRUE]
<1>1. Len(wal) \in 1 .. Len(wal) /\ wal[Len(wal)] \in Records /\ wal[Len(wal)].id = cmd
  BY LogTypes, EmptySeq DEF InHand
<1>2. r \in Records /\ r.id = cmd /\ r.whole
  BY <1>1 DEF Records
<1>3. wal' = [wal EXCEPT ![Len(wal)] = r]
  OBVIOUS
<1> HIDE DEF r
<1>4. /\ wal' \in Seq(Records) /\ Len(wal') = Len(wal)
      /\ \A i \in 1 .. Len(wal) : i # Len(wal) => wal'[i] = wal[i]
      /\ wal'[Len(wal)] = r
  <2>1. wal \in Seq(Records) /\ r \in Records /\ Len(wal) \in 1 .. Len(wal)
    BY <1>1, <1>2, LogTypes
  <2> DEFINE v == [wal EXCEPT ![Len(wal)] = r]
  <2>2. /\ v \in Seq(Records) /\ Len(v) = Len(wal)
        /\ \A j \in 1 .. Len(wal) : v[j] = IF j = Len(wal) THEN r ELSE wal[j]
    BY <2>1, ExceptSeq
  <2> HIDE DEF v
  <2>3. wal' = v
    BY <1>3 DEF v
  <2> QED BY <2>1, <2>2, <2>3
<1>5. \A i \in 1 .. Len(wal) : wal'[i].id = wal[i].id
  BY <1>1, <1>2, <1>4
<1>6. Extends => Extends'
  <2> SUFFICES ASSUME Extends PROVE Extends'
    OBVIOUS
  <2>1. Len(wal) >= Len(stable) /\ \A i \in 1 .. Len(stable) : wal[i] = stable[i]
    BY ExtendsPoints
  <2>2. Len(stable) < Len(wal)
    BY DEF InHand
  <2>3. Len(wal') >= Len(stable') /\ \A i \in 1 .. Len(stable') : wal'[i] = stable'[i]
    BY <2>1, <2>2, <1>4, LogTypes
  <2>4. wal' \in Seq(Records) /\ stable' \in Seq(Records)
    BY <1>4, LogTypes
  <2>5. SubSeq(wal', 1, Len(stable')) = stable'
    BY <2>3, <2>4, PrefixPoints
  <2> QED BY <2>3, <2>5 DEF Extends
<1>7. Has(wal', cmd)
  BY <1>1, <1>2, <1>4 DEF Has
<1>8. ASSUME NEW p, Has(wal, p) PROVE Has(wal', p)
  <2>1. PICK i \in 1 .. Len(wal) : wal[i].id = p /\ wal[i].whole
    BY <1>8 DEF Has
  <2>2. wal'[i].id = p /\ wal'[i].whole
    BY <2>1, <1>1, <1>2, <1>4
  <2> QED BY <2>1, <2>2, <1>4 DEF Has
<1> QED BY <1>4, <1>5, <1>6, <1>7, <1>8

\* The log as it is continues itself, and has what was synced if it continues that.
LEMMA SyncedFacts ==
    ASSUME TypeOK
    PROVE  /\ \A v \in Seq(Records) : SubSeq(v, 1, Len(v)) = v /\ Len(v) >= Len(v)
           /\ \A p : Extends /\ Has(stable, p) => Has(wal, p)
<1>1. ASSUME NEW v \in Seq(Records) PROVE SubSeq(v, 1, Len(v)) = v /\ Len(v) >= Len(v)
  BY LenProperties, PrefixPoints
<1>2. ASSUME NEW p, Extends, Has(stable, p) PROVE Has(wal, p)
  <2>1. Len(wal) >= Len(stable) /\ \A i \in 1 .. Len(stable) : wal[i] = stable[i]
    BY <1>2, ExtendsPoints
  <2> QED BY <1>2, <2>1, LogTypes DEF Has
<1> QED BY <1>1, <1>2

\* What the invariant says of the log is true of everything a crash may leave of it.
LEMMA SurvivorFacts ==
    ASSUME IInv, NEW w \in Survivors
    PROVE  /\ w \in Seq(Records)
           /\ \A i \in 1 .. Len(w) : w[i].id <= sent
           /\ Increasing(w)
           /\ \A p \in promised : Has(w, p)
           /\ policy = "every" => \A j \in Cmds :
                 Acked(j) /\ (\E i \in 1 .. Len(w) : w[i].id <= j) => Has(w, j)
<1> USE DEF IInv
<1>1. /\ w \in Seq(Records) /\ Len(w) \in Nat /\ \A i \in 1 .. Len(w) : w[i] \in Records
      /\ \/ w = stable
         \/ /\ Len(w) <= Len(wal)
            /\ \A i \in 1 .. Len(w) : w[i].id = wal[i].id
            /\ Extends => Len(w) >= Len(stable) /\ \A i \in 1 .. Len(stable) : w[i] = stable[i]
  BY SurvivorShape, LenProperties
<1>2. ASSUME NEW p, Extends, Has(stable, p) PROVE Has(w, p)
  BY <1>1, <1>2, LogTypes DEF Has
<1>3. \A i \in 1 .. Len(w) : w[i].id <= sent
  <2>1. /\ \A i \in 1 .. Len(wal) : wal[i].id < sent + 1 /\ wal[i].id \in Nat
        /\ \A i \in 1 .. Len(stable) : stable[i].id < sent + 1 /\ stable[i].id \in Nat
        /\ sent \in Nat
    <3>1. TypeOK /\ Newer(sent + 1) /\ sent \in Nat
      BY DEF Ordered, TypeOK
    <3>2. \A x \in Records : x.id \in Nat
      BY CmdsAreNat DEF Records
    <3> QED BY <3>1, <3>2, LogTypes DEF Newer
  <2> QED BY <1>1, <2>1, LogTypes
<1>4. ASSUME NEW i \in 1 .. Len(w), NEW j \in 1 .. Len(w), i < j PROVE w[i].id < w[j].id
  <2>1. CASE w = stable
    BY <1>4, <2>1 DEF NoGaps, Increasing
  <2>2. CASE w # stable
    <3>1. i \in 1 .. Len(wal) /\ j \in 1 .. Len(wal) /\ w[i].id = wal[i].id /\ w[j].id = wal[j].id
      BY <1>1, <2>2, LogTypes
    <3> QED BY <1>4, <3>1 DEF NoGaps, Increasing
  <2> QED BY <2>1, <2>2
<1>5. \A p \in promised : Has(w, p)
  BY <1>2 DEF Promises
<1>6. ASSUME policy = "every", NEW j \in Cmds, Acked(j), NEW i \in 1 .. Len(w), w[i].id <= j
      PROVE  Has(w, j)
  <2>1. CASE w = stable
    BY <1>6, <2>1 DEF NoGaps
  <2>2. CASE w # stable
    <3>1. i \in 1 .. Len(wal) /\ wal[i].id <= j
      BY <1>1, <1>6, <2>2, LogTypes
    <3> QED BY <1>2, <1>6, <3>1 DEF NoGaps
  <2> QED BY <2>1, <2>2
<1> QED BY <1>1, <1>3, <1>4, <1>5, <1>6 DEF Increasing

\* A step puts nothing on disk and resolves nothing that is newer than the command in hand,
\* unless it ends the process.
LEMMA NewerStep ==
    ASSUME IInv, Writer \/ Fail \/ (\E k \in Kinds : Call(k)) \/ Open,
           NEW n \in Nat, cmd < n, Newer(n)
    PROVE  Newer(n)'
<1> USE DEF callerVars, diskVars, promises, IInv
<1>1. /\ \A i \in 1 .. Len(wal) : wal[i].id < n
      /\ \A i \in 1 .. Len(stable) : stable[i].id < n
      /\ snap < n
      /\ \A j \in Cmds : done[j] # "none" => j < n
  BY DEF Newer
<1>2. ASSUME NEW k \in Kinds, Call(k) PROVE Newer(n)'
  BY <1>1, <1>2 DEF Call, Newer
<1>3. CASE Open
  BY <1>1, <1>3 DEF Open, Newer
<1>4. CASE Recv
  BY <1>1, <1>4 DEF Recv, Newer
<1>5. CASE WriteLen
  <2>1. cmd \in Cmds /\ stable' = stable /\ snap' = snap /\ done' = done
        /\ wal' = Append(wal, [id |-> cmd, whole |-> FALSE])
    BY <1>5 DEF WriteLen, TypeOK
  <2>2. \A i \in 1 .. Len(wal') : wal'[i].id < n
    BY <1>1, <2>1, AppendFacts, LogTypes
  <2> QED BY <1>1, <2>1, <2>2 DEF Newer
<1>6. CASE WriteBody
  <2>1. cmd \in Cmds /\ stable' = stable /\ snap' = snap
    BY <1>6 DEF WriteBody, TypeOK
  <2>2. \A i \in 1 .. Len(wal') : wal'[i].id < n
    BY <1>1, <1>6, BodyFacts DEF WriteBody
  <2>3. done' = done \/ Complete(TRUE)
    BY <1>6 DEF WriteBody
  <2>4. \A j \in Cmds : done'[j] # "none" => j < n
    BY <1>1, <2>1, <2>3, CompleteFacts
  <2> QED BY <1>1, <2>1, <2>2, <2>4 DEF Newer
<1>7. CASE Sync \/ SyncLog
  <2>1. cmd \in Cmds /\ wal' = wal /\ snap' = snap /\ stable' \in {stable, wal} /\ Complete(TRUE)
    BY <1>7 DEF Sync, SyncLog, TypeOK
  <2>2. \A j \in Cmds : done'[j] # "none" => j < n
    BY <1>1, <2>1, CompleteFacts
  <2> QED BY <1>1, <2>1, <2>2 DEF Newer
<1>8. CASE WriteTmp
  BY <1>1, <1>8 DEF WriteTmp, Newer
<1>9. CASE Rename
  <2>1. wal' = wal /\ stable' = stable /\ done' = done /\ snap' = cmd
    BY <1>9 DEF Rename, InHand
  <2> QED BY <1>1, <2>1 DEF Newer
<1>10. CASE Truncate
  <2>1. Len(wal') = 0 /\ stable' = stable /\ done' = done /\ snap' = snap
    BY <1>10, EmptySeq DEF Truncate
  <2> QED BY <1>1, <2>1 DEF Newer
<1>11. CASE Fail
  <2>1. /\ cmd \in Cmds /\ stable' = stable /\ snap' = snap /\ Complete(FALSE)
        /\ wal' = wal \/ wal' = Append(wal, [id |-> cmd, whole |-> FALSE])
    BY <1>11 DEF Fail, TypeOK
  <2>2. \A i \in 1 .. Len(wal') : wal'[i].id < n
    <3>1. CASE wal' = wal
      BY <1>1, <3>1
    <3>2. CASE wal' = Append(wal, [id |-> cmd, whole |-> FALSE])
      <4>1. /\ Len(wal) \in Nat /\ Len(wal') = Len(wal) + 1 /\ wal'[Len(wal) + 1].id = cmd
            /\ \A i \in 1 .. Len(wal) : wal'[i] = wal[i]
        BY <2>1, <3>2, AppendFacts, LogTypes
      <4> QED BY <1>1, <4>1
    <3> QED BY <2>1, <3>1, <3>2
  <2>3. \A j \in Cmds : done'[j] # "none" => j < n
    BY <1>1, <2>1, CompleteFacts
  <2> QED BY <1>1, <2>1, <2>2, <2>3 DEF Newer
<1> QED BY <1>2, <1>3, <1>4, <1>5, <1>6, <1>7, <1>8, <1>9, <1>10, <1>11 DEF Writer

\* What follows from the types of the command counters.
LEMMA Numbers ==
    ASSUME TypeOK
    PROVE  /\ sent \in Nat /\ cmd \in Nat /\ snap \in Nat
           /\ Len(channel) \in Nat /\ \A i \in 1 .. Len(channel) : channel[i] \in Nat
           /\ \A i \in 1 .. Len(channel) : channel[i] \in Cmds
<1>1. Len(channel) \in Nat /\ \A i \in 1 .. Len(channel) : channel[i] \in Cmds
  BY LenProperties, ElementOfSeq DEF TypeOK
<1> QED BY <1>1, CmdsAreNat DEF TypeOK

LEMMA OrderedStep == IInv /\ [Next]_vars => Ordered'
<1> SUFFICES ASSUME IInv, [Next]_vars PROVE Ordered'
  OBVIOUS
<1> USE DEF callerVars, diskVars, promises
<1>0. TypeOK /\ TypeOK' /\ Ordered
  BY TypeStep DEF IInv
<1>1. ASSUME NEW k \in Kinds, Call(k) PROVE Ordered'
  <2>1. /\ sent' = sent + 1 /\ channel' = Append(channel, sent + 1) /\ cmd' = cmd
        /\ UNCHANGED <<wal, stable, snap, done>> /\ sent + 1 \in Cmds
    BY <1>0, <1>1 DEF Call, Dispatch, TypeOK, Cmds
  <2>2. /\ Len(channel') = Len(channel) + 1 /\ channel'[Len(channel) + 1] = sent + 1
        /\ \A i \in 1 .. Len(channel) : channel'[i] = channel[i]
    BY <1>0, <2>1, AppendProperties DEF TypeOK
  <2>3. Newer(sent + 1) /\ Newer(sent + 2)
    <3>1. Newer(sent + 1)
      BY <1>0 DEF Ordered
    <3>2. /\ \A i \in 1 .. Len(wal) : wal[i].id \in Nat
          /\ \A i \in 1 .. Len(stable) : stable[i].id \in Nat
      BY <1>0, LogTypes, CmdsAreNat DEF Records
    <3> QED BY <3>1, <3>2, <1>0, Numbers, CmdsAreNat DEF Newer
  <2>4. Newer(sent + 1)'
    <3>1. sent' + 1 = sent + 2
      BY <2>1, <1>0, Numbers
    <3> QED BY <3>1, <2>1, <2>3 DEF Newer
  <2>5. ASSUME NEW i \in 1 .. Len(channel')
        PROVE  channel'[i] <= sent' /\ cmd' < channel'[i] /\ Newer(channel[i])'
    <3>1. CASE i = Len(channel) + 1
      <4>1. channel'[i] = sent + 1
        BY <3>1, <2>2
      <4>2. Newer(channel[i])'
        BY <4>1, <2>1, <2>3 DEF Newer
      <4> QED BY <4>1, <4>2, <1>0, <2>1, Numbers DEF Ordered
    <3>2. CASE i \in 1 .. Len(channel)
      <4>1. channel[i] <= sent /\ cmd < channel[i] /\ Newer(channel[i]) /\ channel[i] \in Nat
        BY <3>2, <1>0, Numbers DEF Ordered
      <4>2. channel'[i] = channel[i]
        BY <3>2, <2>2
      <4>3. Newer(channel[i])'
        BY <4>1, <4>2, <2>1 DEF Newer
      <4> QED BY <4>1, <4>2, <4>3, <2>1, <1>0, Numbers
    <3> QED BY <3>1, <3>2, <1>0, <2>2, Numbers
  <2>6. ASSUME NEW i \in 1 .. Len(channel'), NEW j \in 1 .. Len(channel'), i < j
        PROVE  channel'[i] < channel'[j]
    <3>1. i \in 1 .. Len(channel) /\ channel'[i] = channel[i] /\ channel[i] <= sent /\ channel[i] \in Nat
      BY <1>0, <2>2, <2>6, Numbers DEF Ordered
    <3>2. CASE j = Len(channel) + 1
      BY <3>1, <3>2, <2>2, <1>0, Numbers
    <3>3. CASE j \in 1 .. Len(channel)
      BY <3>1, <3>3, <2>2, <2>6, <1>0 DEF Ordered
    <3> QED BY <3>2, <3>3, <2>2, <1>0, Numbers
  <2>7. \A j \in Cmds : kind'[j] # "none" => j <= sent'
    BY <1>0, <1>1, <2>1, CmdsAreNat, Numbers DEF Call, Dispatch, Ordered, TypeOK
  <2>8. cmd' <= sent' /\ (cmd' # NoCmd => \A j \in Cmds : done'[j] # "none" => j < cmd')
    BY <1>0, <2>1, Numbers DEF Ordered
  <2> QED BY <2>4, <2>5, <2>6, <2>7, <2>8 DEF Ordered
<1>2. CASE Recv
  <2>1. /\ channel # <<>> /\ channel \in Seq(Cmds) /\ UNCHANGED <<wal, stable, snap, done, sent, kind>>
        /\ cmd' = Head(channel) /\ channel' = Tail(channel)
    BY <1>0, <1>2 DEF Recv, TypeOK
  <2>2. /\ cmd' = channel[1] /\ 1 \in 1 .. Len(channel) /\ Len(channel') = Len(channel) - 1
        /\ \A i \in 1 .. Len(channel') : channel'[i] = channel[i + 1]
    BY <2>1, HeadTailProperties, EmptySeq
  <2>3. ASSUME NEW i \in 1 .. Len(channel')
        PROVE  channel'[i] <= sent' /\ cmd' < channel'[i] /\ Newer(channel[i])'
    <3>1. i + 1 \in 1 .. Len(channel) /\ 1 < i + 1
      BY <2>2, <1>0, Numbers
    <3>2. channel[i + 1] <= sent /\ channel[1] < channel[i + 1] /\ Newer(channel[i + 1])
      BY <3>1, <2>2, <1>0 DEF Ordered
    <3>3. channel'[i] = channel[i + 1]
      BY <2>2
    <3> QED BY <3>2, <3>3, <2>1, <2>2 DEF Newer
  <2>4. ASSUME NEW i \in 1 .. Len(channel'), NEW j \in 1 .. Len(channel'), i < j
        PROVE  channel'[i] < channel'[j]
    <3>1. i + 1 \in 1 .. Len(channel) /\ j + 1 \in 1 .. Len(channel) /\ i + 1 < j + 1
      BY <2>2, <2>4, <1>0, Numbers
    <3> QED BY <3>1, <2>2, <1>0 DEF Ordered
  <2>5. cmd' <= sent' /\ \A j \in Cmds : done'[j] # "none" => j < cmd'
    BY <2>1, <2>2, <1>0 DEF Ordered, Newer
  <2>6. Newer(sent + 1)'
    BY <2>1, <1>0 DEF Ordered, Newer
  <2>7. \A j \in Cmds : kind'[j] # "none" => j <= sent'
    BY <2>1, <1>0 DEF Ordered
  <2> QED BY <2>3, <2>4, <2>5, <2>6, <2>7 DEF Ordered
<1>3. CASE WriteLen \/ WriteBody \/ Sync \/ WriteTmp \/ Rename \/ Truncate \/ SyncLog \/ Fail \/ Open
  <2>1. channel' = channel /\ sent' = sent /\ kind' = kind
    BY <1>3 DEF WriteLen, WriteBody, Sync, WriteTmp, Rename, Truncate, SyncLog, Fail, Open
  <2>2. cmd' = NoCmd \/ (cmd' = cmd /\ done' = done)
    BY <1>3
    DEF WriteLen, WriteBody, Sync, WriteTmp, Rename, Truncate, SyncLog, Fail, Open, Complete
  <2>3. ASSUME NEW n \in Nat, cmd < n, Newer(n) PROVE Newer(n)'
    BY <1>3, <2>3, NewerStep DEF Writer
  <2>4. Newer(sent + 1)'
    <3>1. PICK n \in Nat : n = sent + 1
      BY <1>0, Numbers
    <3>2. Newer(n)'
      BY <2>3, <3>1, <1>0, Numbers DEF Ordered
    <3> QED BY <3>1, <3>2, <2>1 DEF Newer
  <2>5. ASSUME NEW i \in 1 .. Len(channel')
        PROVE  channel'[i] <= sent' /\ cmd' < channel'[i] /\ Newer(channel[i])'
    <3>1. PICK n \in Nat : n = channel[i]
      BY <1>0, <2>1, Numbers
    <3>2. n <= sent /\ cmd < n /\ Newer(n) /\ n \in Cmds
      BY <3>1, <2>1, <1>0, Numbers DEF Ordered
    <3>3. Newer(n)'
      BY <3>2, <2>3
    <3>4. NoCmd < n
      BY <3>2, CmdsAreNat DEF NoCmd
    <3>5. Newer(channel[i])'
      BY <3>1, <3>3, <2>1 DEF Newer
    <3> QED BY <3>1, <3>2, <3>4, <3>5, <2>1, <2>2
  <2>6. cmd' <= sent' /\ (cmd' # NoCmd => \A j \in Cmds : done'[j] # "none" => j < cmd')
    BY <1>0, <2>1, <2>2, Numbers DEF Ordered, NoCmd
  <2>7. \A i, j \in 1 .. Len(channel') : i < j => channel'[i] < channel'[j]
    BY <1>0, <2>1 DEF Ordered
  <2>8. \A j \in Cmds : kind'[j] # "none" => j <= sent'
    BY <1>0, <2>1 DEF Ordered
  <2> QED BY <2>4, <2>5, <2>6, <2>7, <2>8 DEF Ordered
<1>4. CASE Kill \/ PowerLoss
  <2>1. /\ Len(channel') = 0 /\ cmd' = NoCmd /\ UNCHANGED <<sent, kind, snap>>
        /\ \A j \in Cmds : done'[j] # "none" => kind[j] # "none" \/ done[j] # "none"
    BY <1>4, EmptySeq DEF Kill, PowerLoss, Down
  <2>2. /\ \A i \in 1 .. Len(wal') : wal'[i].id < sent + 1
        /\ \A i \in 1 .. Len(stable') : stable'[i].id < sent + 1
    <3>1. CASE Kill
      BY <3>1, <1>0 DEF Kill, Ordered, Newer
    <3>2. CASE PowerLoss
      <4>1. PICK w \in Survivors : wal' = w /\ stable' = w
        BY <3>2 DEF PowerLoss
      <4>2. w \in Seq(Records) /\ \A i \in 1 .. Len(w) : w[i].id <= sent
        BY SurvivorFacts
      <4>3. \A i \in 1 .. Len(w) : w[i].id \in Nat
        <5>1. \A i \in 1 .. Len(w) : w[i] \in Records
          BY <4>2, LenProperties
        <5> QED BY <5>1, CmdsAreNat DEF Records
      <4> QED BY <4>1, <4>2, <4>3, <1>0, Numbers
    <3> QED BY <1>4, <3>1, <3>2
  <2>3. \A j \in Cmds : done'[j] # "none" => j < sent + 1
    BY <2>1, <1>0, Numbers, CmdsAreNat DEF Ordered, Newer
  <2>4. Newer(sent + 1)'
    BY <2>1, <2>2, <2>3, <1>0 DEF Newer, Ordered
  <2> QED BY <2>1, <2>4, <1>0, Numbers DEF Ordered, NoCmd
<1>5. CASE UNCHANGED vars
  BY <1>0, <1>5 DEF vars, Ordered, Newer
<1> QED BY <1>1, <1>2, <1>3, <1>4, <1>5 DEF Next, Writer

LEMMA InHandStep == IInv /\ [Next]_vars => InHand'
<1> SUFFICES ASSUME IInv, [Next]_vars PROVE InHand'
  OBVIOUS
<1> USE DEF callerVars, diskVars, promises
<1>0. TypeOK /\ Ordered /\ InHand
  BY DEF IInv
<1>1. ASSUME NEW k \in Kinds, Call(k) PROVE InHand'
  <2>1. UNCHANGED <<wpc, cmd, wal, stable, dirty, tmp, snap>>
    BY <1>1 DEF Call
  <2>2. cmd # NoCmd => kind'[cmd] = kind[cmd]
    BY <1>0, <1>1, Numbers DEF Call, Dispatch, Ordered, TypeOK
  <2>3. Extends' = Extends
    BY <2>1 DEF Extends
  <2> QED BY <2>1, <2>2, <2>3, <1>0 DEF InHand, TypeOK
<1>2. CASE Recv
  <2>1. /\ channel # <<>> /\ channel \in Seq(Cmds) /\ UNCHANGED <<wal, stable, kind>>
        /\ cmd' = Head(channel)
    BY <1>0, <1>2 DEF Recv, TypeOK
  <2>2. cmd' = channel[1] /\ 1 \in 1 .. Len(channel)
    BY <2>1, HeadTailProperties, EmptySeq
  <2>3. /\ \A i \in 1 .. Len(wal') : wal'[i].id < cmd'
        /\ \A i \in 1 .. Len(stable') : stable'[i].id < cmd'
    BY <2>1, <2>2, <1>0 DEF Ordered, Newer
  <2>4. /\ wpc' \in {"len", "tmp", "sync"}
        /\ wpc' = "len" => kind'[cmd'] = "append"
        /\ wpc' = "tmp" => kind'[cmd'] = "checkpoint"
        /\ wpc' = "sync" => kind'[cmd'] # "append" /\ kind'[cmd'] # "checkpoint"
    BY <1>2, <2>1 DEF Recv
  <2> QED BY <2>3, <2>4 DEF InHand
<1>3. CASE WriteLen
  <2>1. /\ wpc = "len" /\ cmd \in Cmds /\ wal' = Append(wal, [id |-> cmd, whole |-> FALSE])
        /\ wpc' = "body" /\ UNCHANGED <<kind, cmd, stable>>
    BY <1>0, <1>3 DEF WriteLen, TypeOK
  <2>2. /\ wal' \in Seq(Records) /\ Len(wal') = Len(wal) + 1 /\ wal'[Len(wal')].id = cmd
        /\ Len(wal) \in Nat /\ Len(stable) \in Nat
    BY <1>0, <2>1, AppendFacts, LogTypes
  <2>3. ASSUME Extends' PROVE Len(stable') < Len(wal')
    <3>1. TypeOK'
      BY TypeStep, <1>0
    <3>2. Len(wal') >= Len(stable') /\ \A i \in 1 .. Len(stable') : wal'[i] = stable'[i]
      BY <2>1, <2>2, <2>3, <1>0, LogTypes, PrefixPoints DEF Extends
    <3>3. \A i \in 1 .. Len(stable) : stable[i].id < cmd
      BY <1>0, <2>1 DEF InHand
    <3>4. Len(stable) # Len(wal')
      BY <3>2, <3>3, <2>1, <2>2, CmdsAreNat
    <3> QED BY <3>2, <3>4, <2>1, <2>2
  <2>4. kind[cmd] = "append" /\ wal' # <<>>
    BY <1>0, <2>1, <2>2, EmptySeq DEF InHand
  <2> QED BY <2>1, <2>2, <2>3, <2>4 DEF InHand
<1>4. CASE WriteBody
  <2>1. wpc = "body" /\ kind' = kind /\ kind[cmd] = "append" /\ dirty' = TRUE
    BY <1>0, <1>4 DEF WriteBody, InHand
  <2>2. CASE wpc' = "sync" /\ cmd' = cmd
    <3>1. Has(wal', cmd)
      BY <1>0, <1>4, BodyFacts DEF WriteBody
    <3> QED BY <2>1, <2>2, <3>1 DEF InHand
  <2>3. CASE wpc' \in {"recv", "stopped"}
    BY <2>3 DEF InHand
  <2> QED BY <1>4, <2>2, <2>3 DEF WriteBody, Complete
<1>5. CASE Sync \/ SyncLog \/ Fail \/ Open \/ Kill \/ PowerLoss
  <2>1. wpc' \in {"recv", "stopped", "down"}
    BY <1>5 DEF Sync, SyncLog, Fail, Open, Kill, PowerLoss, Down, Complete
  <2> QED BY <2>1 DEF InHand
<1>6. CASE WriteTmp
  BY <1>0, <1>6 DEF WriteTmp, InHand
<1>7. CASE Rename
  BY <1>0, <1>7 DEF Rename, InHand
<1>8. CASE Truncate
  BY <1>0, <1>8 DEF Truncate, InHand
<1>9. CASE UNCHANGED vars
  <2>1. UNCHANGED <<kind, wpc, cmd, wal, stable, dirty, tmp, snap>>
    BY <1>9 DEF vars
  <2>2. Extends' = Extends
    BY <2>1 DEF Extends
  <2> QED BY <2>1, <2>2, <1>0 DEF InHand
<1> QED BY <1>1, <1>2, <1>3, <1>4, <1>5, <1>6, <1>7, <1>8, <1>9 DEF Next, Writer

\* No step acknowledges a command but the one in hand.
LEMMA AckStep ==
    ASSUME IInv, [Next]_vars, NEW j \in Cmds, done'[j] = "ok"
    PROVE  /\ kind'[j] = kind[j]
           /\ \/ done[j] = "ok"
              \/ j = cmd /\ (Sync \/ SyncLog \/ (WriteBody /\ policy # "every"))
<1> USE DEF callerVars, diskVars, promises
<1>0. TypeOK /\ Ordered /\ sent \in Nat
  BY Numbers DEF IInv
<1>1. ASSUME NEW k \in Kinds, Call(k) PROVE kind'[j] = kind[j] /\ done[j] = "ok"
  <2>1. done' = done /\ kind' = [kind EXCEPT ![sent + 1] = k]
    BY <1>1 DEF Call, Dispatch
  <2>2. j < sent + 1
    BY <2>1, <1>0 DEF Ordered, Newer
  <2> QED BY <2>1, <2>2, <1>0, CmdsAreNat DEF TypeOK
<1>2. CASE Sync \/ SyncLog
  <2>1. cmd \in Cmds /\ Complete(TRUE) /\ kind' = kind
    BY <1>0, <1>2 DEF Sync, SyncLog, TypeOK
  <2> QED BY <1>0, <1>2, <2>1, CompleteFacts
<1>3. CASE WriteBody
  <2>1. kind' = kind /\ cmd \in Cmds
    BY <1>0, <1>3 DEF WriteBody, TypeOK
  <2>2. done' = done \/ (Complete(TRUE) /\ policy # "every")
    BY <1>3 DEF WriteBody
  <2> QED BY <1>0, <1>3, <2>1, <2>2, CompleteFacts
<1>4. CASE Fail
  <2>1. cmd \in Cmds /\ Complete(FALSE) /\ kind' = kind
    BY <1>0, <1>4 DEF Fail, TypeOK
  <2> QED BY <1>0, <2>1, CompleteFacts
<1>5. CASE Kill \/ PowerLoss
  BY <1>5 DEF Kill, PowerLoss, Down
<1>6. CASE Recv \/ WriteLen \/ WriteTmp \/ Rename \/ Truncate \/ Open \/ UNCHANGED vars
  BY <1>6 DEF Recv, WriteLen, WriteTmp, Rename, Truncate, Open, vars
<1> QED BY <1>1, <1>2, <1>3, <1>4, <1>5, <1>6 DEF Next, Writer

LEMMA CheckpointStep == IInv /\ [Next]_vars => CheckpointKept'
<1> SUFFICES ASSUME IInv, [Next]_vars, NEW i \in Cmds, kind'[i] = "checkpoint", done'[i] = "ok"
             PROVE  snap' >= i
  BY DEF CheckpointKept
<1> USE DEF callerVars, diskVars, promises
<1>0. TypeOK /\ Ordered /\ InHand /\ CheckpointKept /\ snap \in Nat /\ i \in Nat
  BY Numbers, CmdsAreNat DEF IInv
<1>1. /\ kind[i] = "checkpoint"
      /\ done[i] = "ok" \/ (i = cmd /\ SyncLog)
  BY <1>0, AckStep DEF Sync, WriteBody, InHand
<1>2. CASE i = cmd /\ SyncLog
  BY <1>0, <1>2 DEF SyncLog, InHand
<1>3. CASE done[i] = "ok" /\ Rename
  <2>1. snap' = cmd /\ i < cmd /\ cmd \in Nat
    BY <1>0, <1>3, Numbers DEF Rename, InHand, Ordered, TypeOK
  <2> QED BY <2>1, <1>0
<1>4. CASE done[i] = "ok" /\ ~Rename
  <2>1. snap' = snap
    BY <1>4 DEF Next, Writer, Call, Recv, WriteLen, WriteBody, Sync, WriteTmp, Truncate, SyncLog,
                Fail, Kill, PowerLoss, Down, Open, vars
  <2> QED BY <1>0, <1>1, <1>4, <2>1 DEF CheckpointKept
<1> QED BY <1>1, <1>2, <1>3, <1>4

\* Steps after which the log continues what was synced if it did before, and has what it had.
LEMMA LogStep ==
    ASSUME IInv, WriteLen \/ WriteBody \/ Fail
    PROVE  /\ stable' = stable
           /\ Extends => Extends'
           /\ \A p : Has(wal, p) => Has(wal', p)
<1> USE DEF IInv
<1>1. CASE WriteLen
  <2>1. cmd \in Cmds /\ wal' = Append(wal, [id |-> cmd, whole |-> FALSE]) /\ stable' = stable
    BY <1>1 DEF WriteLen, TypeOK
  <2> QED BY <2>1, AppendFacts
<1>2. CASE WriteBody
  BY <1>2, BodyFacts DEF WriteBody
<1>3. CASE Fail
  <2>1. /\ cmd \in Cmds /\ stable' = stable
        /\ wal' = wal \/ wal' = Append(wal, [id |-> cmd, whole |-> FALSE])
    BY <1>3 DEF Fail, TypeOK
  <2>2. CASE wal' = wal
    BY <2>1, <2>2 DEF Extends
  <2> QED BY <2>1, <2>2, AppendFacts
<1> QED BY <1>1, <1>2, <1>3

\* A sync of a log that continues what was synced keeps all that was in either.
LEMMA SyncStep ==
    ASSUME IInv, wal' = wal, stable' = wal
    PROVE  Extends' /\ \A p : Has(wal, p) \/ (Extends /\ Has(stable, p)) => Has(stable', p)
<1>1. wal \in Seq(Records) /\ TypeOK
  BY LogTypes DEF IInv
<1>2. Extends'
  BY <1>1, SyncedFacts DEF Extends
<1> QED BY <1>1, <1>2, SyncedFacts

LEMMA PromisesStep == IInv /\ [Next]_vars => Promises'
<1> SUFFICES ASSUME IInv, [Next]_vars PROVE Promises'
  OBVIOUS
<1> USE DEF callerVars, diskVars, promises
<1>0. TypeOK /\ InHand /\ Promises
  BY DEF IInv
<1>1. CASE UNCHANGED <<wal, stable, dirty, buffered, promised>>
  <2>1. Extends' = Extends
    BY <1>1 DEF Extends
  <2> QED BY <1>0, <1>1, <2>1 DEF Promises
<1>2. CASE WriteLen \/ Fail
  <2>1. UNCHANGED <<dirty, buffered, promised>>
    BY <1>2 DEF WriteLen, Fail, Complete
  <2> QED BY <1>0, <1>2, <2>1, LogStep DEF Promises
<1>3. CASE WriteBody
  <2>1. dirty' = TRUE /\ kind[cmd] = "append" /\ Has(wal', cmd)
    BY <1>0, <1>3, BodyFacts DEF WriteBody, InHand
  <2>2. promised' = promised /\ buffered' \subseteq buffered \cup {cmd}
    BY <1>0, <1>3, <2>1 DEF WriteBody, Complete
  <2> QED BY <1>0, <1>3, <2>1, <2>2, LogStep DEF Promises
<1>4. CASE Sync
  <2>1. /\ wal' = wal /\ dirty' = FALSE /\ stable' = IF dirty THEN wal ELSE stable
        /\ Complete(TRUE) /\ dirty \in BOOLEAN
        /\ kind[cmd] = "append" => dirty /\ Has(wal, cmd)
    BY <1>0, <1>4 DEF Sync, InHand, TypeOK
  <2>2. /\ \/ promised' = promised
           \/ promised' = promised \cup {cmd} /\ kind[cmd] = "append"
           \/ promised' = promised \cup buffered
        /\ \/ buffered' \subseteq buffered
           \/ buffered' = buffered \cup {cmd} /\ kind[cmd] = "append"
    BY <2>1 DEF Complete
  <2>3. CASE dirty
    <3>1. wal' = wal /\ stable' = wal
      BY <2>1, <2>3
    <3>2. Extends' /\ \A p : Has(wal, p) \/ (Extends /\ Has(stable, p)) => Has(stable', p)
      BY <3>1, SyncStep
    <3>3. \A p \in promised \cup buffered : Has(stable', p)
      BY <3>2, <1>0 DEF Promises
    <3>4. kind[cmd] = "append" => Has(stable', cmd)
      BY <3>2, <2>1
    <3> QED BY <3>1, <3>2, <3>3, <3>4, <2>1, <2>2 DEF Promises
  <2>4. CASE ~dirty
    <3>1. wal' = wal /\ stable' = stable /\ kind[cmd] # "append"
      BY <2>1, <2>4
    <3>2. Extends' = Extends
      BY <3>1 DEF Extends
    <3> QED BY <3>1, <3>2, <2>1, <2>2, <2>4, <1>0 DEF Promises
  <2> QED BY <2>3, <2>4
<1>5. CASE SyncLog
  <2>1. /\ wal' = wal /\ stable' = wal /\ dirty' = FALSE /\ Complete(TRUE)
        /\ kind[cmd] = "checkpoint"
    BY <1>0, <1>5 DEF SyncLog, InHand
  <2>2. promised' = promised /\ buffered' = buffered
    BY <2>1 DEF Complete
  <2>3. Extends' /\ \A p : Has(wal, p) \/ (Extends /\ Has(stable, p)) => Has(stable', p)
    BY <2>1, SyncStep
  <2> QED BY <2>1, <2>2, <2>3, <1>0 DEF Promises
<1>6. CASE Truncate
  BY <1>6 DEF Truncate, Promises
<1>7. CASE Kill
  <2>1. promised' = promised /\ buffered' = {} /\ wal' = wal /\ stable' = stable
    BY <1>7 DEF Kill, Down
  <2>2. Extends' = Extends
    BY <2>1 DEF Extends
  <2> QED BY <1>0, <2>1, <2>2 DEF Promises
<1>8. CASE PowerLoss
  <2>1. PICK w \in Survivors : wal' = w /\ stable' = w
    BY <1>8 DEF PowerLoss
  <2>2. promised' = promised /\ buffered' = {}
    BY <1>8 DEF PowerLoss, Down
  <2>3. w \in Seq(Records) /\ \A p \in promised : Has(w, p)
    BY SurvivorFacts
  <2>4. Extends'
    BY <2>1, <2>3, <1>0, SyncedFacts DEF Extends
  <2> QED BY <2>1, <2>2, <2>3, <2>4 DEF Promises
<1>9. CASE (\E k \in Kinds : Call(k)) \/ Recv \/ WriteTmp \/ Rename \/ Open \/ UNCHANGED vars
  BY <1>1, <1>9 DEF Call, Recv, WriteTmp, Rename, Open, vars
<1> QED BY <1>2, <1>3, <1>4, <1>5, <1>6, <1>7, <1>8, <1>9 DEF Next, Writer

\* The part of NoGaps about acknowledged appends, for one of them.
Covered(j) ==
    /\ (\E i \in 1 .. Len(stable) : stable[i].id <= j) => Has(stable, j)
    /\ (\E i \in 1 .. Len(wal) : wal[i].id <= j) => Extends /\ Has(stable, j)

LEMMA IncreasingStep == IInv /\ [Next]_vars => Increasing(wal') /\ Increasing(stable')
<1> SUFFICES ASSUME IInv, [Next]_vars PROVE Increasing(wal') /\ Increasing(stable')
  OBVIOUS
<1> USE DEF callerVars, diskVars, promises
<1>0. TypeOK /\ InHand /\ Increasing(wal) /\ Increasing(stable)
  BY DEF IInv, NoGaps
<1>1. CASE wal' \in {wal, <<>>} /\ stable' \in {wal, stable}
  <2>1. Increasing(<<>>)
    BY EmptySeq DEF Increasing
  <2> QED BY <1>0, <1>1, <2>1
<1>2. CASE /\ wpc = "len" /\ cmd \in Cmds /\ stable' = stable
           /\ wal' = Append(wal, [id |-> cmd, whole |-> FALSE])
  <2>1. /\ Len(wal') = Len(wal) + 1 /\ wal'[Len(wal) + 1].id = cmd /\ Len(wal) \in Nat
        /\ \A i \in 1 .. Len(wal) : wal'[i] = wal[i]
    BY <1>0, <1>2, AppendFacts, LogTypes
  <2>2. \A i \in 1 .. Len(wal) : wal[i].id < cmd
    BY <1>0, <1>2 DEF InHand
  <2>3. ASSUME NEW i \in 1 .. Len(wal'), NEW j \in 1 .. Len(wal'), i < j PROVE wal'[i].id < wal'[j].id
    <3>1. i \in 1 .. Len(wal)
      BY <2>1, <2>3
    <3>2. CASE j \in 1 .. Len(wal)
      BY <3>1, <3>2, <2>1, <2>3, <1>0 DEF Increasing
    <3>3. CASE j = Len(wal) + 1
      BY <3>1, <3>3, <2>1, <2>2
    <3> QED BY <3>2, <3>3, <2>1
  <2> QED BY <2>3, <1>0, <1>2 DEF Increasing
<1>3. CASE WriteBody
  <2>1. Len(wal') = Len(wal) /\ (\A i \in 1 .. Len(wal) : wal'[i].id = wal[i].id) /\ stable' = stable
    BY <1>0, <1>3, BodyFacts DEF WriteBody
  <2> QED BY <2>1, <1>0 DEF Increasing
<1>4. CASE PowerLoss
  <2>1. PICK w \in Survivors : wal' = w /\ stable' = w
    BY <1>4 DEF PowerLoss
  <2> QED BY <2>1, SurvivorFacts
<1>5. CASE WriteLen
  BY <1>0, <1>2, <1>5 DEF WriteLen, TypeOK
<1>6. CASE Fail
  BY <1>0, <1>1, <1>2, <1>6 DEF Fail, TypeOK
<1>7. CASE (\E k \in Kinds : Call(k)) \/ Recv \/ Sync \/ WriteTmp \/ Rename \/ Truncate \/ SyncLog
           \/ Kill \/ Open \/ UNCHANGED vars
  BY <1>1, <1>7 DEF Call, Recv, Sync, WriteTmp, Rename, Truncate, SyncLog, Kill, Open, vars
<1> QED BY <1>3, <1>4, <1>5, <1>6, <1>7 DEF Next, Writer

LEMMA NoGapsStep == IInv /\ [Next]_vars => NoGaps'
<1> SUFFICES ASSUME IInv, [Next]_vars, policy' = "every", NEW j \in Cmds,
                    kind'[j] = "append", done'[j] = "ok"
             PROVE  Covered(j)'
  BY IncreasingStep DEF NoGaps, Acked, Covered
<1> USE DEF callerVars, diskVars, promises
<1>0. /\ TypeOK /\ Ordered /\ InHand /\ j \in Nat
      /\ \A i \in 1 .. Len(wal) : wal[i].id \in Nat
      /\ Len(wal) \in Nat /\ wal \in Seq(Records)
  BY LogTypes, CmdsAreNat DEF IInv, Records
<1>1. policy = "every"
  BY DEF Next, Writer, Call, Recv, WriteLen, WriteBody, Sync, WriteTmp, Rename, Truncate, SyncLog,
         Fail, Kill, PowerLoss, Down, Open, vars
<1>2. /\ kind[j] = "append"
      /\ done[j] = "ok" \/ (j = cmd /\ Sync)
  BY <1>0, <1>1, AckStep DEF SyncLog, InHand
<1>3. done[j] = "ok" => Covered(j)
  BY <1>1, <1>2 DEF IInv, NoGaps, Acked, Covered
<1>4. CASE UNCHANGED <<wal, stable>> /\ done[j] = "ok"
  <2>1. Extends' = Extends
    BY <1>4 DEF Extends
  <2> QED BY <1>3, <1>4, <2>1 DEF Covered
<1>5. CASE WriteLen \/ WriteBody \/ Fail
  <2>1. done[j] = "ok" /\ Covered(j)
    <3>1. Fail => cmd \in Cmds /\ done'[cmd] = "err"
      BY <1>0, CompleteFacts DEF Fail, TypeOK
    <3>2. WriteLen \/ WriteBody => ~Sync
      BY DEF WriteLen, WriteBody, Sync
    <3> QED BY <1>2, <1>3, <1>5, <3>1, <3>2
  <2>2. stable' = stable /\ (Extends => Extends')
    BY <1>5, LogStep
  <2>3. (\E i \in 1 .. Len(wal') : wal'[i].id <= j) => (\E i \in 1 .. Len(wal) : wal[i].id <= j)
    <3>1. CASE wal' = wal
      BY <3>1
    <3>2. CASE /\ wpc = "len" /\ cmd \in Cmds /\ stable' = stable
               /\ wal' = Append(wal, [id |-> cmd, whole |-> FALSE])
      <4>1. j < cmd /\ cmd \in Nat
        BY <1>0, <2>1, <3>2, CmdsAreNat DEF Ordered
      <4>2. /\ Len(wal') = Len(wal) + 1 /\ wal'[Len(wal) + 1].id = cmd
            /\ \A i \in 1 .. Len(wal) : wal'[i] = wal[i]
        BY <1>0, <3>2, AppendFacts
      <4> QED BY <4>1, <4>2, <1>0
    <3>3. CASE WriteBody
      <4>1. Len(wal') = Len(wal) /\ (\A i \in 1 .. Len(wal) : wal'[i].id = wal[i].id)
        BY <1>0, <3>3, BodyFacts DEF WriteBody
      <4> QED BY <4>1
    <3>4. CASE WriteLen
      BY <1>0, <3>2, <3>4 DEF WriteLen, TypeOK
    <3>5. CASE Fail
      BY <1>0, <3>1, <3>2, <3>5 DEF Fail, TypeOK
    <3> QED BY <1>5, <3>3, <3>4, <3>5
  <2> QED BY <2>1, <2>2, <2>3 DEF Covered
<1>6. CASE (Sync /\ dirty) \/ SyncLog
  <2>1. wal' = wal /\ stable' = wal
    BY <1>6 DEF Sync, SyncLog
  <2>2. Extends' /\ \A p : Has(wal, p) \/ (Extends /\ Has(stable, p)) => Has(stable', p)
    BY <2>1, SyncStep
  <2>3. CASE done[j] = "ok"
    BY <1>3, <2>1, <2>2, <2>3 DEF Covered
  <2>4. CASE j = cmd /\ Sync
    <3>1. Has(wal, j)
      BY <1>0, <1>2, <2>4 DEF InHand, Sync
    <3> QED BY <3>1, <2>2 DEF Covered
  <2> QED BY <1>2, <2>3, <2>4
<1>7. CASE Sync /\ ~dirty
  <2>1. wal' = wal /\ stable' = stable /\ done[j] = "ok"
    BY <1>0, <1>2, <1>7 DEF Sync, InHand
  <2> QED BY <1>4, <2>1
<1>8. CASE Truncate
  <2>1. Len(wal') = 0 /\ stable' = stable /\ done' = done
    BY <1>8, EmptySeq DEF Truncate
  <2> QED BY <1>3, <2>1 DEF Covered
<1>9. CASE PowerLoss
  <2>1. PICK w \in Survivors : wal' = w /\ stable' = w
    BY <1>9 DEF PowerLoss
  <2>2. done[j] = "ok"
    BY <1>9 DEF PowerLoss, Down
  <2>3. w \in Seq(Records) /\ ((\E i \in 1 .. Len(w) : w[i].id <= j) => Has(w, j))
    BY <1>1, <1>2, <2>2, SurvivorFacts DEF Acked
  <2>4. Extends'
    BY <2>1, <2>3, <1>0, SyncedFacts DEF Extends
  <2> QED BY <2>1, <2>3, <2>4 DEF Covered
<1>10. CASE (\E k \in Kinds : Call(k)) \/ Recv \/ WriteTmp \/ Rename \/ Kill \/ Open \/ UNCHANGED vars
  <2>1. UNCHANGED <<wal, stable>>
    BY <1>10 DEF Call, Recv, WriteTmp, Rename, Kill, Open, vars
  <2>2. done[j] = "ok"
    BY <1>10 DEF Call, Recv, WriteTmp, Rename, Kill, Down, Open, vars
  <2> QED BY <1>4, <2>1, <2>2
<1> QED BY <1>5, <1>6, <1>7, <1>8, <1>9, <1>10 DEF Next, Writer

LEMMA Invariance == Spec => []IInv
<1>1. IInv /\ [Next]_vars => IInv'
  BY TypeStep, OrderedStep, InHandStep, CheckpointStep, PromisesStep, NoGapsStep DEF IInv
<1> QED BY InitInv, <1>1, PTL DEF Spec

-----------------------------------------------------------------------------
(* What the engine guarantees.                                             *)

\* An acknowledged checkpoint, or a later one, is the snapshot on disk, whatever fails or
\* crashes afterwards (Writer::checkpoint).
THEOREM CheckpointsKept == Spec => []CheckpointKept
<1>1. IInv => CheckpointKept
  BY DEF IInv
<1> QED BY <1>1, Invariance, PTL

\* Whenever the power goes, the log that is read back holds every promised append the snapshot
\* has not superseded, unless a record in its middle was cut short (Fsync, flush, Drop).
THEOREM PromisesSurvive == Spec => []PromisedSurviveUnlessTorn
<1>1. ASSUME IInv, NEW w \in Survivors, Framed(w), NEW p \in promised PROVE p \in Loaded(w)
  <2>1. w \in Seq(Records) /\ Has(w, p)
    BY <1>1, SurvivorFacts
  <2> QED BY <1>1, <2>1, FramedLoads
<1>2. IInv => PromisedSurviveUnlessTorn
  BY <1>1 DEF PromisedSurviveUnlessTorn
<1> QED BY <1>2, Invariance, PTL

\* Replaying what a crash left over the snapshot is in order, and under EveryWrite leaves out no
\* acknowledged append between a record it replays and the snapshot (open and checkpoint).
THEOREM ReplaysConverge == Spec => []ReplayConverges
<1>1. ASSUME IInv, NEW w \in Survivors, Framed(w)
      PROVE  /\ \A i, j \in 1 .. LoadedLen(w) : i < j => w[i].id < w[j].id
             /\ policy = "every" =>
                   \A i \in 1 .. LoadedLen(w) : \A j \in w[i].id .. snap :
                       kind[j] = "append" /\ done[j] = "ok" => j \in Loaded(w)
  <2>1. /\ w \in Seq(Records) /\ Len(w) \in Nat /\ Increasing(w)
        /\ \A i \in 1 .. Len(w) : w[i] \in Records
    BY <1>1, SurvivorFacts, LenProperties
  <2>2. LoadedLen(w) \in 0 .. Len(w) /\ \A p : Has(w, p) => p \in Loaded(w)
    BY <1>1, <2>1, FramedLoads
  <2>3. \A i, j \in 1 .. LoadedLen(w) : i < j => w[i].id < w[j].id
    BY <2>1, <2>2 DEF Increasing
  <2>4. ASSUME policy = "every", NEW i \in 1 .. LoadedLen(w), NEW j \in w[i].id .. snap, Acked(j)
        PROVE  j \in Loaded(w)
    <3>1. i \in 1 .. Len(w) /\ w[i].id \in Cmds
      BY <2>1, <2>2 DEF Records
    <3>2. j \in Cmds /\ w[i].id <= j
      BY <3>1, <1>1, WalAssumption DEF IInv, TypeOK, Cmds, NoCmd
    <3>3. Has(w, j)
      BY <1>1, <2>4, <3>1, <3>2, SurvivorFacts
    <3> QED BY <3>3, <2>2
  <2> QED BY <2>3, <2>4 DEF Acked
<1>2. IInv => ReplayConverges
  BY <1>1 DEF ReplayConverges
<1> QED BY <1>2, Invariance, PTL
=============================================================================
