-------------------------- MODULE FileStoreProofs ---------------------------
(***************************************************************************)
(* TLAPS proofs about FileStore: the store drives the engine of module Wal *)
(* as that module assumes, and with one calling thread a restart rebuilds  *)
(* the registry, for any number of keys, commands and crashes.             *)
(***************************************************************************)
EXTENDS FileStore, SequenceTheorems, FiniteSetTheorems, WellFoundedInduction, TLAPS

E == INSTANCE WalProofs

-----------------------------------------------------------------------------
(* The engine inside the store.                                            *)
LEMMA EngineStep == [Next]_vars => [W!Next]_W!vars
<1> SUFFICES ASSUME [Next]_vars PROVE [W!Next]_W!vars
  OBVIOUS
<1> USE DEF engine, W!vars, W!callerVars, W!diskVars, W!promises
<1>1. ASSUME NEW t \in Threads, Caller(t) PROVE [W!Next]_W!vars
  <2>1. ASSUME NEW k \in W!Kinds, Submit(t, k) PROVE W!Next
    BY <2>1 DEF Submit, W!Dispatch, W!Call, W!Next
  <2>2. CASE SendAppend(t) \/ SendCheckpoint(t)
    BY <2>1, <2>2 DEF SendAppend, SendCheckpoint, W!Kinds
  <2>3. CASE Appended(t) \/ Reset(t) \/ SnapshotBytes(t) \/ Saved(t) \/ \E o \in Ops : Begin(t, o)
    BY <2>3 DEF Appended, Reset, SnapshotBytes, Saved, Begin
  <2> QED BY <1>1, <2>2, <2>3 DEF Caller
<1>2. CASE Drop \/ Engine \/ Crash \/ Reopen
  BY <1>2 DEF Drop, Engine, Crash, Reopen, W!Next, W!Kinds
<1>3. CASE UNCHANGED vars
  BY <1>3 DEF vars
<1> QED BY <1>1, <1>2, <1>3 DEF Next

\* The store uses its log as the engine's callers may (log, checkpoint_now, open): what Wal
\* promises, it promises for the log of a store.
THEOREM DrivesEngine == Spec => W!Spec
<1>1. Init => W!Init
  BY DEF Init
<1> QED BY <1>1, EngineStep, PTL DEF Spec, W!Spec

(* W and E are one module: what WalProofs shows holds of the store's log.  *)
LEMMA SameInit == W!Init => E!Init
BY DEF W!Init, E!Init, W!Cmds, E!Cmds, W!NoCmd, E!NoCmd

LEMMA SameWrites == ASSUME W!Writer \/ W!Fail PROVE E!Next
<1>1. ASSUME NEW ok \in BOOLEAN, W!Complete(ok) PROVE E!Complete(ok)
  BY <1>1 DEF W!Complete, E!Complete, W!NoCmd, E!NoCmd, W!promises, E!promises
<1>2. CASE W!Recv
  BY <1>2 DEF W!Recv, E!Recv, W!diskVars, E!diskVars, W!promises, E!promises, E!Next, E!Writer
<1>3. CASE W!WriteLen
  BY <1>3 DEF W!WriteLen, E!WriteLen, W!callerVars, E!callerVars, W!promises, E!promises, E!Next, E!Writer
<1>4. CASE W!WriteBody
  BY <1>1, <1>4 DEF W!WriteBody, E!WriteBody, W!callerVars, E!callerVars, W!promises, E!promises, E!Next, E!Writer
<1>5. CASE W!Sync
  BY <1>1, <1>5 DEF W!Sync, E!Sync, W!callerVars, E!callerVars, E!Next, E!Writer
<1>6. CASE W!WriteTmp
  BY <1>6 DEF W!WriteTmp, E!WriteTmp, W!callerVars, E!callerVars, W!promises, E!promises, E!Next, E!Writer
<1>7. CASE W!Rename
  BY <1>7 DEF W!Rename, E!Rename, W!NoCmd, E!NoCmd, W!callerVars, E!callerVars, W!promises, E!promises, E!Next, E!Writer
<1>8. CASE W!Truncate
  BY <1>8 DEF W!Truncate, E!Truncate, W!callerVars, E!callerVars, E!Next, E!Writer
<1>9. CASE W!SyncLog
  BY <1>1, <1>9 DEF W!SyncLog, E!SyncLog, W!callerVars, E!callerVars, E!Next, E!Writer
<1>10. CASE W!Fail
  BY <1>1, <1>10 DEF W!Fail, E!Fail, W!callerVars, E!callerVars, E!Next
<1> QED BY <1>2, <1>3, <1>4, <1>5, <1>6, <1>7, <1>8, <1>9, <1>10 DEF W!Writer

LEMMA SameCrashes == ASSUME W!Kill \/ W!PowerLoss PROVE E!Next
<1>1. ASSUME W!Down PROVE E!Down
  BY <1>1 DEF W!Down, E!Down, W!Up, E!Up, W!NoCmd, E!NoCmd, W!Cmds, E!Cmds
<1>2. W!Survivors = E!Survivors
  BY DEF W!Survivors, E!Survivors, W!Kept, E!Kept, W!Extends, E!Extends, W!Tear, E!Tear
<1>3. CASE W!Kill
  BY <1>1, <1>3 DEF W!Kill, E!Kill, E!Next
<1>4. CASE W!PowerLoss
  BY <1>1, <1>2, <1>4 DEF W!PowerLoss, E!PowerLoss, E!Next
<1> QED BY <1>3, <1>4

LEMMA SameStep == [W!Next]_W!vars => [E!Next]_E!vars
<1> SUFFICES ASSUME [W!Next]_W!vars PROVE [E!Next]_E!vars
  OBVIOUS
<1> USE DEF W!callerVars, W!diskVars, W!promises, E!callerVars, E!diskVars, E!promises
<1>1. ASSUME NEW k \in W!Kinds, W!Call(k) PROVE E!Next
  BY <1>1 DEF W!Call, W!Dispatch, E!Dispatch, E!Call, W!Accepting, E!Accepting, W!Up, E!Up,
              W!Dropped, E!Dropped, W!NoCmd, E!NoCmd, W!Kinds, E!Kinds, E!Next
<1>2. CASE W!Open
  BY <1>2 DEF W!Open, E!Open, E!Next
<1>3. CASE UNCHANGED W!vars
  BY <1>3 DEF W!vars, E!vars
<1> QED BY <1>1, <1>2, <1>3, SameWrites, SameCrashes DEF W!Next

LEMMA EngineInvariance == Spec => []E!IInv
<1>1. E!Init => E!IInv
  BY E!InitInv, FileStoreAssumption
<1>2. E!IInv /\ [E!Next]_E!vars => E!IInv'
  BY E!TypeStep, E!OrderedStep, E!InHandStep, E!CheckpointStep, E!PromisesStep, E!NoGapsStep, FileStoreAssumption
  DEF E!IInv
<1> QED BY DrivesEngine, SameInit, SameStep, <1>1, <1>2, PTL DEF W!Spec

-----------------------------------------------------------------------------
(* What a replay computes.  A key is in the registry if the last record    *)
(* that says anything about it put it in, or none does and it was there.   *)
Writes == [add : SUBSET Keys, del : SUBSET Keys]

Folded(bd, b, w, n) ==
    {k \in Keys : \/ k \in b /\ \A j \in 1 .. n : k \notin bd[w[j].id].del
                  \/ \E i \in 1 .. n : k \in bd[w[i].id].add
                                       /\ \A j \in i + 1 .. n : k \notin bd[w[j].id].del}

Base == IF snap = W!NoCmd THEN {} ELSE Apply({}, body[snap])

LEMMA LeastNatural ==
    ASSUME NEW T, T \subseteq Nat, T # {}
    PROVE  \E n \in T : \A m \in T : n <= m
<1> DEFINE R == {ss \in Nat \X Nat : ss[1] < ss[2]}
<1>1. IsWellFoundedOn(R, Nat)
  BY NatLessThanWellFounded DEF OpToRel
<1>2. PICK n \in T : \A y \in T : ~(<<y, n>> \in R)
  BY <1>1, WFMin
<1>3. ASSUME NEW m \in T PROVE n <= m
  <2>1. m \in Nat /\ n \in Nat
    OBVIOUS
  <2>2. ~(m < n)
    <3>1. <<m, n>> \in Nat \X Nat /\ <<m, n>>[1] = m /\ <<m, n>>[2] = n
      BY <2>1
    <3> QED BY <1>2, <3>1
  <2> QED BY <2>1, <2>2
<1> QED BY <1>3

LEMMA FoldedNext ==
    ASSUME NEW bd, NEW b, NEW w, NEW n \in Nat, bd[w[n + 1].id] \in Writes
    PROVE  Folded(bd, b, w, n + 1) = Apply(Folded(bd, b, w, n), bd[w[n + 1].id])
<1> PICK o \in Writes : o = bd[w[n + 1].id]
  OBVIOUS
<1>1. ASSUME NEW k \in Keys, k \in o.add PROVE k \in Folded(bd, b, w, n + 1)
  BY <1>1 DEF Folded, Writes
<1>2. ASSUME NEW k \in Folded(bd, b, w, n), k \notin o.del PROVE k \in Folded(bd, b, w, n + 1)
  BY <1>2 DEF Folded, Writes
<1>3. ASSUME NEW k \in Folded(bd, b, w, n + 1), k \notin o.add PROVE k \in Folded(bd, b, w, n) /\ k \notin o.del
  BY <1>3 DEF Folded, Writes
<1> QED BY <1>1, <1>2, <1>3 DEF Apply, Writes, Folded

LEMMA FoldedNone == ASSUME NEW bd, NEW b \in SUBSET Keys, NEW w PROVE Folded(bd, b, w, 0) = b
BY DEF Folded

LEMMA ReplayedIs ==
    ASSUME body \in [W!Cmds -> Writes], snap \in W!Cmds \cup {W!NoCmd},
           NEW w \in Seq([id : W!Cmds, whole : BOOLEAN]), W!LoadedLen(w) \in 0 .. Len(w)
    PROVE  Replayed(w) = Folded(body, Base, w, W!LoadedLen(w)) /\ Base \in SUBSET Keys
<1> DEFINE N == Len(w)
           Eq(g) == g = [n \in 0 .. N |-> IF n = 0 THEN Base ELSE Apply(g[n - 1], body[w[n].id])]
           at == CHOOSE g : Eq(g)
           f == [n \in 0 .. N |-> Folded(body, Base, w, n)]
<1>1. N \in Nat /\ \A n \in 1 .. N : body[w[n].id] \in Writes
  <2>1. N \in Nat /\ \A n \in 1 .. N : w[n] \in [id : W!Cmds, whole : BOOLEAN]
    BY LenProperties
  <2> QED BY <2>1
<1>2. Base \in SUBSET Keys
  BY DEF Base, Apply, Writes
<1>3. Replayed(w) = at[W!LoadedLen(w)]
  BY DEF Replayed, Base
<1> HIDE DEF N
<1>4. \A n \in 1 .. N : f[n] = Apply(f[n - 1], body[w[n].id])
  <2> TAKE n \in 1 .. N
  <2>1. n - 1 \in Nat /\ n - 1 \in 0 .. N /\ n \in 0 .. N /\ (n - 1) + 1 = n
    BY <1>1
  <2>2. Folded(body, Base, w, (n - 1) + 1) = Apply(Folded(body, Base, w, n - 1), body[w[(n - 1) + 1].id])
    BY <1>1, <2>1, FoldedNext
  <2> QED BY <2>1, <2>2
<1>5. f[0] = Base
  BY <1>1, <1>2, FoldedNone
<1>6. Eq(f)
  <2> DEFINE g == [n \in 0 .. N |-> IF n = 0 THEN Base ELSE Apply(f[n - 1], body[w[n].id])]
  <2>1. ASSUME NEW n \in 0 .. N PROVE f[n] = g[n]
    <3>1. CASE n = 0
      BY <1>5, <3>1
    <3>2. CASE n # 0
      <4>1. n \in 1 .. N
        BY <1>1, <3>2
      <4> QED BY <1>4, <3>2, <4>1
    <3> QED BY <3>1, <3>2
  <2> QED BY <2>1
<1>7. Eq(at)
  <2> HIDE DEF f
  <2> QED BY <1>6
<1>8. at[0] = Base /\ \A n \in 1 .. N : at[n] = Apply(at[n - 1], body[w[n].id])
  <2> PICK h : h = at
    OBVIOUS
  <2> HIDE DEF at
  <2> QED BY <1>1, <1>7
<1> HIDE DEF at, f
<1>9. \A n \in 0 .. N : at[n] = f[n]
  <2> DEFINE Bad == {n \in 0 .. N : at[n] # f[n]}
  <2>1. SUFFICES ASSUME Bad # {} PROVE FALSE
    OBVIOUS
  <2>2. PICK n \in Bad : \A m \in Bad : n <= m
    <3>1. Bad \subseteq Nat
      BY <1>1
    <3> QED BY <2>1, <3>1, LeastNatural
  <2>3. n # 0
    BY <1>5, <1>8, <2>2
  <2>4. n \in 1 .. N /\ n - 1 \in 0 .. N /\ n - 1 \notin Bad
    BY <1>1, <2>2, <2>3
  <2>5. at[n - 1] = f[n - 1]
    BY <2>4
  <2> QED BY <1>4, <1>8, <2>2, <2>4, <2>5
<1>10. f[W!LoadedLen(w)] = Folded(body, Base, w, W!LoadedLen(w))
  BY DEF f, N
<1> QED BY <1>2, <1>3, <1>9, <1>10 DEF N

Recs == [id : W!Cmds, whole : BOOLEAN]

\* A replay reads a log up to its first record that is not whole.
LEMMA LoadedLenIs ==
    ASSUME NEW w \in Seq(Recs), NEW n \in 0 .. Len(w),
           \A i \in 1 .. n : w[i].whole, n < Len(w) => ~w[n + 1].whole
    PROVE  W!LoadedLen(w) = n
<1>1. Len(w) \in Nat
  BY LenProperties
<1>2. n \in W!Readable(w) /\ \A m \in W!Readable(w) : m <= n /\ m \in Nat
  BY <1>1 DEF W!Readable
<1>3. W!LoadedLen(w) \in W!Readable(w) /\ \A m \in W!Readable(w) : m <= W!LoadedLen(w)
  BY <1>2 DEF W!LoadedLen
<1>4. PICK l \in Nat : l = W!LoadedLen(w)
  BY <1>2, <1>3
<1>5. l <= n /\ n <= l
  BY <1>2, <1>3, <1>4
<1> QED BY <1>4, <1>5

LEMMA LoadedLenType == ASSUME NEW w \in Seq(Recs) PROVE W!LoadedLen(w) \in 0 .. Len(w)
<1> DEFINE Torn == {i \in 1 .. Len(w) : ~w[i].whole}
<1>1. Len(w) \in Nat
  BY LenProperties
<1>2. CASE Torn = {}
  BY <1>1, <1>2, LoadedLenIs
<1>3. CASE Torn # {}
  <2>1. Torn \subseteq Nat
    OBVIOUS
  <2>2. PICK n \in Torn : \A m \in Torn : n <= m
    BY <1>3, <2>1, LeastNatural
  <2>3. PICK p \in 0 .. Len(w) : p = n - 1
    BY <1>1
  <2>4. p < Len(w) /\ ~w[p + 1].whole /\ \A i \in 1 .. p : w[i].whole
    BY <1>1, <2>2, <2>3
  <2> QED BY <2>4, LoadedLenIs
<1> QED BY <1>2, <1>3

-----------------------------------------------------------------------------
(* Types.  The counter passes CHECKPOINT_EVERY - 1 only by the threads     *)
(* about to reset it.                                                      *)
Resetting == {t \in Threads : tpc[t] = "reset"}

StoreTypes == TypeOK /\ since <= CHECKPOINT_EVERY - 1 + Cardinality(Resetting)

LEMMA TypesInit == Init => StoreTypes
<1> SUFFICES ASSUME Init PROVE StoreTypes
  OBVIOUS
<1>1. Resetting = {} /\ Cardinality(Resetting) = 0
  BY FS_EmptySet DEF Init, Resetting
<1>2. Cardinality(Threads) \in Nat
  BY FS_CardinalityType, FileStoreAssumption
<1> QED BY <1>1, <1>2, FileStoreAssumption DEF Init, StoreTypes, TypeOK, NoOp

LEMMA TypesStep == StoreTypes /\ E!TypeOK /\ [Next]_vars => StoreTypes'
<1> SUFFICES ASSUME StoreTypes, E!TypeOK, [Next]_vars PROVE StoreTypes'
  OBVIOUS
<1> DEFINE C == Cardinality(Threads)
           R == Cardinality(Resetting)
           Places == {"idle", "append", "appended", "reset", "snapshot", "checkpoint", "saving"}
<1>1. /\ C \in Nat /\ R \in Nat /\ IsFiniteSet(Resetting) /\ Cardinality(Resetting') \in Nat
      /\ Cardinality(Resetting') <= C /\ since \in Nat /\ CHECKPOINT_EVERY \in Nat \ {0}
  <2>1. Resetting \in SUBSET Threads /\ Resetting' \in SUBSET Threads
    BY DEF Resetting
  <2>2. CHECKPOINT_EVERY \in Nat \ {0} /\ C \in Nat
    BY FileStoreAssumption, FS_CardinalityType
  <2>3. since \in Nat
    BY <2>2 DEF StoreTypes, TypeOK
  <2> QED BY <2>1, <2>2, <2>3, FileStoreAssumption, FS_CardinalityType, FS_Subset
<1>2. /\ mem \in SUBSET Keys /\ body \in [W!Cmds -> Writes] /\ tpc \in [Threads -> Places]
      /\ top \in [Threads -> Writes] /\ tcmd \in [Threads -> W!Cmds \cup {W!NoCmd}]
      /\ prior \in [Threads -> SUBSET Keys] /\ since <= CHECKPOINT_EVERY - 1 + R
  BY DEF StoreTypes, TypeOK, Writes
<1>3. ASSUME mem' \in SUBSET Keys, body' \in [W!Cmds -> Writes], tpc' \in [Threads -> Places],
             top' \in [Threads -> Writes], tcmd' \in [Threads -> W!Cmds \cup {W!NoCmd}],
             prior' \in [Threads -> SUBSET Keys],
             since' \in Nat, since' <= CHECKPOINT_EVERY - 1 + Cardinality(Resetting')
      PROVE  StoreTypes'
  <2>1. since' \in 0 .. CHECKPOINT_EVERY - 1 + C
    BY <1>1, <1>3
  <2> QED BY <1>3, <2>1 DEF StoreTypes, TypeOK, Writes
<1> HIDE DEF C, R, Places
<1>4. NoOp \in Writes /\ \A m \in SUBSET Keys : Snapshot(m) \in Writes
  BY DEF NoOp, Snapshot, Writes
<1>5. ASSUME since' = since, \A t \in Threads : tpc[t] = "reset" <=> tpc'[t] = "reset"
      PROVE  since' \in Nat /\ since' <= CHECKPOINT_EVERY - 1 + Cardinality(Resetting')
  <2>1. Resetting' = Resetting
    BY <1>5 DEF Resetting
  <2> QED BY <1>1, <1>2, <1>5, <2>1 DEF R
<1>6. ASSUME since' = 0
      PROVE  since' \in Nat /\ since' <= CHECKPOINT_EVERY - 1 + Cardinality(Resetting')
  BY <1>1, <1>6
<1>7. ASSUME NEW t \in Threads, NEW o \in Ops, Begin(t, o) PROVE StoreTypes'
  <2>1. o \in Writes
    BY DEF Ops, Put, TakeOut, TakeAll, Touch, NoOp, Writes
  <2>2. mem' \in SUBSET Keys
    BY <1>2, <1>7, <2>1 DEF Begin, Apply, Writes
  <2>3. tpc' \in [Threads -> Places] /\ top' \in [Threads -> Writes] /\ prior' \in [Threads -> SUBSET Keys]
    BY <1>2, <1>7, <2>1 DEF Begin, Places
  <2>4. since' = since /\ body' = body /\ tcmd' = tcmd /\ \A u \in Threads : tpc[u] = "reset" <=> tpc'[u] = "reset"
    BY <1>2, <1>7 DEF Begin
  <2> QED BY <1>2, <1>3, <1>5, <2>2, <2>3, <2>4
<1>8. ASSUME NEW t \in Threads, SendAppend(t) \/ SendCheckpoint(t) PROVE StoreTypes'
  <2>1. sent + 1 \in W!Cmds
    BY <1>8, FileStoreAssumption DEF SendAppend, SendCheckpoint, Submit, W!Dispatch, E!TypeOK, W!Cmds
  <2>2. body' \in [W!Cmds -> Writes] /\ tcmd' \in [Threads -> W!Cmds \cup {W!NoCmd}]
    BY <1>2, <1>8, <2>1 DEF SendAppend, SendCheckpoint, Submit
  <2>3. tpc' \in [Threads -> Places] /\ \A u \in Threads : tpc[u] = "reset" <=> tpc'[u] = "reset"
    BY <1>2, <1>8 DEF SendAppend, SendCheckpoint, Places
  <2>4. since' = since /\ mem' = mem /\ top' = top /\ prior' = prior
    BY <1>8 DEF SendAppend, SendCheckpoint, Submit
  <2> QED BY <1>2, <1>3, <1>5, <2>2, <2>3, <2>4
<1>9. ASSUME NEW t \in Threads, Return(t)
      PROVE  /\ tpc' \in [Threads -> Places] /\ top' \in [Threads -> Writes]
             /\ tcmd' \in [Threads -> W!Cmds \cup {W!NoCmd}] /\ prior' \in [Threads -> SUBSET Keys]
  BY <1>2, <1>4, <1>9 DEF Return, Places
<1>10. ASSUME NEW t \in Threads, Appended(t) PROVE StoreTypes'
  <2>1. mem' = mem /\ body' = body /\ tpc[t] = "appended"
    BY <1>10 DEF Appended
  <2>2. CASE since + 1 >= CHECKPOINT_EVERY /\ since' = since + 1 /\ tpc' = [tpc EXCEPT ![t] = "reset"]
             /\ UNCHANGED <<top, tcmd, prior>>
    <3>1. Resetting' = Resetting \cup {t} /\ t \notin Resetting
      BY <1>2, <2>1, <2>2 DEF Resetting
    <3>2. Cardinality(Resetting') = R + 1
      BY <1>1, <3>1, FS_AddElement DEF R
    <3>3. tpc' \in [Threads -> Places]
      BY <1>2, <2>2 DEF Places
    <3> QED BY <1>1, <1>2, <1>3, <2>1, <2>2, <3>2, <3>3
  <2>3. CASE since + 1 < CHECKPOINT_EVERY /\ since' = since + 1 /\ Return(t)
    BY <1>1, <1>2, <1>3, <1>9, <2>1, <2>3
  <2>4. CASE since' = since /\ Return(t)
    <3>1. \A u \in Threads : tpc[u] = "reset" <=> tpc'[u] = "reset"
      BY <1>2, <2>1, <2>4 DEF Return
    <3> QED BY <1>2, <1>3, <1>5, <1>9, <2>1, <2>4, <3>1
  <2> QED BY <1>10, <2>2, <2>3, <2>4 DEF Appended
<1>11. ASSUME NEW t \in Threads, Reset(t) PROVE StoreTypes'
  <2>1. tpc' \in [Threads -> Places]
    BY <1>2, <1>11 DEF Reset, Places
  <2> QED BY <1>2, <1>3, <1>6, <1>11, <2>1 DEF Reset, engine
<1>12. ASSUME NEW t \in Threads, SnapshotBytes(t) PROVE StoreTypes'
  <2>1. tpc' \in [Threads -> Places] /\ top' \in [Threads -> Writes]
        /\ \A u \in Threads : tpc[u] = "reset" <=> tpc'[u] = "reset"
    BY <1>2, <1>4, <1>12 DEF SnapshotBytes, Places
  <2> QED BY <1>2, <1>3, <1>5, <1>12, <2>1 DEF SnapshotBytes, store
<1>13. ASSUME NEW t \in Threads, Saved(t) PROVE StoreTypes'
  <2>1. \A u \in Threads : tpc[u] = "reset" <=> tpc'[u] = "reset"
    BY <1>2, <1>13 DEF Saved, Return
  <2> QED BY <1>2, <1>3, <1>5, <1>9, <1>13, <2>1 DEF Saved, store
<1>14. CASE Drop \/ Engine \/ UNCHANGED vars
  BY <1>2, <1>3, <1>5, <1>14 DEF Drop, Engine, store, calls, vars
<1>15. CASE Crash
  <2>1. /\ mem' = {} /\ since' = 0 /\ body' = body /\ tpc' = [t \in Threads |-> "idle"]
        /\ top' = [t \in Threads |-> NoOp] /\ tcmd' = [t \in Threads |-> W!NoCmd]
        /\ prior' = [t \in Threads |-> {}]
    BY <1>15 DEF Crash
  <2>2. tpc' \in [Threads -> Places] /\ top' \in [Threads -> Writes]
        /\ tcmd' \in [Threads -> W!Cmds \cup {W!NoCmd}] /\ prior' \in [Threads -> SUBSET Keys]
    BY <1>4, <2>1 DEF Places
  <2> QED BY <1>2, <1>3, <1>6, <2>1, <2>2
<1>16. CASE Reopen
  <2>1. wal \in Seq(Recs) /\ snap \in W!Cmds \cup {W!NoCmd}
    BY DEF E!TypeOK, Recs, W!Cmds, E!Cmds, W!NoCmd, E!NoCmd
  <2>2. Replayed(wal) = Folded(body, Base, wal, W!LoadedLen(wal))
    BY <1>2, <2>1, LoadedLenType, ReplayedIs DEF Recs
  <2>3. mem' \in SUBSET Keys
    BY <1>16, <2>2 DEF Reopen, Folded
  <2> QED BY <1>2, <1>3, <1>5, <1>16, <2>3 DEF Reopen, calls
<1> QED BY <1>7, <1>8, <1>10, <1>11, <1>12, <1>13, <1>14, <1>15, <1>16 DEF Next, Caller

LEMMA TypesInvariance == Spec => []StoreTypes
<1>1. E!IInv => E!TypeOK
  BY DEF E!IInv
<1> QED BY TypesInit, TypesStep, EngineInvariance, <1>1, PTL DEF Spec

\* The registry holds keys, commands carry writes, and with any number of threads the counter
\* passes CHECKPOINT_EVERY by no more than the threads that are about to reset it (log).
THEOREM TypeCorrect == Spec => []TypeOK
<1>1. StoreTypes => TypeOK
  BY DEF StoreTypes
<1> QED BY <1>1, TypesInvariance, PTL

-----------------------------------------------------------------------------
(* What a restart makes of log w over the registry b of the snapshot.      *)
Was(bd, b, w) == Folded(bd, b, w, W!LoadedLen(w))

Bodies == [W!Cmds -> Writes]

LEMMA RecIds == ASSUME NEW w \in Seq(Recs)
                PROVE  Len(w) \in Nat /\ \A i \in 1 .. Len(w) : w[i] \in Recs /\ w[i].id \in W!Cmds
<1>1. Len(w) \in Nat /\ \A i \in 1 .. Len(w) : w[i] \in Recs
  BY LenProperties
<1> QED BY <1>1 DEF Recs

LEMMA WasNone == ASSUME NEW bd, NEW b \in SUBSET Keys PROVE Was(bd, b, <<>>) = b
<1>1. PICK w \in Seq(Recs) : w = <<>> /\ Len(w) = 0
  BY EmptySeq
<1>2. 0 \in 0 .. Len(w) /\ (\A i \in 1 .. 0 : w[i].whole) /\ ~(0 < Len(w))
  BY <1>1
<1>3. W!LoadedLen(w) = 0
  BY <1>2, LoadedLenIs
<1> QED BY <1>1, <1>3, FoldedNone DEF Was

\* A record that is whole is applied, one cut short is not.
LEMMA WasNext ==
    ASSUME NEW bd \in Bodies, NEW b \in SUBSET Keys, NEW p \in Seq(Recs), NEW u \in Seq(Recs),
           Len(u) = Len(p) + 1, \A i \in 1 .. Len(p) : p[i].whole /\ u[i] = p[i]
    PROVE  Was(bd, b, u) = IF u[Len(u)].whole THEN Apply(Was(bd, b, p), bd[u[Len(u)].id]) ELSE Was(bd, b, p)
<1> PICK n \in Nat : n = Len(p)
  BY RecIds
<1>1. Len(u) = n + 1 /\ u[n + 1] \in Recs /\ bd[u[n + 1].id] \in Writes
  <2>1. Len(u) = n + 1 /\ n + 1 \in 1 .. Len(u)
    OBVIOUS
  <2> QED BY <2>1, RecIds DEF Bodies
<1>2. W!LoadedLen(p) = n
  BY LoadedLenIs
<1>3. Folded(bd, b, u, n) = Folded(bd, b, p, n)
  BY DEF Folded
<1>4. CASE u[n + 1].whole
  <2>1. \A i \in 1 .. n + 1 : u[i].whole
    BY <1>4
  <2>2. W!LoadedLen(u) = n + 1
    BY <1>1, <2>1, LoadedLenIs
  <2> QED BY <1>1, <1>2, <1>3, <1>4, <2>2, FoldedNext DEF Was
<1>5. CASE ~u[n + 1].whole
  <2>1. n \in 0 .. Len(u) /\ \A i \in 1 .. n : u[i].whole
    BY <1>1
  <2>2. W!LoadedLen(u) = n
    BY <1>1, <1>5, <2>1, LoadedLenIs
  <2> QED BY <1>1, <1>2, <1>3, <1>5, <2>2 DEF Was
<1> QED BY <1>4, <1>5

\* Replayed over a registry that has it already, a log changes nothing.
LEMMA WasTwice ==
    ASSUME NEW bd, NEW b, NEW w
    PROVE  Was(bd, Was(bd, b, w), w) = Was(bd, b, w)
BY DEF Was, Folded

\* Only what the log's own commands carry counts.
LEMMA WasSame ==
    ASSUME NEW b, NEW w \in Seq(Recs), NEW bd, NEW be, \A i \in 1 .. Len(w) : bd[w[i].id] = be[w[i].id]
    PROVE  Was(bd, b, w) = Was(be, b, w)
<1> PICK n \in 0 .. Len(w) : n = W!LoadedLen(w)
  BY LoadedLenType
<1>1. \A i \in 1 .. n : bd[w[i].id] = be[w[i].id]
  BY RecIds
<1>2. \A k \in Keys : k \in Folded(bd, b, w, n) <=> k \in Folded(be, b, w, n)
  BY <1>1 DEF Folded
<1>3. Folded(bd, b, w, n) \subseteq Keys /\ Folded(be, b, w, n) \subseteq Keys
  BY DEF Folded
<1>4. Folded(bd, b, w, n) = Folded(be, b, w, n)
  BY <1>2, <1>3
<1> QED BY <1>4 DEF Was

LEMMA WasType == ASSUME NEW bd, NEW b, NEW w PROVE Was(bd, b, w) \in SUBSET Keys
BY DEF Was, Folded

-----------------------------------------------------------------------------
(* One calling thread.  At most one command is on its way, and it is the   *)
(* caller's own.                                                           *)
OneCaller == \E t : Threads = {t}

Quiet == channel = <<>> /\ cmd = W!NoCmd

InFlight(c) ==
    \/ channel = <<c>> /\ cmd = W!NoCmd
    \/ channel = <<>> /\ cmd = c

Outstanding(t) ==
    /\ tpc[t] = "idle" =>
          /\ \A i \in 1 .. Len(channel) : kind[channel[i]] = "shutdown"
          /\ cmd # W!NoCmd => kind[cmd] = "shutdown"
    /\ tpc[t] \in {"append", "reset", "snapshot", "checkpoint"} => Quiet
    /\ tpc[t] \in {"appended", "saving"} =>
          /\ tcmd[t] \in W!Cmds /\ body[tcmd[t]] = top[t]
          /\ kind[tcmd[t]] = IF tpc[t] = "appended" THEN "append" ELSE "checkpoint"
          /\ done[tcmd[t]] # "err"
          /\ IF done[tcmd[t]] = "none" THEN InFlight(tcmd[t]) ELSE Quiet

\* What the call knows of the registry.
Knows(t) ==
    /\ tpc[t] # "idle" => W!Up
    /\ tpc[t] \in {"append", "appended"} => mem = Apply(prior[t], top[t])
    /\ tpc[t] \in {"checkpoint", "saving"} => top[t] = Snapshot(mem)

\* The record in the writer's hands is in the log and may not be synced; Older is the log
\* without it.
Unsynced == wpc = "body" \/ (wpc = "sync" /\ kind[cmd] = "append")
Older(w) == SubSeq(w, 1, Len(w) - 1)

\* The log is the registry, up to the write that is not in it yet.
Unwritten(t) == tpc[t] = "append" \/ (tpc[t] = "appended" /\ done[tcmd[t]] = "none" /\ wpc # "sync")
Expected(t)  == IF Unwritten(t) THEN prior[t] ELSE mem
InLog(t) ==
    /\ W!Up /\ W!Framed(wal) => Was(body, Base, wal) = Expected(t)
    /\ Unsynced /\ W!Framed(Older(wal)) => Was(body, Base, Older(wal)) = prior[t]

\* Under EveryWrite the log is synced up to the record in hand, or a truncation is still to be
\* synced and what it would bring back is covered by the snapshot.
SyncedTo(v) == \/ stable = v
               \/ v = <<>> /\ (W!Framed(stable) => Was(body, Base, stable) = Base)
Durable     == ~CutOff => SyncedTo(IF Unsynced THEN Older(wal) ELSE wal)

\* From its acknowledged append to the truncation, the call relies on a synced log.
Covered(t) == \/ tpc[t] \in {"reset", "snapshot", "checkpoint"}
              \/ tpc[t] = "appended" /\ done[tcmd[t]] = "ok"
              \/ tpc[t] = "saving" /\ wpc # "synclog"

Recovers(t) ==
    /\ Outstanding(t) /\ Knows(t) /\ InLog(t)
    /\ policy = "every" => Durable /\ (Covered(t) => stable = wal)

OneCallerInv(t) == faults = 0 => Recovers(t)

-----------------------------------------------------------------------------
(* What the types and the engine's invariant say here.                     *)
LEMMA StoreFacts ==
    ASSUME StoreTypes, E!IInv
    PROVE  /\ body \in Bodies /\ Base \in SUBSET Keys /\ mem \in SUBSET Keys
           /\ wal \in Seq(Recs) /\ stable \in Seq(Recs) /\ channel \in Seq(W!Cmds)
           /\ kind \in [W!Cmds -> {"append", "checkpoint", "flush", "shutdown", "none"}]
           /\ done \in [W!Cmds -> {"none", "ok", "err"}]
           /\ snap \in W!Cmds \cup {W!NoCmd} /\ cmd \in W!Cmds \cup {W!NoCmd} /\ W!NoCmd \notin W!Cmds
           /\ cmd = W!NoCmd <=> wpc \in {"recv", "stopped", "down"}
           /\ sent \in Nat /\ faults \in Nat
<1>1. body \in Bodies /\ mem \in SUBSET Keys
  BY DEF StoreTypes, TypeOK, Bodies, Writes
<1>2. /\ wal \in Seq(Recs) /\ stable \in Seq(Recs) /\ channel \in Seq(W!Cmds)
      /\ snap \in W!Cmds \cup {W!NoCmd} /\ cmd \in W!Cmds \cup {W!NoCmd} /\ W!NoCmd \notin W!Cmds
      /\ cmd = W!NoCmd <=> wpc \in {"recv", "stopped", "down"}
      /\ done \in [W!Cmds -> {"none", "ok", "err"}]
      /\ sent \in Nat /\ faults \in Nat
  BY FileStoreAssumption DEF E!IInv, E!TypeOK, Recs, W!Cmds, E!Cmds, W!NoCmd, E!NoCmd
<1>3. kind \in [W!Cmds -> {"append", "checkpoint", "flush", "shutdown", "none"}]
  <2>1. kind \in [W!Cmds -> E!Kinds \cup {"none"}]
    BY DEF E!IInv, E!TypeOK, W!Cmds, E!Cmds
  <2>2. E!Kinds \cup {"none"} = {"append", "checkpoint", "flush", "shutdown", "none"}
    BY DEF E!Kinds
  <2> QED BY <2>1, <2>2
<1>4. Base \in SUBSET Keys
  <2>1. snap # W!NoCmd => body[snap] \in Writes
    BY <1>1, <1>2 DEF Bodies
  <2> QED BY <2>1 DEF Base, Apply, Writes
<1> QED BY <1>1, <1>2, <1>3, <1>4

\* The next command is new.
LEMMA NewFacts ==
    ASSUME StoreTypes, E!IInv
    PROVE  /\ \A i \in 1 .. Len(wal) : wal[i].id # sent + 1
           /\ \A i \in 1 .. Len(stable) : stable[i].id # sent + 1
           /\ snap # sent + 1
           /\ sent + 1 \in W!Cmds => done[sent + 1] = "none"
           /\ cmd # W!NoCmd => done[cmd] = "none"
<1>1. E!Newer(sent + 1) /\ E!Ordered /\ sent \in Nat
  BY StoreFacts DEF E!IInv, E!Ordered
<1>2. /\ \A i \in 1 .. Len(wal) : wal[i].id # sent + 1
      /\ \A i \in 1 .. Len(stable) : stable[i].id # sent + 1
      /\ snap # sent + 1
  <2>1. /\ \A i \in 1 .. Len(wal) : wal[i].id \in Nat
        /\ \A i \in 1 .. Len(stable) : stable[i].id \in Nat
    BY StoreFacts, RecIds DEF W!Cmds
  <2>2. snap \in Nat
    BY StoreFacts DEF W!Cmds, W!NoCmd
  <2> QED BY <1>1, <2>1, <2>2 DEF E!Newer
<1>3. sent + 1 \in W!Cmds => done[sent + 1] = "none"
  BY <1>1 DEF E!Newer, W!Cmds, E!Cmds
<1>4. cmd # W!NoCmd => done[cmd] = "none"
  <2> SUFFICES ASSUME cmd # W!NoCmd PROVE done[cmd] = "none"
    OBVIOUS
  <2>1. cmd \in E!Cmds /\ cmd # E!NoCmd /\ cmd \in Nat
    BY StoreFacts DEF W!Cmds, E!Cmds, W!NoCmd, E!NoCmd
  <2>2. done[cmd] # "none" => cmd < cmd
    BY <1>1, <2>1 DEF E!Ordered
  <2> QED BY <2>1, <2>2
<1> QED BY <1>2, <1>3, <1>4

\* Where the writer is says what it is doing.
LEMMA HandFacts ==
    ASSUME E!IInv
    PROVE  /\ wpc \in {"len", "body"} => kind[cmd] = "append"
           /\ wpc \in {"tmp", "rename", "truncate", "synclog"} => kind[cmd] = "checkpoint"
           /\ wpc = "sync" => kind[cmd] # "checkpoint"
           /\ wpc = "body" => wal # <<>> /\ wal[Len(wal)].id = cmd
           /\ wpc = "sync" /\ kind[cmd] = "append" => dirty /\ \E i \in 1 .. Len(wal) : wal[i].id = cmd
           /\ wpc = "rename" => tmp = cmd
           /\ wpc \in {"truncate", "synclog"} => snap = cmd
BY DEF E!IInv, E!InHand, E!Has

\* A command on its way to the log leaves what is there as it was.
LEMMA SameLog ==
    ASSUME StoreTypes, E!IInv, snap' = snap, wal' = wal, stable' = stable,
           \A c : c # sent + 1 => body'[c] = body[c]
    PROVE  /\ Base' = Base
           /\ Was(body', Base', wal) = Was(body, Base, wal)
           /\ Was(body', Base', stable) = Was(body, Base, stable)
<1>1. Base' = Base
  BY NewFacts DEF Base
<1>2. wal \in Seq(Recs) /\ stable \in Seq(Recs)
  BY StoreFacts
<1>3. Was(body', Base, wal) = Was(body, Base, wal)
  BY <1>2, NewFacts, WasSame
<1>4. Was(body', Base, stable) = Was(body, Base, stable)
  BY <1>2, NewFacts, WasSame
<1> QED BY <1>1, <1>3, <1>4

-----------------------------------------------------------------------------
(* The steps of the caller, all of them while no command is under way.     *)
LEMMA CallerStep ==
    ASSUME StoreTypes, E!IInv, NEW t \in Threads, Recovers(t), Quiet,
           wal' = wal, stable' = stable, snap' = snap, wpc' = wpc, done' = done, policy' = policy,
           \A c : c # sent + 1 => body'[c] = body[c],
           Outstanding(t)', Knows(t)', Expected(t)' = Expected(t), Covered(t)' => Covered(t)
    PROVE  Recovers(t)'
<1>1. wpc \in {"recv", "stopped", "down"}
  BY StoreFacts DEF Quiet
<1>2. ~Unsynced /\ ~Unsynced'
  BY <1>1 DEF Unsynced
<1>3. /\ Base' = Base /\ Was(body', Base', wal) = Was(body, Base, wal)
      /\ Was(body', Base', stable) = Was(body, Base, stable)
  BY SameLog
<1>4. InLog(t)'
  BY <1>2, <1>3 DEF Recovers, InLog, W!Up
<1>5. Durable => Durable'
  BY <1>2, <1>3 DEF Durable, SyncedTo, CutOff
<1> QED BY <1>4, <1>5 DEF Recovers

LEMMA AcceptingIsQuiet ==
    ASSUME StoreTypes, E!IInv, NEW t \in Threads, Outstanding(t), tpc[t] = "idle", W!Accepting
    PROVE  Quiet
<1>1. cmd = W!NoCmd
  BY DEF W!Accepting, Outstanding
<1>2. channel \in Seq(W!Cmds) /\ Len(channel) \in Nat
  BY StoreFacts, LenProperties
<1>3. Len(channel) = 0
  BY <1>2 DEF W!Accepting, W!Dropped, Outstanding
<1> QED BY <1>1, <1>2, <1>3, EmptySeq DEF Quiet

LEMMA BeginStep ==
    ASSUME StoreTypes, E!IInv, NEW t \in Threads, Recovers(t), NEW o \in Ops, Begin(t, o)
    PROVE  Recovers(t)'
<1>1. Quiet
  BY AcceptingIsQuiet DEF Begin, Recovers
<1>2. /\ tpc[t] = "idle" /\ tpc'[t] = "append" /\ prior'[t] = mem /\ top'[t] = o /\ mem' = Apply(mem, o) /\ W!Up
  BY DEF Begin, StoreTypes, TypeOK, W!Accepting
<1>3. UNCHANGED <<engine, body, tcmd>>
  BY DEF Begin
<1>4. Outstanding(t)'
  BY <1>1, <1>2, <1>3 DEF Outstanding, Quiet, engine
<1>5. Knows(t)'
  BY <1>2, <1>3 DEF Knows, W!Up, engine
<1>6. Expected(t)' = Expected(t)
  BY <1>2 DEF Expected, Unwritten
<1>7. ~Covered(t)'
  BY <1>2 DEF Covered
<1> QED BY <1>1, <1>3, <1>4, <1>5, <1>6, <1>7, CallerStep DEF engine

LEMMA SubmitFacts ==
    ASSUME StoreTypes, E!IInv, NEW t \in Threads, Quiet, NEW k, Submit(t, k)
    PROVE  /\ tcmd'[t] = sent + 1 /\ sent + 1 \in W!Cmds /\ body'[sent + 1] = top[t]
           /\ kind'[sent + 1] = k /\ done'[sent + 1] = "none" /\ channel' = <<sent + 1>> /\ cmd' = W!NoCmd
           /\ \A c : c # sent + 1 => body'[c] = body[c]
           /\ UNCHANGED <<policy, done, wpc, wal, stable, snap, mem, top, prior>>
           /\ wpc \in {"recv", "stopped", "down"}
<1>1. sent + 1 \in W!Cmds
  BY StoreFacts, FileStoreAssumption DEF Submit, W!Dispatch, W!Cmds
<1>2. tcmd'[t] = sent + 1 /\ body'[sent + 1] = top[t] /\ kind'[sent + 1] = k
  BY <1>1, StoreFacts DEF Submit, W!Dispatch, StoreTypes, TypeOK, Bodies
<1>3. \A c : c # sent + 1 => body'[c] = body[c]
  BY DEF Submit
<1>4. channel' = <<sent + 1>> /\ cmd' = W!NoCmd
  BY DEF Submit, W!Dispatch, Quiet
<1>5. wpc \in {"recv", "stopped", "down"}
  BY StoreFacts DEF Quiet
<1>6. UNCHANGED <<policy, done, wpc, wal, stable, snap, mem, top, prior>>
  BY DEF Submit
<1>7. done'[sent + 1] = "none"
  BY <1>1, <1>6, NewFacts
<1> QED BY <1>1, <1>2, <1>3, <1>4, <1>5, <1>6, <1>7 DEF InFlight

LEMMA SendStep ==
    ASSUME StoreTypes, E!IInv, NEW t \in Threads, Recovers(t), SendAppend(t) \/ SendCheckpoint(t)
    PROVE  Recovers(t)'
<1>1. Quiet
  BY DEF SendAppend, SendCheckpoint, Recovers, Outstanding
<1>2. PICK k \in {"append", "checkpoint"} :
         /\ Submit(t, k)
         /\ tpc[t] = k
         /\ tpc' = [tpc EXCEPT ![t] = IF k = "append" THEN "appended" ELSE "saving"]
  BY DEF SendAppend, SendCheckpoint
<1>3. tpc'[t] = IF k = "append" THEN "appended" ELSE "saving"
  BY <1>2 DEF StoreTypes, TypeOK
<1>4. /\ tcmd'[t] = sent + 1 /\ sent + 1 \in W!Cmds /\ body'[sent + 1] = top[t]
      /\ kind'[sent + 1] = k /\ done'[sent + 1] = "none" /\ channel' = <<sent + 1>> /\ cmd' = W!NoCmd
      /\ \A c : c # sent + 1 => body'[c] = body[c]
      /\ UNCHANGED <<policy, done, wpc, wal, stable, snap, mem, top, prior>>
      /\ wpc \in {"recv", "stopped", "down"}
  BY <1>1, <1>2, SubmitFacts
<1>5. InFlight(tcmd[t])'
  BY <1>4 DEF InFlight
<1>6. Outstanding(t)'
  BY <1>3, <1>4, <1>5 DEF Outstanding
<1>7. Knows(t)'
  BY <1>2, <1>3, <1>4 DEF Recovers, Knows, W!Up
<1>8. Expected(t)' = Expected(t)
  BY <1>2, <1>3, <1>4 DEF Expected, Unwritten
<1>9. Covered(t)' => Covered(t)
  BY <1>2, <1>3, <1>4 DEF Covered
<1> QED BY <1>1, <1>4, <1>6, <1>7, <1>8, <1>9, CallerStep

LEMMA ReturnStep ==
    ASSUME StoreTypes, E!IInv, NEW t \in Threads, Recovers(t), Quiet, Return(t), engine' = engine,
           mem' = mem, body' = body, ~Unwritten(t)
    PROVE  Recovers(t)'
<1>1. tpc'[t] = "idle"
  BY DEF Return, StoreTypes, TypeOK
<1>2. UNCHANGED <<policy, channel, cmd, done, wpc, wal, stable, snap>>
  BY DEF engine
<1>3. Outstanding(t)'
  <2>1. channel' = <<>> /\ cmd' = W!NoCmd
    BY <1>2 DEF Quiet
  <2> QED BY <1>1, <2>1 DEF Outstanding
<1>4. Knows(t)'
  BY <1>1 DEF Knows
<1>5. Expected(t)' = Expected(t)
  BY <1>1 DEF Expected, Unwritten
<1>6. ~Covered(t)'
  BY <1>1 DEF Covered
<1> QED BY <1>2, <1>3, <1>4, <1>5, <1>6, CallerStep

LEMMA CallSteps ==
    ASSUME StoreTypes, E!IInv, NEW t \in Threads, Recovers(t),
           Appended(t) \/ Reset(t) \/ SnapshotBytes(t) \/ Saved(t)
    PROVE  Recovers(t)'
<1>1. CASE Appended(t)
  <2>1. tpc[t] = "appended" /\ done[tcmd[t]] # "none" /\ engine' = engine /\ mem' = mem /\ body' = body
    BY <1>1 DEF Appended
  <2>2. Quiet /\ done[tcmd[t]] = "ok" /\ tcmd[t] \in W!Cmds
    BY <2>1, StoreFacts DEF Recovers, Outstanding
  <2>3. CASE Return(t)
    BY <2>1, <2>2, <2>3, ReturnStep DEF Unwritten
  <2>4. CASE tpc' = [tpc EXCEPT ![t] = "reset"] /\ UNCHANGED <<top, tcmd, prior>>
    <3>1. tpc'[t] = "reset" /\ UNCHANGED <<policy, channel, cmd, done, wpc, wal, stable, snap>>
      BY <2>1, <2>4 DEF engine, StoreTypes, TypeOK
    <3>2. Outstanding(t)' /\ Knows(t)'
      BY <2>1, <2>2, <3>1 DEF Outstanding, Knows, Quiet, Recovers, W!Up
    <3>3. Expected(t)' = Expected(t) /\ Covered(t)
      BY <2>1, <2>2, <3>1 DEF Expected, Unwritten, Covered
    <3> QED BY <2>1, <2>2, <3>1, <3>2, <3>3, CallerStep
  <2> QED BY <1>1, <2>2, <2>3, <2>4 DEF Appended
<1>2. CASE Saved(t)
  <2>1. tpc[t] = "saving" /\ done[tcmd[t]] # "none" /\ engine' = engine /\ mem' = mem /\ body' = body /\ Return(t)
    BY <1>2 DEF Saved, store
  <2>2. Quiet /\ ~Unwritten(t)
    BY <2>1 DEF Recovers, Outstanding, Unwritten
  <2> QED BY <2>1, <2>2, ReturnStep
<1>3. CASE Reset(t) \/ SnapshotBytes(t)
  <2>1. /\ tpc[t] \in {"reset", "snapshot"} /\ engine' = engine /\ mem' = mem /\ body' = body /\ tcmd' = tcmd
        /\ tpc'[t] = IF tpc[t] = "reset" THEN "snapshot" ELSE "checkpoint"
        /\ tpc[t] = "snapshot" => top'[t] = Snapshot(mem)
    BY <1>3 DEF Reset, SnapshotBytes, store, StoreTypes, TypeOK
  <2>2. Quiet
    BY <2>1 DEF Recovers, Outstanding
  <2>3. UNCHANGED <<policy, channel, cmd, done, wpc, wal, stable, snap>>
    BY <2>1 DEF engine
  <2>4. Outstanding(t)' /\ Knows(t)'
    BY <2>1, <2>2, <2>3 DEF Outstanding, Knows, Quiet, Recovers, W!Up
  <2>5. Expected(t)' = Expected(t) /\ Covered(t)
    BY <2>1 DEF Expected, Unwritten, Covered
  <2> QED BY <2>1, <2>2, <2>3, <2>4, <2>5, CallerStep
<1> QED BY <1>1, <1>2, <1>3

-----------------------------------------------------------------------------
(* The steps of the engine.                                                *)
callState == <<mem, body, tpc, top, tcmd, prior>>

\* The command in the writer's hands is the caller's, or the last one.
LEMMA InHandOf ==
    ASSUME StoreTypes, E!IInv, NEW t \in Threads, Outstanding(t), cmd # W!NoCmd
    PROVE  /\ channel \in Seq(W!Cmds) /\ cmd \in W!Cmds /\ done[cmd] = "none"
           /\ kind[cmd] \in {"append", "checkpoint", "shutdown"}
           /\ kind[cmd] = "shutdown" => tpc[t] = "idle"
           /\ kind[cmd] = "append" => tpc[t] = "appended" /\ tcmd[t] = cmd /\ channel = <<>> /\ body[cmd] = top[t]
           /\ kind[cmd] = "checkpoint" => tpc[t] = "saving" /\ tcmd[t] = cmd /\ channel = <<>> /\ body[cmd] = top[t]
<1>1. cmd \in W!Cmds /\ done[cmd] = "none" /\ channel \in Seq(W!Cmds)
  BY StoreFacts, NewFacts
<1>2. tpc[t] \in {"idle", "append", "appended", "reset", "snapshot", "checkpoint", "saving"}
  BY DEF StoreTypes, TypeOK
<1>3. CASE tpc[t] = "idle"
  BY <1>1, <1>3 DEF Outstanding
<1>4. CASE tpc[t] \in {"append", "reset", "snapshot", "checkpoint"}
  BY <1>4 DEF Outstanding, Quiet
<1>5. CASE tpc[t] \in {"appended", "saving"}
  <2>1. done[tcmd[t]] = "none" /\ InFlight(tcmd[t])
    BY <1>5 DEF Outstanding, Quiet
  <2>2. channel = <<>> /\ cmd = tcmd[t]
    BY <2>1 DEF InFlight
  <2> QED BY <1>1, <1>5, <2>2 DEF Outstanding
<1> QED BY <1>2, <1>3, <1>4, <1>5

\* A command completed is a call that may go on.
LEMMA CompleteStep ==
    ASSUME StoreTypes, E!IInv, NEW t \in Threads, Outstanding(t), Knows(t), cmd # W!NoCmd, W!Complete(TRUE),
           UNCHANGED callState, channel' = channel, kind' = kind
    PROVE  /\ Outstanding(t)' /\ Knows(t)' /\ ~Unsynced' /\ Expected(t)' = mem
           /\ wpc' \in {"recv", "stopped"}
           /\ \A c : done[c] = "err" => done'[c] = "err"
<1>1. done' = [done EXCEPT ![cmd] = "ok"] /\ cmd' = W!NoCmd /\ wpc' \in {"recv", "stopped"}
  BY DEF W!Complete
<1>2. UNCHANGED <<mem, body, tpc, top, tcmd, prior>>
  BY DEF callState
<1>3. done'[cmd] = "ok" /\ \A c : done[c] = "err" => done'[c] = "err"
  BY <1>1, InHandOf, StoreFacts
<1>4. Outstanding(t)'
  <2>1. CASE kind[cmd] = "shutdown"
    BY <1>1, <1>2, <2>1, InHandOf DEF Outstanding
  <2>2. CASE kind[cmd] \in {"append", "checkpoint"}
    <3>1. /\ tpc'[t] = IF kind[cmd] = "append" THEN "appended" ELSE "saving"
          /\ tcmd'[t] = cmd /\ channel' = <<>> /\ body'[cmd] = top'[t] /\ cmd \in W!Cmds /\ kind'[cmd] = kind[cmd]
      BY <1>2, <2>2, InHandOf
    <3>2. Quiet'
      BY <1>1, <3>1 DEF Quiet
    <3> QED BY <1>3, <2>2, <3>1, <3>2 DEF Outstanding
  <2> QED BY <2>1, <2>2, InHandOf
<1>5. Knows(t)'
  BY <1>1, <1>2 DEF Knows, W!Up
<1>6. ~Unsynced'
  BY <1>1 DEF Unsynced
<1>7. Expected(t)' = mem
  <2>1. ~Unwritten(t)'
    BY <1>2, <1>3, InHandOf DEF Unwritten
  <2> QED BY <1>2, <2>1 DEF Expected
<1> QED BY <1>1, <1>3, <1>4, <1>5, <1>6, <1>7

LEMMA DropStep ==
    ASSUME StoreTypes, E!IInv, NEW t \in Threads, Recovers(t), Drop
    PROVE  Recovers(t)'
<1>1. tpc[t] = "idle" /\ W!Accepting /\ W!Dispatch("shutdown") /\ UNCHANGED <<store, calls>>
      /\ UNCHANGED <<policy, done, cmd, wpc, wal, stable, snap>>
  BY DEF Drop, W!Call, W!Dispatch, W!diskVars
<1>2. Quiet
  BY <1>1, AcceptingIsQuiet DEF Recovers
<1>3. UNCHANGED <<mem, body, tpc, top, tcmd, prior>>
  BY <1>1 DEF store, calls
<1>4. sent + 1 \in W!Cmds /\ channel' = <<sent + 1>> /\ kind'[sent + 1] = "shutdown"
  <2>1. sent + 1 \in W!Cmds
    BY <1>1, StoreFacts, FileStoreAssumption DEF W!Dispatch, W!Cmds
  <2> QED BY <1>1, <1>2, <2>1, StoreFacts DEF W!Dispatch, Quiet
<1>5. Outstanding(t)'
  BY <1>1, <1>2, <1>3, <1>4 DEF Outstanding, Quiet
<1>6. Knows(t)' /\ Expected(t)' = Expected(t) /\ (Covered(t)' => Covered(t))
  BY <1>1, <1>3 DEF Knows, Expected, Unwritten, Covered
<1> QED BY <1>1, <1>2, <1>3, <1>5, <1>6, CallerStep

LEMMA RecvStep ==
    ASSUME StoreTypes, E!IInv, NEW t \in Threads, Recovers(t), W!Recv, UNCHANGED callState
    PROVE  Recovers(t)'
<1>1. /\ wpc = "recv" /\ channel # <<>> /\ cmd' = Head(channel) /\ channel' = Tail(channel)
      /\ wpc' = IF kind[Head(channel)] = "append" THEN "len"
                ELSE IF kind[Head(channel)] = "checkpoint" THEN "tmp" ELSE "sync"
      /\ UNCHANGED <<policy, kind, done, wal, stable, snap>>
  BY DEF W!Recv, W!diskVars
<1>2. UNCHANGED <<mem, body, tpc, top, tcmd, prior>>
  BY DEF callState
<1>3. cmd = W!NoCmd /\ channel \in Seq(W!Cmds) /\ W!NoCmd \notin W!Cmds
  BY <1>1, StoreFacts
<1>4. /\ Head(channel) = channel[1] /\ 1 \in 1 .. Len(channel)
      /\ Len(Tail(channel)) = Len(channel) - 1 /\ Len(channel) \in Nat
      /\ \A i \in 1 .. Len(Tail(channel)) : Tail(channel)[i] = channel[i + 1] /\ i + 1 \in 1 .. Len(channel)
  BY <1>1, <1>3, HeadTailProperties, EmptySeq, LenProperties
<1>5. tpc[t] \in {"idle", "appended", "saving"}
  BY <1>1 DEF StoreTypes, TypeOK, Recovers, Outstanding, Quiet
<1>6. CASE tpc[t] = "idle"
  <2>1. /\ \A i \in 1 .. Len(channel) : kind[channel[i]] = "shutdown"
        /\ kind[Head(channel)] = "shutdown"
    BY <1>4, <1>6 DEF Recovers, Outstanding
  <2>2. Outstanding(t)'
    BY <1>1, <1>2, <1>4, <1>6, <2>1 DEF Outstanding
  <2>3. Knows(t)' /\ Expected(t)' = Expected(t) /\ ~Covered(t)' /\ ~Unsynced /\ ~Unsynced' /\ W!Up
    BY <1>1, <1>2, <1>6, <2>1 DEF Knows, Expected, Unwritten, Covered, Unsynced, W!Up
  <2> QED BY <1>1, <1>2, <2>2, <2>3 DEF Recovers, InLog, Durable, SyncedTo, CutOff, Base
<1>7. CASE tpc[t] \in {"appended", "saving"}
  <2>1. /\ channel = <<tcmd[t]>> /\ done[tcmd[t]] = "none" /\ tcmd[t] \in W!Cmds /\ body[tcmd[t]] = top[t]
        /\ kind[tcmd[t]] = IF tpc[t] = "appended" THEN "append" ELSE "checkpoint"
    BY <1>1, <1>3, <1>7 DEF Recovers, Outstanding, Quiet, InFlight
  <2>2. cmd' = tcmd[t] /\ channel' = <<>> /\ wpc' = IF tpc[t] = "appended" THEN "len" ELSE "tmp"
    BY <1>1, <1>7, <2>1
  <2>3. InFlight(tcmd[t])'
    BY <1>2, <2>2 DEF InFlight
  <2>4. Outstanding(t)'
    BY <1>1, <1>2, <1>7, <2>1, <2>3 DEF Outstanding
  <2>5. Knows(t)' /\ Expected(t)' = Expected(t) /\ (Covered(t)' => Covered(t)) /\ ~Unsynced /\ ~Unsynced' /\ W!Up
    BY <1>1, <1>2, <1>7, <2>1, <2>2 DEF Recovers, Knows, Expected, Unwritten, Covered, Unsynced, W!Up
  <2> QED BY <1>1, <1>2, <2>4, <2>5 DEF Recovers, InLog, Durable, SyncedTo, CutOff, Base
<1> QED BY <1>5, <1>6, <1>7

\* The parts of a log around its last record.
LEMMA OlderFacts ==
    ASSUME NEW w \in Seq(Recs), w # <<>>
    PROVE  /\ Len(w) \in Nat \ {0} /\ w[Len(w)] \in Recs
           /\ Older(w) \in Seq(Recs) /\ Len(w) = Len(Older(w)) + 1
           /\ \A i \in 1 .. Len(Older(w)) : Older(w)[i] = w[i]
           /\ W!Framed(w) <=> \A i \in 1 .. Len(Older(w)) : Older(w)[i].whole
<1>1. Len(w) \in Nat \ {0} /\ \A i \in 1 .. Len(w) : w[i] \in Recs
  BY RecIds, EmptySeq
<1>2. PICK n \in Nat : n = Len(w) - 1
  BY <1>1
<1>3. \A i \in 1 .. n : w[i] \in Recs
  BY <1>1, <1>2
<1>4. SubSeq(w, 1, n) \in Seq(Recs) /\ Len(SubSeq(w, 1, n)) = n /\ \A i \in 1 .. n : SubSeq(w, 1, n)[i] = w[i]
  <2>1. n \in Int /\ 1 \in Int /\ n - 1 + 1 = n
    BY <1>2
  <2>2. /\ SubSeq(w, 1, n) \in Seq(Recs) /\ Len(SubSeq(w, 1, n)) = IF 1 <= n THEN n - 1 + 1 ELSE 0
        /\ \A i \in 1 .. n - 1 + 1 : SubSeq(w, 1, n)[i] = w[1 + i - 1]
    BY <1>3, <2>1, SubSeqProperties
  <2>3. Len(SubSeq(w, 1, n)) = n
    BY <1>2, <2>2
  <2> QED BY <2>1, <2>2, <2>3
<1>5. Older(w) = SubSeq(w, 1, n)
  BY <1>2 DEF Older
<1> HIDE DEF Older
<1>6. W!Framed(w) <=> \A i \in 1 .. n : w[i].whole
  BY <1>2 DEF W!Framed
<1> QED BY <1>1, <1>2, <1>4, <1>5, <1>6

LEMMA AppendIs ==
    ASSUME NEW w \in Seq(Recs), NEW r \in Recs
    PROVE  Append(w, r) \in Seq(Recs) /\ Append(w, r) # <<>> /\ Older(Append(w, r)) = w
           /\ Len(Append(w, r)) = Len(w) + 1 /\ Append(w, r)[Len(w) + 1] = r
           /\ \A i \in 1 .. Len(w) : Append(w, r)[i] = w[i]
<1>1. PICK u : u = Append(w, r)
  OBVIOUS
<1>2. u \in Seq(Recs) /\ u # <<>> /\ Len(u) = Len(w) + 1 /\ u[Len(w) + 1] = r /\ \A i \in 1 .. Len(w) : u[i] = w[i]
  BY <1>1, AppendProperties
<1>3. Older(u) \in Seq(Recs) /\ Len(u) = Len(Older(u)) + 1 /\ \A i \in 1 .. Len(Older(u)) : Older(u)[i] = u[i]
  BY <1>2, OlderFacts
<1>4. PICK v \in Seq(Recs) : v = Older(u)
  BY <1>3
<1>5. Len(v) = Len(w)
  BY <1>2, <1>3, <1>4, RecIds
<1>6. \A i \in 1 .. Len(v) : v[i] = w[i]
  BY <1>2, <1>3, <1>4, <1>5
<1>7. v = w
  BY <1>5, <1>6, SeqEqual
<1> QED BY <1>1, <1>2, <1>4, <1>7

\* Over a framed log, its last record counts if it is whole.
LEMMA WasLast ==
    ASSUME NEW bd \in Bodies, NEW b \in SUBSET Keys, NEW w \in Seq(Recs), w # <<>>, W!Framed(w)
    PROVE  /\ W!Framed(Older(w))
           /\ Was(bd, b, w) = IF w[Len(w)].whole THEN Apply(Was(bd, b, Older(w)), bd[w[Len(w)].id])
                              ELSE Was(bd, b, Older(w))
<1>1. PICK v \in Seq(Recs) : v = Older(w)
  BY OlderFacts
<1>2. Len(w) = Len(v) + 1 /\ \A i \in 1 .. Len(v) : v[i].whole /\ w[i] = v[i]
  BY <1>1, OlderFacts
<1>3. W!Framed(v)
  BY <1>2, RecIds DEF W!Framed
<1> QED BY <1>1, <1>2, <1>3, WasNext

LEMMA WriteLenStep ==
    ASSUME StoreTypes, E!IInv, NEW t \in Threads, Recovers(t), W!WriteLen, UNCHANGED callState
    PROVE  Recovers(t)'
<1>1. /\ wpc = "len" /\ wpc' = "body" /\ wal' = Append(wal, [id |-> cmd, whole |-> FALSE])
      /\ UNCHANGED <<policy, channel, kind, done, cmd, stable, snap>>
  BY DEF W!WriteLen, W!callerVars
<1>2. UNCHANGED <<mem, body, tpc, top, tcmd, prior>>
  BY DEF callState
<1>3. cmd # W!NoCmd /\ kind[cmd] = "append" /\ wal \in Seq(Recs) /\ body \in Bodies /\ Base \in SUBSET Keys
  BY <1>1, StoreFacts, HandFacts
<1>4. /\ cmd \in W!Cmds /\ done[cmd] = "none"
      /\ tpc[t] = "appended" /\ tcmd[t] = cmd /\ channel = <<>> /\ body[cmd] = top[t]
  BY <1>3, InHandOf DEF Recovers
<1>5. PICK r \in Recs : r = [id |-> cmd, whole |-> FALSE]
  BY <1>4 DEF Recs
<1>6. PICK u \in Seq(Recs) : u = wal' /\ u # <<>> /\ Older(u) = wal /\ Len(u) = Len(wal) + 1 /\ u[Len(u)] = r
                             /\ \A i \in 1 .. Len(wal) : u[i] = wal[i]
  <2>1. PICK u : u = Append(wal, r)
    OBVIOUS
  <2>2. u \in Seq(Recs) /\ u # <<>> /\ Older(u) = wal /\ Len(u) = Len(wal) + 1 /\ u[Len(wal) + 1] = r
        /\ \A i \in 1 .. Len(wal) : u[i] = wal[i]
    BY <1>3, <2>1, AppendIs
  <2>3. u = wal'
    BY <1>1, <1>5, <2>1
  <2> QED BY <2>2, <2>3
<1>7. ~u[Len(u)].whole /\ u[Len(u)].id = cmd
  BY <1>5, <1>6
<1>8. Outstanding(t)'
  BY <1>1, <1>2 DEF Recovers, Outstanding, Quiet, InFlight
<1>9. Knows(t)'
  BY <1>1, <1>2 DEF Recovers, Knows, W!Up
<1>10. Unwritten(t) /\ Unwritten(t)' /\ ~Unsynced /\ Unsynced' /\ W!Up /\ ~Covered(t)'
  BY <1>1, <1>2, <1>4 DEF Unwritten, Unsynced, W!Up, Covered
<1>11. Base' = Base
  BY <1>1, <1>2 DEF Base
<1>12. W!Framed(wal) => Was(body, Base, wal) = prior[t]
  BY <1>10 DEF Recovers, InLog, Expected
<1>13. InLog(t)'
  <2>1. W!Framed(u) => Was(body, Base, u) = prior[t]
    BY <1>3, <1>6, <1>7, <1>12, WasLast
  <2> QED BY <1>2, <1>6, <1>10, <1>11, <1>12, <2>1 DEF InLog, Expected
<1>14. CutOff => CutOff'
  <2>1. ASSUME NEW i \in 1 .. Len(wal), done[wal[i].id] = "err" PROVE CutOff'
    <3>1. i \in 1 .. Len(u) /\ done[u[i].id] = "err"
      BY <1>3, <1>6, <2>1, RecIds
    <3> QED BY <1>1, <1>6, <3>1 DEF CutOff
  <2> QED BY <2>1 DEF CutOff
<1>15. Durable => Durable'
  BY <1>1, <1>2, <1>6, <1>10, <1>11, <1>14 DEF Durable, SyncedTo
<1> QED BY <1>1, <1>8, <1>9, <1>10, <1>13, <1>15 DEF Recovers

\* Logs that differ in their last record only.
LEMMA SameOlder ==
    ASSUME NEW w \in Seq(Recs), NEW u \in Seq(Recs), w # <<>>, Len(u) = Len(w),
           \A i \in 1 .. Len(w) : i < Len(w) => u[i] = w[i]
    PROVE  u # <<>> /\ Older(u) = Older(w)
<1>1. Len(w) \in Nat \ {0} /\ Len(u) \in Nat \ {0}
  BY OlderFacts
<1>2. u # <<>>
  BY <1>1, EmptySeq
<1>3. PICK v \in Seq(Recs) : v = Older(w) /\ Len(w) = Len(v) + 1 /\ \A i \in 1 .. Len(v) : v[i] = w[i]
  BY OlderFacts
<1>4. PICK x \in Seq(Recs) : x = Older(u) /\ Len(u) = Len(x) + 1 /\ \A i \in 1 .. Len(x) : x[i] = u[i]
  BY <1>2, OlderFacts
<1>5. Len(x) = Len(v)
  BY <1>3, <1>4, RecIds
<1>6. \A i \in 1 .. Len(x) : x[i] = v[i]
  BY <1>3, <1>4, <1>5, RecIds
<1>7. x = v
  BY <1>5, <1>6, SeqEqual
<1> QED BY <1>2, <1>3, <1>4, <1>7

LEMMA WriteBodyStep ==
    ASSUME StoreTypes, E!IInv, NEW t \in Threads, Recovers(t), W!WriteBody, UNCHANGED callState
    PROVE  Recovers(t)'
<1>1. /\ wpc = "body" /\ wal' = [wal EXCEPT ![Len(wal)] = [@ EXCEPT !.whole = TRUE]]
      /\ UNCHANGED <<policy, channel, kind, stable, snap>>
  BY DEF W!WriteBody, W!callerVars
<1>2. UNCHANGED <<mem, body, tpc, top, tcmd, prior>>
  BY DEF callState
<1>3. /\ cmd # W!NoCmd /\ kind[cmd] = "append" /\ wal # <<>> /\ wal[Len(wal)].id = cmd
      /\ wal \in Seq(Recs) /\ body \in Bodies /\ Base \in SUBSET Keys
  BY <1>1, StoreFacts, HandFacts
<1>4. /\ cmd \in W!Cmds /\ done[cmd] = "none"
      /\ tpc[t] = "appended" /\ tcmd[t] = cmd /\ channel = <<>> /\ body[cmd] = top[t]
  BY <1>3, InHandOf DEF Recovers
<1>5. PICK u \in Seq(Recs) : /\ u = wal' /\ u # <<>> /\ Older(u) = Older(wal) /\ Len(u) = Len(wal)
                             /\ u[Len(u)].whole /\ \A i \in 1 .. Len(u) : u[i].id = wal[i].id
  <2>1. Len(wal) \in 1 .. Len(wal) /\ wal[Len(wal)] \in Recs /\ Len(wal) \in Nat
    BY <1>3, OlderFacts
  <2>2. PICK r \in Recs : r = [wal[Len(wal)] EXCEPT !.whole = TRUE] /\ r.whole /\ r.id = wal[Len(wal)].id
    <3>1. PICK q \in Recs : q = wal[Len(wal)]
      BY <2>1
    <3>2. PICK r : r = [q EXCEPT !.whole = TRUE]
      OBVIOUS
    <3>3. r \in Recs /\ r.whole /\ r.id = q.id
      BY <3>2 DEF Recs
    <3> QED BY <3>1, <3>2, <3>3
  <2>3. PICK u : u = [wal EXCEPT ![Len(wal)] = r]
    OBVIOUS
  <2>4. u \in Seq(Recs) /\ Len(u) = Len(wal) /\ \A i \in 1 .. Len(wal) : u[i] = IF i = Len(wal) THEN r ELSE wal[i]
    BY <1>3, <2>1, <2>3, ExceptSeq
  <2>5. u = wal'
    BY <1>1, <2>2, <2>3
  <2>6. u # <<>> /\ Older(u) = Older(wal)
    BY <1>3, <2>1, <2>4, SameOlder
  <2> QED BY <2>1, <2>2, <2>4, <2>5, <2>6
<1>6. u[Len(u)].id = cmd
  <2>1. Len(u) \in 1 .. Len(u)
    BY <1>5, OlderFacts
  <2> QED BY <1>3, <1>5, <2>1
<1>7. Unsynced /\ W!Up
  BY <1>1 DEF Unsynced, W!Up
<1>8. Base' = Base /\ mem = Apply(prior[t], body[cmd])
  BY <1>1, <1>2, <1>4 DEF Base, Recovers, Knows
<1>9. W!Framed(Older(u)) => Was(body, Base, Older(u)) = prior[t]
  BY <1>5, <1>7 DEF Recovers, InLog
<1>10. W!Framed(u) => Was(body, Base, u) = mem
  BY <1>3, <1>5, <1>6, <1>8, <1>9, WasLast
<1>11. CASE wpc' = "sync" /\ UNCHANGED <<done, cmd>>
  <2>1. Outstanding(t)' /\ Knows(t)'
    BY <1>1, <1>2, <1>11 DEF Recovers, Outstanding, Quiet, InFlight, Knows, W!Up
  <2>2. Unsynced' /\ ~Unwritten(t)' /\ ~Covered(t)'
    BY <1>1, <1>2, <1>3, <1>4, <1>11 DEF Unsynced, Unwritten, Covered
  <2>3. InLog(t)'
    BY <1>2, <1>5, <1>8, <1>9, <1>10, <2>2 DEF InLog, Expected
  <2>4. CutOff => CutOff'
    BY <1>5, <1>11 DEF CutOff
  <2>5. Durable => Durable'
    BY <1>1, <1>2, <1>5, <1>7, <1>8, <2>2, <2>4 DEF Durable, SyncedTo
  <2> QED BY <1>1, <2>1, <2>2, <2>3, <2>5 DEF Recovers
<1>12. CASE policy # "every" /\ W!Complete(TRUE)
  <2>1. Outstanding(t)' /\ Knows(t)' /\ ~Unsynced' /\ Expected(t)' = mem
    BY <1>1, <1>3, <1>12, CompleteStep DEF Recovers
  <2>2. InLog(t)'
    BY <1>2, <1>5, <1>8, <1>10, <2>1 DEF InLog
  <2> QED BY <1>1, <1>12, <2>1, <2>2 DEF Recovers
<1> QED BY <1>11, <1>12 DEF W!WriteBody, W!promises

LEMMA SyncStep ==
    ASSUME StoreTypes, E!IInv, NEW t \in Threads, Recovers(t), W!Sync, UNCHANGED callState
    PROVE  Recovers(t)'
<1>1. /\ wpc = "sync" /\ stable' = (IF dirty THEN wal ELSE stable) /\ W!Complete(TRUE)
      /\ UNCHANGED <<policy, channel, kind, wal, snap>>
  BY DEF W!Sync, W!callerVars
<1>2. UNCHANGED <<mem, body, tpc, top, tcmd, prior>>
  BY DEF callState
<1>3. cmd # W!NoCmd /\ kind[cmd] # "checkpoint" /\ (kind[cmd] = "append" => dirty)
  BY <1>1, StoreFacts, HandFacts
<1>4. /\ Outstanding(t)' /\ Knows(t)' /\ ~Unsynced' /\ Expected(t)' = mem
      /\ \A c : done[c] = "err" => done'[c] = "err"
  BY <1>1, <1>3, CompleteStep DEF Recovers
<1>5. Expected(t) = mem /\ W!Up
  BY <1>1, <1>3, InHandOf DEF Expected, Unwritten, W!Up, Recovers
<1>6. Base' = Base
  BY <1>1, <1>2 DEF Base
<1>7. InLog(t)'
  BY <1>1, <1>2, <1>4, <1>5, <1>6 DEF Recovers, InLog
<1>8. CutOff => CutOff'
  BY <1>1, <1>4 DEF CutOff
<1>9. Durable => Durable' /\ (Covered(t)' => stable' = wal')
  <2>1. CASE kind[cmd] = "append"
    BY <1>1, <1>3, <1>4, <2>1 DEF Durable, SyncedTo
  <2>2. CASE kind[cmd] # "append"
    <3>1. ~Unsynced /\ tpc[t] = "idle"
      BY <1>1, <1>3, <2>2, InHandOf DEF Unsynced, Recovers
    <3>2. ~Covered(t)'
      BY <1>2, <3>1 DEF Covered
    <3> QED BY <1>1, <1>2, <1>4, <1>6, <1>8, <3>1, <3>2 DEF Durable, SyncedTo
  <2> QED BY <2>1, <2>2
<1> QED BY <1>1, <1>4, <1>7, <1>9 DEF Recovers

\* The writer is in a checkpoint of the caller, whose snapshot is the registry.
LEMMA InCheckpoint ==
    ASSUME StoreTypes, E!IInv, NEW t \in Threads, Recovers(t), wpc \in {"tmp", "rename", "truncate", "synclog"}
    PROVE  /\ cmd # W!NoCmd /\ cmd \in W!Cmds /\ tpc[t] = "saving" /\ body[cmd] = Snapshot(mem)
           /\ Expected(t) = mem /\ W!Up /\ ~Unsynced
           /\ policy = "every" /\ wpc # "synclog" => stable = wal
           /\ snap = cmd => Base = mem
<1>1. cmd # W!NoCmd /\ kind[cmd] = "checkpoint"
  BY StoreFacts, HandFacts
<1>2. cmd \in W!Cmds /\ tpc[t] = "saving" /\ body[cmd] = top[t]
  BY <1>1, InHandOf DEF Recovers
<1>3. body[cmd] = Snapshot(mem)
  BY <1>2 DEF Recovers, Knows
<1>4. Expected(t) = mem /\ W!Up /\ ~Unsynced
  BY <1>2 DEF Expected, Unwritten, W!Up, Unsynced
<1>5. policy = "every" /\ wpc # "synclog" => stable = wal
  BY <1>2 DEF Recovers, Covered
<1>6. snap = cmd => Base = mem
  BY <1>1, <1>3 DEF Base, Apply, Snapshot
<1> QED BY <1>1, <1>2, <1>3, <1>4, <1>5, <1>6

LEMMA CheckpointStep ==
    ASSUME StoreTypes, E!IInv, NEW t \in Threads, Recovers(t), W!WriteTmp \/ W!Rename \/ W!Truncate, UNCHANGED callState
    PROVE  Recovers(t)'
<1>1. UNCHANGED <<mem, body, tpc, top, tcmd, prior>>
  BY DEF callState
<1>2. /\ wpc \in {"tmp", "rename", "truncate"} /\ wpc' \in {"rename", "truncate", "synclog"}
      /\ UNCHANGED <<policy, channel, kind, done, cmd, stable>>
  BY DEF W!WriteTmp, W!Rename, W!Truncate, W!callerVars
<1>3. /\ cmd # W!NoCmd /\ cmd \in W!Cmds /\ tpc[t] = "saving" /\ body[cmd] = Snapshot(mem)
      /\ Expected(t) = mem /\ W!Up /\ ~Unsynced
      /\ policy = "every" => stable = wal
      /\ snap = cmd => Base = mem
  BY <1>2, InCheckpoint
<1>4. Outstanding(t)' /\ Knows(t)'
  BY <1>1, <1>2 DEF Recovers, Outstanding, Quiet, InFlight, Knows, W!Up
<1>5. Expected(t)' = mem /\ ~Unsynced'
  BY <1>1, <1>2, <1>3 DEF Expected, Unwritten, Unsynced
<1>6. W!Framed(wal) => Was(body, Base, wal) = mem
  BY <1>3 DEF Recovers, InLog
<1>7. CASE W!WriteTmp
  <2>1. UNCHANGED <<wal, snap>> /\ wpc' = "rename"
    BY <1>7 DEF W!WriteTmp
  <2>2. Base' = Base
    BY <1>1, <2>1 DEF Base
  <2>3. InLog(t)'
    BY <1>1, <1>5, <1>6, <2>1, <2>2 DEF InLog
  <2>4. policy = "every" => Durable' /\ stable' = wal'
    BY <1>2, <1>3, <1>5, <2>1 DEF Durable, SyncedTo
  <2> QED BY <1>2, <1>4, <2>3, <2>4 DEF Recovers
<1>8. CASE W!Rename
  <2>1. wal' = wal /\ snap' = cmd
    BY <1>8, HandFacts DEF W!Rename
  <2>2. Base' = mem
    BY <1>1, <1>3, <2>1 DEF Base, Apply, Snapshot
  <2>3. W!Framed(wal) => Was(body, mem, wal) = mem
    BY <1>6, WasTwice
  <2>4. InLog(t)'
    BY <1>1, <1>5, <2>1, <2>2, <2>3 DEF InLog
  <2>5. policy = "every" => Durable' /\ stable' = wal'
    BY <1>2, <1>3, <1>5, <2>1 DEF Durable, SyncedTo
  <2> QED BY <1>2, <1>4, <2>4, <2>5 DEF Recovers
<1>9. CASE W!Truncate
  <2>1. wal' = <<>> /\ snap' = snap /\ snap = cmd /\ wpc' = "synclog"
    BY <1>9, HandFacts DEF W!Truncate
  <2>2. Base' = Base /\ Base = mem
    BY <1>1, <1>3, <2>1 DEF Base
  <2>3. Was(body, Base, <<>>) = mem
    BY <2>2, StoreFacts, WasNone
  <2>4. InLog(t)'
    BY <1>1, <1>5, <2>1, <2>2, <2>3 DEF InLog
  <2>5. policy = "every" => Durable'
    BY <1>1, <1>2, <1>3, <1>5, <1>6, <2>1, <2>2 DEF Durable, SyncedTo
  <2>6. ~Covered(t)'
    BY <1>1, <1>3, <2>1 DEF Covered
  <2> QED BY <1>2, <1>4, <2>4, <2>5, <2>6 DEF Recovers
<1> QED BY <1>7, <1>8, <1>9

LEMMA SyncLogStep ==
    ASSUME StoreTypes, E!IInv, NEW t \in Threads, Recovers(t), W!SyncLog, UNCHANGED callState
    PROVE  Recovers(t)'
<1>1. /\ wpc = "synclog" /\ stable' = wal /\ W!Complete(TRUE)
      /\ UNCHANGED <<policy, channel, kind, wal, snap>>
  BY DEF W!SyncLog, W!callerVars
<1>2. UNCHANGED <<mem, body, tpc, top, tcmd, prior>>
  BY DEF callState
<1>3. cmd # W!NoCmd /\ Expected(t) = mem /\ W!Up
  BY <1>1, InCheckpoint
<1>4. Outstanding(t)' /\ Knows(t)' /\ ~Unsynced' /\ Expected(t)' = mem
  BY <1>1, <1>3, CompleteStep DEF Recovers
<1>5. Base' = Base
  BY <1>1, <1>2 DEF Base
<1>6. InLog(t)'
  BY <1>1, <1>2, <1>3, <1>4, <1>5 DEF Recovers, InLog
<1>7. Durable' /\ stable' = wal'
  BY <1>1, <1>4 DEF Durable, SyncedTo
<1> QED BY <1>4, <1>6, <1>7 DEF Recovers

\* A crash cuts off the record that was not synced.
LEMMA CrashStep ==
    ASSUME StoreTypes, E!IInv, NEW t \in Threads, Recovers(t), Crash
    PROVE  Recovers(t)'
<1>1. /\ W!Down /\ body' = body /\ tpc'[t] = "idle"
  BY DEF Crash, W!Kill, W!PowerLoss
<1>2. /\ wpc' = "down" /\ cmd' = W!NoCmd /\ channel' = <<>> /\ UNCHANGED <<policy, kind, snap>>
      /\ done' = [i \in W!Cmds |-> IF kind[i] # "none" /\ done[i] = "none" THEN "err" ELSE done[i]]
  BY <1>1 DEF W!Down
<1>3. Outstanding(t)'
  BY <1>1, <1>2 DEF Outstanding
<1>4. Knows(t)' /\ ~Covered(t)' /\ ~Unsynced' /\ ~W!Up'
  BY <1>1, <1>2 DEF Knows, Covered, Unsynced, W!Up
<1>5. InLog(t)'
  BY <1>4 DEF InLog
<1>6. Base' = Base
  BY <1>1, <1>2 DEF Base
<1>7. CASE W!PowerLoss
  <2>1. stable' = wal'
    BY <1>7 DEF W!PowerLoss
  <2> QED BY <1>3, <1>4, <1>5, <2>1 DEF Recovers, Durable, SyncedTo
<1>8. CASE W!Kill
  <2>1. UNCHANGED <<wal, stable>>
    BY <1>8 DEF W!Kill
  <2>2. wal \in Seq(Recs) /\ \A i \in 1 .. Len(wal) : wal[i].id \in W!Cmds
    BY StoreFacts, RecIds
  <2>3. CutOff => CutOff'
    BY <1>2, <2>1, <2>2 DEF CutOff
  <2>4. Unsynced => CutOff'
    <3> SUFFICES ASSUME Unsynced PROVE CutOff'
      OBVIOUS
    <3>1. kind[cmd] = "append" /\ cmd # W!NoCmd
      BY HandFacts, StoreFacts DEF Unsynced
    <3>2. cmd \in W!Cmds /\ done[cmd] = "none"
      BY <3>1, InHandOf DEF Recovers
    <3>3. PICK i \in 1 .. Len(wal) : wal[i].id = cmd
      <4>1. CASE wpc = "body"
        <5>1. wal # <<>> /\ wal[Len(wal)].id = cmd
          BY <4>1, HandFacts
        <5>2. Len(wal) \in 1 .. Len(wal)
          BY <2>2, <5>1, OlderFacts
        <5> QED BY <5>1, <5>2
      <4>2. CASE wpc = "sync"
        BY <3>1, <4>2, HandFacts
      <4> QED BY <4>1, <4>2 DEF Unsynced
    <3>4. done'[wal[i].id] = "err"
      BY <1>2, <3>1, <3>2, <3>3
    <3> QED BY <2>1, <3>4 DEF CutOff
  <2>5. Durable => Durable'
    BY <1>1, <1>4, <1>6, <2>1, <2>3, <2>4 DEF Durable, SyncedTo
  <2> QED BY <1>2, <1>3, <1>4, <1>5, <2>5 DEF Recovers
<1> QED BY <1>7, <1>8 DEF Crash

LEMMA ReplayedWas ==
    ASSUME StoreTypes, E!IInv, NEW w \in Seq(Recs)
    PROVE  Replayed(w) = Was(body, Base, w)
<1>1. body \in [W!Cmds -> Writes] /\ snap \in W!Cmds \cup {W!NoCmd} /\ W!LoadedLen(w) \in 0 .. Len(w)
  BY StoreFacts, LoadedLenType DEF Bodies
<1> QED BY <1>1, ReplayedIs DEF Was, Recs

LEMMA ReopenStep ==
    ASSUME StoreTypes, E!IInv, NEW t \in Threads, Recovers(t), Reopen
    PROVE  Recovers(t)'
<1>1. /\ wpc = "down" /\ wpc' = "recv" /\ mem' = Replayed(wal)
      /\ UNCHANGED <<policy, channel, kind, done, cmd, wal, stable, snap>>
      /\ UNCHANGED <<body, tpc, top, tcmd, prior>>
  BY DEF Reopen, W!Open, W!callerVars, W!diskVars, calls
<1>2. tpc[t] = "idle" /\ tpc'[t] = "idle"
  BY <1>1 DEF Recovers, Knows, W!Up
<1>3. mem' = Was(body, Base, wal) /\ Base' = Base
  BY <1>1, StoreFacts, ReplayedWas DEF Base
<1>4. Outstanding(t)'
  BY <1>1, <1>2 DEF Recovers, Outstanding
<1>5. Knows(t)' /\ Expected(t)' = mem' /\ ~Covered(t)' /\ ~Unsynced /\ ~Unsynced'
  BY <1>1, <1>2 DEF Knows, Expected, Unwritten, Covered, Unsynced
<1>6. InLog(t)'
  BY <1>1, <1>3, <1>5 DEF InLog
<1>7. Durable => Durable'
  BY <1>1, <1>3, <1>5 DEF Durable, SyncedTo, CutOff
<1> QED BY <1>1, <1>4, <1>5, <1>6, <1>7 DEF Recovers

-----------------------------------------------------------------------------
(* The invariant.                                                          *)
LEMMA RecoversInit ==
    ASSUME NEW t \in Threads, Init
    PROVE  OneCallerInv(t)
<1>1. /\ channel = <<>> /\ cmd = W!NoCmd /\ wpc = "recv" /\ wal = <<>> /\ stable = <<>> /\ snap = W!NoCmd
      /\ mem = {} /\ tpc[t] = "idle"
  BY DEF Init, W!Init
<1>2. Outstanding(t) /\ Knows(t) /\ ~Covered(t) /\ ~Unsynced /\ Expected(t) = mem
  BY <1>1 DEF Outstanding, Knows, Covered, Unsynced, Expected, Unwritten
<1>3. Base = {} /\ Was(body, {}, <<>>) = {}
  BY <1>1, WasNone DEF Base
<1>4. InLog(t) /\ Durable
  BY <1>1, <1>2, <1>3 DEF InLog, Durable, SyncedTo
<1> QED BY <1>2, <1>4 DEF OneCallerInv, Recovers

LEMMA FaultsStay ==
    ASSUME StoreTypes, E!IInv, [Next]_vars, faults' = 0
    PROVE  faults = 0 /\ ~W!Fail
<1>1. faults \in Nat
  BY StoreFacts
<1>2. [W!Next]_W!vars
  BY EngineStep
<1>3. faults' = faults \/ W!Fail
  BY <1>2 DEF W!Next, W!Writer, W!Call, W!Recv, W!WriteLen, W!WriteBody, W!Sync, W!WriteTmp, W!Rename, W!Truncate,
              W!SyncLog, W!Kill, W!PowerLoss, W!Down, W!Open, W!vars
<1>4. W!Fail => faults' = faults + 1
  BY DEF W!Fail
<1>5. faults + 1 # 0
  BY <1>1
<1> QED BY <1>3, <1>4, <1>5

LEMMA RecoversStep ==
    ASSUME StoreTypes, E!IInv, NEW t, Threads = {t}, OneCallerInv(t), [Next]_vars
    PROVE  OneCallerInv(t)'
<1> SUFFICES ASSUME faults' = 0 PROVE Recovers(t)'
  BY DEF OneCallerInv
<1>1. t \in Threads /\ Recovers(t) /\ ~W!Fail
  BY FaultsStay DEF OneCallerInv
<1>2. CASE \E u \in Threads : Caller(u)
  <2>1. Caller(t)
    BY <1>2
  <2> QED BY <1>1, <2>1, BeginStep, SendStep, CallSteps DEF Caller
<1>3. CASE Drop
  BY <1>1, <1>3, DropStep
<1>4. CASE Engine
  <2>1. W!Writer /\ UNCHANGED callState
    BY <1>1, <1>4 DEF Engine, store, calls, callState
  <2> QED BY <1>1, <2>1, RecvStep, WriteLenStep, WriteBodyStep, SyncStep, CheckpointStep, SyncLogStep DEF W!Writer
<1>5. CASE Crash
  BY <1>1, <1>5, CrashStep
<1>6. CASE Reopen
  BY <1>1, <1>6, ReopenStep
<1>7. CASE UNCHANGED vars
  <2>1. UNCHANGED <<policy, channel, kind, sent, done, cmd, wpc, wal, stable, snap, mem, body, tpc, top, tcmd, prior>>
    BY <1>7 DEF vars, engine, store, calls
  <2>2. Base' = Base
    BY <2>1 DEF Base
  <2>3. Outstanding(t)' /\ Knows(t)'
    BY <1>1, <2>1 DEF Recovers, Outstanding, Quiet, InFlight, Knows, W!Up
  <2>4. InLog(t)'
    BY <1>1, <2>1, <2>2 DEF Recovers, InLog, W!Up, Unsynced, Expected, Unwritten
  <2>5. policy = "every" => Durable' /\ (Covered(t)' => stable' = wal')
    BY <1>1, <2>1, <2>2 DEF Recovers, Durable, SyncedTo, CutOff, Unsynced, Covered
  <2> QED BY <2>1, <2>3, <2>4, <2>5 DEF Recovers
<1> QED BY <1>2, <1>3, <1>4, <1>5, <1>6, <1>7 DEF Next

-----------------------------------------------------------------------------
(* What a power loss can leave of a log that is synced up to v.            *)
LEMMA SyncedSurvivors ==
    ASSUME StoreTypes, E!IInv, NEW w \in W!Survivors, NEW v, v = IF Unsynced THEN Older(wal) ELSE wal, SyncedTo(v)
    PROVE  w \in {stable, v, wal} \/ (Unsynced /\ wal # <<>> /\ w = W!Tear(wal))
<1>1. wal \in Seq(Recs) /\ stable \in Seq(Recs) /\ Len(wal) \in Nat /\ Len(stable) \in Nat
  BY StoreFacts, RecIds
<1>2. Unsynced => wal # <<>>
  <2>1. wpc = "sync" /\ kind[cmd] = "append" => Len(wal) # 0
    BY <1>1, HandFacts
  <2> QED BY <1>1, <2>1, HandFacts, EmptySeq DEF Unsynced
<1>3. PICK m \in Nat : m = IF Unsynced THEN Len(wal) - 1 ELSE Len(wal)
  <2>1. CASE Unsynced
    <3>1. Len(wal) \in Nat \ {0}
      BY <1>1, <1>2, <2>1, OlderFacts
    <3>2. Len(wal) - 1 \in Nat
      BY <3>1
    <3> QED BY <2>1, <3>2
  <2>2. CASE ~Unsynced
    BY <1>1, <2>2
  <2> QED BY <2>1, <2>2
<1>4. v = SubSeq(wal, 1, m) /\ Len(v) = m /\ SubSeq(wal, 1, Len(wal)) = wal
  <2>1. PICK x \in Seq(Recs) : x = SubSeq(wal, 1, Len(wal))
        /\ Len(x) = Len(wal) /\ \A i \in 1 .. Len(wal) : x[i] = wal[i]
    BY <1>1, RecIds, SubSeqProperties
  <2>2. x = wal
    BY <1>1, <2>1, SeqEqual
  <2>3. CASE Unsynced
    <3>1. Len(wal) \in Nat /\ Len(Older(wal)) \in Nat /\ Len(wal) = Len(Older(wal)) + 1
      BY <1>1, <1>2, <2>3, OlderFacts, RecIds
    <3>2. m = Len(wal) - 1 /\ v = Older(wal)
      BY <1>3, <2>3
    <3>3. Len(Older(wal)) = m
      BY <3>1, <3>2
    <3> QED BY <2>1, <2>2, <3>2, <3>3 DEF Older
  <2>4. CASE ~Unsynced
    <3>1. m = Len(wal) /\ v = wal
      BY <1>3, <2>4
    <3> QED BY <2>1, <2>2, <3>1
  <2> QED BY <2>3, <2>4
<1>5. ASSUME NEW x \in W!Kept PROVE x = v \/ (x = wal /\ Unsynced /\ wal # <<>>)
  <2>1. PICK n \in (IF W!Extends THEN Len(stable) ELSE 0) .. Len(wal) : x = SubSeq(wal, 1, n)
    BY DEF W!Kept
  <2>2. n \in Nat /\ n <= Len(wal) /\ (W!Extends => n >= Len(stable))
    BY <1>1, <2>1
  <2>3. n >= m
    <3>1. CASE stable = v
      <4>1. Len(stable) = m /\ stable = SubSeq(wal, 1, m)
        BY <1>4, <3>1
      <4>2. Len(wal) >= m
        BY <1>1, <1>3
      <4>3. W!Extends
        BY <4>1, <4>2 DEF W!Extends
      <4> QED BY <2>2, <4>1, <4>3
    <3>2. CASE v = <<>>
      <4>1. m = 0
        BY <1>4, <3>2
      <4> QED BY <2>2, <4>1
    <3> QED BY <3>1, <3>2 DEF SyncedTo
  <2>4. n = m \/ (n = Len(wal) /\ Unsynced)
    BY <1>1, <1>3, <2>2, <2>3
  <2> QED BY <1>2, <1>4, <2>1, <2>4
<1>6. CASE w \in {stable} \cup W!Kept
  BY <1>5, <1>6
<1>7. CASE w \in {W!Tear(x) : x \in W!Kept \ {<<>>, stable}}
  <2>1. PICK x \in W!Kept : x # <<>> /\ x # stable /\ w = W!Tear(x)
    BY <1>7
  <2>2. x # v
    BY <2>1 DEF SyncedTo
  <2> QED BY <1>5, <2>1, <2>2
<1> QED BY <1>6, <1>7 DEF W!Survivors

\* Whatever a restart may find, it rebuilds the registry as it was before the write under way
\* or after it, and as it is when none is.
LEMMA RestartIs ==
    ASSUME StoreTypes, E!IInv, NEW t \in Threads, Recovers(t), W!Up, NEW w \in Restarts
    PROVE  Replayed(w) = Expected(t) \/ (Unsynced /\ Replayed(w) = prior[t])
<1>1. /\ wal \in Seq(Recs) /\ stable \in Seq(Recs) /\ body \in Bodies /\ Base \in SUBSET Keys
      /\ <<>> \in Seq(Recs)
  BY StoreFacts, EmptySeq
<1>2. W!Framed(w)
  BY DEF Restarts
<1>3. CASE w = wal
  BY <1>1, <1>2, <1>3, ReplayedWas DEF Recovers, InLog
<1>4. CASE w # wal
  <2>1. policy = "every" /\ ~CutOff /\ w \in W!Survivors
    BY <1>4 DEF Restarts
  <2>2. PICK v : v = IF Unsynced THEN Older(wal) ELSE wal
    OBVIOUS
  <2>3. SyncedTo(v)
    BY <2>1, <2>2 DEF Recovers, Durable
  <2>4. w \in {stable, v} \/ (Unsynced /\ wal # <<>> /\ w = W!Tear(wal))
    BY <1>4, <2>1, <2>2, <2>3, SyncedSurvivors
  <2>5. W!Framed(v) /\ v \in Seq(Recs) => Was(body, Base, v) = IF Unsynced THEN prior[t] ELSE Expected(t)
    BY <2>2 DEF Recovers, InLog
  <2>6. Unsynced /\ wal # <<>> => v \in Seq(Recs)
    BY <1>1, <2>2, OlderFacts
  <2>7. v \in Seq(Recs)
    BY <1>1, <2>2, <2>3 DEF SyncedTo
  <2>8. CASE w = v
    BY <1>2, <2>5, <2>7, <2>8, ReplayedWas
  <2>9. CASE w = stable /\ stable # v
    <3>1. v = <<>> /\ Was(body, Base, stable) = Base
      BY <1>2, <2>3, <2>9 DEF SyncedTo
    <3>2. W!Framed(v) /\ Was(body, Base, v) = Base
      BY <1>1, <3>1, WasNone DEF W!Framed
    <3> QED BY <1>1, <2>5, <2>7, <2>9, <3>1, <3>2, ReplayedWas
  <2>10. CASE Unsynced /\ wal # <<>> /\ w = W!Tear(wal)
    <3>1. /\ w \in Seq(Recs) /\ Len(w) = Len(wal) /\ ~w[Len(w)].whole
          /\ \A i \in 1 .. Len(wal) : i < Len(wal) => w[i] = wal[i]
      <4>1. Len(wal) \in 1 .. Len(wal) /\ wal[Len(wal)] \in Recs /\ Len(wal) \in Nat
        BY <1>1, <2>10, OlderFacts
      <4>2. PICK q \in Recs : q = wal[Len(wal)]
        BY <4>1
      <4>3. PICK r : r = [q EXCEPT !.whole = FALSE]
        OBVIOUS
      <4>4. r \in Recs /\ ~r.whole
        BY <4>3 DEF Recs
      <4>5. w = [wal EXCEPT ![Len(wal)] = r]
        BY <2>10, <4>2, <4>3 DEF W!Tear
      <4>6. w \in Seq(Recs) /\ Len(w) = Len(wal) /\ \A i \in 1 .. Len(wal) : w[i] = IF i = Len(wal) THEN r ELSE wal[i]
        BY <1>1, <4>1, <4>4, <4>5, ExceptSeq
      <4> QED BY <4>1, <4>4, <4>6
    <3>2. w # <<>> /\ Older(w) = v
      BY <1>1, <2>2, <2>10, <3>1, SameOlder
    <3>3. W!Framed(v) /\ Was(body, Base, w) = Was(body, Base, v)
      BY <1>1, <1>2, <3>1, <3>2, WasLast
    <3> QED BY <2>5, <2>7, <2>10, <3>1, <3>3, ReplayedWas
  <2> QED BY <2>4, <2>8, <2>9, <2>10
<1> QED BY <1>3, <1>4

LEMMA OneCallerIsExact ==
    ASSUME StoreTypes, E!IInv, NEW t, Threads = {t}, OneCallerInv(t)
    PROVE  RestartLosesNothing /\ CallsAreAtomic
<1>1. t \in Threads
  OBVIOUS
<1>2. ASSUME W!Up, faults = 0, tpc[t] = "idle", NEW w \in Restarts PROVE Replayed(w) = mem
  <2>1. Recovers(t) /\ Expected(t) = mem
    BY <1>2 DEF OneCallerInv, Expected, Unwritten
  <2>2. ~Unsynced
    <3>1. cmd # W!NoCmd => kind[cmd] = "shutdown"
      BY <1>2, <2>1 DEF Recovers, Outstanding
    <3> QED BY <3>1, StoreFacts, HandFacts DEF Unsynced
  <2> QED BY <1>1, <1>2, <2>1, <2>2, RestartIs
<1>3. ASSUME faults = 0, tpc[t] # "idle", NEW w \in Restarts PROVE Replayed(w) \in {mem, prior[t]}
  <2>1. Recovers(t) /\ W!Up
    BY <1>3 DEF OneCallerInv, Recovers, Knows
  <2> QED BY <1>1, <1>3, <2>1, RestartIs DEF Expected
<1> QED BY <1>2, <1>3 DEF RestartLosesNothing, CallsAreAtomic

LEMMA OneCallerInvariance ==
    ASSUME NEW t, Threads = {t}
    PROVE  Spec => []OneCallerInv(t)
<1>1. Init => OneCallerInv(t)
  BY RecoversInit
<1>2. StoreTypes /\ E!IInv /\ OneCallerInv(t) /\ [Next]_vars => OneCallerInv(t)'
  BY RecoversStep
<1> QED BY <1>1, <1>2, TypesInvariance, EngineInvariance, PTL DEF Spec

\* With one calling thread, for any registry, any number of commands and crashes and under
\* every policy, the registry a restart would rebuild between two calls is the one in memory
\* (log, checkpoint_now and replay of the file-backed stores).
THEOREM RestartIsExact == OneCaller => (Spec => []RestartLosesNothing)
<1> SUFFICES ASSUME NEW t, Threads = {t} PROVE Spec => []RestartLosesNothing
  BY DEF OneCaller
<1>1. StoreTypes /\ E!IInv /\ OneCallerInv(t) => RestartLosesNothing
  BY OneCallerIsExact
<1> QED BY <1>1, OneCallerInvariance, TypesInvariance, EngineInvariance, PTL

\* A crash in the middle of a call, in its checkpoint too, leaves the registry as it was
\* before the call or after it.
THEOREM CallsAreAllOrNothing == OneCaller => (Spec => []CallsAreAtomic)
<1> SUFFICES ASSUME NEW t, Threads = {t} PROVE Spec => []CallsAreAtomic
  BY DEF OneCaller
<1>1. StoreTypes /\ E!IInv /\ OneCallerInv(t) => CallsAreAtomic
  BY OneCallerIsExact
<1> QED BY <1>1, OneCallerInvariance, TypesInvariance, EngineInvariance, PTL
=============================================================================
