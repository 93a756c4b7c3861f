---------------------------- MODULE ReactorProofs ---------------------------
(***************************************************************************)
(* TLAPS proofs about Reactor: type correctness, and that no readiness     *)
(* edge is lost, for any number of sockets and any event buffer.           *)
(***************************************************************************)
EXTENDS Reactor, TLAPS

(* The shard runs one task at a time, and none between two events of one   *)
(* dispatch; only the running task is outside its resting states.          *)
OneAtATime ==
    /\ batch # {} => running = NoSock
    /\ \A s \in Socks : tpc[s] \in {"run", "try", "rereg", "park"} => running = s

\* The report that will wake the waiter of s in direction d is still to come.
Coming(s, d) == s \in edges \/ \E e \in batch : e.sock = s /\ d \in Woken(e)

(* The strengthening of NoLostEdge: it holds from the moment the task has  *)
(* decided to park, and a sleeping task's waker is in its slot whether or  *)
(* not the syscall could go through.                                       *)
EdgeComing ==
    \A s \in Socks :
        /\ tpc[s] = "park" /\ CanProceed(s, op[s]) => Coming(s, op[s])
        /\ tpc[s] = "pending" /\ ~queued[s] =>
              op[s] \in wakers[s] /\ (CanProceed(s, op[s]) => Coming(s, op[s]))

IInv == TypeOK /\ OneAtATime /\ EdgeComing

USE DEF Dirs

LEMMA TypeInit == Init => TypeOK
BY ReactorAssumption DEF Init, TypeOK

LEMMA EventTyped ==
    ASSUME TypeOK, NEW s \in Socks
    PROVE  Event(s) \in [sock : Socks, dirs : SUBSET Dirs, fail : BOOLEAN]
BY DEF TypeOK, Event

LEMMA WokenDirs ==
    ASSUME TypeOK, NEW e \in batch
    PROVE  Woken(e) \subseteq Dirs /\ e.sock \in Socks
BY DEF TypeOK, Woken

LEMMA TypeStep == TypeOK /\ [Next]_vars => TypeOK'
<1> SUFFICES ASSUME TypeOK, [Next]_vars PROVE TypeOK'
  OBVIOUS
<1> USE ReactorAssumption
<1>1. ASSUME NEW s \in Socks, Try(s) \/ Reregister(s) \/ Park(s) \/ Close(s) PROVE TypeOK'
  <2>1. CASE Try(s)         BY <2>1 DEF Try, TypeOK, slots
  <2>2. CASE Reregister(s)  BY <2>2 DEF Reregister, TypeOK, kernel, slots
  <2>3. CASE Park(s)
    <3>1. op[s] \in Dirs
      BY DEF TypeOK
    <3>2. wakers' \in [Socks -> SUBSET Dirs] /\ remembered' \in [Socks -> SUBSET Dirs]
      <4>1. CASE op[s] \in remembered[s]  BY <2>3, <4>1 DEF Park, TypeOK
      <4>2. CASE op[s] \notin remembered[s]
        <5>1. wakers[s] \cup {op[s]} \in SUBSET Dirs
          BY <3>1 DEF TypeOK
        <5> QED  BY <2>3, <4>2, <5>1 DEF Park, TypeOK
      <4> QED  BY <4>1, <4>2
    <3>3. queued' \in [Socks -> BOOLEAN]
      BY <2>3 DEF Park, TypeOK
    <3> QED  BY <2>3, <3>2, <3>3 DEF Park, TypeOK, kernel
  <2>4. CASE Close(s)       BY <2>4 DEF Close, TypeOK, kernel
  <2> QED  BY <1>1, <2>1, <2>2, <2>3, <2>4
<1>2. ASSUME NEW s \in Socks, NEW d \in Dirs, StartOp(s, d) PROVE TypeOK'
  BY <1>2 DEF StartOp, TypeOK, kernel, slots
<1>3. ASSUME NEW s \in Socks, Resume(s) \/ Cancel(s) \/ SpuriousWake(s)
      PROVE  TypeOK'
  <2>1. CASE Resume(s)        BY <2>1 DEF Resume, TypeOK, kernel, slots
  <2>2. CASE Cancel(s)        BY <2>2 DEF Cancel, TypeOK, kernel, slots
  <2>3. CASE SpuriousWake(s)  BY <2>3 DEF SpuriousWake, TypeOK, kernel, slots
  <2> QED  BY <1>3, <2>1, <2>2, <2>3
<1>4. ASSUME NEW s \in Socks, PeerCloses(s) PROVE TypeOK'
  BY <1>4 DEF PeerCloses, TypeOK, slots, tasks
<1>5. ASSUME NEW s \in Socks, NEW d \in Dirs, Arrives(s, d) PROVE TypeOK'
  BY <1>5 DEF Arrives, TypeOK, slots, tasks
<1>6. ASSUME NEW E \in SUBSET edges, Poll(E) PROVE TypeOK'
  <2>1. \A s \in E : Event(s) \in [sock : Socks, dirs : SUBSET Dirs, fail : BOOLEAN]
    BY EventTyped DEF TypeOK
  <2> QED  BY <1>6, <2>1 DEF Poll, TypeOK, kernel, slots, tasks
<1>7. ASSUME NEW e \in batch, Dispatch(e) PROVE TypeOK'
  BY <1>7, WokenDirs DEF Dispatch, TypeOK, kernel, tasks
<1>8. CASE UNCHANGED vars
  BY <1>8 DEF vars, kernel, slots, tasks, TypeOK
<1> QED  BY <1>1, <1>2, <1>3, <1>4, <1>5, <1>6, <1>7, <1>8 DEF Next, Task

-----------------------------------------------------------------------------
LEMMA OneStep == TypeOK /\ OneAtATime /\ [Next]_vars => OneAtATime'
<1> SUFFICES ASSUME TypeOK, OneAtATime, [Next]_vars PROVE OneAtATime'
  OBVIOUS
<1> USE ReactorAssumption
<1>1. ASSUME NEW s \in Socks, Try(s) \/ Reregister(s) \/ Park(s) \/ Close(s) PROVE OneAtATime'
  BY <1>1 DEF Try, Reregister, Park, Close, TypeOK, OneAtATime
<1>2. ASSUME NEW s \in Socks, NEW d \in Dirs, StartOp(s, d) PROVE OneAtATime'
  BY <1>2 DEF StartOp, TypeOK, OneAtATime
<1>3. ASSUME NEW s \in Socks, Resume(s) \/ Cancel(s) \/ SpuriousWake(s)
      PROVE  OneAtATime'
  BY <1>3 DEF Resume, Cancel, SpuriousWake, Idle, tasks, TypeOK, OneAtATime
<1>4. ASSUME NEW s \in Socks, PeerCloses(s) PROVE OneAtATime'
  BY <1>4 DEF PeerCloses, tasks, OneAtATime
<1>5. ASSUME NEW s \in Socks, NEW d \in Dirs, Arrives(s, d) PROVE OneAtATime'
  BY <1>5 DEF Arrives, tasks, OneAtATime
<1>6. ASSUME NEW E \in SUBSET edges, Poll(E) PROVE OneAtATime'
  BY <1>6 DEF Poll, Idle, tasks, OneAtATime
<1>7. ASSUME NEW e \in batch, Dispatch(e) PROVE OneAtATime'
  BY <1>7 DEF Dispatch, tasks, OneAtATime
<1>8. CASE UNCHANGED vars
  BY <1>8 DEF vars, tasks, OneAtATime
<1> QED  BY <1>1, <1>2, <1>3, <1>4, <1>5, <1>6, <1>7, <1>8 DEF Next, Task

-----------------------------------------------------------------------------
\* A collected edge becomes an event that wakes every direction that can proceed.
LEMMA CollectedWakes ==
    ASSUME TypeOK, NEW s \in Socks, NEW d \in Dirs, CanProceed(s, d)
    PROVE  Event(s).sock = s /\ d \in Woken(Event(s))
BY DEF TypeOK, CanProceed, Event, Woken

LEMMA EdgeStep == IInv /\ [Next]_vars => EdgeComing'
<1> SUFFICES ASSUME IInv, [Next]_vars PROVE EdgeComing'
  OBVIOUS
<1> USE ReactorAssumption DEF IInv
<1>1. ASSUME NEW s \in Socks, Try(s) PROVE EdgeComing'
  BY <1>1 DEF Try, slots, OneAtATime, TypeOK, EdgeComing, CanProceed, Coming
<1>2. ASSUME NEW s \in Socks, Reregister(s) PROVE EdgeComing'
  BY <1>2 DEF Reregister, kernel, slots, TypeOK, EdgeComing, CanProceed, Coming, Ready
<1>3. ASSUME NEW s \in Socks, Park(s) PROVE EdgeComing'
  BY <1>3 DEF Park, kernel, TypeOK, EdgeComing, CanProceed, Coming
<1>4. ASSUME NEW s \in Socks, Close(s) PROVE EdgeComing'
  BY <1>4 DEF Close, kernel, TypeOK, EdgeComing, CanProceed, Coming
<1>5. ASSUME NEW s \in Socks, NEW d \in Dirs, StartOp(s, d) PROVE EdgeComing'
  BY <1>5 DEF StartOp, kernel, slots, TypeOK, EdgeComing, CanProceed, Coming
<1>6. ASSUME NEW s \in Socks, Resume(s) PROVE EdgeComing'
  BY <1>6 DEF Resume, kernel, slots, TypeOK, EdgeComing, CanProceed, Coming
<1>7. ASSUME NEW s \in Socks, Cancel(s) PROVE EdgeComing'
  BY <1>7 DEF Cancel, kernel, slots, TypeOK, EdgeComing, CanProceed, Coming
<1>8. ASSUME NEW s \in Socks, SpuriousWake(s) PROVE EdgeComing'
  BY <1>8 DEF SpuriousWake, kernel, slots, TypeOK, EdgeComing, CanProceed, Coming
<1>9. ASSUME NEW s \in Socks, PeerCloses(s) PROVE EdgeComing'
  BY <1>9 DEF PeerCloses, slots, tasks, TypeOK, EdgeComing, CanProceed, Coming
<1>10. ASSUME NEW s \in Socks, NEW d \in Dirs, Arrives(s, d) PROVE EdgeComing'
  BY <1>10 DEF Arrives, slots, tasks, TypeOK, EdgeComing, CanProceed, Coming
<1>11. ASSUME NEW E \in SUBSET edges, Poll(E) PROVE EdgeComing'
  <2>1. ASSUME NEW s \in Socks, Coming(s, op[s]), CanProceed(s, op[s]) PROVE Coming(s, op[s])'
    <3>1. op[s] \in Dirs /\ batch = {}
      BY <1>11 DEF TypeOK, Poll, Idle
    <3>2. CASE s \in E
      <4>1. Event(s) \in batch' /\ Event(s).sock = s /\ op[s] \in Woken(Event(s))
        BY <1>11, <3>1, <3>2, <2>1, CollectedWakes DEF Poll
      <4> QED  BY <4>1, <1>11 DEF Coming, Poll, tasks
    <3>3. CASE s \notin E
      BY <3>1, <3>3, <2>1, <1>11 DEF Coming, Poll, tasks
    <3> QED  BY <3>2, <3>3
  <2> QED  BY <1>11, <2>1 DEF Poll, kernel, slots, tasks, TypeOK, EdgeComing, CanProceed
<1>12. ASSUME NEW e \in batch, Dispatch(e) PROVE EdgeComing'
  <2>1. \A s \in Socks : tpc[s] # "park"
    BY ReactorAssumption DEF OneAtATime, TypeOK
  <2>2. ASSUME NEW s \in Socks, tpc[s] = "pending", ~queued'[s]
        PROVE  (op[s] \in wakers[s] /\ (CanProceed(s, op[s]) => Coming(s, op[s])))'
    <3>1. ~queued[s] /\ op[s] \in wakers[s] /\ (CanProceed(s, op[s]) => Coming(s, op[s]))
      BY <1>12, <2>2 DEF Dispatch, TypeOK, EdgeComing
    <3>2. e.sock = s => op[s] \notin Woken(e)
      BY <1>12, <2>2, <3>1, WokenDirs DEF Dispatch, TypeOK
    <3> QED  BY <1>12, <3>1, <3>2, WokenDirs
             DEF Dispatch, kernel, tasks, TypeOK, CanProceed, Coming
  <2> QED  BY <1>12, <2>1, <2>2 DEF Dispatch, tasks, EdgeComing
<1>13. CASE UNCHANGED vars
  BY <1>13 DEF vars, kernel, slots, tasks, EdgeComing, CanProceed, Coming
<1> QED  BY <1>1, <1>2, <1>3, <1>4, <1>5, <1>6, <1>7, <1>8, <1>9, <1>10, <1>11, <1>12,
            <1>13 DEF Next, Task

-----------------------------------------------------------------------------
LEMMA InvInit == Init => IInv
<1> SUFFICES ASSUME Init PROVE IInv
  OBVIOUS
<1>1. TypeOK
  BY TypeInit
<1>2. OneAtATime /\ EdgeComing
  BY DEF Init, OneAtATime, EdgeComing
<1> QED  BY <1>1, <1>2 DEF IInv

LEMMA InvStep == IInv /\ [Next]_vars => IInv'
BY TypeStep, OneStep, EdgeStep DEF IInv

LEMMA Invariant == Spec => []IInv
BY InvInit, InvStep, PTL DEF Spec

(* Every step of the reactor and of the sockets keeps the variables in     *)
(* their types, for any number of sockets.                                 *)
THEOREM TypeCorrect == Spec => []TypeOK
<1>1. IInv => TypeOK
  BY DEF IInv
<1> QED  BY <1>1, Invariant, PTL

(* No readiness edge is lost: a sleeping task whose syscall would go       *)
(* through has its waker in place and a report on its way, for any number  *)
(* of sockets, any buffer capacity and any history of cancelled and        *)
(* repeated operations.                                                    *)
THEOREM NoEdgeIsLost == Spec => []NoLostEdge
<1>1. IInv => NoLostEdge
  BY DEF IInv, EdgeComing, NoLostEdge, Coming
<1> QED  BY <1>1, Invariant, PTL
=============================================================================
