------------------------------ MODULE Reactor -------------------------------
(***************************************************************************)
(* A shard's reactor (crates/rt-core/src/reactor.rs) and the sockets that  *)
(* wait on it (crates/rt-net: stream.rs, listener.rs).                     *)
(*                                                                         *)
(* The OS reports readiness once per change, so a socket's task must never *)
(* park in a state in which the report has already been used up.  The      *)
(* shard is one thread: it polls the reactor, dispatches what came back,   *)
(* and runs tasks, one at a time; the kernel changes the sockets at any    *)
(* moment in between.  Each socket is owned by one task, which awaits one  *)
(* operation at a time.  (A token the dispatch does not know, which is     *)
(* skipped, needs a deregistration in the middle of a dispatch; the shard  *)
(* runs no task there.)                                                    *)
(***************************************************************************)
EXTENDS Integers, FiniteSets

CONSTANTS Socks,      \* the sockets of the shard
          Listeners,  \* those that accept: they only read, and park without reregister
          Capacity,   \* size of the event buffer handed to poll()
          MaxOps,     \* bound: operations started on one socket
          MaxKernel,  \* bound: readiness changes of one socket
          NoSock      \* no task is running

ASSUME ReactorAssumption ==
    /\ Listeners \subseteq Socks /\ NoSock \notin Socks
    /\ Capacity \in Nat \ {0} /\ MaxOps \in Nat /\ MaxKernel \in Nat

Dirs == {"read", "write"}

VARIABLES
    level,    \* kernel: directions in which a syscall would make progress
    peer,     \* kernel: "open"; "half" after the peer's shutdown of its sending
              \* side (reads return 0, writes still may block); "failed"
    edges,    \* kernel: sockets with an undelivered edge
    kernelOps,\* readiness changes so far, per socket
    wakers,   \* Parked.read / Parked.write: directions with a parked waker
    remembered, \* Parked.read_ready / write_ready
    batch,    \* events of the last poll() not dispatched yet
    queued,   \* the socket's task has been woken and not polled since
    running,  \* the socket whose task the shard runs, or NoSock
    tpc,      \* where the socket's task is
    op,       \* the direction of its operation
    ops       \* operations started so far, per socket

kernel == <<level, peer, kernelOps>>
slots  == <<wakers, remembered>>
tasks  == <<running, tpc, op, ops>>
vars   == <<kernel, edges, slots, batch, queued, tasks>>

Init ==
    /\ level \in [Socks -> {{}, {"write"}}]      \* a fresh stream can often be written at once
    /\ \A s \in Listeners : level[s] = {}
    /\ peer = [s \in Socks |-> "open"]
    /\ edges = {}
    /\ kernelOps = [s \in Socks |-> 0]
    /\ wakers = [s \in Socks |-> {}]
    /\ remembered = [s \in Socks |-> {}]
    /\ batch = {}
    /\ queued = [s \in Socks |-> TRUE]          \* spawned: scheduled for the first poll
    /\ running = NoSock
    /\ tpc = [s \in Socks |-> "new"]
    /\ op = [s \in Socks |-> "read"]
    /\ ops = [s \in Socks |-> 0]

-----------------------------------------------------------------------------
(* The kernel.  Any change queues an edge; what it carries is decided when *)
(* poll() collects it.                                                     *)
Arrives(s, d) ==
    /\ tpc[s] # "closed" /\ kernelOps[s] < MaxKernel
    /\ d = "write" => s \notin Listeners
    /\ kernelOps' = [kernelOps EXCEPT ![s] = @ + 1]
    /\ level' = [level EXCEPT ![s] = @ \cup {d}]
    /\ edges' = IF tpc[s] = "new" THEN edges ELSE edges \cup {s}
    /\ UNCHANGED <<peer, slots, batch, queued, tasks>>

PeerCloses(s) ==
    /\ tpc[s] # "closed" /\ peer[s] # "failed" /\ s \notin Listeners
    /\ peer' = [peer EXCEPT ![s] = IF @ = "open" THEN "half" ELSE "failed"]
    /\ edges' = IF tpc[s] = "new" THEN edges ELSE edges \cup {s}
    /\ UNCHANGED <<level, kernelOps, slots, batch, queued, tasks>>

\* What EPOLL_CTL_ADD and EPOLL_CTL_MOD report at once.
Ready(s) == level[s] # {} \/ peer[s] # "open"

\* A syscall in direction d would not return WouldBlock.
CanProceed(s, d) == d \in level[s] \/ peer[s] = "failed" \/ (peer[s] = "half" /\ d = "read")

-----------------------------------------------------------------------------
(* Reactor::poll: collect the edges, Capacity of them if there are more ... *)
Idle == running = NoSock /\ batch = {}

\* mio's is_read_closed: a half-closed peer counts as failed, too.
Event(s) == [sock |-> s, dirs |-> level[s], fail |-> peer[s] # "open"]

Poll(E) ==
    /\ Idle /\ E # {} /\ E \subseteq edges
    /\ E = edges \/ Cardinality(E) = Capacity
    /\ batch' = {Event(s) : s \in E}
    /\ edges' = edges \ E
    /\ UNCHANGED <<kernel, slots, queued, tasks>>

(* ... and dispatch each: wake the waiter of every direction that became   *)
(* ready, remember the edge where nobody waits.  A failure counts for both *)
(* directions.                                                             *)
\* Variants of Woken for the mutation runs.
WokenWithHup(e)     == e.dirs \cup (IF e.fail THEN {"hup"} ELSE {})
WokenWithoutFail(e) == e.dirs
WokenElseIf(e)      == IF e.fail THEN Dirs ELSE IF "read" \in e.dirs THEN {"read"} ELSE e.dirs

Woken(e) == IF e.fail THEN Dirs ELSE e.dirs

Dispatch(e) ==
    /\ e \in batch
    /\ batch' = batch \ {e}
    /\ wakers' = [wakers EXCEPT ![e.sock] = @ \ Woken(e)]
    /\ remembered' = [remembered EXCEPT ![e.sock] = @ \cup (Woken(e) \ wakers[e.sock])]
    /\ queued' = [queued EXCEPT ![e.sock] = @ \/ Woken(e) \cap wakers[e.sock] # {}]
    /\ UNCHANGED <<kernel, edges, tasks>>

-----------------------------------------------------------------------------
(* The shard polls a task that has been woken.  A Readiness polled a       *)
(* second time is ready, whoever woke the task: the operation retries.     *)
(* A first poll registers the socket, which reports what is ready already. *)
Resume(s) ==
    /\ Idle /\ queued[s] /\ tpc[s] \in {"new", "pending"}
    /\ running' = s
    /\ queued' = [queued EXCEPT ![s] = FALSE]
    /\ tpc' = [tpc EXCEPT ![s] = IF @ = "new" THEN "run" ELSE "try"]
    /\ edges' = IF tpc[s] = "new" /\ Ready(s) THEN edges \cup {s} ELSE edges
    /\ UNCHANGED <<kernel, slots, batch, op, ops>>

(* A timeout around the operation drops it; its waker stays parked.        *)
Cancel(s) ==
    /\ Idle /\ tpc[s] = "pending"
    /\ running' = s
    /\ queued' = [queued EXCEPT ![s] = FALSE]
    /\ tpc' = [tpc EXCEPT ![s] = "run"]
    /\ UNCHANGED <<kernel, edges, slots, batch, op, ops>>

(* Something else the task waits on wakes it.                              *)
SpuriousWake(s) ==
    /\ Idle /\ tpc[s] = "pending" /\ ~queued[s] /\ ops[s] < MaxOps
    /\ ops' = [ops EXCEPT ![s] = @ + 1]
    /\ queued' = [queued EXCEPT ![s] = TRUE]
    /\ UNCHANGED <<kernel, edges, slots, batch, running, tpc, op>>

StartOp(s, d) ==
    /\ running = s /\ tpc[s] = "run" /\ ops[s] < MaxOps
    /\ d = "write" => s \notin Listeners
    /\ ops' = [ops EXCEPT ![s] = @ + 1]
    /\ op' = [op EXCEPT ![s] = d]
    \* connect(), the first operation of an outgoing stream, parks before it looks.
    /\ \E first \in IF d = "write" /\ ops[s] = 0 THEN {"try", "rereg"} ELSE {"try"} :
          tpc' = [tpc EXCEPT ![s] = first]
    /\ UNCHANGED <<kernel, edges, slots, batch, queued, running>>

(* The syscall.  Progress may leave the direction ready or use it up.      *)
Try(s) ==
    /\ running = s /\ tpc[s] = "try"
    /\ \/ /\ CanProceed(s, op[s])
          /\ tpc' = [tpc EXCEPT ![s] = "run"]
          /\ \E spent \in SUBSET {op[s]} : level' = [level EXCEPT ![s] = @ \ spent]
       \/ /\ ~CanProceed(s, op[s])
          /\ tpc' = [tpc EXCEPT ![s] = IF s \in Listeners THEN "park" ELSE "rereg"]
          /\ UNCHANGED level
    /\ UNCHANGED <<peer, kernelOps, edges, slots, batch, queued, running, op, ops>>

(* AsyncTcpStream::park: reregister, which re-delivers what is ready ...   *)
Reregister(s) ==
    /\ running = s /\ tpc[s] = "rereg"
    /\ edges' = IF Ready(s) THEN edges \cup {s} ELSE edges
    /\ tpc' = [tpc EXCEPT ![s] = "park"]
    /\ UNCHANGED <<kernel, slots, batch, queued, running, op, ops>>

(* ... then Reactor::park: a remembered edge wakes at once, otherwise the  *)
(* waker is stored.  The task returns Pending.                             *)
\* Variant for the mutation runs: the remembered edge is not consumed.
ParkKeepsFlag(s) ==
    /\ running = s /\ tpc[s] = "park"
    /\ IF op[s] \in remembered[s]
       THEN queued' = [queued EXCEPT ![s] = TRUE] /\ UNCHANGED slots
       ELSE /\ wakers' = [wakers EXCEPT ![s] = @ \cup {op[s]}]
            /\ UNCHANGED <<remembered, queued>>
    /\ tpc' = [tpc EXCEPT ![s] = "pending"]
    /\ running' = NoSock
    /\ UNCHANGED <<kernel, edges, batch, op, ops>>

Park(s) ==
    /\ running = s /\ tpc[s] = "park"
    /\ IF op[s] \in remembered[s]
       THEN /\ remembered' = [remembered EXCEPT ![s] = @ \ {op[s]}]
            /\ wakers' = [wakers EXCEPT ![s] = @ \ {op[s]}]
            /\ queued' = [queued EXCEPT ![s] = TRUE]
       ELSE /\ wakers' = [wakers EXCEPT ![s] = @ \cup {op[s]}]
            /\ UNCHANGED <<remembered, queued>>
    /\ tpc' = [tpc EXCEPT ![s] = "pending"]
    /\ running' = NoSock
    /\ UNCHANGED <<kernel, edges, batch, op, ops>>

(* The task finishes: dropping the socket deregisters it, wakers included. *)
Close(s) ==
    /\ running = s /\ tpc[s] = "run"
    /\ tpc' = [tpc EXCEPT ![s] = "closed"]
    /\ wakers' = [wakers EXCEPT ![s] = {}]
    /\ remembered' = [remembered EXCEPT ![s] = {}]
    /\ edges' = edges \ {s}
    /\ running' = NoSock
    /\ UNCHANGED <<kernel, batch, queued, op, ops>>

Task(s) == Try(s) \/ Reregister(s) \/ Park(s) \/ Close(s) \/ \E d \in Dirs : StartOp(s, d)

Next ==
    \/ \E E \in SUBSET edges : Poll(E)
    \/ \E e \in batch : Dispatch(e)
    \/ \E s \in Socks : \/ Task(s) \/ Resume(s) \/ Cancel(s)
                        \/ SpuriousWake(s) \/ PeerCloses(s)
                        \/ \E d \in Dirs : Arrives(s, d)

Spec == Init /\ [][Next]_vars

(* The shard keeps running.  Its loop polls the reactor again and again    *)
(* and drains a first-in first-out queue in between (module Executor), so  *)
(* a queued task that keeps having its chance is run, and the kernel hands *)
(* out edges in their order, so one that is not collected now comes up     *)
(* later: strong fairness.  Nothing obliges a socket to become ready, a    *)
(* timeout to fire or a spurious wake to happen.                           *)
Fairness ==
    /\ WF_vars(\E e \in batch : Dispatch(e))
    /\ \A s \in Socks : /\ SF_vars(\E E \in SUBSET edges : s \in E /\ Poll(E))
                        /\ SF_vars(Resume(s)) /\ WF_vars(Task(s))

FairSpec == Spec /\ Fairness

-----------------------------------------------------------------------------
TypeOK ==
    /\ level \in [Socks -> SUBSET Dirs]
    /\ peer \in [Socks -> {"open", "half", "failed"}]
    /\ edges \subseteq Socks
    /\ kernelOps \in [Socks -> 0 .. MaxKernel]
    /\ wakers \in [Socks -> SUBSET Dirs] /\ remembered \in [Socks -> SUBSET Dirs]
    /\ batch \subseteq [sock : Socks, dirs : SUBSET Dirs, fail : BOOLEAN]
    /\ queued \in [Socks -> BOOLEAN]
    /\ running \in Socks \cup {NoSock}
    /\ tpc \in [Socks -> {"new", "run", "try", "rereg", "park", "pending", "closed"}]
    /\ op \in [Socks -> Dirs]
    /\ ops \in [Socks -> 0 .. MaxOps]

(* The claim of reactor.rs:32-37 and stream.rs:111-113: no lost wakeup.  A *)
(* task asleep in a direction in which its syscall would now go through    *)
(* has its waker in the slot of that direction, and the report that will   *)
(* take it from there is still to come: an edge in the kernel, or an event *)
(* of the running dispatch that wakes that direction.                      *)
NoLostEdge ==
    \A s \in Socks :
        tpc[s] = "pending" /\ ~queued[s] /\ CanProceed(s, op[s]) =>
            /\ op[s] \in wakers[s]
            /\ \/ s \in edges
               \/ \E e \in batch : e.sock = s /\ op[s] \in Woken(e)

(* What NoLostEdge is for: a waiter whose syscall would go through is run  *)
(* again, with any capacity of the event buffer and however many stale     *)
(* wakers and remembered edges earlier, cancelled operations left behind.  *)
ReadyWaiterRuns ==
    \A s \in Socks : tpc[s] = "pending" /\ CanProceed(s, op[s]) ~> running = s

Resting(s) == running # s /\ ~queued[s]

(* "A spurious wake just costs one extra retry" (stream.rs:15), "a stale   *)
(* flag just costs one retry" (reactor.rs:131-132): once nothing happens   *)
(* outside, every task comes to rest instead of waking itself forever      *)
(* through remembered edges and re-registration.                           *)
EveryWaiterRests == \A s \in Socks : <>[]Resting(s)

(* The same for sockets whose peer has not shut down its sending side.     *)
OpenWaiterRests == \A s \in Socks : []<>(peer[s] = "half") \/ <>[]Resting(s)
=============================================================================
