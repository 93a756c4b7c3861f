------------------------------- MODULE Shards -------------------------------
(***************************************************************************)
(* The life of the server process: crates/rt-net/src/shard.rs, started by  *)
(* KernwayApp::run and stopped by crates/rt-core/src/sys/signal.rs.  The   *)
(* main thread binds one listener per shard, starts the shard threads and  *)
(* joins them in order.  A shard accepts until the shutdown signal, then   *)
(* closes its listener and drains: it polls its task count until it is     *)
(* zero or the deadline has passed.  What a connection does is left to     *)
(* module Connection; here it is served until it finishes.                 *)
(***************************************************************************)
EXTENDS Naturals, FiniteSets

CONSTANTS NumShards,   \* ShardConfig.shards
          Clients,     \* connections that may come in
          DrainTicks   \* ShardConfig.drain_timeout

ASSUME ShardsAssumption == NumShards \in Nat \ {0} /\ DrainTicks \in Nat

ShardIds == 1 .. NumShards

VARIABLES
    shard,      \* where each shard is
    listening,  \* shards whose listener is open
    conn,       \* where each connection is
    home,       \* the shard whose listener a connection reached (0: none)
    left,       \* what is left of each shard's drain timeout
    main,       \* the main thread: binding, starting or joining shard n, or back
    next,       \* n
    signal,     \* Shutdown's flag
    watcher,    \* signal.rs: waiting for an interrupt, restored, or called back
    interrupted \* INTERRUPTED

shardVars == <<shard, listening, conn, home, left, main, next, signal, watcher, interrupted>>

Ended == {"ok", "err", "panic"}
Running(s) == shard[s] \in {"accept", "check", "closing", "drain"}
Tasks(s) == {c \in Clients : home[c] = s /\ conn[c] = "serving"}
Backlog(s) == {c \in Clients : home[c] = s /\ conn[c] = "queued"}

ShardsInit ==
    /\ shard = [s \in ShardIds |-> "unborn"] /\ listening = {}
    /\ conn = [c \in Clients |-> "away"] /\ home = [c \in Clients |-> 0]
    /\ left = [s \in ShardIds |-> DrainTicks]
    /\ main = "bind" /\ next = 1 /\ signal = FALSE
    /\ watcher = "waiting" /\ interrupted = FALSE

-----------------------------------------------------------------------------
(* The main thread: bootstrap_shards, run_shards_with_shutdown.            *)
Bind ==
    /\ main = "bind"
    /\ \/ listening' = ShardIds /\ main' = "start"
       \/ listening' = {} /\ main' = "err"
    /\ UNCHANGED <<shard, conn, home, left, next, signal, watcher, interrupted>>

\* A thread that cannot be started makes run return; the shards already started go on.
StartShard ==
    /\ main = "start"
    /\ \/ /\ shard' = [shard EXCEPT ![next] = "accept"]
          /\ main' = IF next = NumShards THEN "join" ELSE "start"
          /\ next' = IF next = NumShards THEN 1 ELSE next + 1
          /\ UNCHANGED <<listening, conn>>
       \/ /\ main' = "err"
          /\ listening' = listening \ (next .. NumShards)
          /\ conn' = [c \in Clients |-> IF conn[c] = "queued" /\ home[c] >= next THEN "reset" ELSE conn[c]]
          /\ UNCHANGED <<shard, next>>
    /\ UNCHANGED <<home, left, signal, watcher, interrupted>>

\* Shards are joined in order: shard 2's failure waits for shard 1 to end.
Join ==
    /\ main = "join" /\ shard[next] \in Ended
    /\ main' = IF shard[next] # "ok" THEN "err" ELSE IF next = NumShards THEN "ok" ELSE "join"
    /\ next' = IF main' = "join" THEN next + 1 ELSE next
    /\ UNCHANGED <<shard, listening, conn, home, left, signal, watcher, interrupted>>

Main == Bind \/ StartShard \/ Join

-----------------------------------------------------------------------------
(* shard_main.  A poll of the accept loop tries accept before the signal.  *)
Accept(s) ==
    /\ shard[s] = "accept"
    /\ IF Backlog(s) = {}
       THEN shard' = [shard EXCEPT ![s] = "check"] /\ UNCHANGED conn
       ELSE /\ \E c \in Backlog(s) : conn' = [conn EXCEPT ![c] = "serving"]
            /\ UNCHANGED shard
    /\ UNCHANGED <<listening, home, left, main, next, signal, watcher, interrupted>>

CheckSignal(s) ==
    /\ shard[s] = "check"
    /\ shard' = [shard EXCEPT ![s] = IF signal THEN "closing" ELSE "accept"]
    /\ UNCHANGED <<listening, conn, home, left, main, next, signal, watcher, interrupted>>

\* drop(listener): a connection that reached it meanwhile is reset.
CloseListener(s) ==
    /\ shard[s] = "closing"
    /\ shard' = [shard EXCEPT ![s] = "drain"]
    /\ listening' = listening \ {s}
    /\ conn' = [c \in Clients |-> IF c \in Backlog(s) THEN "reset" ELSE conn[c]]
    /\ UNCHANGED <<home, left, main, next, signal, watcher, interrupted>>

\* The thread ends: its executor is dropped with the tasks in it, and its listener if open.
End(s, how) ==
    /\ shard' = [shard EXCEPT ![s] = how]
    /\ listening' = listening \ {s}
    /\ conn' = [c \in Clients |-> CASE c \in Tasks(s)   -> "dropped"
                                    [] c \in Backlog(s) -> "reset"
                                    [] OTHER            -> conn[c]]

\* Variants for the mutation runs: the drain does not wait; it has no deadline.
DrainAtOnce(s) ==
    /\ shard[s] = "drain"
    /\ End(s, "ok")
    /\ UNCHANGED <<home, left, main, next, signal, watcher, interrupted>>

DrainForever(s) ==
    /\ shard[s] = "drain" /\ Tasks(s) = {}
    /\ End(s, "ok")
    /\ UNCHANGED <<home, left, main, next, signal, watcher, interrupted>>

Drain(s) ==
    /\ shard[s] = "drain" /\ (Tasks(s) = {} \/ left[s] = 0)
    /\ End(s, "ok")
    /\ UNCHANGED <<home, left, main, next, signal, watcher, interrupted>>

\* accept() returns an error that ends the loop, or a task outside the handler panics.
Fail(s) ==
    /\ Running(s)
    /\ \/ shard[s] = "accept" /\ End(s, "err")
       \/ Tasks(s) # {} /\ End(s, "panic")
    /\ UNCHANGED <<home, left, main, next, signal, watcher, interrupted>>

\* A connection is served to its end by the executor of its shard.
Served(c) ==
    /\ conn[c] = "serving" /\ Running(home[c])
    /\ conn' = [conn EXCEPT ![c] = "done"]
    /\ UNCHANGED <<shard, listening, home, left, main, next, signal, watcher, interrupted>>

Elapse(s) ==
    /\ shard[s] = "drain" /\ left[s] > 0
    /\ left' = [left EXCEPT ![s] = @ - 1]
    /\ UNCHANGED <<shard, listening, conn, home, main, next, signal, watcher, interrupted>>

Shard(s) == Accept(s) \/ CheckSignal(s) \/ CloseListener(s) \/ Drain(s) \/ Elapse(s)

-----------------------------------------------------------------------------
(* The outside: clients, and interrupts.  SO_REUSEPORT gives a connection  *)
(* to one of the open listeners.                                           *)
Connect(c) ==
    /\ conn[c] = "away"
    /\ IF listening = {}
       THEN /\ main \notin {"bind", "start"}
            /\ conn' = [conn EXCEPT ![c] = "refused"] /\ UNCHANGED home
       ELSE \E s \in listening :
              conn' = [conn EXCEPT ![c] = "queued"] /\ home' = [home EXCEPT ![c] = s]
    /\ UNCHANGED <<shard, listening, left, main, next, signal, watcher, interrupted>>

\* The handler stores a flag; once the watcher has restored the default disposition, an
\* interrupt kills the process.
Interrupt ==
    /\ main \notin {"bind", "ok", "err"}
    /\ \/ /\ watcher = "waiting" /\ ~interrupted /\ interrupted' = TRUE
          /\ UNCHANGED <<shard, listening, conn, main>>
       \/ /\ watcher # "waiting" /\ main' = "killed" /\ listening' = {}
          /\ shard' = [s \in ShardIds |-> "gone"]
          /\ conn' = [c \in Clients |-> IF conn[c] \in {"queued", "serving"} THEN "reset" ELSE conn[c]]
          /\ UNCHANGED interrupted
    /\ UNCHANGED <<home, left, next, signal, watcher>>

\* The watcher thread: restore, then the callback, Shutdown::trigger.
Watch ==
    /\ main # "killed" /\ interrupted
    /\ \/ watcher = "waiting" /\ watcher' = "restored" /\ UNCHANGED signal
       \/ watcher = "restored" /\ watcher' = "called" /\ signal' = TRUE
    /\ UNCHANGED <<shard, listening, conn, home, left, main, next, interrupted>>

ShardsNext ==
    \/ Main \/ Watch \/ Interrupt
    \/ \E s \in ShardIds : Shard(s) \/ Fail(s)
    \/ \E c \in Clients : Connect(c) \/ Served(c)

ShardsSpec == ShardsInit /\ [][ShardsNext]_shardVars

(* Threads run, the clock advances; no connection need ever finish.  A     *)
(* shard's steps are one loop, so one fairness condition per shard - the   *)
(* clock apart - is what its thread gives.                                 *)
ShardsFairness ==
    /\ WF_shardVars(Main) /\ WF_shardVars(Watch)
    /\ \A s \in ShardIds : /\ WF_shardVars(Accept(s) \/ CheckSignal(s) \/ CloseListener(s) \/ Drain(s))
                           /\ WF_shardVars(Elapse(s))

ShardsFairSpec == ShardsSpec /\ ShardsFairness

-----------------------------------------------------------------------------
ShardsTypeOK ==
    /\ shard \in [ShardIds -> {"unborn", "accept", "check", "closing", "drain", "gone"} \union Ended]
    /\ conn \in [Clients -> {"away", "queued", "serving", "done", "dropped", "reset", "refused"}]
    /\ home \in [Clients -> 0 .. NumShards] /\ left \in [ShardIds -> 0 .. DrainTicks]
    /\ listening \subseteq ShardIds
    /\ main \in {"bind", "start", "join", "ok", "err", "killed"}
    /\ next \in ShardIds /\ signal \in BOOLEAN /\ interrupted \in BOOLEAN
    /\ watcher \in {"waiting", "restored", "called"}

\* An accepted connection is cut off only by the drain deadline of its shard, or by a shard
\* that failed; and when run returns Ok, every shard has ended and holds no connection.
StopLosesNoWork ==
    /\ \A c \in Clients : conn[c] = "dropped" => shard[home[c]] # "ok" \/ left[home[c]] = 0
    /\ main = "ok" => \A s \in ShardIds : shard[s] = "ok" /\ Tasks(s) = {}

\* Once the signal is raised the server process comes back from run, whatever its
\* connections do and however the shards' ends and the joins are ordered.
StopEnds == signal ~> main \in {"ok", "err", "killed"}
=============================================================================
