------------------------------ MODULE MCServer ------------------------------
(***************************************************************************)
(* TLC instances of the server's runtime: the shutdown signal, one         *)
(* connection, the shards, the timers and the blocking pool.  They share   *)
(* no variable, so a behaviour is one of `part`'s and the others stay as   *)
(* they begin: the states add up instead of multiplying.                   *)
(***************************************************************************)
EXTENDS Shutdown, Connection, Shards, Timers, BlockingPool

VARIABLE part

allVars == <<vars, connVars, shardVars, timerVars, poolVars, part>>

R(lines, len, well, keep) == [lines |-> lines, len |-> len, well |-> well, keep |-> keep, cut |-> 0]
Plain == R(1, 0, TRUE, TRUE)

\* Bodies absent, in memory and spooled, in every order; the last request says close or a
\* further one meets the limit of MaxRequests; malformed, oversized and endless heads;
\* a client that goes silent inside a head, a body and an upload.
MCScripts ==
    {<<R(1, a, TRUE, TRUE), R(1, b, TRUE, k), Plain, Plain>> : a, b \in 0 .. 2, k \in BOOLEAN}
      \union {<<Plain, R(1, 3, TRUE, TRUE)>>, <<R(1, 1, TRUE, TRUE), R(3, 0, TRUE, TRUE)>>,
              <<R(1, 2, TRUE, TRUE), R(1, 0, FALSE, TRUE)>>, <<R(4, 0, TRUE, TRUE)>>, <<Plain>>}
      \union {<<Plain, [R(1, n, TRUE, TRUE) EXCEPT !.cut = 1]>> : n \in 0 .. 2}

ServerInit ==
    /\ Init /\ ConnInit /\ ShardsInit /\ TimersInit /\ PoolInit
    /\ part \in {"shutdown", "connection", "shards", "timers", "pool"}
    /\ part = "connection" \/ script = <<Plain>>

ServerNext ==
    /\ UNCHANGED part
    /\ \/ part = "shutdown" /\ Next /\ UNCHANGED <<connVars, shardVars, timerVars, poolVars>>
       \/ part = "connection" /\ ConnNext /\ UNCHANGED <<vars, shardVars, timerVars, poolVars>>
       \/ part = "shards" /\ ShardsNext /\ UNCHANGED <<vars, connVars, timerVars, poolVars>>
       \/ part = "timers" /\ TimersNext /\ UNCHANGED <<vars, connVars, shardVars, poolVars>>
       \/ part = "pool" /\ PoolNext /\ UNCHANGED <<vars, connVars, shardVars, timerVars>>

(* The fairness each module states for itself, for the part that runs.     *)
ServerFairness ==
    /\ \A x \in Triggers : WF_vars(Trigger(x))
    /\ \A w \in Waiters : WF_vars(Poll(w)) /\ WF_vars(scheduled[w] /\ Repoll(w))
    /\ WF_connVars(part = "connection" /\ Serve)
    /\ WF_shardVars(part = "shards" /\ Main) /\ WF_shardVars(Watch)
    /\ \A s \in ShardIds : /\ WF_shardVars(Accept(s) \/ CheckSignal(s) \/ CloseListener(s) \/ Drain(s))
                           /\ WF_shardVars(Elapse(s))
    /\ PoolFairness

ServerSpec == ServerInit /\ [][ServerNext]_allVars /\ ServerFairness

-----------------------------------------------------------------------------
\* Every module's type invariant.
ServerTypeOK == TypeOK /\ ConnTypeOK /\ ShardsTypeOK /\ TimersTypeOK /\ PoolTypeOK

\* ConnectionEnds of module Connection, where the connection is the part that runs.
EveryConnectionEnds == part = "connection" => ConnectionEnds
=============================================================================
