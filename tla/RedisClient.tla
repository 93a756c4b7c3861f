----------------------------- MODULE RedisClient -----------------------------
(***************************************************************************)
(* The Redis client (crates/kernway-redis): Connection, one request and    *)
(* one reply at a time over a socket, and Pool, which lends connections to *)
(* the callers of all cores.                                               *)
(*                                                                         *)
(* A caller of Pool::with gives its connection back after a success and    *)
(* drops it after an error; a RedisBanStore (kernway-security/src/         *)
(* redis_bans.rs) gives it back in both cases.  A reply is the command it  *)
(* answers and whether it is a value or a `-` error.                       *)
(***************************************************************************)
EXTENDS Naturals, Sequences, FiniteSets, SequencesExt

CONSTANTS RedisCallers,   \* tasks that use the pool
          BanCallers,     \* those of them that are calls of a RedisBanStore
          Links,          \* connections that may exist at once
          MaxIdle,        \* Pool.max_idle
          WithAuth,       \* BOOLEAN: the pool carries credentials
          MaxCommands     \* bound on the commands sent

ASSUME RedisAssumption == BanCallers \subseteq RedisCallers /\ MaxIdle \in Nat /\ WithAuth \in BOOLEAN

VARIABLES
    link,     \* Connection: up, the commands the server has yet to answer, the replies on
              \* the wire, buf (read, not consumed), ok (its last command succeeded)
    idle,     \* Pool.idle, a stack
    task,     \* each caller: where it is, its connection, its command, how many are left
    numbered, \* commands numbered so far
    foreign   \* a caller was handed the value of another command

redisVars == <<link, idle, task, numbered, foreign>>

NoLink == [up |-> FALSE, asked |-> <<>>, wire |-> <<>>, buf |-> <<>>, ok |-> TRUE, made |-> FALSE]
NoTask == [at |-> "idle", link |-> {}, cmd |-> 0, left |-> 0, shaking |-> FALSE]

RedisInit ==
    /\ link = [l \in Links |-> NoLink] /\ idle = <<>>
    /\ task = [c \in RedisCallers |-> NoTask] /\ numbered = 0 /\ foreign = FALSE

Of(c) == CHOOSE l \in Links : l \in task[c].link

-----------------------------------------------------------------------------
(* checkout: the last connection given back, else a fresh one, which sends *)
(* AUTH first when the pool has credentials.                               *)
Checkout(c, n) ==
    /\ task[c].at = "idle" /\ idle # <<>> /\ numbered < MaxCommands
    /\ task' = [task EXCEPT ![c] = [NoTask EXCEPT !.at = "write", !.link = {Last(idle)}, !.left = n]]
    /\ idle' = Front(idle)
    /\ UNCHANGED <<link, numbered, foreign>>

Dial(c, n) ==
    /\ task[c].at = "idle" /\ idle = <<>> /\ numbered < MaxCommands
    /\ \E l \in Links :
          /\ ~link[l].made
          /\ link' = [link EXCEPT ![l] = [NoLink EXCEPT !.up = TRUE, !.made = TRUE]]
          /\ task' = [task EXCEPT ![c] = [NoTask EXCEPT !.at = "write", !.link = {l}, !.shaking = WithAuth,
                                                        !.left = IF WithAuth THEN n + 1 ELSE n]]
    /\ UNCHANGED <<idle, numbered, foreign>>

\* checkin: kept unless the pool is full.
Checkin(l) ==
    IF Len(idle) < MaxIdle THEN idle' = Append(idle, l) /\ UNCHANGED link
                           ELSE UNCHANGED idle /\ link' = [link EXCEPT ![l] = NoLink]
DropLink(l) == link' = [link EXCEPT ![l] = NoLink] /\ UNCHANGED idle

-----------------------------------------------------------------------------
(* command: write it, then read_reply until a whole reply is there.        *)
Write(c) ==
    /\ task[c].at = "write" /\ link[Of(c)].up
    /\ numbered' = numbered + 1
    /\ link' = [link EXCEPT ![Of(c)] = [@ EXCEPT !.asked = Append(link[Of(c)].asked, numbered + 1), !.ok = FALSE]]
    /\ task' = [task EXCEPT ![c] = [@ EXCEPT !.at = "read", !.cmd = numbered + 1]]
    /\ UNCHANGED <<idle, foreign>>

\* read_reply returns a value and moves past it; the buffer is cleared once it is drained.
\* The whole `with` succeeds when its last command has.
ReadValue(c) ==
    LET l == Of(c)  got == link[l].buf \o link[l].wire IN
    /\ task[c].at = "read" /\ got # <<>> /\ Head(got).value
    /\ foreign' = (foreign \/ Head(got).cmd # task[c].cmd)
    /\ link' = [link EXCEPT ![l] = [@ EXCEPT !.buf = Tail(got), !.wire = <<>>, !.ok = TRUE]]
    /\ task' = [task EXCEPT ![c] = [@ EXCEPT !.at = IF task[c].left = 1 THEN "done" ELSE "write",
                                             !.left = task[c].left - 1, !.shaking = FALSE]]
    /\ UNCHANGED <<idle, numbered>>

Succeed(c) ==
    /\ task[c].at = "done"
    /\ Checkin(Of(c))
    /\ task' = [task EXCEPT ![c] = NoTask]
    /\ UNCHANGED <<numbered, foreign>>

\* parse returns a `-` reply as Err before the position has moved: the bytes stay in buf.
ReadError(c) ==
    LET l == Of(c)  got == link[l].buf \o link[l].wire IN
    /\ task[c].at = "read" /\ got # <<>> /\ ~Head(got).value
    /\ link' = [link EXCEPT ![l] = [@ EXCEPT !.buf = got, !.wire = <<>>]]
    /\ task' = [task EXCEPT ![c].at = "failed"]
    /\ UNCHANGED <<idle, numbered, foreign>>

\* write_all fails, or the read returns 0 or an error.
Broken(c) ==
    /\ \/ task[c].at = "write"
       \/ task[c].at = "read" /\ link[Of(c)].buf \o link[Of(c)].wire = <<>>
    /\ ~link[Of(c)].up
    /\ task' = [task EXCEPT ![c].at = "failed"]
    /\ UNCHANGED <<link, idle, numbered, foreign>>

\* `with` drops the connection; RedisBanStore's add and remove check it in.  A handshake that
\* failed drops it in both.
FailCall(c) ==
    /\ task[c].at = "failed"
    /\ IF c \in BanCallers /\ ~task[c].shaking THEN Checkin(Of(c)) ELSE DropLink(Of(c))
    /\ task' = [task EXCEPT ![c] = NoTask]
    /\ UNCHANGED <<numbered, foreign>>

\* Variant for the mutation runs: a caller that is dropped half way gives its connection back.
CancelChecksIn(c) ==
    /\ task[c].at \in {"write", "read"}
    /\ Checkin(Of(c))
    /\ task' = [task EXCEPT ![c] = NoTask]
    /\ UNCHANGED <<numbered, foreign>>

\* The caller's future is dropped (a timeout, a closed request): the connection goes with it.
Cancel(c) ==
    /\ task[c].at \in {"write", "read"}
    /\ DropLink(Of(c))
    /\ task' = [task EXCEPT ![c] = NoTask]
    /\ UNCHANGED <<numbered, foreign>>

-----------------------------------------------------------------------------
(* The server answers in order, with a value or an error, or goes away.    *)
Answer(l, value) ==
    /\ link[l].up /\ link[l].asked # <<>>
    /\ link' = [link EXCEPT ![l] = [@ EXCEPT !.asked = Tail(link[l].asked),
                                             !.wire = Append(link[l].wire, [cmd |-> Head(link[l].asked), value |-> value])]]
    /\ UNCHANGED <<idle, task, numbered, foreign>>

Disconnect(l) ==
    /\ link[l].up
    /\ link' = [link EXCEPT ![l] = [@ EXCEPT !.up = FALSE, !.asked = <<>>]]
    /\ UNCHANGED <<idle, task, numbered, foreign>>

RedisNext ==
    \/ \E c \in RedisCallers :
          \/ \E n \in 1 .. 2 : Checkout(c, n) \/ Dial(c, n)
          \/ Write(c) \/ ReadValue(c) \/ Succeed(c) \/ ReadError(c) \/ Broken(c) \/ FailCall(c) \/ Cancel(c)
    \/ \E l \in Links : Disconnect(l) \/ \E v \in BOOLEAN : Answer(l, v)

RedisSpec == RedisInit /\ [][RedisNext]_redisVars

-----------------------------------------------------------------------------
RedisTypeOK ==
    /\ numbered \in 0 .. MaxCommands + Cardinality(RedisCallers) * 3 /\ Len(idle) <= MaxIdle
    /\ \A i \in DOMAIN idle : link[idle[i]].made
    /\ \A c \in RedisCallers : task[c].at # "idle" => \E l \in Links : task[c].link = {l} /\ link[l].made

\* A connection is in one pair of hands, and a value a caller is given answers the command it
\* sent: no reply left over by an error, a cancelled call or another core is taken for it.
OwnReply ==
    /\ ~foreign
    /\ \A i \in DOMAIN idle : /\ \A j \in DOMAIN idle : idle[i] = idle[j] => i = j
                              /\ \A c \in RedisCallers : idle[i] \notin task[c].link
    /\ \A c, d \in RedisCallers : task[c].link \intersect task[d].link # {} => c = d

=============================================================================
