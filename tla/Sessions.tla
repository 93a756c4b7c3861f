------------------------------ MODULE Sessions ------------------------------
(***************************************************************************)
(* SessionManager (crates/kernway-security/src/session.rs) over its memory *)
(* store and over the Redis store (redis_store.rs).                        *)
(*                                                                         *)
(* A call of the memory store is one critical section and one step.  A     *)
(* call of the Redis store is a series of commands, each a step on the     *)
(* server, that calls of other instances interleave with and that may fail *)
(* at any point.  Keys expire by themselves: a record with its TTL, which  *)
(* touch renews, and a user's set with its own, which only insert renews.  *)
(***************************************************************************)
EXTENDS Naturals, FiniteSets

CONSTANTS Callers,         \* requests being served, on any shard or instance
          Sids,            \* session ids that may be drawn
          Users,
          MaxSessions,     \* SessionConfig.max_sessions
          TokenTtl, AbsoluteTimeout, IdleTimeout, TouchSlack,
          Horizon,         \* bound on the clock
          UsedUp,          \* backend -> sids of sessions long gone, never drawn again
          MaxVersion,      \* bound on Account.version
          MaxCalls         \* bound on the calls that begin

ASSUME SessionsAssumption ==
    /\ IsFiniteSet(Callers) /\ Callers # {} /\ IsFiniteSet(Sids)
    /\ "none" \notin Users
    /\ UsedUp["memory"] \subseteq Sids /\ UsedUp["redis"] \subseteq Sids
    /\ MaxSessions \in Nat /\ TokenTtl \in Nat

VARIABLES
    backend,   \* "memory" or "redis"
    clock,     \* now()
    rec,       \* kw:sess:{sid} / the memory map: [user, created, seen] or NoRec
    members,   \* kw:user:{user}
    index,     \* kw:sess:index
    version,   \* Account.version of each user
    tokens,    \* tokens handed out: [sid, user, version, exp]
    drawn,     \* sids used up
    call,      \* what each caller is doing
    opened,     \* how many calls have opened
    revoked,   \* sids whose revocation had returned
    raced,     \* sids revoked while another call was half way through their keys
    leaked     \* sids granted to a request that began after their revocation

sessionVars == <<backend, clock, rec, members, index, version, tokens, drawn, call, opened, revoked, raced, leaked>>

NoRec == [user |-> "none", created |-> 0, seen |-> 0]
\* token, sid, user, time: the arguments; read: the record a GET returned; todo: what SMEMBERS
\* returned; past: the sids revoked (for logout_user: handed out) before the call began.
Idle == [at |-> "idle", token |-> {}, sid |-> "none", user |-> "none", time |-> 0, todo |-> {}, read |-> {}, past |-> {}, why |-> "none"]

Redis == backend = "redis"
Live == {sid \in Sids : rec[sid] # NoRec}

SessionsInit ==
    /\ backend \in {"memory", "redis"} /\ clock = 0
    /\ rec = [s \in Sids |-> NoRec] /\ members = [u \in Users |-> {}] /\ index = {}
    /\ version = [u \in Users |-> 0] /\ tokens = {} /\ drawn = UsedUp[backend]
    /\ call = [c \in Callers |-> Idle] /\ opened = 0 /\ revoked = {} /\ raced = {} /\ leaked = {}

Step(c, at) == call[c].at = at
Goto(c, at) == call' = [call EXCEPT ![c].at = at]
Return(c) == call' = [call EXCEPT ![c] = Idle]
Begin(c) == Step(c, "idle") /\ opened < MaxCalls /\ opened' = opened + 1

-----------------------------------------------------------------------------
(* login: the capacity test, then a fresh sid and the insert.              *)
LoginAt(c, u) ==
    /\ Begin(c)
    /\ call' = [call EXCEPT ![c] = [Idle EXCEPT !.at = "len", !.user = u, !.time = clock]]
    /\ UNCHANGED <<backend, clock, rec, members, index, version, tokens, drawn, revoked, raced, leaked>>

StoreCount == IF Redis THEN Cardinality(index) ELSE Cardinality(Live)

StoreLen(c) ==
    /\ Step(c, "len")
    /\ IF StoreCount >= MaxSessions
       THEN Return(c) /\ UNCHANGED drawn
       ELSE \E sid \in Sids \ drawn :
              /\ drawn' = drawn \union {sid}
              /\ call' = [call EXCEPT ![c] = [@ EXCEPT !.at = "insert", !.sid = sid]]
    /\ UNCHANGED <<backend, clock, rec, members, index, version, tokens, opened, revoked, raced, leaked>>

\* SET EX, or the whole insert of the memory store.
Token(c) == [sid |-> call[c].sid, user |-> call[c].user, version |-> version[call[c].user],
             exp |-> call[c].time + TokenTtl]
InsertRecord(c) ==
    /\ Step(c, "insert")
    /\ rec' = [rec EXCEPT ![call[c].sid] = [user |-> call[c].user, created |-> call[c].time, seen |-> call[c].time]]
    /\ IF Redis THEN call' = [call EXCEPT ![c] = [@ EXCEPT !.at = "sadd_user", !.token = {Token(c)}]] /\ UNCHANGED tokens
                ELSE Return(c) /\ tokens' = tokens \union {Token(c)}
    /\ UNCHANGED <<backend, clock, members, index, version, drawn, opened, revoked, raced, leaked>>

SaddUser(c) ==
    /\ Step(c, "sadd_user")
    /\ members' = [members EXCEPT ![call[c].user] = @ \union {call[c].sid}]
    /\ Goto(c, "sadd_index")
    /\ UNCHANGED <<backend, clock, rec, index, version, tokens, drawn, opened, revoked, raced, leaked>>

SaddIndex(c) ==
    /\ Step(c, "sadd_index")
    /\ index' = index \union {call[c].sid}
    /\ tokens' = tokens \union call[c].token
    /\ Return(c)
    /\ UNCHANGED <<backend, clock, rec, members, version, drawn, opened, revoked, raced, leaked>>

Inserting(sid) == \E c \in Callers : call[c].sid = sid /\ call[c].at \in {"sadd_user", "sadd_index"}

-----------------------------------------------------------------------------
(* authenticate: token, record, timeouts, account, touch.                  *)
Authenticate(c, t) ==
    /\ Begin(c) /\ t.exp >= clock
    /\ call' = [call EXCEPT ![c] = [Idle EXCEPT !.at = "get", !.token = {t}, !.sid = t.sid, !.time = clock,
                                                 !.past = revoked]]
    /\ UNCHANGED <<backend, clock, rec, members, index, version, tokens, drawn, revoked, raced, leaked>>

StoreGet(c) ==
    /\ Step(c, "get")
    /\ IF rec[call[c].sid] = NoRec THEN Return(c)
       ELSE call' = [call EXCEPT ![c] = [@ EXCEPT !.at = "check", !.read = {rec[call[c].sid]}]]
    /\ UNCHANGED <<backend, clock, rec, members, index, version, tokens, drawn, opened, revoked, raced, leaked>>

Grant(c) ==
    /\ Return(c)
    /\ leaked' = IF call[c].sid \in call[c].past THEN leaked \union {call[c].sid} ELSE leaked

\* Variant for the mutation runs: the account's version is not compared.
CheckSkipsVersion(c) ==
    /\ Step(c, "check")
    /\ \E r \in call[c].read, t \in call[c].token :
          LET dead == \/ call[c].time > r.created + AbsoluteTimeout
                      \/ call[c].time > r.seen + IdleTimeout IN
          CASE dead -> call' = [call EXCEPT ![c] = [@ EXCEPT !.at = "remove", !.why = "evict"]] /\ UNCHANGED leaked
            [] ~dead /\ call[c].time > r.seen + TouchSlack -> Goto(c, "touch") /\ UNCHANGED leaked
            [] OTHER -> Grant(c)
    /\ UNCHANGED <<backend, clock, rec, members, index, version, tokens, drawn, opened, revoked, raced>>

Check(c) ==
    /\ Step(c, "check")
    /\ \E r \in call[c].read, t \in call[c].token :
          LET dead == \/ call[c].time > r.created + AbsoluteTimeout
                      \/ call[c].time > r.seen + IdleTimeout
                      \/ version[t.user] # t.version IN
          CASE dead -> call' = [call EXCEPT ![c] = [@ EXCEPT !.at = "remove", !.why = "evict"]] /\ UNCHANGED leaked
            [] ~dead /\ call[c].time > r.seen + TouchSlack -> Goto(c, "touch") /\ UNCHANGED leaked
            [] OTHER -> Grant(c)
    /\ UNCHANGED <<backend, clock, rec, members, index, version, tokens, drawn, opened, revoked, raced>>

TouchMemory(c) ==
    /\ Step(c, "touch") /\ ~Redis
    /\ rec' = IF rec[call[c].sid] = NoRec THEN rec ELSE [rec EXCEPT ![call[c].sid].seen = call[c].time]
    /\ Grant(c)
    /\ UNCHANGED <<backend, clock, members, index, version, tokens, drawn, opened, revoked, raced>>

\* Redis: GET, then SET EX of the record that was read.
TouchGet(c) ==
    /\ Step(c, "touch") /\ Redis
    /\ IF rec[call[c].sid] = NoRec THEN Grant(c)
       ELSE call' = [call EXCEPT ![c] = [@ EXCEPT !.at = "touch_set", !.read = {rec[call[c].sid]}]] /\ UNCHANGED leaked
    /\ UNCHANGED <<backend, clock, rec, members, index, version, tokens, drawn, opened, revoked, raced>>

TouchSet(c) ==
    /\ Step(c, "touch_set")
    /\ \E r \in call[c].read : rec' = [rec EXCEPT ![call[c].sid] = [r EXCEPT !.seen = call[c].time]]
    /\ Grant(c)
    /\ UNCHANGED <<backend, clock, members, index, version, tokens, drawn, opened, revoked, raced>>

Touching(sid) == \E c \in Callers : call[c].sid = sid /\ call[c].at = "touch_set"

-----------------------------------------------------------------------------
(* remove (logout of one session, and authenticate's evictions).           *)
Logout(c, sid) ==
    /\ Begin(c)
    /\ call' = [call EXCEPT ![c] = [Idle EXCEPT !.at = "remove", !.sid = sid, !.why = "logout"]]
    /\ UNCHANGED <<backend, clock, rec, members, index, version, tokens, drawn, revoked, raced, leaked>>

Removed(c) ==
    /\ Return(c)
    /\ revoked' = IF call[c].why = "logout" THEN revoked \union {call[c].sid} ELSE revoked

RemoveMemory(c) ==
    /\ Step(c, "remove") /\ ~Redis
    /\ rec' = [rec EXCEPT ![call[c].sid] = NoRec]
    /\ Removed(c)
    /\ UNCHANGED <<backend, clock, members, index, version, tokens, drawn, opened, raced, leaked>>

RemoveGet(c) ==
    /\ Step(c, "remove") /\ Redis
    /\ call' = [call EXCEPT ![c] = [@ EXCEPT !.at = "del", !.read = {rec[call[c].sid]}]]
    /\ UNCHANGED <<backend, clock, rec, members, index, version, tokens, drawn, opened, revoked, raced, leaked>>

Del(c) ==
    /\ Step(c, "del")
    /\ rec' = [rec EXCEPT ![call[c].sid] = NoRec]
    /\ raced' = IF Touching(call[c].sid) THEN raced \union {call[c].sid} ELSE raced
    /\ Goto(c, "srem_user")
    /\ UNCHANGED <<backend, clock, members, index, version, tokens, drawn, opened, revoked, leaked>>

SremUser(c) ==
    /\ Step(c, "srem_user")
    /\ \E r \in call[c].read :
          members' = [u \in Users |-> IF u = r.user THEN members[u] \ {call[c].sid} ELSE members[u]]
    /\ Goto(c, "srem_index")
    /\ UNCHANGED <<backend, clock, rec, index, version, tokens, drawn, opened, revoked, raced, leaked>>

SremIndex(c) ==
    /\ Step(c, "srem_index")
    /\ index' = index \ {call[c].sid}
    /\ Removed(c)
    /\ UNCHANGED <<backend, clock, rec, members, version, tokens, drawn, opened, raced, leaked>>

-----------------------------------------------------------------------------
(* remove_user (log out everywhere): it promises to end the sessions that  *)
(* were handed out before the call.                                        *)
SidsOf(u) == {t.sid : t \in {x \in tokens : x.user = u}}
LogoutUser(c, u) ==
    /\ Begin(c)
    /\ call' = [call EXCEPT ![c] = [Idle EXCEPT !.at = "members", !.user = u, !.past = SidsOf(u)]]
    /\ UNCHANGED <<backend, clock, rec, members, index, version, tokens, drawn, revoked, raced, leaked>>

RemoveUserMemory(c) ==
    /\ Step(c, "members") /\ ~Redis
    /\ rec' = [s \in Sids |-> IF rec[s].user = call[c].user THEN NoRec ELSE rec[s]]
    /\ revoked' = revoked \union call[c].past
    /\ Return(c)
    /\ UNCHANGED <<backend, clock, members, index, version, tokens, drawn, opened, raced, leaked>>

Smembers(c) ==
    /\ Step(c, "members") /\ Redis
    /\ call' = [call EXCEPT ![c] = [@ EXCEPT !.at = "each", !.todo = members[call[c].user]]]
    /\ UNCHANGED <<backend, clock, rec, members, index, version, tokens, drawn, opened, revoked, raced, leaked>>

\* DEL of the record and SREM from the index, one sid after the other.
DelEach(c) ==
    /\ Step(c, "each")
    /\ \E sid \in call[c].todo :
          /\ rec' = [rec EXCEPT ![sid] = NoRec]
          /\ raced' = IF Touching(sid) THEN raced \union {sid} ELSE raced
          /\ call' = [call EXCEPT ![c] = [@ EXCEPT !.at = "each_index", !.sid = sid]]
    /\ UNCHANGED <<backend, clock, members, index, version, tokens, drawn, opened, revoked, leaked>>

SremEach(c) ==
    /\ Step(c, "each_index")
    /\ index' = index \ {call[c].sid}
    /\ call' = [call EXCEPT ![c] = [@ EXCEPT !.at = "each", !.todo = call[c].todo \ {call[c].sid}]]
    /\ UNCHANGED <<backend, clock, rec, members, version, tokens, drawn, opened, revoked, raced, leaked>>

\* DEL of the user's set: a session added since SMEMBERS drops out of it and lives on.
DelMembers(c) ==
    /\ Step(c, "each") /\ call[c].todo = {}
    /\ raced' = raced \union (members[call[c].user] \intersect Live)
                      \union {sid \in Sids : Inserting(sid) \/ Touching(sid)}
    /\ members' = [members EXCEPT ![call[c].user] = {}]
    /\ revoked' = revoked \union call[c].past
    /\ Return(c)
    /\ UNCHANGED <<backend, clock, rec, index, version, tokens, drawn, opened, leaked>>

-----------------------------------------------------------------------------
(* The surroundings.                                                       *)
\* A Redis command fails: the call returns an error.  login hands out no token, logout is
\* not confirmed, authenticate fails closed - or open, when only its touch failed.
CommandFails(c) ==
    /\ Redis /\ call[c].at \notin {"idle", "check"}
    /\ IF call[c].at \in {"touch", "touch_set"} THEN Grant(c) ELSE Return(c) /\ UNCHANGED leaked
    /\ UNCHANGED <<backend, clock, rec, members, index, version, tokens, drawn, opened, revoked, raced>>

\* TTLs.  A user's set may expire while its sessions live on.
ExpireRecord(sid) ==
    /\ Redis /\ rec[sid] # NoRec
    /\ rec' = [rec EXCEPT ![sid] = NoRec]
    /\ UNCHANGED <<backend, clock, members, index, version, tokens, drawn, call, opened, revoked, raced, leaked>>

ExpireMembers(u) ==
    /\ Redis /\ members[u] # {}
    /\ raced' = raced \union members[u]
    /\ members' = [members EXCEPT ![u] = {}]
    /\ UNCHANGED <<backend, clock, rec, index, version, tokens, drawn, call, opened, revoked, leaked>>

\* The application bumps the version to force a new login; tokens of before are dead.
BumpVersion(u) ==
    /\ version[u] < MaxVersion
    /\ version' = [version EXCEPT ![u] = @ + 1]
    /\ revoked' = revoked \union {t.sid : t \in {x \in tokens : x.user = u /\ x.version = version[u]}}
    /\ UNCHANGED <<backend, clock, rec, members, index, tokens, drawn, call, opened, raced, leaked>>

SessionTick ==
    /\ clock < Horizon /\ clock' = clock + 1
    /\ UNCHANGED <<backend, rec, members, index, version, tokens, drawn, call, opened, revoked, raced, leaked>>

SessionCall(c) ==
    \/ \E u \in Users : LoginAt(c, u) \/ LogoutUser(c, u)
    \/ \E t \in tokens : Authenticate(c, t) \/ Logout(c, t.sid)
    \/ StoreLen(c) \/ InsertRecord(c) \/ SaddUser(c) \/ SaddIndex(c)
    \/ StoreGet(c) \/ Check(c) \/ TouchMemory(c) \/ TouchGet(c) \/ TouchSet(c)
    \/ RemoveMemory(c) \/ RemoveGet(c) \/ Del(c) \/ SremUser(c) \/ SremIndex(c)
    \/ RemoveUserMemory(c) \/ Smembers(c) \/ DelEach(c) \/ SremEach(c) \/ DelMembers(c)
    \/ CommandFails(c)

SessionsNext ==
    \/ \E c \in Callers : SessionCall(c)
    \/ \E s \in Sids : ExpireRecord(s)
    \/ \E u \in Users : ExpireMembers(u) \/ BumpVersion(u)
    \/ SessionTick

-----------------------------------------------------------------------------
SessionsTypeOK ==
    /\ clock \in 0 .. Horizon /\ index \subseteq Sids /\ drawn \subseteq Sids
    /\ \A s \in Sids : rec[s] # NoRec => rec[s].user \in Users
    /\ \A t \in tokens : t.sid \in drawn /\ t.user \in Users
    /\ \A c \in Callers : call[c].sid \in Sids \union {"none"}

\* Revocation is final: a request that begins after logout, logout_user or a version bump
\* took effect is never granted that session.  The memory store keeps this always.  Over
\* Redis it is lost only for a session that a touch was writing back when it was deleted, or
\* that had dropped out of its user's set while it lived.
RevokedStaysOut ==
    \A sid \in leaked : Redis /\ sid \in raced

\* max_sessions is tested and the insert awaited: logins that overlap can each pass the test,
\* but no more than that - the cap is exceeded by at most the other logins in flight.
CapOverrunBounded ==
    ~Redis => Cardinality(Live) <= MaxSessions + Cardinality(Callers) - 1
=============================================================================
