----------------------------- MODULE GateProofs -----------------------------
(***************************************************************************)
(* TLAPS proofs about what decides on a request: a revoked session stays   *)
(* out, the rate limiter, the lockout and the bans hold, for any callers,  *)
(* users, addresses and clocks.                                            *)
(***************************************************************************)
EXTENDS MCStores, SequenceTheorems, FiniteSetTheorems, TLAPS

-----------------------------------------------------------------------------
(* Sessions.  Types.                                                       *)
Tokens  == [sid : Sids, user : Users, version : Nat, exp : Nat]
Entries == [user : Users \cup {"none"}, created : Nat, seen : Nat]
Places  == {"idle", "len", "insert", "sadd_user", "sadd_index", "get", "check", "touch", "touch_set", "remove", "del",
            "srem_user", "srem_index", "members", "each", "each_index"}
CallRecords == [at : Places, token : SUBSET Tokens, sid : Sids \cup {"none"}, user : Users \cup {"none"}, time : Nat,
                todo : SUBSET Sids, read : SUBSET Entries, past : SUBSET Sids, why : {"none", "evict", "logout"}]

SessionTypes ==
    /\ backend \in {"memory", "redis"} /\ clock \in Nat
    /\ rec \in [Sids -> Entries] /\ members \in [Users -> SUBSET Sids] /\ version \in [Users -> Nat]
    /\ tokens \subseteq Tokens /\ drawn \subseteq Sids /\ call \in [Callers -> CallRecords]
    /\ revoked \subseteq Sids /\ raced \subseteq Sids

-----------------------------------------------------------------------------
(* What keeps a revoked session out.                                       *)

\* Nobody is about to insert the sid.
Placed(s) == s \in drawn /\ \A c \in Callers : call[c].at = "insert" => call[c].sid # s

\* Nothing will bring the record back, or the revocation is one of those the store can lose.
Buried(s) == rec[s] = NoRec /\ Placed(s) /\ \A c \in Callers : call[c].at = "touch_set" => call[c].sid # s
Lost(s) == Redis /\ s \in raced
Gone(s) == Lost(s) \/ Buried(s)

Adding(c) == call[c].at \in {"insert", "sadd_user", "sadd_index"}
Outdated(t) == t.version < version[t.user]

\* A session is drawn once, so it has one token and one user.
OneToken ==
    /\ \A s \in Sids : rec[s] # NoRec => s \in drawn
    /\ \A t \in tokens : t.sid \in drawn /\ t.version <= version[t.user]
    /\ \A t \in tokens : Placed(t.sid) /\ (rec[t.sid] # NoRec => rec[t.sid].user = t.user)
    /\ \A t, x \in tokens : t.sid = x.sid => t = x
    /\ \A c \in Callers : Adding(c) => \A t \in tokens : t.sid # call[c].sid
    /\ \A c, d \in Callers : Adding(c) /\ Adding(d) /\ call[c].sid = call[d].sid => c = d

\* Over Redis a session that lives is in its user's set, or dropped out of it.
InSet ==
    /\ Redis => \A t \in tokens : Gone(t.sid) \/ t.sid \in members[t.user]
    /\ \A u \in Users : \A s \in members[u] : Placed(s)

\* What was revoked is gone, or its token is out of date.
StaysOut == \A s \in revoked : \E t \in tokens : t.sid = s /\ (Gone(s) \/ Outdated(t))

\* A login between its steps.
LoginOK(c) ==
    /\ call[c].at = "len" => call[c].user \in Users
    /\ Adding(c) => call[c].sid \in drawn /\ call[c].user \in Users
    /\ call[c].at = "insert" => rec[call[c].sid] = NoRec
    /\ call[c].at \in {"sadd_user", "sadd_index"} =>
          /\ Redis
          /\ rec[call[c].sid] # NoRec => rec[call[c].sid].user = call[c].user
          /\ \E t \in Tokens : /\ call[c].token = {t} /\ t.sid = call[c].sid /\ t.user = call[c].user
                               /\ t.version <= version[t.user]
    /\ call[c].at = "sadd_index" => call[c].sid \in members[call[c].user] \/ call[c].sid \in raced

\* A request between its steps, of a session revoked before it began in particular.
RequestOK(c) ==
    /\ call[c].at = "touch_set" => Redis
    /\ call[c].at \in {"get", "check", "touch", "touch_set"} =>
          \E t \in tokens :
             /\ call[c].token = {t} /\ t.sid = call[c].sid
             /\ call[c].at \in {"check", "touch_set"} => \E r \in Entries : call[c].read = {r} /\ r.user = t.user
             /\ call[c].sid \in call[c].past =>
                   /\ call[c].at = "get" => call[c].sid \in revoked
                   /\ call[c].at = "check" => Lost(call[c].sid) \/ Outdated(t)
                   /\ call[c].at \in {"touch", "touch_set"} => Lost(call[c].sid)

\* A logout between its steps.
LogoutOK(c) ==
    /\ call[c].at \in {"remove", "del", "srem_user", "srem_index"} => \E t \in tokens : t.sid = call[c].sid
    /\ call[c].at \in {"srem_user", "srem_index"} => Gone(call[c].sid)
    /\ call[c].at \in {"del", "srem_user", "srem_index", "each", "each_index"} => Redis

\* A logout everywhere between its steps.
EverywhereOK(c) ==
    call[c].at \in {"members", "each", "each_index"} =>
       /\ call[c].user \in Users
       /\ \A s \in call[c].past : \E t \in tokens : t.sid = s /\ t.user = call[c].user
       /\ \A s \in call[c].todo : Placed(s)
       /\ call[c].at = "each" => \A s \in call[c].past : s \in call[c].todo \/ Gone(s)
       /\ call[c].at = "each_index" => \A s \in call[c].past : s \in call[c].todo \ {call[c].sid} \/ Gone(s)

CallsOK == \A c \in Callers : LoginOK(c) /\ RequestOK(c) /\ LogoutOK(c) /\ EverywhereOK(c)

\* In memory, every login that passed the test of the cap is counted before it inserts.
Inserters == {c \in Callers : call[c].at = "insert"}
Counted == ~Redis => Cardinality(Live) + Cardinality(Inserters) <= MaxSessions + Cardinality(Callers) - 1

SessionsInv == SessionTypes /\ OneToken /\ InSet /\ StaysOut /\ CallsOK /\ RevokedStaysOut /\ Counted

-----------------------------------------------------------------------------
(* What each step of a call makes of it.                                   *)
Moves(c, k) == call' = [call EXCEPT ![c] = k]

LEMMA MoveFacts ==
    ASSUME call \in [Callers -> CallRecords], NEW c \in Callers, NEW k \in CallRecords, Moves(c, k)
    PROVE  /\ call' \in [Callers -> CallRecords] /\ call'[c] = k
           /\ \A d \in Callers : d # c => call'[d] = call[d]
BY DEF Moves

LEMMA IdleFacts == /\ Idle \in CallRecords /\ Idle.at = "idle" /\ Idle.sid = "none" /\ Idle.past = {} /\ Idle.todo = {}
                   /\ Idle.token = {} /\ Idle.read = {} /\ Idle.user = "none" /\ Idle.why = "none" /\ Idle.time = 0
BY DEF Idle, CallRecords, Places

LEMMA CallIs == ASSUME SessionTypes, NEW c \in Callers
                PROVE  /\ call[c] \in CallRecords /\ call[c].at \in Places /\ call[c].token \subseteq Tokens
                       /\ call[c].sid \in Sids \cup {"none"} /\ call[c].user \in Users \cup {"none"} /\ call[c].time \in Nat
                       /\ call[c].todo \subseteq Sids /\ call[c].read \subseteq Entries /\ call[c].past \subseteq Sids
                       /\ call[c].why \in {"none", "evict", "logout"}
<1>1. call[c] \in CallRecords
  BY DEF SessionTypes
<1> QED BY <1>1 DEF CallRecords

LEMMA ReturnFacts == ASSUME NEW c \in Callers, Return(c) PROVE Moves(c, Idle)
BY DEF Return, Moves

LEMMA GotoFacts ==
    ASSUME SessionTypes, NEW c \in Callers, NEW p \in Places, Goto(c, p)
    PROVE  \E k \in CallRecords : /\ Moves(c, k) /\ k.at = p /\ k.sid = call[c].sid /\ k.token = call[c].token
                                  /\ k.user = call[c].user /\ k.read = call[c].read /\ k.past = call[c].past
                                  /\ k.time = call[c].time /\ k.todo = call[c].todo /\ k.why = call[c].why
<1>1. PICK x \in CallRecords : x = call[c]
  BY CallIs
<1>2. call \in [Callers -> CallRecords]
  BY DEF SessionTypes
<1>3. PICK k : k = [x EXCEPT !.at = p]
  OBVIOUS
<1>4. k \in CallRecords /\ k.at = p /\ k.sid = x.sid /\ k.token = x.token /\ k.user = x.user /\ k.read = x.read
      /\ k.past = x.past /\ k.time = x.time /\ k.todo = x.todo /\ k.why = x.why
  BY <1>3 DEF CallRecords
<1>5. Moves(c, k)
  BY <1>1, <1>3 DEF Goto, Moves
<1> QED BY <1>1, <1>4, <1>5

-----------------------------------------------------------------------------
(* What a step has to respect, and why that keeps the invariant.  c moves  *)
(* and its call becomes k, or nobody moves and k is the call c is in.      *)
CallOf(c) == LoginOK(c) /\ RequestOK(c) /\ LogoutOK(c) /\ EverywhereOK(c)

Mono ==
    /\ backend' = backend /\ tokens \subseteq tokens' /\ raced \subseteq raced' /\ drawn \subseteq drawn'
    /\ revoked \subseteq revoked' /\ \A u \in Users : version[u] <= version'[u]

\* A record goes, or keeps its user, or is written by the call that was about to.
Writes(c, s) ==
    \/ call[c].at = "insert"
    \/ call[c].at = "touch_set" /\ \E t \in tokens : t.sid = s /\ rec'[s].user = t.user
RecOK(c, k) ==
    \A s \in Sids : \/ rec'[s] = NoRec
                    \/ rec[s] # NoRec /\ rec'[s].user = rec[s].user
                    \/ s = call[c].sid /\ k # call[c] /\ Writes(c, s)

\* A fresh sid is inserted, and a record that is there touched.
FreshOK(c, k) ==
    /\ k.at = "insert" => k = call[c] \/ k.sid \notin drawn
    /\ k.at = "touch_set" => k = call[c] \/ rec[k.sid] # NoRec
    /\ k.at \in {"sadd_user", "sadd_index"} => Adding(c) /\ k.sid = call[c].sid

\* A token is handed out by the login that made it.
Hands(c, k, t) ==
    /\ Adding(c) /\ k.at = "idle" /\ t.sid = call[c].sid /\ t.user = call[c].user /\ t.version <= version[t.user]
    /\ rec'[t.sid] # NoRec => rec'[t.sid].user = t.user
    /\ Redis => t.sid \in members'[t.user] \/ t.sid \in raced'
TokOK(c, k) == tokens' = tokens \/ \E t \in Tokens : tokens' = tokens \cup {t} /\ Hands(c, k, t)

\* A sid leaves its user's set only when it is gone or recorded as raced.
SetOK(c, k) ==
    /\ \A u \in Users : \A s \in members[u] :
          \/ s \in members'[u] \/ s \in raced'
          \/ Gone(s) /\ \A d \in Callers : call[d].at = "sadd_index" => call[d].sid # s
    /\ \A u \in Users : \A s \in members'[u] : s \in members[u] \/ (s = call[c].sid /\ call[c].at = "sadd_user" /\ k.at = "sadd_index")

RevOK == \A s \in revoked' : s \in revoked \/ \E t \in tokens : t.sid = s /\ (Gone(s)' \/ Outdated(t)')
LeakOK(c) == \A s \in leaked' : s \in leaked \/ (Redis /\ s \in raced)
NextOK(c, k) == k = call[c] \/ CallOf(c)'

Unmoved(c, k) ==
    Moves(c, k) /\ Mono /\ RecOK(c, k) /\ FreshOK(c, k) /\ TokOK(c, k) /\ SetOK(c, k) /\ RevOK /\ LeakOK(c) /\ NextOK(c, k)

LEMMA KeptPlaced ==
    ASSUME SessionTypes, NEW c \in Callers, NEW k \in CallRecords, Moves(c, k), Mono, FreshOK(c, k), NEW s \in Sids, Placed(s)
    PROVE  Placed(s)'
<1>1. call \in [Callers -> CallRecords] /\ s \in drawn'
  BY DEF SessionTypes, Mono, Placed
<1>2. ASSUME NEW d \in Callers, call'[d].at = "insert" PROVE call'[d].sid # s
  <2>1. CASE d # c
    BY <1>1, <1>2, <2>1, MoveFacts DEF Placed
  <2>2. CASE d = c
    BY <1>1, <1>2, <2>2, MoveFacts DEF Placed, FreshOK
  <2> QED BY <2>1, <2>2
<1> QED BY <1>1, <1>2 DEF Placed

LEMMA KeptGone ==
    ASSUME SessionTypes, NEW c \in Callers, NEW k \in CallRecords, Moves(c, k), Mono, FreshOK(c, k), RecOK(c, k),
           NEW s \in Sids, Gone(s)
    PROVE  Gone(s)'
<1>1. CASE Lost(s)
  BY <1>1 DEF Lost, Gone, Mono, Redis
<1>2. CASE Buried(s)
  <2>1. Placed(s)'
    BY <1>2, KeptPlaced DEF Buried
  <2>2. rec'[s] = NoRec
    BY <1>2 DEF Buried, Placed, RecOK, Writes
  <2>3. ASSUME NEW d \in Callers, call'[d].at = "touch_set" PROVE call'[d].sid # s
    <3>1. call \in [Callers -> CallRecords]
      BY DEF SessionTypes
    <3>2. CASE d # c
      BY <1>2, <2>3, <3>1, <3>2, MoveFacts DEF Buried
    <3>3. CASE d = c
      BY <1>2, <2>3, <3>1, <3>3, MoveFacts DEF Buried, FreshOK
    <3> QED BY <3>2, <3>3
  <2> QED BY <2>1, <2>2, <2>3 DEF Gone, Buried
<1> QED BY <1>1, <1>2 DEF Gone

\* The sid of a token and the sid of a login are not the same.
LEMMA TokenSid == ASSUME SessionTypes, NEW t \in tokens PROVE t \in Tokens /\ t.sid \in Sids /\ t.user \in Users /\ t.version \in Nat
BY DEF SessionTypes, Tokens

LEMMA KeptUser ==
    ASSUME SessionsInv, NEW c \in Callers, NEW k \in CallRecords, Moves(c, k), Mono, RecOK(c, k), FreshOK(c, k),
           NEW t \in tokens, rec'[t.sid] # NoRec
    PROVE  rec'[t.sid].user = t.user
<1>1. SessionTypes /\ OneToken
  BY DEF SessionsInv
<1>2. t.sid \in Sids
  BY <1>1, TokenSid
<1>3. Placed(t.sid) /\ (rec[t.sid] # NoRec => rec[t.sid].user = t.user) /\ \A x \in tokens : t.sid = x.sid => t = x
  BY <1>1 DEF OneToken
<1> QED BY <1>2, <1>3 DEF RecOK, Writes, Placed

LEMMA KeptOneToken ==
    ASSUME SessionsInv, SessionTypes', NEW c \in Callers, NEW k \in CallRecords, Unmoved(c, k)
    PROVE  OneToken'
<1>0. SessionTypes /\ OneToken /\ CallsOK
  BY DEF SessionsInv
<1>1. Moves(c, k) /\ Mono /\ RecOK(c, k) /\ FreshOK(c, k) /\ TokOK(c, k)
  BY DEF Unmoved
<1>2. call \in [Callers -> CallRecords] /\ call'[c] = k /\ \A d \in Callers : d # c => call'[d] = call[d]
  BY <1>0, <1>1, MoveFacts DEF SessionTypes
<1>m. drawn \subseteq drawn' /\ tokens \subseteq tokens' /\ \A u \in Users : version[u] <= version'[u]
  BY <1>1 DEF Mono
<1>v. version \in [Users -> Nat] /\ version' \in [Users -> Nat]
  BY <1>0 DEF SessionTypes
<1>o. ASSUME NEW t \in tokens
      PROVE  /\ t.sid \in drawn' /\ t.version <= version'[t.user]
             /\ Placed(t.sid)' /\ (rec'[t.sid] # NoRec => rec'[t.sid].user = t.user)
  <2>1. t.sid \in Sids /\ t.user \in Users /\ t.version \in Nat
    BY <1>0, TokenSid
  <2>2. t.sid \in drawn /\ t.version <= version[t.user] /\ Placed(t.sid)
    BY <1>0 DEF OneToken
  <2>3. t.version <= version'[t.user]
    BY <1>m, <1>v, <2>1, <2>2
  <2>4. Placed(t.sid)'
    BY <1>0, <1>1, <2>1, <2>2, KeptPlaced
  <2> QED BY <1>1, <1>m, <2>2, <2>3, <2>4, KeptUser
<1>l. \A d \in Callers : Adding(d) => call[d].sid \in drawn /\ \A t \in tokens : t.sid # call[d].sid
  BY <1>0 DEF CallsOK, LoginOK, OneToken
<1>a. ASSUME NEW d \in Callers, Adding(d)'
      PROVE  (Adding(d) /\ call'[d].sid = call[d].sid) \/ (d = c /\ call'[d].sid \notin drawn)
  BY <1>1, <1>2, <1>a DEF Adding, FreshOK
<1>d. \A t \in tokens : t.sid \in drawn
  BY <1>0 DEF OneToken
<1>t. ASSUME NEW d \in Callers, Adding(d)', NEW t \in tokens PROVE t.sid # call'[d].sid
  BY <1>a, <1>t, <1>l, <1>d
<1>u. ASSUME NEW d \in Callers, NEW e \in Callers, Adding(d)', Adding(e)', call'[d].sid = call'[e].sid PROVE d = e
  <2>1. CASE Adding(d) /\ call'[d].sid = call[d].sid /\ Adding(e) /\ call'[e].sid = call[e].sid
    BY <1>0, <1>u, <2>1 DEF OneToken
  <2> QED BY <1>a, <1>u, <2>1, <1>l
<1>x. \A t, x \in tokens : t.sid = x.sid => t = x
  BY <1>0 DEF OneToken
<1>r. ASSUME NEW s \in Sids, rec'[s] # NoRec PROVE s \in drawn'
  <2>1. CASE rec[s] # NoRec
    BY <1>0, <1>m, <2>1 DEF OneToken
  <2>2. CASE s = call[c].sid /\ Writes(c, s)
    BY <1>l, <1>d, <1>m, <2>2 DEF Writes, Adding
  <2> QED BY <1>1, <1>r, <2>1, <2>2 DEF RecOK
<1>3. CASE tokens' = tokens
  BY <1>3, <1>o, <1>r, <1>t, <1>u, <1>x DEF OneToken
<1>4. ASSUME NEW t \in Tokens, tokens' = tokens \cup {t}, Hands(c, k, t) PROVE OneToken'
  <2>1. Adding(c) /\ k.at = "idle" /\ t.sid = call[c].sid /\ t.version <= version[t.user]
        /\ (rec'[t.sid] # NoRec => rec'[t.sid].user = t.user)
    BY <1>4 DEF Hands
  <2>2. t.sid \in Sids /\ t.user \in Users /\ t.version \in Nat
    BY <1>4 DEF Tokens
  <2>3. t.sid \in drawn' /\ t.version <= version'[t.user]
    BY <1>l, <1>m, <1>v, <2>1, <2>2
  <2>4. ASSUME NEW d \in Callers, Adding(d)' PROVE call'[d].sid # t.sid
    <3>1. d # c /\ Adding(d) /\ call'[d].sid = call[d].sid
      BY <1>2, <2>1, <2>4 DEF Adding
    <3> QED BY <1>0, <2>1, <3>1 DEF OneToken
  <2>5. Placed(t.sid)'
    BY <2>3, <2>4 DEF Placed, Adding
  <2>6. \A x \in tokens : x.sid # t.sid
    BY <1>l, <2>1
  <2>7. ASSUME NEW x \in tokens' PROVE x \in tokens \/ x = t
    BY <1>4
  <2>8. \A x \in tokens' : x.sid \in drawn' /\ x.version <= version'[x.user]
    BY <2>7, <1>o, <2>3
  <2>9. \A x \in tokens' : Placed(x.sid)' /\ (rec'[x.sid] # NoRec => rec'[x.sid].user = x.user)
    BY <2>7, <1>o, <2>1, <2>5
  <2>10. \A x, y \in tokens' : x.sid = y.sid => x = y
    BY <2>7, <2>6, <1>x
  <2>11. \A d \in Callers : Adding(d)' => \A x \in tokens' : x.sid # call'[d].sid
    BY <2>7, <2>4, <1>t
  <2> QED BY <2>8, <2>9, <2>10, <2>11, <1>r, <1>u DEF OneToken
<1> QED BY <1>1, <1>3, <1>4 DEF TokOK

LEMMA KeptInSet ==
    ASSUME SessionsInv, SessionTypes', NEW c \in Callers, NEW k \in CallRecords, Unmoved(c, k)
    PROVE  InSet'
<1>0. SessionTypes /\ OneToken /\ InSet /\ CallsOK
  BY DEF SessionsInv
<1>1. Moves(c, k) /\ Mono /\ RecOK(c, k) /\ FreshOK(c, k) /\ TokOK(c, k) /\ SetOK(c, k)
  BY DEF Unmoved
<1>2. call \in [Callers -> CallRecords] /\ call'[c] = k /\ \A d \in Callers : d # c => call'[d] = call[d]
  BY <1>0, <1>1, MoveFacts DEF SessionTypes
<1>g. \A s \in Sids : (Gone(s) => Gone(s)') /\ (Placed(s) => Placed(s)')
  BY <1>0, <1>1, KeptGone, KeptPlaced
<1>m. members \in [Users -> SUBSET Sids] /\ members' \in [Users -> SUBSET Sids] /\ backend' = backend
  BY <1>0, <1>1 DEF SessionTypes, Mono
<1>3. ASSUME Redis', NEW t \in tokens PROVE Gone(t.sid)' \/ t.sid \in members'[t.user]
  <2>1. t.sid \in Sids /\ t.user \in Users
    BY <1>0, TokenSid
  <2>2. Redis /\ (Gone(t.sid) \/ t.sid \in members[t.user])
    BY <1>0, <1>3, <1>m DEF InSet, Redis
  <2>3. CASE Gone(t.sid)
    BY <1>g, <2>1, <2>3
  <2>4. CASE t.sid \in members[t.user]
    <3>1. t.sid \in members'[t.user] \/ t.sid \in raced' \/ Gone(t.sid)
      BY <1>1, <2>1, <2>4 DEF SetOK
    <3> QED BY <1>3, <1>g, <2>1, <3>1 DEF Gone, Lost
  <2> QED BY <2>2, <2>3, <2>4
<1>4. ASSUME Redis', NEW t \in Tokens, Hands(c, k, t) PROVE Gone(t.sid)' \/ t.sid \in members'[t.user]
  BY <1>4, <1>m DEF Hands, Gone, Lost, Redis
<1>5. ASSUME NEW u \in Users, NEW s \in members'[u] PROVE Placed(s)'
  <2>1. s \in Sids
    BY <1>m
  <2>2. CASE s \in members[u]
    BY <1>0, <1>g, <2>1, <2>2 DEF InSet
  <2>3. CASE s = call[c].sid /\ call[c].at = "sadd_user" /\ k.at = "sadd_index"
    <3>1. Adding(c) /\ s \in drawn
      BY <1>0, <2>3 DEF CallsOK, LoginOK, Adding
    <3>2. \A d \in Callers : d # c /\ Adding(d) => call[d].sid # s
      BY <1>0, <2>3, <3>1 DEF OneToken
    <3>3. \A d \in Callers : call'[d].at = "insert" => call'[d].sid # s
      BY <1>2, <2>3, <3>2 DEF Adding
    <3> QED BY <1>1, <3>1, <3>3 DEF Placed, Mono
  <2> QED BY <1>1, <2>2, <2>3 DEF SetOK
<1> QED BY <1>1, <1>3, <1>4, <1>5 DEF InSet, TokOK

LEMMA KeptOut ==
    ASSUME SessionsInv, SessionTypes', NEW c \in Callers, NEW k \in CallRecords, Unmoved(c, k)
    PROVE  StaysOut' /\ RevokedStaysOut'
<1>0. SessionTypes /\ StaysOut /\ RevokedStaysOut
  BY DEF SessionsInv
<1>1. Moves(c, k) /\ Mono /\ RecOK(c, k) /\ FreshOK(c, k) /\ RevOK /\ LeakOK(c)
  BY DEF Unmoved
<1>m. tokens \subseteq tokens' /\ raced \subseteq raced' /\ backend' = backend /\ revoked \subseteq Sids
  BY <1>0, <1>1 DEF Mono, SessionTypes
<1>v. version \in [Users -> Nat] /\ version' \in [Users -> Nat] /\ \A u \in Users : version[u] <= version'[u]
  BY <1>0, <1>1 DEF SessionTypes, Mono
<1>2. ASSUME NEW s \in revoked' PROVE \E t \in tokens : t.sid = s /\ (Gone(s)' \/ Outdated(t)')
  <2>1. CASE s \in revoked
    <3>1. PICK t \in tokens : t.sid = s /\ (Gone(s) \/ Outdated(t))
      BY <1>0, <2>1 DEF StaysOut
    <3>2. t.user \in Users /\ t.version \in Nat /\ s \in Sids
      BY <1>0, <3>1, TokenSid
    <3>3. Outdated(t) => Outdated(t)'
      BY <1>v, <3>2 DEF Outdated
    <3>4. Gone(s) => Gone(s)'
      BY <1>0, <1>1, <3>2, KeptGone
    <3> QED BY <3>1, <3>3, <3>4
  <2> QED BY <1>1, <2>1 DEF RevOK
<1>3. StaysOut'
  BY <1>2, <1>m DEF StaysOut
<1>4. RevokedStaysOut'
  BY <1>0, <1>1, <1>m DEF RevokedStaysOut, LeakOK, Redis
<1> QED BY <1>3, <1>4

LEMMA KeptLogin ==
    ASSUME SessionsInv, SessionTypes', NEW c \in Callers, NEW k \in CallRecords, Unmoved(c, k),
           NEW d \in Callers, call'[d] = call[d]
    PROVE  LoginOK(d)'
<1>0. SessionTypes /\ OneToken /\ LoginOK(d)
  BY DEF SessionsInv, CallsOK
<1>1. Mono /\ RecOK(c, k) /\ SetOK(c, k) /\ call'[c] = k /\ call[d] \in CallRecords
  BY <1>0, MoveFacts DEF Unmoved, SessionTypes
<1>m. drawn \subseteq drawn' /\ backend' = backend /\ raced \subseteq raced'
  BY <1>1 DEF Mono
<1>v. version \in [Users -> Nat] /\ version' \in [Users -> Nat] /\ \A u \in Users : version[u] <= version'[u]
  BY <1>0, <1>1 DEF SessionTypes, Mono
<1>2. ASSUME Adding(d) PROVE call[d].sid \in drawn /\ call[d].sid \in Sids /\ call[d].user \in Users
  BY <1>0, <1>2 DEF LoginOK, SessionTypes
<1>3. ASSUME Adding(d)
      PROVE  rec'[call[d].sid] = NoRec \/ (rec[call[d].sid] # NoRec /\ rec'[call[d].sid].user = rec[call[d].sid].user)
  <2>1. ASSUME call[d].sid = call[c].sid, k # call[c], Writes(c, call[d].sid) PROVE FALSE
    <3>0. c # d
      BY <1>1, <2>1
    <3>1. CASE call[c].at = "insert"
      BY <1>0, <1>3, <2>1, <3>0, <3>1 DEF OneToken, Adding
    <3>2. CASE \E t \in tokens : t.sid = call[d].sid
      BY <1>0, <1>3, <3>2 DEF OneToken
    <3> QED BY <2>1, <3>1, <3>2 DEF Writes
  <2> QED BY <1>1, <1>2, <1>3, <2>1 DEF RecOK
<1>n. call'[d].at = "len" => call'[d].user \in Users
  BY <1>0 DEF LoginOK
<1>4. Adding(d)' => call'[d].sid \in drawn' /\ call'[d].user \in Users
  BY <1>2, <1>m DEF Adding
<1>5. call'[d].at = "insert" => rec'[call'[d].sid] = NoRec
  BY <1>0, <1>3 DEF LoginOK, Adding
<1>6. ASSUME call'[d].at \in {"sadd_user", "sadd_index"}
      PROVE  /\ Redis' /\ (rec'[call'[d].sid] # NoRec => rec'[call'[d].sid].user = call'[d].user)
             /\ \E t \in Tokens : call'[d].token = {t} /\ t.sid = call'[d].sid /\ t.user = call'[d].user /\ t.version <= version'[t.user]
  <2>1. /\ Redis /\ (rec[call[d].sid] # NoRec => rec[call[d].sid].user = call[d].user)
        /\ \E t \in Tokens : call[d].token = {t} /\ t.sid = call[d].sid /\ t.user = call[d].user /\ t.version <= version[t.user]
    BY <1>0, <1>6 DEF LoginOK
  <2>2. Redis' /\ (rec'[call'[d].sid] # NoRec => rec'[call'[d].sid].user = call'[d].user)
    BY <1>3, <1>6, <1>m, <2>1 DEF Adding, Redis
  <2>3. PICK t \in Tokens : call[d].token = {t} /\ t.sid = call[d].sid /\ t.user = call[d].user /\ t.version <= version[t.user]
    BY <2>1
  <2>4. t.user \in Users /\ t.version \in Nat
    BY <2>3 DEF Tokens
  <2>5. t.version <= version'[t.user]
    BY <1>v, <2>3, <2>4
  <2> QED BY <2>2, <2>3, <2>5
<1>7. ASSUME call'[d].at = "sadd_index" PROVE call'[d].sid \in members'[call'[d].user] \/ call'[d].sid \in raced'
  <2>1. call[d].sid \in members[call[d].user] \/ call[d].sid \in raced
    BY <1>0, <1>7 DEF LoginOK
  <2>2. call[d].user \in Users
    BY <1>2, <1>7 DEF Adding
  <2> QED BY <1>1, <1>7, <1>m, <2>1, <2>2 DEF SetOK
<1> QED BY <1>n, <1>4, <1>5, <1>6, <1>7 DEF LoginOK

LEMMA KeptRest ==
    ASSUME SessionsInv, SessionTypes', NEW c \in Callers, NEW k \in CallRecords, Unmoved(c, k),
           NEW d \in Callers, call'[d] = call[d]
    PROVE  RequestOK(d)' /\ LogoutOK(d)' /\ EverywhereOK(d)'
<1>0. SessionTypes /\ OneToken /\ RequestOK(d) /\ LogoutOK(d) /\ EverywhereOK(d)
  BY DEF SessionsInv, CallsOK
<1>1. Moves(c, k) /\ Mono /\ RecOK(c, k) /\ FreshOK(c, k)
  BY DEF Unmoved
<1>m. tokens \subseteq tokens' /\ backend' = backend /\ raced \subseteq raced' /\ revoked \subseteq revoked'
  BY <1>1 DEF Mono
<1>v. version \in [Users -> Nat] /\ version' \in [Users -> Nat] /\ \A u \in Users : version[u] <= version'[u]
  BY <1>0, <1>1 DEF SessionTypes, Mono
<1>g. \A s \in Sids : (Gone(s) => Gone(s)') /\ (Placed(s) => Placed(s)')
  BY <1>0, <1>1, KeptGone, KeptPlaced
<1>k. call[d].todo \subseteq Sids /\ call[d].past \subseteq Sids /\ call[d].sid \in Sids \cup {"none"}
  BY <1>0, CallIs
<1>2. RequestOK(d)'
  <2>1. call'[d].at = "touch_set" => Redis'
    BY <1>0, <1>m DEF RequestOK, Redis
  <2>2. ASSUME call'[d].at \in {"get", "check", "touch", "touch_set"}
        PROVE  \E t \in tokens' :
                 /\ call'[d].token = {t} /\ t.sid = call'[d].sid
                 /\ call'[d].at \in {"check", "touch_set"} => \E r \in Entries : call'[d].read = {r} /\ r.user = t.user
                 /\ call'[d].sid \in call'[d].past =>
                       /\ call'[d].at = "get" => call'[d].sid \in revoked'
                       /\ call'[d].at = "check" => Lost(call[d].sid)' \/ Outdated(t)'
                       /\ call'[d].at \in {"touch", "touch_set"} => Lost(call[d].sid)'
    <3>1. PICK t \in tokens :
             /\ call[d].token = {t} /\ t.sid = call[d].sid
             /\ call[d].at \in {"check", "touch_set"} => \E r \in Entries : call[d].read = {r} /\ r.user = t.user
             /\ call[d].sid \in call[d].past =>
                   /\ call[d].at = "get" => call[d].sid \in revoked
                   /\ call[d].at = "check" => Lost(call[d].sid) \/ Outdated(t)
                   /\ call[d].at \in {"touch", "touch_set"} => Lost(call[d].sid)
      BY <1>0, <2>2 DEF RequestOK
    <3>2. t.user \in Users /\ t.version \in Nat
      BY <1>0, TokenSid
    <3>3. Outdated(t) => Outdated(t)'
      BY <1>v, <3>2 DEF Outdated
    <3>4. Lost(call[d].sid) => call[d].sid \in raced' /\ Redis'
      BY <1>m DEF Lost, Redis
    <3>5. Lost(call[d].sid) => Lost(call[d].sid)'
      BY <3>4 DEF Lost
    <3>6. t \in tokens'
      BY <1>m
    <3> QED BY <3>1, <3>3, <3>5, <3>6, <1>m
  <2> QED BY <2>1, <2>2 DEF RequestOK, Lost
<1>3. LogoutOK(d)'
  <2>1. call'[d].at \in {"remove", "del", "srem_user", "srem_index"} => \E t \in tokens' : t.sid = call'[d].sid
    BY <1>0, <1>m DEF LogoutOK
  <2>2. ASSUME call'[d].at \in {"srem_user", "srem_index"} PROVE Gone(call[d].sid)'
    <3>1. PICK t \in tokens : t.sid = call[d].sid
      BY <1>0, <2>2 DEF LogoutOK
    <3>2. t.sid \in Sids
      BY <1>0, TokenSid
    <3>3. Gone(call[d].sid)
      BY <1>0, <2>2 DEF LogoutOK
    <3>4. PICK s \in Sids : s = call[d].sid
      BY <3>1, <3>2
    <3> QED BY <1>g, <3>3, <3>4
  <2> QED BY <1>0, <2>1, <2>2, <1>m DEF LogoutOK, Redis, Gone, Lost, Buried, Placed
<1>4. EverywhereOK(d)'
  BY <1>0, <1>g, <1>k, <1>m DEF EverywhereOK
<1> QED BY <1>2, <1>3, <1>4

LEMMA Framing ==
    ASSUME SessionsInv, SessionTypes', NEW c \in Callers, NEW k \in CallRecords, Unmoved(c, k)
    PROVE  OneToken' /\ InSet' /\ StaysOut' /\ CallsOK' /\ RevokedStaysOut'
<1>1. call' = [call EXCEPT ![c] = k] /\ call \in [Callers -> CallRecords] /\ NextOK(c, k)
  BY DEF Unmoved, Moves, SessionsInv, SessionTypes
<1>2. ASSUME NEW d \in Callers PROVE CallOf(d)'
  <2>1. CASE call'[d] = call[d]
    BY <2>1, KeptLogin, KeptRest DEF CallOf
  <2>2. CASE call'[d] # call[d]
    BY <1>1, <2>2 DEF NextOK
  <2> QED BY <2>1, <2>2
<1>3. CallsOK'
  BY <1>2 DEF CallsOK, CallOf
<1> QED BY <1>3, KeptOneToken, KeptInSet, KeptOut

-----------------------------------------------------------------------------
(* The steps that leave records, sets, tokens and revocations alone.       *)
Counts(c, k) == Redis \/ (k.at = "insert" \/ call[c].at = "insert" => k = call[c])
Kept(c) == SessionTypes' /\ \E k \in CallRecords : Unmoved(c, k) /\ Counts(c, k)
Quiet == UNCHANGED <<backend, rec, members, version, tokens, revoked, raced>>

LEMMA QuietFrame ==
    ASSUME SessionsInv, NEW c \in Callers, NEW k \in CallRecords, Moves(c, k), Quiet, drawn' \in SUBSET Sids, clock' \in Nat,
           drawn \subseteq drawn', FreshOK(c, k), LeakOK(c), NextOK(c, k)
    PROVE  SessionTypes' /\ Unmoved(c, k)
<1>0. SessionTypes
  BY DEF SessionsInv
<1>1. SessionTypes'
  <2>1. call' \in [Callers -> CallRecords]
    BY <1>0, MoveFacts DEF SessionTypes
  <2> QED BY <1>0, <2>1 DEF SessionTypes, Quiet
<1>2. Mono
  BY <1>0 DEF Mono, Quiet, SessionTypes
<1>3. RecOK(c, k) /\ TokOK(c, k) /\ RevOK /\ SetOK(c, k)
  BY DEF RecOK, TokOK, RevOK, SetOK, Quiet
<1> QED BY <1>1, <1>2, <1>3 DEF Unmoved

LEMMA IdleNext ==
    ASSUME SessionTypes, NEW c \in Callers, Moves(c, Idle)
    PROVE  FreshOK(c, Idle) /\ NextOK(c, Idle) /\ Idle \in CallRecords
<1>1. call'[c] = Idle
  BY IdleFacts, MoveFacts DEF SessionTypes
<1>2. call'[c].at = "idle"
  BY <1>1, IdleFacts
<1> QED BY <1>2, IdleFacts DEF FreshOK, NextOK, CallOf, LoginOK, RequestOK, LogoutOK, EverywhereOK, Adding

\* A call that returns having changed nothing.
LEMMA QuietReturn ==
    ASSUME SessionsInv, NEW c \in Callers, Moves(c, Idle), Quiet, UNCHANGED <<drawn, clock>>, LeakOK(c), Redis \/ call[c].at # "insert"
    PROVE  Kept(c)
<1>0. SessionTypes
  BY DEF SessionsInv
<1>1. FreshOK(c, Idle) /\ NextOK(c, Idle) /\ Idle \in CallRecords
  BY <1>0, IdleNext
<1>2. drawn' \in SUBSET Sids /\ clock' \in Nat /\ drawn \subseteq drawn'
  BY <1>0 DEF SessionTypes
<1>3. SessionTypes' /\ Unmoved(c, Idle)
  BY <1>1, <1>2, QuietFrame
<1>4. Counts(c, Idle)
  BY IdleFacts DEF Counts
<1> QED BY <1>1, <1>3, <1>4 DEF Kept

\* A call that goes on having changed nothing.
LEMMA QuietMove ==
    ASSUME SessionsInv, NEW c \in Callers, NEW k \in CallRecords, Moves(c, k), Quiet, UNCHANGED <<drawn, clock, leaked>>,
           k.at \notin {"insert", "sadd_user", "sadd_index"}, k.at = "touch_set" => rec[k.sid] # NoRec, call[c].at # "insert",
           RequestOK(c)', LogoutOK(c)', EverywhereOK(c)', k.at = "len" => k.user \in Users
    PROVE  Kept(c)
<1>0. SessionTypes
  BY DEF SessionsInv
<1>1. call'[c] = k
  BY <1>0, MoveFacts DEF SessionTypes
<1>2. LoginOK(c)'
  BY <1>1 DEF LoginOK, Adding
<1>3. FreshOK(c, k) /\ NextOK(c, k) /\ LeakOK(c) /\ Counts(c, k)
  BY <1>2 DEF FreshOK, NextOK, CallOf, LeakOK, Counts
<1>4. drawn' \in SUBSET Sids /\ clock' \in Nat /\ drawn \subseteq drawn'
  BY <1>0 DEF SessionTypes
<1>5. SessionTypes' /\ Unmoved(c, k)
  BY <1>3, <1>4, QuietFrame
<1> QED BY <1>3, <1>5 DEF Kept

LEMMA LoginKeeps == ASSUME SessionsInv, NEW c \in Callers, NEW u \in Users, LoginAt(c, u) PROVE Kept(c)
<1>0. SessionTypes
  BY DEF SessionsInv
<1>1. PICK k : k = [Idle EXCEPT !.at = "len", !.user = u, !.time = clock]
  OBVIOUS
<1>2. clock \in Nat
  BY <1>0 DEF SessionTypes
<1>3. k \in CallRecords /\ k.at = "len" /\ k.user = u
  BY <1>1, <1>2 DEF Idle, CallRecords, Places
<1>4. Moves(c, k) /\ Quiet /\ UNCHANGED <<drawn, clock, leaked>> /\ call[c].at = "idle"
  BY <1>1 DEF LoginAt, Moves, Quiet, Begin, Step
<1>5. call'[c] = k
  BY <1>0, <1>3, <1>4, MoveFacts DEF SessionTypes
<1>6. RequestOK(c)' /\ LogoutOK(c)' /\ EverywhereOK(c)'
  BY <1>3, <1>5 DEF RequestOK, LogoutOK, EverywhereOK
<1> QED BY <1>3, <1>4, <1>6, QuietMove

LEMMA AuthenticateKeeps == ASSUME SessionsInv, NEW c \in Callers, NEW t \in tokens, Authenticate(c, t) PROVE Kept(c)
<1>0. SessionTypes
  BY DEF SessionsInv
<1>1. PICK k : k = [Idle EXCEPT !.at = "get", !.token = {t}, !.sid = t.sid, !.time = clock, !.past = revoked]
  OBVIOUS
<1>2. clock \in Nat /\ revoked \subseteq Sids /\ t \in Tokens /\ t.sid \in Sids
  BY <1>0, TokenSid DEF SessionTypes
<1>3. k \in CallRecords /\ k.at = "get" /\ k.token = {t} /\ k.sid = t.sid /\ k.past = revoked
  BY <1>1, <1>2 DEF Idle, CallRecords, Places
<1>4. Moves(c, k) /\ Quiet /\ UNCHANGED <<drawn, clock, leaked>> /\ call[c].at = "idle"
  BY <1>1 DEF Authenticate, Moves, Quiet, Begin, Step
<1>5. call'[c] = k
  BY <1>0, <1>3, <1>4, MoveFacts DEF SessionTypes
<1>6. LogoutOK(c)' /\ EverywhereOK(c)'
  BY <1>3, <1>5 DEF LogoutOK, EverywhereOK
<1>7. RequestOK(c)'
  BY <1>3, <1>4, <1>5 DEF RequestOK, Quiet
<1> QED BY <1>3, <1>4, <1>6, <1>7, QuietMove

LEMMA LogoutKeeps == ASSUME SessionsInv, NEW c \in Callers, NEW t \in tokens, Logout(c, t.sid) PROVE Kept(c)
<1>0. SessionTypes
  BY DEF SessionsInv
<1>1. PICK k : k = [Idle EXCEPT !.at = "remove", !.sid = t.sid, !.why = "logout"]
  OBVIOUS
<1>2. t.sid \in Sids
  BY <1>0, TokenSid
<1>3. k \in CallRecords /\ k.at = "remove" /\ k.sid = t.sid
  BY <1>1, <1>2 DEF Idle, CallRecords, Places
<1>4. Moves(c, k) /\ Quiet /\ UNCHANGED <<drawn, clock, leaked>> /\ call[c].at = "idle"
  BY <1>1 DEF Logout, Moves, Quiet, Begin, Step
<1>5. call'[c] = k
  BY <1>0, <1>3, <1>4, MoveFacts DEF SessionTypes
<1>6. RequestOK(c)' /\ EverywhereOK(c)'
  BY <1>3, <1>5 DEF RequestOK, EverywhereOK
<1>7. LogoutOK(c)'
  BY <1>3, <1>4, <1>5 DEF LogoutOK, Quiet
<1> QED BY <1>3, <1>4, <1>6, <1>7, QuietMove

LEMMA LogoutUserKeeps == ASSUME SessionsInv, NEW c \in Callers, NEW u \in Users, LogoutUser(c, u) PROVE Kept(c)
<1>0. SessionTypes
  BY DEF SessionsInv
<1>1. PICK k : k = [Idle EXCEPT !.at = "members", !.user = u, !.past = SidsOf(u)]
  OBVIOUS
<1>2. SidsOf(u) \subseteq Sids
  BY <1>0, TokenSid DEF SidsOf
<1>3. k \in CallRecords /\ k.at = "members" /\ k.user = u /\ k.past = SidsOf(u) /\ k.todo = {}
  BY <1>1, <1>2 DEF Idle, CallRecords, Places
<1>4. Moves(c, k) /\ Quiet /\ UNCHANGED <<drawn, clock, leaked>> /\ call[c].at = "idle"
  BY <1>1 DEF LogoutUser, Moves, Quiet, Begin, Step
<1>5. call'[c] = k
  BY <1>0, <1>3, <1>4, MoveFacts DEF SessionTypes
<1>6. RequestOK(c)' /\ LogoutOK(c)'
  BY <1>3, <1>5 DEF RequestOK, LogoutOK
<1>7. \A s \in SidsOf(u) : \E t \in tokens' : t.sid = s /\ t.user = u
  BY <1>4 DEF SidsOf, Quiet
<1>8. EverywhereOK(c)'
  BY <1>3, <1>5, <1>7 DEF EverywhereOK
<1> QED BY <1>3, <1>4, <1>6, <1>8, QuietMove

LEMMA StoreGetKeeps == ASSUME SessionsInv, NEW c \in Callers, StoreGet(c) PROVE Kept(c)
<1>0. SessionTypes /\ OneToken /\ StaysOut /\ RequestOK(c)
  BY DEF SessionsInv, CallsOK
<1>1. Quiet /\ UNCHANGED <<drawn, clock, leaked>> /\ call[c].at = "get"
  BY DEF StoreGet, Quiet, Step
<1>2. PICK t \in tokens : call[c].token = {t} /\ t.sid = call[c].sid /\ (call[c].sid \in call[c].past => call[c].sid \in revoked)
  BY <1>0, <1>1 DEF RequestOK
<1>3. CASE rec[call[c].sid] = NoRec
  <2>1. Moves(c, Idle)
    BY <1>3, ReturnFacts DEF StoreGet
  <2> QED BY <1>1, <2>1, QuietReturn DEF LeakOK
<1>4. CASE rec[call[c].sid] # NoRec
  <2>1. PICK x \in CallRecords : x = call[c]
    BY <1>0, CallIs
  <2>2. PICK k : k = [x EXCEPT !.at = "check", !.read = {rec[call[c].sid]}]
    OBVIOUS
  <2>3. t.sid \in Sids /\ t.user \in Users
    BY <1>0, TokenSid
  <2>4. rec[call[c].sid] \in Entries
    BY <1>0, <1>2, <2>3 DEF SessionTypes
  <2>5. k \in CallRecords /\ k.at = "check" /\ k.read = {rec[call[c].sid]} /\ k.token = x.token /\ k.sid = x.sid /\ k.past = x.past
    BY <2>2, <2>4 DEF CallRecords, Places
  <2>6. Moves(c, k)
    BY <1>4, <2>1, <2>2 DEF StoreGet, Moves
  <2>7. call'[c] = k
    BY <1>0, <2>5, <2>6, MoveFacts DEF SessionTypes
  <2>8. LogoutOK(c)' /\ EverywhereOK(c)'
    BY <2>5, <2>7 DEF LogoutOK, EverywhereOK
  <2>9. rec[t.sid].user = t.user
    BY <1>0, <1>2, <1>4 DEF OneToken
  <2>10. ASSUME t.sid \in call[c].past PROVE Lost(t.sid)' \/ Outdated(t)'
    <3>1. t.sid \in revoked
      BY <1>2, <2>10
    <3>2. PICK y \in tokens : y.sid = t.sid /\ (Gone(t.sid) \/ Outdated(y))
      BY <1>0, <3>1 DEF StaysOut
    <3>3. y = t
      BY <1>0, <3>2 DEF OneToken
    <3>4. ~Buried(t.sid)
      BY <1>2, <1>4 DEF Buried
    <3>5. Lost(t.sid) \/ Outdated(t)
      BY <3>2, <3>3, <3>4 DEF Gone
    <3> QED BY <1>1, <3>5 DEF Lost, Outdated, Quiet, Redis
  <2>11. RequestOK(c)'
    <3>1. t \in tokens'
      BY <1>1 DEF Quiet
    <3>2. call'[c].token = {t} /\ call'[c].sid = t.sid /\ call'[c].past = call[c].past /\ call'[c].at = "check"
      BY <1>2, <2>1, <2>5, <2>7
    <3>3. \E r \in Entries : call'[c].read = {r} /\ r.user = t.user
      BY <1>2, <2>4, <2>5, <2>7, <2>9
    <3> QED BY <2>10, <3>1, <3>2, <3>3 DEF RequestOK
  <2>12. k.at \notin {"insert", "sadd_user", "sadd_index"} /\ k.at # "touch_set" /\ k.at # "len" /\ call[c].at # "insert"
    BY <1>1, <2>5
  <2> QED BY <1>1, <2>5, <2>6, <2>8, <2>11, <2>12, QuietMove
<1> QED BY <1>3, <1>4

\* A request whose session was revoked before it began is granted only when the revocation was lost.
LEMMA GrantFacts == ASSUME NEW c \in Callers, Grant(c), call[c].sid \in call[c].past => Lost(call[c].sid)
                    PROVE  Moves(c, Idle) /\ LeakOK(c)
BY ReturnFacts DEF Grant, LeakOK, Lost

LEMMA CheckKeeps == ASSUME SessionsInv, NEW c \in Callers, Check(c) PROVE Kept(c)
<1>0. SessionTypes /\ RequestOK(c)
  BY DEF SessionsInv, CallsOK
<1>1. Quiet /\ UNCHANGED <<drawn, clock>> /\ call[c].at = "check"
  BY DEF Check, Quiet, Step
<1>2. PICK t \in tokens : /\ call[c].token = {t} /\ t.sid = call[c].sid
                          /\ \E r \in Entries : call[c].read = {r} /\ r.user = t.user
                          /\ call[c].sid \in call[c].past => Lost(call[c].sid) \/ Outdated(t)
  BY <1>0, <1>1 DEF RequestOK
<1>t. t.user \in Users /\ t.version \in Nat /\ version \in [Users -> Nat]
  BY <1>0, TokenSid DEF SessionTypes
<1>o. Outdated(t) => version[t.user] # t.version
  BY <1>t DEF Outdated
<1>3. \/ call' = [call EXCEPT ![c] = [@ EXCEPT !.at = "remove", !.why = "evict"]] /\ UNCHANGED leaked
      \/ version[t.user] = t.version /\ Goto(c, "touch") /\ UNCHANGED leaked
      \/ version[t.user] = t.version /\ Grant(c)
  BY <1>2 DEF Check
<1>4. CASE call' = [call EXCEPT ![c] = [@ EXCEPT !.at = "remove", !.why = "evict"]] /\ UNCHANGED leaked
  <2>1. PICK x \in CallRecords : x = call[c]
    BY <1>0, CallIs
  <2>2. PICK k : k = [x EXCEPT !.at = "remove", !.why = "evict"]
    OBVIOUS
  <2>3. k \in CallRecords /\ k.at = "remove" /\ k.sid = x.sid
    BY <2>2 DEF CallRecords, Places
  <2>4. Moves(c, k)
    BY <1>4, <2>1, <2>2 DEF Moves
  <2>5. call'[c] = k
    BY <1>0, <2>3, <2>4, MoveFacts DEF SessionTypes
  <2>6. RequestOK(c)' /\ EverywhereOK(c)'
    BY <2>3, <2>5 DEF RequestOK, EverywhereOK
  <2>7. LogoutOK(c)'
    BY <1>1, <1>2, <2>1, <2>3, <2>5 DEF LogoutOK, Quiet
  <2>8. k.at \notin {"insert", "sadd_user", "sadd_index"} /\ k.at # "touch_set" /\ k.at # "len" /\ call[c].at # "insert"
    BY <1>1, <2>3
  <2> QED BY <1>1, <1>4, <2>3, <2>4, <2>6, <2>7, <2>8, QuietMove
<1>5. CASE version[t.user] = t.version /\ Goto(c, "touch") /\ UNCHANGED leaked
  <2>1. "touch" \in Places
    BY DEF Places
  <2>2. PICK k \in CallRecords : Moves(c, k) /\ k.at = "touch" /\ k.sid = call[c].sid /\ k.token = call[c].token /\ k.past = call[c].past
    BY <1>0, <1>5, <2>1, GotoFacts
  <2>3. call'[c] = k
    BY <1>0, <2>2, MoveFacts DEF SessionTypes
  <2>4. LogoutOK(c)' /\ EverywhereOK(c)'
    BY <2>2, <2>3 DEF LogoutOK, EverywhereOK
  <2>5. call[c].sid \in call[c].past => Lost(t.sid)'
    BY <1>1, <1>2, <1>o, <1>5 DEF Lost, Redis, Quiet
  <2>6. RequestOK(c)'
    <3>1. t \in tokens'
      BY <1>1 DEF Quiet
    <3>2. call'[c].token = {t} /\ call'[c].sid = t.sid /\ call'[c].past = call[c].past /\ call'[c].at = "touch"
      BY <1>2, <2>2, <2>3
    <3> QED BY <1>2, <2>5, <3>1, <3>2 DEF RequestOK
  <2>7. k.at \notin {"insert", "sadd_user", "sadd_index"} /\ k.at # "touch_set" /\ k.at # "len" /\ call[c].at # "insert"
    BY <1>1, <2>2
  <2> QED BY <1>1, <1>5, <2>2, <2>4, <2>6, <2>7, QuietMove
<1>6. CASE version[t.user] = t.version /\ Grant(c)
  <2>1. Moves(c, Idle) /\ LeakOK(c)
    BY <1>2, <1>o, <1>6, GrantFacts
  <2> QED BY <1>1, <2>1, QuietReturn
<1> QED BY <1>3, <1>4, <1>5, <1>6

LEMMA TouchGetKeeps == ASSUME SessionsInv, NEW c \in Callers, TouchGet(c) PROVE Kept(c)
<1>0. SessionTypes /\ OneToken /\ RequestOK(c)
  BY DEF SessionsInv, CallsOK
<1>1. Quiet /\ UNCHANGED <<drawn, clock>> /\ call[c].at = "touch" /\ Redis
  BY DEF TouchGet, Quiet, Step
<1>2. PICK t \in tokens : /\ call[c].token = {t} /\ t.sid = call[c].sid
                          /\ call[c].sid \in call[c].past => Lost(call[c].sid)
  BY <1>0, <1>1 DEF RequestOK
<1>3. CASE rec[call[c].sid] = NoRec
  <2>1. Moves(c, Idle) /\ LeakOK(c)
    BY <1>2, <1>3, GrantFacts DEF TouchGet
  <2> QED BY <1>1, <2>1, QuietReturn
<1>4. CASE rec[call[c].sid] # NoRec
  <2>1. PICK x \in CallRecords : x = call[c]
    BY <1>0, CallIs
  <2>2. PICK k : k = [x EXCEPT !.at = "touch_set", !.read = {rec[call[c].sid]}]
    OBVIOUS
  <2>3. t.sid \in Sids /\ t.user \in Users
    BY <1>0, TokenSid
  <2>4. rec[call[c].sid] \in Entries
    BY <1>0, <1>2, <2>3 DEF SessionTypes
  <2>5. k \in CallRecords /\ k.at = "touch_set" /\ k.read = {rec[call[c].sid]} /\ k.token = x.token /\ k.sid = x.sid /\ k.past = x.past
    BY <2>2, <2>4 DEF CallRecords, Places
  <2>6. Moves(c, k) /\ UNCHANGED leaked
    BY <1>4, <2>1, <2>2 DEF TouchGet, Moves
  <2>7. call'[c] = k
    BY <1>0, <2>5, <2>6, MoveFacts DEF SessionTypes
  <2>8. LogoutOK(c)' /\ EverywhereOK(c)'
    BY <2>5, <2>7 DEF LogoutOK, EverywhereOK
  <2>9. rec[t.sid].user = t.user
    BY <1>0, <1>2, <1>4 DEF OneToken
  <2>10. t.sid \in call[c].past => Lost(t.sid)'
    BY <1>1, <1>2 DEF Lost, Redis, Quiet
  <2>11. RequestOK(c)'
    <3>1. t \in tokens' /\ Redis'
      BY <1>1 DEF Quiet, Redis
    <3>2. call'[c].token = {t} /\ call'[c].sid = t.sid /\ call'[c].past = call[c].past /\ call'[c].at = "touch_set"
      BY <1>2, <2>1, <2>5, <2>7
    <3>3. \E r \in Entries : call'[c].read = {r} /\ r.user = t.user
      BY <1>2, <2>4, <2>5, <2>7, <2>9
    <3> QED BY <2>10, <3>1, <3>2, <3>3 DEF RequestOK
  <2>12. k.at \notin {"insert", "sadd_user", "sadd_index"} /\ rec[k.sid] # NoRec /\ k.at # "len" /\ call[c].at # "insert"
    BY <1>1, <1>4, <2>1, <2>5
  <2> QED BY <1>1, <2>5, <2>6, <2>8, <2>11, <2>12, QuietMove
<1> QED BY <1>3, <1>4

LEMMA RemoveGetKeeps == ASSUME SessionsInv, NEW c \in Callers, RemoveGet(c) PROVE Kept(c)
<1>0. SessionTypes /\ LogoutOK(c)
  BY DEF SessionsInv, CallsOK
<1>1. Quiet /\ UNCHANGED <<drawn, clock, leaked>> /\ call[c].at = "remove" /\ Redis
  BY DEF RemoveGet, Quiet, Step
<1>2. PICK t \in tokens : t.sid = call[c].sid
  BY <1>0, <1>1 DEF LogoutOK
<1>3. PICK x \in CallRecords : x = call[c]
  BY <1>0, CallIs
<1>4. PICK k : k = [x EXCEPT !.at = "del", !.read = {rec[call[c].sid]}]
  OBVIOUS
<1>5. rec[call[c].sid] \in Entries
  BY <1>0, <1>2, TokenSid DEF SessionTypes
<1>6. k \in CallRecords /\ k.at = "del" /\ k.sid = x.sid
  BY <1>4, <1>5 DEF CallRecords, Places
<1>7. Moves(c, k)
  BY <1>3, <1>4 DEF RemoveGet, Moves
<1>8. call'[c] = k
  BY <1>0, <1>6, <1>7, MoveFacts DEF SessionTypes
<1>9. RequestOK(c)' /\ EverywhereOK(c)'
  BY <1>6, <1>8 DEF RequestOK, EverywhereOK
<1>10. LogoutOK(c)'
  BY <1>1, <1>2, <1>3, <1>6, <1>8 DEF LogoutOK, Quiet, Redis
<1>11. k.at \notin {"insert", "sadd_user", "sadd_index"} /\ k.at # "touch_set" /\ k.at # "len" /\ call[c].at # "insert"
  BY <1>1, <1>6
<1> QED BY <1>1, <1>6, <1>7, <1>9, <1>10, <1>11, QuietMove

LEMMA SmembersKeeps == ASSUME SessionsInv, NEW c \in Callers, Smembers(c) PROVE Kept(c)
<1>0. SessionTypes /\ OneToken /\ InSet /\ EverywhereOK(c)
  BY DEF SessionsInv, CallsOK
<1>1. Quiet /\ UNCHANGED <<drawn, clock, leaked>> /\ call[c].at = "members" /\ Redis
  BY DEF Smembers, Quiet, Step
<1>2. PICK x \in CallRecords : x = call[c]
  BY <1>0, CallIs
<1>3. x.user \in Users /\ \A s \in x.past : \E t \in tokens : t.sid = s /\ t.user = x.user
  BY <1>0, <1>1, <1>2 DEF EverywhereOK
<1>4. PICK m \in SUBSET Sids : m = members[x.user]
  BY <1>0, <1>3 DEF SessionTypes
<1>5. PICK k : k = [x EXCEPT !.at = "each", !.todo = m]
  OBVIOUS
<1>6. k \in CallRecords /\ k.at = "each" /\ k.todo = m /\ k.past = x.past /\ k.user = x.user
  BY <1>4, <1>5 DEF CallRecords, Places
<1>7. Moves(c, k)
  BY <1>2, <1>4, <1>5 DEF Smembers, Moves
<1>8. call'[c] = k
  BY <1>0, <1>6, <1>7, MoveFacts DEF SessionTypes
<1>9. RequestOK(c)' /\ LogoutOK(c)'
  BY <1>1, <1>6, <1>8 DEF RequestOK, LogoutOK, Quiet, Redis
<1>10. ASSUME NEW s \in Sids, Placed(s) \/ Gone(s) PROVE (Placed(s) => Placed(s)') /\ (Gone(s) => Gone(s)')
  <2>1. Mono /\ FreshOK(c, k)
    BY <1>0, <1>1, <1>6 DEF Mono, FreshOK, Quiet, SessionTypes
  <2>2. RecOK(c, k)
    BY <1>1 DEF RecOK, Quiet
  <2> QED BY <1>0, <1>6, <1>7, <2>1, <2>2, KeptPlaced, KeptGone
<1>11. \A s \in k.past : s \in k.todo \/ Gone(s)'
  <2> SUFFICES ASSUME NEW s \in x.past PROVE s \in m \/ Gone(s)'
    BY <1>6
  <2>1. PICK t \in tokens : t.sid = s /\ t.user = x.user
    BY <1>3
  <2>2. Gone(s) \/ s \in m
    BY <1>0, <1>1, <1>4, <2>1 DEF InSet
  <2>3. s \in Sids
    BY <1>0, <2>1, TokenSid
  <2> QED BY <1>10, <2>2, <2>3
<1>12. \A s \in k.todo : Placed(s)'
  BY <1>0, <1>3, <1>4, <1>6, <1>10 DEF InSet
<1>13. \A s \in k.past : \E t \in tokens' : t.sid = s /\ t.user = k.user
  BY <1>1, <1>3, <1>6 DEF Quiet
<1>14. EverywhereOK(c)'
  BY <1>3, <1>6, <1>8, <1>11, <1>12, <1>13 DEF EverywhereOK
<1>15. k.at \notin {"insert", "sadd_user", "sadd_index"} /\ k.at # "touch_set" /\ k.at # "len" /\ call[c].at # "insert"
  BY <1>1, <1>6
<1> QED BY <1>1, <1>6, <1>7, <1>9, <1>14, <1>15, QuietMove

LEMMA SremEachKeeps == ASSUME SessionsInv, NEW c \in Callers, SremEach(c) PROVE Kept(c)
<1>0. SessionTypes /\ EverywhereOK(c) /\ LogoutOK(c)
  BY DEF SessionsInv, CallsOK
<1>1. Quiet /\ UNCHANGED <<drawn, clock, leaked>> /\ call[c].at = "each_index"
  BY DEF SremEach, Quiet, Step
<1>2. PICK x \in CallRecords : x = call[c]
  BY <1>0, CallIs
<1>3. /\ x.user \in Users /\ \A s \in x.past : \E t \in tokens : t.sid = s /\ t.user = x.user
      /\ \A s \in x.todo : Placed(s)
      /\ \A s \in x.past : s \in x.todo \ {x.sid} \/ Gone(s)
      /\ x.past \subseteq Sids /\ x.todo \subseteq Sids /\ Redis
  BY <1>0, <1>1, <1>2 DEF EverywhereOK, LogoutOK, CallRecords
<1>5. PICK k : k = [x EXCEPT !.at = "each", !.todo = x.todo \ {x.sid}]
  OBVIOUS
<1>6. k \in CallRecords /\ k.at = "each" /\ k.todo = x.todo \ {x.sid} /\ k.past = x.past /\ k.user = x.user
  BY <1>5 DEF CallRecords, Places
<1>7. Moves(c, k)
  BY <1>2, <1>5 DEF SremEach, Moves
<1>8. call'[c] = k
  BY <1>0, <1>6, <1>7, MoveFacts DEF SessionTypes
<1>9. RequestOK(c)' /\ LogoutOK(c)'
  BY <1>1, <1>3, <1>6, <1>8 DEF RequestOK, LogoutOK, Quiet, Redis
<1>10. ASSUME NEW s \in Sids, Placed(s) \/ Gone(s) PROVE (Placed(s) => Placed(s)') /\ (Gone(s) => Gone(s)')
  <2>1. Mono /\ FreshOK(c, k)
    BY <1>0, <1>1, <1>6 DEF Mono, FreshOK, Quiet, SessionTypes
  <2>2. RecOK(c, k)
    BY <1>1 DEF RecOK, Quiet
  <2> QED BY <1>0, <1>6, <1>7, <2>1, <2>2, KeptPlaced, KeptGone
<1>11. \A s \in k.past : s \in k.todo \/ Gone(s)'
  BY <1>3, <1>6, <1>10
<1>12. \A s \in k.todo : Placed(s)'
  BY <1>3, <1>6, <1>10
<1>13. \A s \in k.past : \E t \in tokens' : t.sid = s /\ t.user = k.user
  BY <1>1, <1>3, <1>6 DEF Quiet
<1>14. EverywhereOK(c)'
  BY <1>3, <1>6, <1>8, <1>11, <1>12, <1>13 DEF EverywhereOK
<1>15. k.at \notin {"insert", "sadd_user", "sadd_index"} /\ k.at # "touch_set" /\ k.at # "len" /\ call[c].at # "insert"
  BY <1>1, <1>6
<1> QED BY <1>1, <1>6, <1>7, <1>9, <1>14, <1>15, QuietMove

LEMMA FailsKeeps == ASSUME SessionsInv, NEW c \in Callers, CommandFails(c) PROVE Kept(c)
<1>0. SessionTypes /\ RequestOK(c)
  BY DEF SessionsInv, CallsOK
<1>1. Quiet /\ UNCHANGED <<drawn, clock>> /\ Redis
  BY DEF CommandFails, Quiet
<1>2. CASE call[c].at \in {"touch", "touch_set"}
  <2>1. call[c].sid \in call[c].past => Lost(call[c].sid)
    BY <1>0, <1>2 DEF RequestOK
  <2>2. Moves(c, Idle) /\ LeakOK(c)
    BY <1>2, <2>1, GrantFacts DEF CommandFails
  <2> QED BY <1>1, <2>2, QuietReturn
<1>3. CASE call[c].at \notin {"touch", "touch_set"}
  <2>1. Moves(c, Idle) /\ LeakOK(c)
    BY <1>3, ReturnFacts DEF CommandFails, LeakOK
  <2> QED BY <1>1, <2>1, QuietReturn
<1> QED BY <1>2, <1>3

-----------------------------------------------------------------------------
(* The steps of a login.                                                   *)
LEMMA StoreLenKeeps ==
    ASSUME SessionsInv, NEW c \in Callers, StoreLen(c)
    PROVE  SessionTypes' /\ \E k \in CallRecords : Unmoved(c, k)
<1>0. SessionTypes /\ OneToken /\ LoginOK(c)
  BY DEF SessionsInv, CallsOK
<1>1. Quiet /\ UNCHANGED <<clock, leaked>> /\ call[c].at = "len"
  BY DEF StoreLen, Quiet, Step
<1>2. CASE StoreCount >= MaxSessions
  <2>1. Moves(c, Idle) /\ UNCHANGED drawn /\ LeakOK(c)
    BY <1>1, <1>2, ReturnFacts DEF StoreLen, LeakOK
  <2> QED BY <1>1, <2>1, QuietReturn DEF Kept
<1>3. CASE ~(StoreCount >= MaxSessions)
  <2>1. PICK sid \in Sids \ drawn : /\ drawn' = drawn \cup {sid}
                                    /\ call' = [call EXCEPT ![c] = [@ EXCEPT !.at = "insert", !.sid = sid]]
    BY <1>3 DEF StoreLen
  <2>2. PICK x \in CallRecords : x = call[c]
    BY <1>0, CallIs
  <2>3. PICK k : k = [x EXCEPT !.at = "insert", !.sid = sid]
    OBVIOUS
  <2>4. k \in CallRecords /\ k.at = "insert" /\ k.sid = sid /\ k.user = x.user
    BY <2>3 DEF CallRecords, Places
  <2>5. Moves(c, k)
    BY <2>1, <2>2, <2>3 DEF Moves
  <2>6. call'[c] = k
    BY <1>0, <2>4, <2>5, MoveFacts DEF SessionTypes
  <2>7. x.user \in Users /\ rec'[sid] = NoRec
    BY <1>0, <1>1, <2>1, <2>2 DEF LoginOK, OneToken, Quiet
  <2>8. CallOf(c)'
    <3>1. call'[c].at = "insert" /\ call'[c].sid = sid /\ call'[c].user \in Users /\ sid \in drawn'
      BY <2>1, <2>2, <2>4, <2>6, <2>7
    <3>2. LoginOK(c)'
      BY <3>1, <2>7 DEF LoginOK
    <3>3. RequestOK(c)' /\ LogoutOK(c)' /\ EverywhereOK(c)'
      BY <3>1 DEF RequestOK, LogoutOK, EverywhereOK
    <3> QED BY <3>2, <3>3 DEF CallOf
  <2>9. drawn' \in SUBSET Sids /\ clock' \in Nat /\ drawn \subseteq drawn'
    BY <1>0, <1>1, <2>1 DEF SessionTypes
  <2>10. FreshOK(c, k) /\ LeakOK(c) /\ NextOK(c, k)
    BY <1>1, <2>1, <2>4, <2>8 DEF FreshOK, LeakOK, NextOK
  <2> QED BY <1>1, <2>4, <2>5, <2>9, <2>10, QuietFrame
<1> QED BY <1>2, <1>3

LEMMA NoRecIs == NoRec \in Entries
BY DEF NoRec, Entries

\* The sid and the user of a login, and that both stay its own.
LEMMA AddingIs ==
    ASSUME SessionsInv, NEW c \in Callers, Adding(c)
    PROVE  /\ call[c].sid \in Sids /\ call[c].sid \in drawn /\ call[c].user \in Users
           /\ \A t \in tokens : t.sid # call[c].sid
BY DEF SessionsInv, CallsOK, LoginOK, OneToken, SessionTypes

LEMMA InsertKeeps ==
    ASSUME SessionsInv, NEW c \in Callers, InsertRecord(c)
    PROVE  SessionTypes' /\ \E k \in CallRecords : Unmoved(c, k)
<1>0. SessionTypes /\ LoginOK(c) /\ call \in [Callers -> CallRecords]
  BY DEF SessionsInv, CallsOK, SessionTypes
<1>1. call[c].at = "insert" /\ Adding(c)
  BY DEF InsertRecord, Step, Adding
<1>2. PICK s \in Sids, u \in Users : s = call[c].sid /\ u = call[c].user
  BY <1>1, AddingIs
<1>3. PICK n \in Nat : n = call[c].time
  BY <1>0, CallIs
<1>4. PICK e : e = [user |-> u, created |-> n, seen |-> n]
  OBVIOUS
<1>5. e \in Entries /\ e.user = u
  BY <1>3, <1>4 DEF Entries
<1>6. rec' = [rec EXCEPT ![s] = e]
  BY <1>2, <1>3, <1>4 DEF InsertRecord
<1>7. rec \in [Sids -> Entries] /\ rec' \in [Sids -> Entries] /\ rec'[s] = e /\ \A z \in Sids : z # s => rec'[z] = rec[z]
  BY <1>0, <1>5, <1>6 DEF SessionTypes
<1>t. Token(c) \in Tokens /\ Token(c).sid = s /\ Token(c).user = u /\ Token(c).version = version[u] /\ version[u] \in Nat
  <2>1. version[u] \in Nat /\ n + TokenTtl \in Nat
    BY <1>0, <1>2, <1>3, SessionsAssumption DEF SessionTypes
  <2> QED BY <1>2, <1>3, <2>1 DEF Token, Tokens
<1>8. UNCHANGED <<backend, clock, members, version, drawn, revoked, raced, leaked>>
  BY DEF InsertRecord
<1>9. RevOK /\ LeakOK(c)
  BY <1>8 DEF RevOK, LeakOK
<1>10. CASE Redis
  <2>1. PICK x \in CallRecords : x = call[c]
    BY <1>0, CallIs
  <2>2. PICK k : k = [x EXCEPT !.at = "sadd_user", !.token = {Token(c)}]
    OBVIOUS
  <2>3. k \in CallRecords /\ k.at = "sadd_user" /\ k.sid = x.sid /\ k.user = x.user /\ k.token = {Token(c)}
    BY <1>t, <2>2 DEF CallRecords, Places
  <2>4. Moves(c, k) /\ tokens' = tokens
    BY <1>10, <2>1, <2>2 DEF InsertRecord, Moves
  <2>5. call'[c] = k /\ call' \in [Callers -> CallRecords]
    BY <1>0, <2>3, <2>4, MoveFacts
  <2>6. SessionTypes'
    BY <1>0, <1>7, <1>8, <2>4, <2>5 DEF SessionTypes
  <2>7. Mono
    BY <1>0, <1>8, <2>4 DEF Mono, SessionTypes
  <2>8. RecOK(c, k)
    BY <1>1, <1>2, <1>7, <2>1, <2>3 DEF RecOK, Writes
  <2>9. FreshOK(c, k) /\ TokOK(c, k) /\ SetOK(c, k)
    BY <1>1, <1>8, <2>1, <2>3, <2>4 DEF FreshOK, TokOK, SetOK
  <2>10. LoginOK(c)'
    <3>1. call'[c].sid = s /\ call'[c].user = u /\ s \in drawn' /\ call'[c].at = "sadd_user" /\ Redis'
      BY <1>0, <1>1, <1>2, <1>8, <1>10, <2>1, <2>3, <2>5 DEF LoginOK, Redis
    <3>2. PICK t \in Tokens : t = Token(c)
      BY <1>t
    <3>3. call'[c].token = {t} /\ t.sid = s /\ t.user = u /\ t.version <= version'[u]
      BY <1>t, <1>8, <2>3, <2>5, <3>2
    <3> QED BY <1>5, <1>7, <3>1, <3>3 DEF LoginOK
  <2>11. RequestOK(c)' /\ LogoutOK(c)' /\ EverywhereOK(c)'
    BY <2>3, <2>5 DEF RequestOK, LogoutOK, EverywhereOK
  <2> QED BY <1>9, <2>3, <2>4, <2>6, <2>7, <2>8, <2>9, <2>10, <2>11 DEF Unmoved, NextOK, CallOf
<1>11. CASE ~Redis
  <2>1. Moves(c, Idle) /\ tokens' = tokens \cup {Token(c)}
    BY <1>11, ReturnFacts DEF InsertRecord
  <2>2. FreshOK(c, Idle) /\ NextOK(c, Idle) /\ Idle \in CallRecords
    BY <1>0, <2>1, IdleNext
  <2>3. call' \in [Callers -> CallRecords] /\ Idle.at = "idle"
    BY <1>0, <2>1, <2>2, MoveFacts, IdleFacts
  <2>4. SessionTypes'
    BY <1>0, <1>7, <1>8, <1>t, <2>1, <2>3 DEF SessionTypes
  <2>5. Mono
    BY <1>0, <1>8, <2>1 DEF Mono, SessionTypes
  <2>6. RecOK(c, Idle)
    BY <1>1, <1>2, <1>7, <2>3 DEF RecOK, Writes
  <2>7. SetOK(c, Idle)
    BY <1>8 DEF SetOK
  <2>8. TokOK(c, Idle)
    <3>1. PICK t \in Tokens : t = Token(c)
      BY <1>t
    <3>2. Hands(c, Idle, t)
      BY <1>1, <1>2, <1>5, <1>7, <1>11, <1>t, <2>3, <3>1 DEF Hands
    <3> QED BY <2>1, <3>1, <3>2 DEF TokOK
  <2> QED BY <1>9, <2>1, <2>2, <2>4, <2>5, <2>6, <2>7, <2>8 DEF Unmoved
<1> QED BY <1>10, <1>11

LEMMA SaddUserKeeps == ASSUME SessionsInv, NEW c \in Callers, SaddUser(c) PROVE Kept(c)
<1>0. SessionTypes /\ LoginOK(c) /\ call \in [Callers -> CallRecords]
  BY DEF SessionsInv, CallsOK, SessionTypes
<1>1. call[c].at = "sadd_user" /\ Adding(c)
  BY DEF SaddUser, Step, Adding
<1>2. PICK s \in Sids, u \in Users : s = call[c].sid /\ u = call[c].user
  BY <1>1, AddingIs
<1>3. members \in [Users -> SUBSET Sids] /\ members' = [members EXCEPT ![u] = @ \cup {s}]
  BY <1>0, <1>2 DEF SaddUser, SessionTypes
<1>4. members' \in [Users -> SUBSET Sids] /\ members'[u] = members[u] \cup {s} /\ \A v \in Users : v # u => members'[v] = members[v]
  BY <1>3
<1>5. UNCHANGED <<backend, clock, rec, version, tokens, drawn, revoked, raced, leaked>>
  BY DEF SaddUser
<1>6. PICK k \in CallRecords : Moves(c, k) /\ k.at = "sadd_index" /\ k.sid = call[c].sid /\ k.token = call[c].token /\ k.user = call[c].user
  <2>1. "sadd_index" \in Places
    BY DEF Places
  <2> QED BY <1>0, <2>1, GotoFacts DEF SaddUser
<1>7. call'[c] = k /\ call' \in [Callers -> CallRecords]
  BY <1>0, <1>6, MoveFacts
<1>8. SessionTypes'
  BY <1>0, <1>4, <1>5, <1>7 DEF SessionTypes
<1>9. Mono /\ RevOK /\ LeakOK(c)
  BY <1>0, <1>5 DEF Mono, SessionTypes, RevOK, LeakOK
<1>10. RecOK(c, k) /\ FreshOK(c, k) /\ TokOK(c, k)
  BY <1>1, <1>5, <1>6 DEF RecOK, FreshOK, TokOK
<1>11. SetOK(c, k)
  BY <1>1, <1>2, <1>4, <1>6 DEF SetOK
<1>12. LoginOK(c)'
  <2>1. call'[c].sid = s /\ call'[c].user = u /\ s \in drawn' /\ call'[c].at = "sadd_index" /\ Redis'
    BY <1>0, <1>1, <1>2, <1>5, <1>6, <1>7 DEF LoginOK, Redis
  <2>2. (rec'[s] # NoRec => rec'[s].user = u) /\ s \in members'[u]
    BY <1>0, <1>1, <1>2, <1>4, <1>5 DEF LoginOK
  <2>3. \E t \in Tokens : call'[c].token = {t} /\ t.sid = s /\ t.user = u /\ t.version <= version'[t.user]
    BY <1>0, <1>1, <1>2, <1>5, <1>6, <1>7 DEF LoginOK
  <2> QED BY <1>2, <2>1, <2>2, <2>3 DEF LoginOK
<1>13. RequestOK(c)' /\ LogoutOK(c)' /\ EverywhereOK(c)'
  BY <1>6, <1>7 DEF RequestOK, LogoutOK, EverywhereOK
<1> QED BY <1>1, <1>6, <1>8, <1>9, <1>10, <1>11, <1>12, <1>13 DEF Unmoved, NextOK, CallOf, Kept, Counts

LEMMA SaddIndexKeeps == ASSUME SessionsInv, NEW c \in Callers, SaddIndex(c) PROVE Kept(c)
<1>0. SessionTypes /\ LoginOK(c) /\ call \in [Callers -> CallRecords]
  BY DEF SessionsInv, CallsOK, SessionTypes
<1>1. call[c].at = "sadd_index" /\ Adding(c)
  BY DEF SaddIndex, Step, Adding
<1>2. PICK t \in Tokens : call[c].token = {t} /\ t.sid = call[c].sid /\ t.user = call[c].user /\ t.version <= version[t.user]
  BY <1>0, <1>1 DEF LoginOK
<1>3. UNCHANGED <<backend, clock, rec, members, version, drawn, revoked, raced, leaked>> /\ tokens' = tokens \cup {t}
  BY <1>2 DEF SaddIndex
<1>4. Moves(c, Idle)
  BY ReturnFacts DEF SaddIndex
<1>5. FreshOK(c, Idle) /\ NextOK(c, Idle) /\ Idle \in CallRecords /\ Idle.at = "idle"
  BY <1>0, <1>4, IdleNext, IdleFacts
<1>6. call' \in [Callers -> CallRecords]
  BY <1>0, <1>4, <1>5, MoveFacts
<1>7. SessionTypes'
  BY <1>0, <1>3, <1>6 DEF SessionTypes
<1>8. Mono /\ RevOK /\ LeakOK(c) /\ RecOK(c, Idle) /\ SetOK(c, Idle)
  BY <1>0, <1>3 DEF Mono, SessionTypes, RevOK, LeakOK, RecOK, SetOK
<1>9. Hands(c, Idle, t)
  BY <1>0, <1>1, <1>2, <1>3, <1>5 DEF Hands, LoginOK
<1> QED BY <1>1, <1>3, <1>4, <1>5, <1>7, <1>8, <1>9 DEF Unmoved, TokOK, Kept, Counts

-----------------------------------------------------------------------------
(* The steps that change records or sets and end, or go on.                *)

\* What the steps that only drop or rewrite records have in common.
LEMMA RecFrame ==
    ASSUME SessionsInv, NEW c \in Callers, NEW k \in CallRecords, Moves(c, k), FreshOK(c, k), LeakOK(c), NextOK(c, k), RecOK(c, k), RevOK,
           UNCHANGED <<backend, clock, members, version, tokens, drawn>>, rec' \in [Sids -> Entries],
           raced \subseteq raced', raced' \subseteq Sids, revoked \subseteq revoked', revoked' \subseteq Sids
    PROVE  SessionTypes' /\ Unmoved(c, k)
<1>0. SessionTypes /\ call \in [Callers -> CallRecords]
  BY DEF SessionsInv, SessionTypes
<1>1. call' \in [Callers -> CallRecords]
  BY <1>0, MoveFacts
<1>2. SessionTypes'
  BY <1>0, <1>1 DEF SessionTypes
<1>3. Mono
  BY <1>0 DEF Mono, SessionTypes
<1>4. TokOK(c, k) /\ SetOK(c, k)
  BY DEF TokOK, SetOK
<1> QED BY <1>2, <1>3, <1>4 DEF Unmoved

LEMMA TouchMemoryKeeps == ASSUME SessionsInv, NEW c \in Callers, TouchMemory(c) PROVE Kept(c)
<1>0. SessionTypes /\ RequestOK(c) /\ rec \in [Sids -> Entries]
  BY DEF SessionsInv, CallsOK, SessionTypes
<1>1. call[c].at = "touch" /\ UNCHANGED <<backend, clock, members, version, tokens, drawn, revoked, raced>>
  BY DEF TouchMemory, Step
<1>2. PICK t \in tokens : t.sid = call[c].sid /\ (call[c].sid \in call[c].past => Lost(call[c].sid))
  BY <1>0, <1>1 DEF RequestOK
<1>3. PICK s \in Sids : s = call[c].sid
  BY <1>0, <1>2, TokenSid
<1>4. PICK n \in Nat : n = call[c].time
  BY <1>0, CallIs
<1>5. Moves(c, Idle) /\ LeakOK(c)
  BY <1>2, GrantFacts DEF TouchMemory
<1>6. FreshOK(c, Idle) /\ NextOK(c, Idle) /\ Idle \in CallRecords /\ Idle.at = "idle"
  BY <1>0, <1>5, IdleNext, IdleFacts
<1>7. rec' \in [Sids -> Entries] /\ RecOK(c, Idle)
  <2>1. CASE rec[s] = NoRec
    <3>1. rec' = rec
      BY <1>3, <2>1 DEF TouchMemory
    <3> QED BY <1>0, <3>1 DEF RecOK
  <2>2. CASE rec[s] # NoRec
    <3>1. PICK e \in Entries : e = rec[s]
      BY <1>0, <1>3
    <3>2. PICK f : f = [e EXCEPT !.seen = n]
      OBVIOUS
    <3>3. f \in Entries /\ f.user = e.user
      BY <3>1, <3>2, <1>4 DEF Entries
    <3>4. rec' = [rec EXCEPT ![s].seen = n]
      BY <1>3, <1>4, <2>2 DEF TouchMemory
    <3>5. rec' = [rec EXCEPT ![s] = f]
      BY <3>1, <3>2, <3>4
    <3>6. rec' \in [Sids -> Entries] /\ rec'[s] = f /\ \A z \in Sids : z # s => rec'[z] = rec[z]
      BY <1>0, <3>3, <3>5
    <3>7. RecOK(c, Idle)
      BY <2>2, <3>1, <3>3, <3>6 DEF RecOK
    <3> QED BY <3>6, <3>7
  <2> QED BY <2>1, <2>2
<1>8. RevOK /\ raced' \subseteq Sids /\ revoked' \subseteq Sids
  BY <1>0, <1>1 DEF RevOK, SessionTypes
<1>9. SessionTypes' /\ Unmoved(c, Idle)
  BY <1>1, <1>5, <1>6, <1>7, <1>8, RecFrame
<1> QED BY <1>1, <1>6, <1>9 DEF Kept, Counts

LEMMA TouchSetKeeps == ASSUME SessionsInv, NEW c \in Callers, TouchSet(c) PROVE Kept(c)
<1>0. SessionTypes /\ RequestOK(c) /\ rec \in [Sids -> Entries]
  BY DEF SessionsInv, CallsOK, SessionTypes
<1>1. call[c].at = "touch_set" /\ UNCHANGED <<backend, clock, members, version, tokens, drawn, revoked, raced>>
  BY DEF TouchSet, Step
<1>2. PICK t \in tokens : /\ t.sid = call[c].sid /\ (call[c].sid \in call[c].past => Lost(call[c].sid))
                          /\ \E r \in Entries : call[c].read = {r} /\ r.user = t.user
  BY <1>0, <1>1 DEF RequestOK
<1>3. PICK s \in Sids : s = call[c].sid
  BY <1>0, <1>2, TokenSid
<1>4. PICK n \in Nat : n = call[c].time
  BY <1>0, CallIs
<1>5. Moves(c, Idle) /\ LeakOK(c)
  BY <1>2, GrantFacts DEF TouchSet
<1>6. FreshOK(c, Idle) /\ NextOK(c, Idle) /\ Idle \in CallRecords /\ Idle.at = "idle"
  BY <1>0, <1>5, IdleNext, IdleFacts
<1>7. rec' \in [Sids -> Entries] /\ RecOK(c, Idle)
  <2>1. PICK r \in Entries : call[c].read = {r} /\ r.user = t.user
    BY <1>2
  <2>2. PICK f : f = [r EXCEPT !.seen = n]
    OBVIOUS
  <2>3. f \in Entries /\ f.user = r.user
    BY <2>2, <1>4 DEF Entries
  <2>4. rec' = [rec EXCEPT ![s] = f]
    BY <1>3, <1>4, <2>1, <2>2 DEF TouchSet
  <2>5. rec' \in [Sids -> Entries] /\ rec'[s] = f /\ \A z \in Sids : z # s => rec'[z] = rec[z]
    BY <1>0, <2>3, <2>4
  <2>6. Writes(c, s)
    BY <1>1, <1>2, <1>3, <2>1, <2>3, <2>5 DEF Writes
  <2>7. Idle # call[c]
    BY <1>1, <1>6
  <2>8. RecOK(c, Idle)
    BY <1>3, <2>5, <2>6, <2>7 DEF RecOK
  <2> QED BY <2>5, <2>8
<1>8. RevOK /\ raced' \subseteq Sids /\ revoked' \subseteq Sids
  BY <1>0, <1>1 DEF RevOK, SessionTypes
<1>9. SessionTypes' /\ Unmoved(c, Idle)
  BY <1>1, <1>5, <1>6, <1>7, <1>8, RecFrame
<1> QED BY <1>1, <1>6, <1>9 DEF Kept, Counts

\* A deleted record stays away, unless a touch is about to write it back.
LEMMA Deleted ==
    ASSUME SessionsInv, NEW c \in Callers, NEW k \in CallRecords, Moves(c, k), NEW s \in Sids, Placed(s), rec'[s] = NoRec,
           UNCHANGED drawn, k.at \notin {"insert", "touch_set"}, ~Touching(s) \/ ~Redis
    PROVE  Buried(s)'
<1>1. call'[c] = k /\ \A d \in Callers : d # c => call'[d] = call[d]
  BY MoveFacts DEF SessionsInv, SessionTypes
<1>2. \A d \in Callers : call[d].at = "touch_set" => call[d].sid # s
  BY DEF Touching, SessionsInv, CallsOK, RequestOK
<1>3. Placed(s)'
  BY <1>1 DEF Placed
<1> QED BY <1>1, <1>2, <1>3 DEF Buried

LEMMA RemoveMemoryKeeps == ASSUME SessionsInv, NEW c \in Callers, RemoveMemory(c) PROVE Kept(c)
<1>0. SessionTypes /\ OneToken /\ LogoutOK(c) /\ rec \in [Sids -> Entries]
  BY DEF SessionsInv, CallsOK, SessionTypes
<1>1. call[c].at = "remove" /\ ~Redis /\ UNCHANGED <<backend, clock, members, version, tokens, drawn, raced, leaked>>
  BY DEF RemoveMemory, Step
<1>2. PICK t \in tokens : t.sid = call[c].sid
  BY <1>0, <1>1 DEF LogoutOK
<1>3. t.sid \in Sids /\ Placed(t.sid)
  BY <1>0, <1>2, TokenSid DEF OneToken
<1>4. rec' = [rec EXCEPT ![t.sid] = NoRec] /\ Moves(c, Idle)
  BY <1>2, ReturnFacts DEF RemoveMemory, Removed
<1>5. FreshOK(c, Idle) /\ NextOK(c, Idle) /\ Idle \in CallRecords /\ Idle.at = "idle"
  BY <1>0, <1>4, IdleNext, IdleFacts
<1>6. rec' \in [Sids -> Entries] /\ rec'[t.sid] = NoRec /\ RecOK(c, Idle)
  BY <1>0, <1>3, <1>4, NoRecIs DEF RecOK
<1>7. Buried(t.sid)'
  BY <1>1, <1>3, <1>4, <1>5, <1>6, Deleted
<1>8. revoked' = revoked \/ revoked' = revoked \cup {t.sid}
  BY <1>2 DEF RemoveMemory, Removed
<1>9. revoked \subseteq revoked' /\ revoked' \subseteq Sids /\ raced' \subseteq Sids
  BY <1>0, <1>1, <1>3, <1>8 DEF SessionTypes
<1>10. RevOK /\ LeakOK(c)
  BY <1>1, <1>7, <1>8 DEF RevOK, LeakOK, Gone
<1>11. SessionTypes' /\ Unmoved(c, Idle)
  BY <1>1, <1>4, <1>5, <1>6, <1>9, <1>10, RecFrame
<1> QED BY <1>1, <1>5, <1>11 DEF Kept, Counts

LEMMA DelKeeps == ASSUME SessionsInv, NEW c \in Callers, Del(c) PROVE Kept(c)
<1>0. SessionTypes /\ OneToken /\ LogoutOK(c) /\ rec \in [Sids -> Entries]
  BY DEF SessionsInv, CallsOK, SessionTypes
<1>1. call[c].at = "del" /\ UNCHANGED <<backend, clock, members, version, tokens, drawn, revoked, leaked>>
  BY DEF Del, Step
<1>2. Redis /\ \E t \in tokens : t.sid = call[c].sid
  BY <1>0, <1>1 DEF LogoutOK
<1>2a. PICK t \in tokens : t.sid = call[c].sid
  BY <1>2
<1>3. t.sid \in Sids /\ Placed(t.sid)
  BY <1>0, TokenSid DEF OneToken
<1>4. rec' = [rec EXCEPT ![t.sid] = NoRec] /\ raced' = IF Touching(t.sid) THEN raced \cup {t.sid} ELSE raced
  BY <1>2a DEF Del
<1>5. PICK k \in CallRecords : Moves(c, k) /\ k.at = "srem_user" /\ k.sid = call[c].sid
  <2>1. "srem_user" \in Places
    BY DEF Places
  <2> QED BY <1>0, <2>1, GotoFacts DEF Del
<1>6. call'[c] = k
  BY <1>0, <1>5, MoveFacts DEF SessionTypes
<1>7. rec' \in [Sids -> Entries] /\ rec'[t.sid] = NoRec /\ RecOK(c, k)
  BY <1>0, <1>3, <1>4, NoRecIs DEF RecOK
<1>8. Gone(t.sid)'
  <2>1. CASE Touching(t.sid)
    BY <1>1, <1>2, <1>4, <2>1 DEF Gone, Lost, Redis
  <2>2. CASE ~Touching(t.sid)
    BY <1>1, <1>3, <1>5, <1>7, <2>2, Deleted DEF Gone
  <2> QED BY <2>1, <2>2
<1>9. raced \subseteq raced' /\ raced' \subseteq Sids /\ revoked' \subseteq Sids /\ RevOK /\ LeakOK(c) /\ FreshOK(c, k)
  BY <1>0, <1>1, <1>3, <1>4, <1>5 DEF SessionTypes, RevOK, LeakOK, FreshOK
<1>10. CallOf(c)'
  <2>1. LoginOK(c)' /\ RequestOK(c)' /\ EverywhereOK(c)'
    BY <1>5, <1>6 DEF LoginOK, RequestOK, EverywhereOK, Adding
  <2>2. t \in tokens' /\ call'[c].sid = t.sid /\ call'[c].at = "srem_user" /\ Redis'
    BY <1>1, <1>2, <1>2a, <1>5, <1>6 DEF Redis
  <2>3. LogoutOK(c)'
    BY <1>8, <2>2 DEF LogoutOK
  <2> QED BY <2>1, <2>3 DEF CallOf
<1>11. SessionTypes' /\ Unmoved(c, k)
  BY <1>1, <1>5, <1>7, <1>9, <1>10, RecFrame DEF NextOK
<1> QED BY <1>2, <1>5, <1>11 DEF Kept, Counts

LEMMA SremUserKeeps == ASSUME SessionsInv, NEW c \in Callers, SremUser(c) PROVE Kept(c)
<1>0. SessionTypes /\ OneToken /\ LogoutOK(c) /\ call \in [Callers -> CallRecords]
  BY DEF SessionsInv, CallsOK, SessionTypes
<1>1. call[c].at = "srem_user" /\ UNCHANGED <<backend, clock, rec, version, tokens, drawn, revoked, raced, leaked>>
  BY DEF SremUser, Step
<1>2. Redis /\ Gone(call[c].sid) /\ \E t \in tokens : t.sid = call[c].sid
  BY <1>0, <1>1 DEF LogoutOK
<1>3. PICK t \in tokens : t.sid = call[c].sid
  BY <1>2
<1>4. PICK s \in Sids : s = t.sid /\ s = call[c].sid
  BY <1>0, <1>3, TokenSid
<1>5. PICK r : members' = [u \in Users |-> IF u = r.user THEN members[u] \ {s} ELSE members[u]]
  BY <1>4 DEF SremUser
<1>6. members \in [Users -> SUBSET Sids]
  BY <1>0 DEF SessionTypes
<1>7. /\ members' \in [Users -> SUBSET Sids]
      /\ \A u \in Users : members'[u] = members[u] \/ members'[u] = members[u] \ {s}
  BY <1>5, <1>6
<1>8. PICK k \in CallRecords : Moves(c, k) /\ k.at = "srem_index" /\ k.sid = call[c].sid
  <2>1. "srem_index" \in Places
    BY DEF Places
  <2> QED BY <1>0, <2>1, GotoFacts DEF SremUser
<1>9. call'[c] = k /\ call' \in [Callers -> CallRecords]
  BY <1>0, <1>8, MoveFacts
<1>10. SessionTypes'
  BY <1>0, <1>1, <1>7, <1>9 DEF SessionTypes
<1>11. Mono /\ RevOK /\ LeakOK(c)
  BY <1>0, <1>1 DEF Mono, SessionTypes, RevOK, LeakOK
<1>12. RecOK(c, k) /\ FreshOK(c, k) /\ TokOK(c, k)
  BY <1>1, <1>8 DEF RecOK, FreshOK, TokOK
<1>13. SetOK(c, k)
  <2>1. \A d \in Callers : call[d].at = "sadd_index" => call[d].sid # s
    BY <1>0, <1>4 DEF OneToken, Adding
  <2>2. Gone(s)
    BY <1>2, <1>4
  <2> QED BY <1>7, <2>1, <2>2 DEF SetOK
<1>14. CallOf(c)'
  <2>1. LoginOK(c)' /\ RequestOK(c)' /\ EverywhereOK(c)'
    BY <1>8, <1>9 DEF LoginOK, RequestOK, EverywhereOK, Adding
  <2>2. Gone(s)'
    BY <1>0, <1>2, <1>4, <1>8, <1>11, <1>12, KeptGone
  <2>3. t \in tokens' /\ call'[c].sid = s /\ s = t.sid /\ call'[c].at = "srem_index" /\ Redis'
    BY <1>1, <1>2, <1>4, <1>8, <1>9 DEF Redis
  <2>4. LogoutOK(c)'
    BY <2>2, <2>3 DEF LogoutOK
  <2> QED BY <2>1, <2>4 DEF CallOf
<1> QED BY <1>2, <1>8, <1>10, <1>11, <1>12, <1>13, <1>14 DEF Unmoved, NextOK, Kept, Counts

LEMMA SremIndexKeeps == ASSUME SessionsInv, NEW c \in Callers, SremIndex(c) PROVE Kept(c)
<1>0. SessionTypes /\ OneToken /\ LogoutOK(c) /\ rec \in [Sids -> Entries]
  BY DEF SessionsInv, CallsOK, SessionTypes
<1>1. call[c].at = "srem_index" /\ UNCHANGED <<backend, clock, rec, members, version, tokens, drawn, raced, leaked>>
  BY DEF SremIndex, Step
<1>2. Redis /\ Gone(call[c].sid) /\ \E t \in tokens : t.sid = call[c].sid
  BY <1>0, <1>1 DEF LogoutOK
<1>3. PICK t \in tokens : t.sid = call[c].sid
  BY <1>2
<1>4. PICK s \in Sids : s = t.sid /\ s = call[c].sid
  BY <1>0, <1>3, TokenSid
<1>5. Moves(c, Idle) /\ (revoked' = revoked \/ revoked' = revoked \cup {s})
  BY <1>4, ReturnFacts DEF SremIndex, Removed
<1>6. FreshOK(c, Idle) /\ NextOK(c, Idle) /\ Idle \in CallRecords /\ Idle.at = "idle"
  BY <1>0, <1>5, IdleNext, IdleFacts
<1>7. Mono /\ RecOK(c, Idle) /\ LeakOK(c) /\ rec' \in [Sids -> Entries]
  BY <1>0, <1>1, <1>5 DEF Mono, RecOK, LeakOK, SessionTypes
<1>8. Gone(s)'
  BY <1>0, <1>2, <1>4, <1>5, <1>6, <1>7, KeptGone
<1>9. RevOK
  BY <1>4, <1>5, <1>8 DEF RevOK
<1>10. revoked \subseteq revoked' /\ revoked' \subseteq Sids /\ raced' \subseteq Sids /\ raced \subseteq raced'
  BY <1>0, <1>1, <1>4, <1>5 DEF SessionTypes
<1>11. SessionTypes' /\ Unmoved(c, Idle)
  BY <1>1, <1>5, <1>6, <1>7, <1>9, <1>10, RecFrame
<1> QED BY <1>2, <1>6, <1>11 DEF Kept, Counts

LEMMA RemoveUserKeeps == ASSUME SessionsInv, NEW c \in Callers, RemoveUserMemory(c) PROVE Kept(c)
<1>0. SessionTypes /\ OneToken /\ EverywhereOK(c) /\ rec \in [Sids -> Entries]
  BY DEF SessionsInv, CallsOK, SessionTypes
<1>1. call[c].at = "members" /\ ~Redis /\ UNCHANGED <<backend, clock, members, version, tokens, drawn, raced, leaked>>
  BY DEF RemoveUserMemory, Step
<1>2. PICK u \in Users : u = call[c].user
  BY <1>0, <1>1 DEF EverywhereOK
<1>3. rec' = [s \in Sids |-> IF rec[s].user = u THEN NoRec ELSE rec[s]] /\ revoked' = revoked \cup call[c].past /\ Moves(c, Idle)
  BY <1>2, ReturnFacts DEF RemoveUserMemory
<1>4. FreshOK(c, Idle) /\ NextOK(c, Idle) /\ Idle \in CallRecords /\ Idle.at = "idle"
  BY <1>0, <1>3, IdleNext, IdleFacts
<1>5. rec' \in [Sids -> Entries] /\ \A s \in Sids : rec'[s] = IF rec[s].user = u THEN NoRec ELSE rec[s]
  BY <1>0, <1>3, NoRecIs
<1>6. RecOK(c, Idle) /\ LeakOK(c)
  BY <1>1, <1>5 DEF RecOK, LeakOK
<1>7. ASSUME NEW s \in call[c].past PROVE \E t \in tokens : t.sid = s /\ Gone(s)'
  <2>1. PICK t \in tokens : t.sid = s /\ t.user = u
    BY <1>0, <1>1, <1>2 DEF EverywhereOK
  <2>2. s \in Sids /\ Placed(s) /\ (rec[s] # NoRec => rec[s].user = u)
    BY <1>0, <2>1, TokenSid DEF OneToken
  <2>3. rec'[s] = NoRec
    BY <1>5, <2>2
  <2>4. Buried(s)'
    BY <1>1, <1>3, <1>4, <2>2, <2>3, Deleted
  <2> QED BY <2>1, <2>4 DEF Gone
<1>8. RevOK
  BY <1>3, <1>7 DEF RevOK
<1>9. revoked \subseteq revoked' /\ revoked' \subseteq Sids /\ raced' \subseteq Sids /\ raced \subseteq raced'
  BY <1>0, <1>1, <1>3, CallIs DEF SessionTypes
<1>10. SessionTypes' /\ Unmoved(c, Idle)
  BY <1>1, <1>3, <1>4, <1>5, <1>6, <1>8, <1>9, RecFrame
<1> QED BY <1>1, <1>4, <1>10 DEF Kept, Counts

LEMMA DelEachKeeps == ASSUME SessionsInv, NEW c \in Callers, DelEach(c) PROVE Kept(c)
<1>0. SessionTypes /\ EverywhereOK(c) /\ LogoutOK(c) /\ rec \in [Sids -> Entries]
  BY DEF SessionsInv, CallsOK, SessionTypes
<1>1. call[c].at = "each" /\ UNCHANGED <<backend, clock, members, version, tokens, drawn, revoked, leaked>>
  BY DEF DelEach, Step
<1>2. PICK x \in CallRecords : x = call[c]
  BY <1>0, CallIs
<1>3. /\ x.user \in Users /\ \A s \in x.past : \E t \in tokens : t.sid = s /\ t.user = x.user
      /\ \A s \in x.todo : Placed(s)
      /\ \A s \in x.past : s \in x.todo \/ Gone(s)
      /\ x.past \subseteq Sids /\ x.todo \subseteq Sids /\ Redis
  BY <1>0, <1>1, <1>2 DEF EverywhereOK, LogoutOK, CallRecords
<1>4. PICK sid \in x.todo : /\ rec' = [rec EXCEPT ![sid] = NoRec]
                            /\ raced' = IF Touching(sid) THEN raced \cup {sid} ELSE raced
                            /\ call' = [call EXCEPT ![c] = [@ EXCEPT !.at = "each_index", !.sid = sid]]
  BY <1>2 DEF DelEach
<1>5. PICK k : k = [x EXCEPT !.at = "each_index", !.sid = sid]
  OBVIOUS
<1>6. k \in CallRecords /\ k.at = "each_index" /\ k.sid = sid /\ k.todo = x.todo /\ k.past = x.past /\ k.user = x.user
  BY <1>3, <1>5 DEF CallRecords, Places
<1>7. Moves(c, k)
  BY <1>2, <1>4, <1>5 DEF Moves
<1>8. call'[c] = k
  BY <1>0, <1>6, <1>7, MoveFacts DEF SessionTypes
<1>9. rec' \in [Sids -> Entries] /\ rec'[sid] = NoRec /\ RecOK(c, k) /\ sid \in Sids
  BY <1>0, <1>3, <1>4, NoRecIs DEF RecOK
<1>10. Gone(sid)'
  <2>1. CASE Touching(sid)
    BY <1>1, <1>3, <1>4, <2>1 DEF Gone, Lost, Redis
  <2>2. CASE ~Touching(sid)
    BY <1>1, <1>3, <1>6, <1>7, <1>9, <2>2, Deleted DEF Gone
  <2> QED BY <2>1, <2>2
<1>11. raced \subseteq raced' /\ raced' \subseteq Sids /\ revoked' \subseteq Sids /\ RevOK /\ LeakOK(c) /\ FreshOK(c, k)
  BY <1>0, <1>1, <1>4, <1>6, <1>9 DEF SessionTypes, RevOK, LeakOK, FreshOK
<1>12. Mono
  BY <1>0, <1>1, <1>11 DEF Mono, SessionTypes
<1>13. \A s \in Sids : (Placed(s) => Placed(s)') /\ (Gone(s) => Gone(s)')
  BY <1>0, <1>6, <1>7, <1>9, <1>11, <1>12, KeptPlaced, KeptGone
<1>14. LoginOK(c)' /\ RequestOK(c)'
  BY <1>6, <1>8 DEF LoginOK, RequestOK, Adding
<1>15. LogoutOK(c)'
  BY <1>1, <1>3, <1>6, <1>8 DEF LogoutOK, Redis
<1>16. EverywhereOK(c)'
  <2>1. \A s \in k.past : s \in k.todo \ {sid} \/ Gone(s)'
    BY <1>3, <1>6, <1>10, <1>13
  <2>2. \A s \in k.todo : Placed(s)'
    BY <1>3, <1>6, <1>13
  <2>3. \A s \in k.past : \E t \in tokens' : t.sid = s /\ t.user = k.user
    BY <1>1, <1>3, <1>6
  <2> QED BY <1>3, <1>6, <1>8, <2>1, <2>2, <2>3 DEF EverywhereOK
<1>17. SessionTypes' /\ Unmoved(c, k)
  BY <1>1, <1>6, <1>7, <1>9, <1>11, <1>14, <1>15, <1>16, RecFrame DEF NextOK, CallOf
<1> QED BY <1>3, <1>6, <1>17 DEF Kept, Counts

LEMMA DelMembersKeeps == ASSUME SessionsInv, NEW c \in Callers, DelMembers(c) PROVE Kept(c)
<1>0. SessionTypes /\ InSet /\ EverywhereOK(c) /\ LogoutOK(c) /\ call \in [Callers -> CallRecords]
  BY DEF SessionsInv, CallsOK, SessionTypes
<1>1. call[c].at = "each" /\ call[c].todo = {} /\ UNCHANGED <<backend, clock, rec, version, tokens, drawn, leaked>>
  BY DEF DelMembers, Step
<1>2. PICK u \in Users : u = call[c].user
  BY <1>0, <1>1 DEF EverywhereOK
<1>3. /\ raced' = raced \cup (members[u] \cap Live) \cup {sid \in Sids : Inserting(sid) \/ Touching(sid)}
      /\ members' = [members EXCEPT ![u] = {}] /\ revoked' = revoked \cup call[c].past /\ Moves(c, Idle)
  BY <1>2, ReturnFacts DEF DelMembers
<1>4. FreshOK(c, Idle) /\ NextOK(c, Idle) /\ Idle \in CallRecords /\ Idle.at = "idle"
  BY <1>0, <1>3, IdleNext, IdleFacts
<1>5. Redis /\ \A s \in call[c].past : s \in Sids /\ Gone(s) /\ \E t \in tokens : t.sid = s
  BY <1>0, <1>1, CallIs DEF LogoutOK, EverywhereOK
<1>6. members \in [Users -> SUBSET Sids] /\ members' \in [Users -> SUBSET Sids] /\ members'[u] = {}
      /\ \A v \in Users : v # u => members'[v] = members[v]
  BY <1>0, <1>3 DEF SessionTypes
<1>7. raced \subseteq raced' /\ raced' \subseteq Sids /\ revoked \subseteq revoked' /\ revoked' \subseteq Sids
  BY <1>0, <1>3, <1>5, <1>6 DEF SessionTypes
<1>8. call' \in [Callers -> CallRecords]
  BY <1>0, <1>3, <1>4, MoveFacts
<1>9. SessionTypes'
  BY <1>0, <1>1, <1>6, <1>7, <1>8 DEF SessionTypes
<1>10. Mono /\ RecOK(c, Idle) /\ TokOK(c, Idle) /\ LeakOK(c)
  BY <1>0, <1>1, <1>7 DEF Mono, SessionTypes, RecOK, TokOK, LeakOK
<1>11. RevOK
  <2>1. \A s \in call[c].past : Gone(s)'
    BY <1>0, <1>3, <1>4, <1>5, <1>10, KeptGone
  <2> QED BY <1>3, <1>5, <2>1 DEF RevOK
<1>12. SetOK(c, Idle)
  <2>1. ASSUME NEW s \in members[u], s \notin raced'
        PROVE  Gone(s) /\ \A d \in Callers : call[d].at = "sadd_index" => call[d].sid # s
    <3>1. s \in Sids /\ s \notin Live /\ ~Inserting(s) /\ ~Touching(s)
      BY <1>3, <1>6, <2>1
    <3>2. rec[s] = NoRec /\ Placed(s)
      BY <1>0, <3>1 DEF Live, InSet
    <3>3. Buried(s)
      BY <3>1, <3>2 DEF Buried, Touching
    <3> QED BY <3>1, <3>3 DEF Gone, Inserting
  <2> QED BY <1>6, <2>1 DEF SetOK
<1> QED BY <1>3, <1>4, <1>5, <1>9, <1>10, <1>11, <1>12 DEF Unmoved, Kept, Counts

-----------------------------------------------------------------------------
(* The surroundings: nobody moves, so the call of any caller stays.        *)
LEMMA Stays == ASSUME SessionTypes, UNCHANGED call, NEW c \in Callers
               PROVE  /\ call[c] \in CallRecords /\ Moves(c, call[c]) /\ FreshOK(c, call[c]) /\ NextOK(c, call[c])
                      /\ Counts(c, call[c])
<1>1. call \in [Callers -> CallRecords] /\ call[c] \in CallRecords
  BY DEF SessionTypes
<1>2. Moves(c, call[c])
  BY <1>1 DEF Moves
<1> QED BY <1>1, <1>2 DEF FreshOK, NextOK, Counts, Adding

LEMMA ExpireRecordKeeps == ASSUME SessionsInv, NEW s \in Sids, ExpireRecord(s), NEW c \in Callers PROVE Kept(c)
<1>0. SessionTypes /\ rec \in [Sids -> Entries]
  BY DEF SessionsInv, SessionTypes
<1>1. rec' = [rec EXCEPT ![s] = NoRec]
      /\ UNCHANGED <<backend, clock, members, version, tokens, drawn, call, revoked, raced, leaked>>
  BY DEF ExpireRecord
<1>2. PICK k \in CallRecords : Moves(c, k) /\ FreshOK(c, k) /\ NextOK(c, k) /\ Counts(c, k)
  BY <1>0, <1>1, Stays
<1>3. rec' \in [Sids -> Entries] /\ RecOK(c, k)
  BY <1>0, <1>1, NoRecIs DEF RecOK
<1>4. RevOK /\ LeakOK(c) /\ raced' \subseteq Sids /\ revoked' \subseteq Sids
  BY <1>0, <1>1 DEF RevOK, LeakOK, SessionTypes
<1>5. SessionTypes' /\ Unmoved(c, k)
  BY <1>1, <1>2, <1>3, <1>4, RecFrame
<1> QED BY <1>2, <1>5 DEF Kept

LEMMA ExpireMembersKeeps == ASSUME SessionsInv, NEW u \in Users, ExpireMembers(u), NEW c \in Callers PROVE Kept(c)
<1>0. SessionTypes /\ members \in [Users -> SUBSET Sids]
  BY DEF SessionsInv, SessionTypes
<1>1. raced' = raced \cup members[u] /\ members' = [members EXCEPT ![u] = {}]
      /\ UNCHANGED <<backend, clock, rec, version, tokens, drawn, call, revoked, leaked>>
  BY DEF ExpireMembers
<1>2. PICK k \in CallRecords : Moves(c, k) /\ FreshOK(c, k) /\ NextOK(c, k) /\ Counts(c, k)
  BY <1>0, <1>1, Stays
<1>3. members' \in [Users -> SUBSET Sids] /\ members'[u] = {} /\ \A v \in Users : v # u => members'[v] = members[v]
  BY <1>0, <1>1
<1>4. SessionTypes'
  BY <1>0, <1>1, <1>3 DEF SessionTypes
<1>5. Mono /\ RecOK(c, k) /\ TokOK(c, k) /\ RevOK /\ LeakOK(c)
  BY <1>0, <1>1 DEF Mono, SessionTypes, RecOK, TokOK, RevOK, LeakOK
<1>6. SetOK(c, k)
  BY <1>1, <1>3 DEF SetOK
<1> QED BY <1>2, <1>4, <1>5, <1>6 DEF Unmoved, Kept

LEMMA BumpKeeps == ASSUME SessionsInv, NEW u \in Users, BumpVersion(u), NEW c \in Callers PROVE Kept(c)
<1>0. SessionTypes /\ version \in [Users -> Nat]
  BY DEF SessionsInv, SessionTypes
<1>1. /\ version' = [version EXCEPT ![u] = @ + 1]
      /\ revoked' = revoked \cup {t.sid : t \in {x \in tokens : x.user = u /\ x.version = version[u]}}
      /\ UNCHANGED <<backend, clock, rec, members, tokens, drawn, call, raced, leaked>>
  BY DEF BumpVersion
<1>2. PICK k \in CallRecords : Moves(c, k) /\ FreshOK(c, k) /\ NextOK(c, k) /\ Counts(c, k)
  BY <1>0, <1>1, Stays
<1>3. version' \in [Users -> Nat] /\ version'[u] = version[u] + 1 /\ \A v \in Users : version[v] <= version'[v]
  BY <1>0, <1>1
<1>4. revoked' \subseteq Sids
  BY <1>0, <1>1, TokenSid DEF SessionTypes
<1>5. SessionTypes'
  BY <1>0, <1>1, <1>3, <1>4 DEF SessionTypes
<1>6. Mono
  BY <1>1, <1>3 DEF Mono
<1>7. RecOK(c, k) /\ TokOK(c, k) /\ LeakOK(c) /\ SetOK(c, k)
  BY <1>1 DEF RecOK, TokOK, LeakOK, SetOK
<1>8. RevOK
  <2>1. ASSUME NEW s \in revoked', s \notin revoked PROVE \E t \in tokens : t.sid = s /\ Outdated(t)'
    <3>1. PICK t \in tokens : t.sid = s /\ t.user = u /\ t.version = version[u]
      BY <1>1, <2>1
    <3>2. version[u] < version'[u]
      BY <1>0, <1>3
    <3> QED BY <3>1, <3>2 DEF Outdated
  <2> QED BY <2>1 DEF RevOK
<1> QED BY <1>2, <1>5, <1>6, <1>7, <1>8 DEF Unmoved, Kept

LEMMA TickKeeps == ASSUME SessionsInv, SessionTick, NEW c \in Callers PROVE Kept(c)
<1>0. SessionTypes
  BY DEF SessionsInv
<1>1. Quiet /\ UNCHANGED <<drawn, call, leaked>> /\ clock' = clock + 1
  BY DEF SessionTick, Quiet
<1>2. PICK k \in CallRecords : Moves(c, k) /\ FreshOK(c, k) /\ NextOK(c, k) /\ Counts(c, k)
  BY <1>0, <1>1, Stays
<1>3. LeakOK(c) /\ drawn' \in SUBSET Sids /\ clock' \in Nat /\ drawn \subseteq drawn'
  BY <1>0, <1>1 DEF LeakOK, SessionTypes
<1> QED BY <1>1, <1>2, <1>3, QuietFrame DEF Kept

-----------------------------------------------------------------------------
(* The cap.                                                                *)
LEMMA FiniteCounts ==
    /\ IsFiniteSet(Live) /\ Cardinality(Live) \in Nat /\ IsFiniteSet(Inserters) /\ Cardinality(Inserters) \in Nat
    /\ Cardinality(Inserters) <= Cardinality(Callers) /\ Cardinality(Callers) \in Nat /\ Cardinality(Callers) >= 1
<1>1. IsFiniteSet(Callers) /\ IsFiniteSet(Sids) /\ Callers # {}
  BY SessionsAssumption
<1>2. Live \in SUBSET Sids /\ Inserters \in SUBSET Callers
  BY DEF Live, Inserters
<1>3. IsFiniteSet(Live) /\ IsFiniteSet(Inserters) /\ Cardinality(Inserters) <= Cardinality(Callers)
  BY <1>1, <1>2, FS_Subset
<1>4. Cardinality(Live) \in Nat /\ Cardinality(Inserters) \in Nat /\ Cardinality(Callers) \in Nat
  BY <1>1, <1>3, FS_CardinalityType
<1>5. Cardinality(Callers) # 0
  BY <1>1, FS_EmptySet
<1> QED BY <1>3, <1>4, <1>5

LEMMA FewerCounted ==
    ASSUME SessionsInv, UNCHANGED backend, ~Redis => Live' \subseteq Live /\ Inserters' \subseteq Inserters
    PROVE  Counted'
<1> SUFFICES ASSUME ~Redis PROVE Cardinality(Live') + Cardinality(Inserters') <= MaxSessions + Cardinality(Callers) - 1
  BY DEF Counted, Redis
<1>1. Live' \in SUBSET Live /\ Inserters' \in SUBSET Inserters
  OBVIOUS
<1>2. Cardinality(Live') <= Cardinality(Live) /\ IsFiniteSet(Live')
  BY <1>1, FiniteCounts, FS_Subset
<1>3. Cardinality(Inserters') <= Cardinality(Inserters) /\ IsFiniteSet(Inserters')
  BY <1>1, FiniteCounts, FS_Subset
<1>4. Cardinality(Live') \in Nat /\ Cardinality(Inserters') \in Nat
  BY <1>2, <1>3, FS_CardinalityType
<1>5. Cardinality(Live) + Cardinality(Inserters) <= MaxSessions + Cardinality(Callers) - 1
  BY DEF SessionsInv, Counted
<1>6. MaxSessions \in Nat
  BY SessionsAssumption
<1> QED BY <1>2, <1>3, <1>4, <1>5, <1>6, FiniteCounts

LEMMA KeptCounted == ASSUME SessionsInv, NEW c \in Callers, Kept(c) PROVE Counted'
<1>1. PICK k \in CallRecords : Unmoved(c, k) /\ Counts(c, k)
  BY DEF Kept
<1>2. RecOK(c, k) /\ Moves(c, k) /\ backend' = backend
  BY <1>1 DEF Unmoved, Mono
<1>3. call'[c] = k /\ \A d \in Callers : d # c => call'[d] = call[d]
  BY <1>2, MoveFacts DEF SessionsInv, SessionTypes
<1>4. ASSUME ~Redis PROVE Live' \subseteq Live /\ Inserters' \subseteq Inserters
  <2>1. k.at = "insert" \/ call[c].at = "insert" => k = call[c]
    BY <1>1, <1>4 DEF Counts
  <2>2. call[c].at # "touch_set"
    BY <1>4 DEF SessionsInv, CallsOK, RequestOK
  <2>3. \A s \in Sids : rec'[s] # NoRec => rec[s] # NoRec
    BY <1>2, <2>1, <2>2 DEF RecOK, Writes
  <2> QED BY <1>3, <2>1, <2>3 DEF Live, Inserters
<1> QED BY <1>2, <1>4, FewerCounted

LEMMA StoreLenCounted == ASSUME SessionsInv, NEW c \in Callers, StoreLen(c) PROVE Counted'
<1>0. SessionTypes /\ UNCHANGED <<backend, rec>>
  BY DEF SessionsInv, StoreLen
<1>1. CASE StoreCount >= MaxSessions
  <2>1. Moves(c, Idle)
    BY <1>1, ReturnFacts DEF StoreLen
  <2>2. call'[c].at = "idle" /\ \A d \in Callers : d # c => call'[d] = call[d]
    BY <1>0, <2>1, IdleFacts, MoveFacts DEF SessionTypes
  <2> QED BY <1>0, <2>2, FewerCounted DEF Live, Inserters
<1>2. CASE ~(StoreCount >= MaxSessions)
  <2> SUFFICES ASSUME ~Redis PROVE Cardinality(Live') + Cardinality(Inserters') <= MaxSessions + Cardinality(Callers) - 1
    BY <1>0 DEF Counted, Redis
  <2>1. ~(Cardinality(Live) >= MaxSessions) /\ Live' = Live
    BY <1>0, <1>2 DEF StoreCount, Live
  <2>2. IsFiniteSet(Callers) /\ Inserters' \in SUBSET Callers
    BY SessionsAssumption DEF Inserters
  <2>3. Cardinality(Inserters') <= Cardinality(Callers) /\ Cardinality(Inserters') \in Nat
    BY <2>2, FS_Subset, FS_CardinalityType
  <2>4. MaxSessions \in Nat
    BY SessionsAssumption
  <2> QED BY <2>1, <2>3, <2>4, FiniteCounts
<1> QED BY <1>1, <1>2

LEMMA InsertCounted == ASSUME SessionsInv, NEW c \in Callers, InsertRecord(c) PROVE Counted'
<1> SUFFICES ASSUME ~Redis PROVE Cardinality(Live') + Cardinality(Inserters') <= MaxSessions + Cardinality(Callers) - 1
  BY DEF Counted, Redis, InsertRecord
<1>0. SessionTypes /\ call[c].at = "insert" /\ rec \in [Sids -> Entries]
  BY DEF SessionsInv, InsertRecord, Step, SessionTypes
<1>1. Moves(c, Idle)
  BY ReturnFacts DEF InsertRecord
<1>2. call'[c].at = "idle" /\ \A d \in Callers : d # c => call'[d] = call[d]
  BY <1>0, <1>1, IdleFacts, MoveFacts DEF SessionTypes
<1>3. Inserters' = Inserters \ {c} /\ c \in Inserters
  BY <1>0, <1>2 DEF Inserters
<1>4. PICK s : s = call[c].sid
  OBVIOUS
<1>5. Live' \in SUBSET (Live \cup {s})
  BY <1>0, <1>4 DEF Live, InsertRecord
<1>6. Cardinality(Inserters') = Cardinality(Inserters) - 1
  BY <1>3, FiniteCounts, FS_RemoveElement
<1>7. Cardinality(Live \cup {s}) <= Cardinality(Live) + 1 /\ IsFiniteSet(Live \cup {s})
  <2>1. IsFiniteSet(Live) /\ Cardinality(Live) \in Nat
    BY FiniteCounts
  <2>2. IsFiniteSet(Live \cup {s}) /\ Cardinality(Live \cup {s}) = IF s \in Live THEN Cardinality(Live) ELSE Cardinality(Live) + 1
    BY <2>1, FS_AddElement
  <2> QED BY <2>1, <2>2
<1>8. Cardinality(Live') <= Cardinality(Live \cup {s}) /\ Cardinality(Live') \in Nat /\ Cardinality(Live \cup {s}) \in Nat
  BY <1>5, <1>7, FS_Subset, FS_CardinalityType
<1>9. Cardinality(Live) + Cardinality(Inserters) <= MaxSessions + Cardinality(Callers) - 1 /\ MaxSessions \in Nat
  BY SessionsAssumption DEF SessionsInv, Counted
<1> QED BY <1>6, <1>7, <1>8, <1>9, FiniteCounts

-----------------------------------------------------------------------------
(* The invariant.                                                          *)
LEMMA KeptInv == ASSUME SessionsInv, NEW c \in Callers, Kept(c) PROVE SessionsInv'
<1>1. PICK k \in CallRecords : Unmoved(c, k)
  BY DEF Kept
<1>2. SessionTypes'
  BY DEF Kept
<1> QED BY <1>1, <1>2, Framing, KeptCounted DEF SessionsInv

LEMMA CallStep == ASSUME SessionsInv, NEW c \in Callers, SessionCall(c) PROVE SessionsInv'
<1>1. CASE StoreLen(c)
  BY <1>1, StoreLenKeeps, StoreLenCounted, Framing DEF SessionsInv
<1>2. CASE InsertRecord(c)
  BY <1>2, InsertKeeps, InsertCounted, Framing DEF SessionsInv
<1>3. CASE \E u \in Users : LoginAt(c, u) \/ LogoutUser(c, u)
  BY <1>3, LoginKeeps, LogoutUserKeeps, KeptInv
<1>4. CASE \E t \in tokens : Authenticate(c, t) \/ Logout(c, t.sid)
  BY <1>4, AuthenticateKeeps, LogoutKeeps, KeptInv
<1>5. CASE SaddUser(c) \/ SaddIndex(c) \/ StoreGet(c) \/ Check(c) \/ CommandFails(c)
  BY <1>5, SaddUserKeeps, SaddIndexKeeps, StoreGetKeeps, CheckKeeps, FailsKeeps, KeptInv
<1>6. CASE TouchMemory(c) \/ TouchGet(c) \/ TouchSet(c)
  BY <1>6, TouchMemoryKeeps, TouchGetKeeps, TouchSetKeeps, KeptInv
<1>7. CASE RemoveMemory(c) \/ RemoveGet(c) \/ Del(c) \/ SremUser(c) \/ SremIndex(c)
  BY <1>7, RemoveMemoryKeeps, RemoveGetKeeps, DelKeeps, SremUserKeeps, SremIndexKeeps, KeptInv
<1>8. CASE RemoveUserMemory(c) \/ Smembers(c) \/ DelEach(c) \/ SremEach(c) \/ DelMembers(c)
  BY <1>8, RemoveUserKeeps, SmembersKeeps, DelEachKeeps, SremEachKeeps, DelMembersKeeps, KeptInv
<1> QED BY <1>1, <1>2, <1>3, <1>4, <1>5, <1>6, <1>7, <1>8 DEF SessionCall

LEMMA SessionsInvNext == ASSUME SessionsInv, [SessionsNext]_sessionVars PROVE SessionsInv'
<1>1. ASSUME NEW c \in Callers, SessionCall(c) PROVE SessionsInv'
  BY <1>1, CallStep
<1>2. PICK c \in Callers : TRUE
  BY SessionsAssumption
<1>3. ASSUME NEW s \in Sids, ExpireRecord(s) PROVE SessionsInv'
  BY <1>2, <1>3, ExpireRecordKeeps, KeptInv
<1>4. ASSUME NEW u \in Users, ExpireMembers(u) \/ BumpVersion(u) PROVE SessionsInv'
  BY <1>2, <1>4, ExpireMembersKeeps, BumpKeeps, KeptInv
<1>5. CASE SessionTick
  BY <1>2, <1>5, TickKeeps, KeptInv
<1>6. CASE UNCHANGED sessionVars
  <2>1. SessionTypes'
    BY <1>6 DEF SessionsInv, SessionTypes, sessionVars
  <2>2. Quiet /\ UNCHANGED <<drawn, call, leaked>> /\ clock' = clock
    BY <1>6 DEF Quiet, sessionVars
  <2>3. SessionTypes
    BY DEF SessionsInv
  <2>4. PICK k \in CallRecords : Moves(c, k) /\ FreshOK(c, k) /\ NextOK(c, k) /\ Counts(c, k)
    BY <2>2, <2>3, Stays
  <2>5. LeakOK(c) /\ drawn' \in SUBSET Sids /\ clock' \in Nat /\ drawn \subseteq drawn'
    BY <2>2, <2>3 DEF LeakOK, SessionTypes
  <2>6. Kept(c)
    BY <2>2, <2>4, <2>5, QuietFrame DEF Kept
  <2> QED BY <2>6, KeptInv
<1> QED BY <1>1, <1>3, <1>4, <1>5, <1>6 DEF SessionsNext

LEMMA SessionsInvInit == ASSUME SessionsInit PROVE SessionsInv
<1>1. \A c \in Callers : call[c] = Idle /\ call[c].at = "idle"
  BY IdleFacts DEF SessionsInit
<1>2. SessionTypes
  BY IdleFacts, NoRecIs, SessionsAssumption DEF SessionsInit, SessionTypes
<1>3. OneToken /\ InSet /\ StaysOut /\ RevokedStaysOut
  BY <1>1 DEF SessionsInit, OneToken, InSet, StaysOut, RevokedStaysOut, Adding
<1>4. CallsOK
  BY <1>1 DEF CallsOK, LoginOK, RequestOK, LogoutOK, EverywhereOK, Adding
<1>5. Counted
  <2>1. Live = {} /\ Inserters = {}
    BY <1>1 DEF Live, Inserters, SessionsInit
  <2>2. Cardinality({}) = 0
    BY FS_EmptySet
  <2>3. MaxSessions \in Nat
    BY SessionsAssumption
  <2> QED BY <2>1, <2>2, <2>3, FiniteCounts DEF Counted
<1> QED BY <1>2, <1>3, <1>4, <1>5 DEF SessionsInv

LEMMA SessionsInvHolds == ASSUME SessionsInv PROVE RevokedStaysOut /\ CapOverrunBounded
<1>1. CapOverrunBounded
  BY FiniteCounts, SessionsAssumption DEF SessionsInv, Counted, CapOverrunBounded
<1> QED BY <1>1 DEF SessionsInv

\* However requests interleave, over the memory store or over Redis with commands that fail
\* and keys that expire, no request that begins after a session was revoked is granted it,
\* except over Redis for a session that was being touched or had dropped out of its user's set;
\* and in memory the sessions exceed max_sessions by fewer than the requests being served
\* (SessionManager::authenticate, logout and logout_user over the two session stores).
THEOREM SessionsAreSafe == StoresSpec => []SessionsHold
<1>1. StoresInit => SessionsInv
  BY SessionsInvInit DEF StoresInit
<1>2. SessionsInv /\ [StoresNext]_<<storesVars, part>> => SessionsInv'
  <2>1. [StoresNext]_<<storesVars, part>> => [SessionsNext]_sessionVars
    BY DEF StoresNext, storesVars
  <2> QED BY <2>1, SessionsInvNext
<1>3. SessionsInv => SessionsHold
  BY SessionsInvHolds DEF SessionsHold
<1> QED BY <1>1, <1>2, <1>3, PTL DEF StoresSpec

-----------------------------------------------------------------------------
(* Bans.                                                                   *)
AdminRecords == [at : {"idle", "store"}, add : BOOLEAN, s : SUBSET Spellings]

BanTypes ==
    /\ rules \subseteq Load(Spellings) /\ store \subseteq {Member(s) : s \in Spellings}
    /\ admin \in [Admins -> AdminRecords]
    /\ \A a \in Admins : admin[a].at = "store" => \E s \in Spellings : admin[a].s = {s}

\* The call of a is on its way to the store with the rule r.
About(a, r) == admin[a].at = "store" /\ \E s \in admin[a].s : r \in RuleOf(s)

\* Memory is ahead of the store by the one call that is on its way; no other member of the
\* store makes the rule that is being lifted.
Ahead(r) ==
    /\ \A a, b \in Admins : About(a, r) /\ About(b, r) => a = b
    /\ \A a \in Admins : About(a, r) /\ admin[a].add => r \in rules
    /\ \A a \in Admins : About(a, r) /\ ~admin[a].add =>
          r \notin rules /\ \A t \in store : r \in RuleOf(t) => \E s \in admin[a].s : t = Member(s)
    /\ (\A a \in Admins : ~About(a, r)) => (r \in rules <=> r \in Load(store))

BansInv == BanTypes /\ \A r \in Load(Spellings) : r \notin apart => Ahead(r)

\* The store keeps a spelling of the same rule.
LEMMA MemberRule == ASSUME NEW s \in Spellings PROVE RuleOf(Member(s)) = RuleOf(s)
<1>1. s \in [kind : {"ip", "subnet", "phrase"}, net : Nat, prefix : Nat, text : STRING, lower : STRING]
  BY BansAssumption
<1>2. CASE s.kind = "phrase"
  <2>1. PICK t : t = [s EXCEPT !.text = s.lower]
    OBVIOUS
  <2>2. t.kind = "phrase" /\ t.lower = s.lower
    BY <1>1, <1>2, <2>1
  <2>3. Member(s) = t
    BY <1>2, <2>1 DEF Member
  <2> QED BY <1>2, <2>2, <2>3 DEF RuleOf
<1>3. CASE s.kind # "phrase"
  BY <1>3 DEF Member
<1> QED BY <1>2, <1>3

LEMMA LoadIs == ASSUME NEW S, NEW r PROVE r \in Load(S) <=> \E t \in S : r \in RuleOf(t)
BY DEF Load

LEMMA AdminMoves ==
    ASSUME admin \in [Admins -> AdminRecords], NEW a \in Admins, NEW k \in AdminRecords, admin' = [admin EXCEPT ![a] = k]
    PROVE  admin' \in [Admins -> AdminRecords] /\ admin'[a] = k /\ \A b \in Admins : b # a => admin'[b] = admin[b]
OBVIOUS

LEMMA FreeIs == Free \in AdminRecords /\ Free.at = "idle"
BY DEF Free, AdminRecords

LEMMA ChangeBan ==
    ASSUME BansInv, NEW a \in Admins, NEW s \in Spellings, NEW add \in BOOLEAN, Change(a, s, add) PROVE BansInv'
<1>1. PICK k : k = [at |-> "store", add |-> add, s |-> {s}]
  OBVIOUS
<1>2. k \in AdminRecords /\ k.at = "store" /\ k.add = add /\ k.s = {s}
  BY <1>1 DEF AdminRecords
<1>3. admin' = [admin EXCEPT ![a] = k] /\ admin[a].at = "idle" /\ store' = store
  BY <1>1 DEF Change
<1>4. admin' \in [Admins -> AdminRecords] /\ admin'[a] = k /\ \A b \in Admins : b # a => admin'[b] = admin[b]
  BY <1>2, <1>3, AdminMoves DEF BansInv, BanTypes
<1>5. rules' = IF add THEN rules \cup RuleOf(s) ELSE rules \ RuleOf(s)
  BY DEF Change
<1>6. RuleOf(s) \subseteq Load(Spellings)
  BY DEF Load
<1>7. BanTypes'
  <2>1. \A b \in Admins : admin'[b].at = "store" => \E x \in Spellings : admin'[b].s = {x}
    BY <1>2, <1>4 DEF BansInv, BanTypes
  <2> QED BY <1>3, <1>4, <1>5, <1>6, <2>1 DEF BansInv, BanTypes
<1>8. ASSUME NEW r \in Load(Spellings), r \notin apart' PROVE Ahead(r)'
  <2>1. Ahead(r)
    BY <1>8 DEF BansInv, Change
  <2>2. CASE r \in RuleOf(s)
    <3>1. \A b \in Admins : ~About(b, r)
      BY <1>8, <2>2 DEF Change, InFlight, About
    <3>2. ~add => \A t \in store : r \in RuleOf(t) => t = Member(s)
      BY <1>8, <2>2 DEF Change
    <3>3. \A b \in Admins : b # a => ~About(b, r)'
      BY <1>4, <3>1 DEF About
    <3>4. About(a, r)'
      BY <1>2, <1>4, <2>2 DEF About
    <3>5. r \in rules' <=> add
      BY <1>5, <2>2
    <3> QED BY <1>2, <1>3, <1>4, <3>2, <3>3, <3>4, <3>5 DEF Ahead
  <2>3. CASE r \notin RuleOf(s)
    <3>1. ~About(a, r) /\ ~About(a, r)'
      BY <1>2, <1>3, <1>4, <2>3 DEF About
    <3>2. \A b \in Admins : b # a => (About(b, r)' <=> About(b, r))
      BY <1>4 DEF About
    <3>3. r \in rules' <=> r \in rules
      BY <1>5, <2>3
    <3> QED BY <1>3, <1>4, <2>1, <3>1, <3>2, <3>3 DEF Ahead
  <2> QED BY <2>2, <2>3
<1> QED BY <1>7, <1>8 DEF BansInv

LEMMA StoredBan == ASSUME BansInv, NEW a \in Admins, Stored(a) PROVE BansInv'
<1>1. PICK s \in Spellings : admin[a].s = {s}
  BY DEF BansInv, BanTypes, Stored
<1>2. store' = IF admin[a].add THEN store \cup {Member(s)} ELSE store \ {Member(s)}
  BY <1>1 DEF Stored
<1>3. admin' = [admin EXCEPT ![a] = Free] /\ admin[a].at = "store" /\ rules' = rules /\ apart' = apart
  BY DEF Stored
<1>4. admin' \in [Admins -> AdminRecords] /\ admin'[a] = Free /\ \A b \in Admins : b # a => admin'[b] = admin[b]
  BY <1>3, FreeIs, AdminMoves DEF BansInv, BanTypes
<1>5. BanTypes'
  <2>1. \A b \in Admins : admin'[b].at = "store" => \E x \in Spellings : admin'[b].s = {x}
    BY <1>4, FreeIs DEF BansInv, BanTypes
  <2> QED BY <1>2, <1>3, <1>4, <2>1 DEF BansInv, BanTypes
<1>6. ASSUME NEW r \in Load(Spellings), r \notin apart PROVE Ahead(r)'
  <2>1. Ahead(r) /\ ~About(a, r)' /\ \A b \in Admins : b # a => (About(b, r)' <=> About(b, r))
    BY <1>4, <1>6, FreeIs DEF BansInv, About
  <2>m. RuleOf(Member(s)) = RuleOf(s)
    BY MemberRule
  <2>2. CASE r \in RuleOf(s)
    <3>1. About(a, r)
      BY <1>1, <1>3, <2>2 DEF About
    <3>2. \A b \in Admins : ~About(b, r)'
      BY <2>1, <3>1 DEF Ahead
    <3>3. CASE admin[a].add
      <4>1. r \in rules' /\ Member(s) \in store'
        BY <1>2, <1>3, <2>1, <3>1, <3>3 DEF Ahead
      <4> QED BY <2>2, <2>m, <3>2, <4>1, LoadIs DEF Ahead
    <3>4. CASE ~admin[a].add
      <4>1. r \notin rules' /\ \A t \in store : r \in RuleOf(t) => t = Member(s)
        BY <1>1, <1>3, <2>1, <3>1, <3>4 DEF Ahead
      <4>2. \A t \in store' : r \notin RuleOf(t)
        BY <1>2, <3>4, <4>1
      <4>3. r \notin Load(store')
        BY <4>2, LoadIs
      <4> QED BY <3>2, <4>1, <4>3 DEF Ahead, Load
    <3> QED BY <3>3, <3>4
  <2>3. CASE r \notin RuleOf(s)
    <3>1. ~About(a, r)
      BY <1>1, <2>3 DEF About
    <3>2. \A t : r \in RuleOf(t) => (t \in store' <=> t \in store)
      BY <1>2, <2>3, <2>m
    <3>3. r \in Load(store)' <=> r \in Load(store)
      BY <3>2 DEF Load
    <3> QED BY <1>3, <1>4, <2>1, <3>1, <3>2, <3>3 DEF Ahead
  <2> QED BY <2>2, <2>3
<1> QED BY <1>3, <1>5, <1>6 DEF BansInv, Load

LEMMA FailedBan == ASSUME BansInv, NEW a \in Admins, StoreFailed(a) PROVE BansInv'
<1>1. PICK s \in Spellings : admin[a].s = {s}
  BY DEF BansInv, BanTypes, StoreFailed
<1>2. apart' = apart \cup RuleOf(s)
  BY <1>1 DEF StoreFailed
<1>3. admin' = [admin EXCEPT ![a] = Free] /\ rules' = rules /\ store' = store
  BY DEF StoreFailed
<1>4. admin' \in [Admins -> AdminRecords] /\ admin'[a] = Free /\ \A b \in Admins : b # a => admin'[b] = admin[b]
  BY <1>3, FreeIs, AdminMoves DEF BansInv, BanTypes
<1>5. BanTypes'
  <2>1. \A b \in Admins : admin'[b].at = "store" => \E x \in Spellings : admin'[b].s = {x}
    BY <1>4, FreeIs DEF BansInv, BanTypes
  <2> QED BY <1>3, <1>4, <2>1 DEF BansInv, BanTypes
<1>6. ASSUME NEW r \in Load(Spellings), r \notin apart' PROVE Ahead(r)'
  <2>1. Ahead(r) /\ ~About(a, r)' /\ \A b \in Admins : b # a => (About(b, r)' <=> About(b, r))
    BY <1>2, <1>4, <1>6, FreeIs DEF BansInv, About
  <2>2. ~About(a, r)
    BY <1>1, <1>2, <1>6 DEF About
  <2> QED BY <1>3, <1>4, <2>1, <2>2 DEF Ahead
<1> QED BY <1>5, <1>6 DEF BansInv

LEMMA OtherBans ==
    ASSUME BansInv, (\E s \in Spellings : AutoBan(s)) \/ ClearBans \/ RestartBans \/ UNCHANGED banVars PROVE BansInv'
<1>1. ASSUME NEW s \in Spellings, AutoBan(s) PROVE BansInv'
  <2>1. rules' = rules \cup RuleOf(s) /\ apart' = apart \cup RuleOf(s) /\ store' = store /\ admin' = admin
    BY <1>1 DEF AutoBan
  <2>2. RuleOf(s) \subseteq Load(Spellings)
    BY DEF Load
  <2>3. BanTypes'
    BY <2>1, <2>2 DEF BansInv, BanTypes
  <2>4. ASSUME NEW r \in Load(Spellings), r \notin apart' PROVE Ahead(r)'
    BY <2>1, <2>4 DEF BansInv, Ahead, About
  <2> QED BY <2>3, <2>4 DEF BansInv
<1>2. CASE ClearBans
  <2>1. rules' = {} /\ apart' = apart \cup rules \cup Load(store) /\ store' = store /\ admin' = admin
    BY <1>2 DEF ClearBans
  <2>2. BanTypes'
    BY <2>1 DEF BansInv, BanTypes
  <2>3. ASSUME NEW r \in Load(Spellings), r \notin apart' PROVE Ahead(r)'
    BY <2>1, <2>3 DEF BansInv, Ahead, About
  <2> QED BY <2>2, <2>3 DEF BansInv
<1>3. CASE RestartBans
  <2>1. rules' = Load(store) /\ apart' = {} /\ store' = store /\ admin' = [a \in Admins |-> Free]
    BY <1>3 DEF RestartBans
  <2>2. Load(store) \subseteq Load(Spellings)
    BY MemberRule DEF Load, BansInv, BanTypes
  <2>3. admin' \in [Admins -> AdminRecords] /\ \A a \in Admins : admin'[a].at = "idle"
    BY <2>1, FreeIs
  <2>4. BanTypes'
    BY <2>1, <2>2, <2>3 DEF BansInv, BanTypes
  <2>5. \A r : Ahead(r)'
    BY <2>1, <2>3 DEF Ahead, About
  <2> QED BY <2>4, <2>5 DEF BansInv
<1>4. CASE UNCHANGED banVars
  BY <1>4 DEF BansInv, BanTypes, Ahead, About, banVars
<1> QED BY <1>1, <1>2, <1>3, <1>4

LEMMA BansInvNext == ASSUME BansInv, [BansNext]_banVars PROVE BansInv'
BY ChangeBan, StoredBan, FailedBan, OtherBans DEF BansNext

LEMMA BansInvInit == ASSUME BansInit PROVE BansInv
<1>1. \A a \in Admins : admin[a] = Free /\ ~(admin[a].at = "store")
  BY FreeIs DEF BansInit
<1>2. BanTypes
  BY <1>1, FreeIs DEF BanTypes, BansInit
<1>3. \A r : Ahead(r)
  BY <1>1 DEF Ahead, About, BansInit, Load
<1> QED BY <1>2, <1>3 DEF BansInv

\* Addresses of one block have one quotient, and the mask takes the remainder away.
LEMMA MaskedBlock ==
    ASSUME NEW size \in Nat \ {0}, NEW net \in Nat,
           NEW ip \in size * (net \div size) .. size * (net \div size) + size - 1
    PROVE  ip - (ip % size) = net - (net % size)
<1>1. net = (size * (net \div size)) + (net % size) /\ net \div size \in Nat /\ net % size \in 0 .. size - 1
  OBVIOUS
<1>2. PICK q \in Nat : q = net \div size
  BY <1>1
<1>3. size * q \in Nat
  BY <1>2
<1>4. ip \in Nat /\ size * q <= ip /\ ip < (size * q) + size
  BY <1>2, <1>3
<1>5. ip = (size * (ip \div size)) + (ip % size) /\ ip \div size \in Nat /\ ip % size \in 0 .. size - 1
  BY <1>4
<1>6. PICK p \in Nat : p = ip \div size
  BY <1>5
<1>7. p = q
  <2>1. ASSUME p + 1 <= q PROVE FALSE
    <3>1. size * (p + 1) <= size * q
      BY <2>1
    <3>2. size * (p + 1) = (size * p) + size
      OBVIOUS
    <3> QED BY <1>3, <1>4, <1>5, <1>6, <3>1, <3>2
  <2>2. ASSUME q + 1 <= p PROVE FALSE
    <3>1. size * (q + 1) <= size * p
      BY <2>2
    <3>2. size * (q + 1) = (size * q) + size
      OBVIOUS
    <3> QED BY <1>3, <1>4, <1>5, <1>6, <3>1, <3>2
  <2> QED BY <2>1, <2>2
<1> QED BY <1>1, <1>2, <1>5, <1>6, <1>7

LEMMA BansInvHolds == ASSUME BansInv PROVE BansSurvive /\ SubnetIsItsBlock
<1>1. BansSurvive
  BY DEF BansInv, Ahead, About, BansSurvive, InFlight
<1>2. ASSUME NEW r \in rules, r.kind = "subnet",
             NEW ip \in 2 ^ (Width - r.prefix) * (r.net \div 2 ^ (Width - r.prefix)) ..
                        2 ^ (Width - r.prefix) * (r.net \div 2 ^ (Width - r.prefix)) + 2 ^ (Width - r.prefix) - 1
      PROVE  IsBanned(ip, {})
  <2>1. PICK s \in Spellings : r \in RuleOf(s)
    BY DEF BansInv, BanTypes, Load
  <2>2. s.prefix \in Nat /\ s.net \in Nat /\ s.kind \in {"ip", "subnet", "phrase"}
    BY BansAssumption
  <2>k. s.kind = "subnet"
    <3>1. s.kind # "ip"
      <4> SUFFICES ASSUME s.kind = "ip" PROVE FALSE
        OBVIOUS
      <4>1. r = [kind |-> "ip", net |-> s.net, prefix |-> Width, text |-> ""]
        BY <2>1 DEF RuleOf
      <4> QED BY <1>2, <4>1
    <3>2. s.kind # "phrase"
      <4> SUFFICES ASSUME s.kind = "phrase" PROVE FALSE
        OBVIOUS
      <4>1. r = [kind |-> "phrase", net |-> 0, prefix |-> 0, text |-> s.lower]
        BY <2>1 DEF RuleOf
      <4> QED BY <1>2, <4>1
    <3> QED BY <2>2, <3>1, <3>2
  <2>3. r.net \in Nat /\ r.prefix \in 0 .. Width
    <3>1. PICK p \in 0 .. Width : r = [kind |-> "subnet", net |-> s.net, prefix |-> p, text |-> ""]
      <4>1. CASE s.prefix = Bare
        <5>1. r = [kind |-> "subnet", net |-> s.net, prefix |-> Width, text |-> ""]
          BY <2>1, <2>k, <4>1 DEF RuleOf
        <5>2. Width \in 0 .. Width
          BY BansAssumption
        <5> QED BY <5>1, <5>2
      <4>2. CASE s.prefix # Bare
        <5>1. s.prefix <= Width /\ r = [kind |-> "subnet", net |-> s.net, prefix |-> s.prefix, text |-> ""]
          BY <2>1, <2>k, <4>2 DEF RuleOf
        <5>2. s.prefix \in Nat /\ Width \in Nat
          BY <2>2, BansAssumption
        <5>3. PICK p \in Nat : p = s.prefix
          BY <5>2
        <5>4. p <= Width
          BY <5>1, <5>3
        <5>5. p \in 0 .. Width
          BY <5>2, <5>4
        <5> QED BY <5>1, <5>3, <5>5
      <4> QED BY <4>1, <4>2
    <3> QED BY <2>2, <3>1
  <2>4. Width - r.prefix \in 0 .. Width
    BY <2>3, BansAssumption
  <2>5. PICK size \in Nat \ {0} : size = 2 ^ (Width - r.prefix)
    BY <2>4, BansAssumption
  <2>6. ip - (ip % size) = r.net - (r.net % size)
    BY <1>2, <2>3, <2>5, MaskedBlock
  <2>7. Masked(r.net, r.prefix) = Masked(ip, r.prefix)
    BY <2>5, <2>6 DEF Masked
  <2> QED BY <1>2, <2>7 DEF IsBanned
<1> QED BY <1>1, <1>2 DEF SubnetIsItsBlock

-----------------------------------------------------------------------------
(* Throttle: what the extremes of a set and a client behind proxies are.   *)
LEMMA MinPair == ASSUME NEW x \in Nat, NEW y \in Nat
                 PROVE  Min({x, y}) \in Nat /\ Min({x, y}) <= x /\ Min({x, y}) <= y /\ (Min({x, y}) = x \/ Min({x, y}) = y)
<1>1. \E m \in {x, y} : \A z \in {x, y} : m <= z
  <2>1. CASE x <= y
    BY <2>1
  <2>2. CASE y <= x
    BY <2>2
  <2> QED BY <2>1, <2>2
<1>2. Min({x, y}) \in {x, y} /\ \A z \in {x, y} : Min({x, y}) <= z
  BY <1>1 DEF Min
<1> QED BY <1>2

LEMMA MaxPair == ASSUME NEW x \in Nat, NEW y \in Nat
                 PROVE  Max({x, y}) \in Nat /\ x <= Max({x, y}) /\ y <= Max({x, y}) /\ (Max({x, y}) = x \/ Max({x, y}) = y)
<1>1. \E m \in {x, y} : \A z \in {x, y} : m >= z
  <2>1. CASE x <= y
    BY <2>1
  <2>2. CASE y <= x
    BY <2>2
  <2> QED BY <2>1, <2>2
<1>2. Max({x, y}) \in {x, y} /\ \A z \in {x, y} : Max({x, y}) >= z
  BY <1>1 DEF Max
<1> QED BY <1>2

LEMMA MaxIs == ASSUME NEW S \in SUBSET Nat, NEW m \in S, \A z \in S : z <= m PROVE Max(S) = m
<1>1. \E x \in S : \A z \in S : x >= z
  <2>1. \A z \in S : m >= z
    OBVIOUS
  <2> QED BY <2>1
<1>2. Max(S) \in S /\ \A z \in S : Max(S) >= z
  BY <1>1 DEF Max
<1>3. PICK x \in S : x = Max(S)
  BY <1>2
<1>4. x >= m /\ x <= m /\ x \in Nat /\ m \in Nat
  BY <1>2, <1>3
<1> QED BY <1>3, <1>4

\* Behind trusted proxies the rightmost address that is none of theirs is the client's: what it
\* wrote itself stands further left.
LEMMA ClientFound ==
    ASSUME NEW client \in ClientAddrs, NEW fake \in Fakes, NEW hops \in BoundedSeq(Proxies, MaxHops), hops # <<>>
    PROVE  ClientIp(Last(hops), fake \o <<client>> \o Front(hops)) = client
<1>0. PICK A : /\ ClientAddrs \subseteq A /\ Proxies \subseteq A /\ Fakes \subseteq Seq(A)
                /\ ClientAddrs \cap (Proxies \cup {"junk"}) = {} /\ MaxHops \in Nat
  BY ThrottleAssumption
<1>1. PICK n \in 0 .. MaxHops : hops \in [1 .. n -> Proxies]
  BY DEF BoundedSeq, SeqOf
<1>2. hops \in Seq(Proxies) /\ Len(hops) = n
  BY <1>0, <1>1
<1>3. n >= 1
  BY <1>0, <1>1, <1>2, EmptySeq
<1>4. Last(hops) \in Proxies
  BY <1>1, <1>2, <1>3 DEF Last
<1>5. PICK f \in Seq(A) : f = Front(hops) /\ \A i \in 1 .. Len(f) : f[i] \in Proxies
  <2>1. hops \in Seq(A)
    <3>1. hops \in [1 .. n -> A] /\ n \in Nat
      BY <1>0, <1>1
    <3> QED BY <3>1
  <2>2. PICK f : f = SubSeq(hops, 1, n - 1)
    OBVIOUS
  <2>3. f \in Seq(A) /\ Len(f) = n - 1 /\ \A i \in 1 .. n - 1 : f[i] = hops[i]
    BY <1>2, <1>3, <2>1, <2>2
  <2>4. \A i \in 1 .. Len(f) : f[i] \in Proxies
    BY <1>1, <1>3, <2>3
  <2>5. f = Front(hops)
    BY <1>2, <2>2 DEF Front
  <2> QED BY <2>3, <2>4, <2>5
<1>6. PICK k \in Nat : k = Len(fake)
  BY <1>0
<1>c. PICK one \in Seq(A) : one = <<client>> /\ Len(one) = 1 /\ one[1] = client
  <2>1. client \in A
    BY <1>0
  <2>2. PICK one : one = <<client>>
    OBVIOUS
  <2>3. one \in Seq(A) /\ Len(one) = 1 /\ one[1] = client
    BY <2>1, <2>2
  <2> QED BY <2>2, <2>3
<1>f. fake \in Seq(A)
  BY <1>0
<1>7. PICK g \in Seq(A) : g = fake \o one
  BY <1>c, <1>f, ConcatProperties
<1>8. Len(g) = k + 1 /\ g[k + 1] = client
  BY <1>c, <1>f, <1>6, <1>7, ConcatProperties
<1>9. PICK w \in Seq(A) : w = g \o f
  BY <1>5, <1>7, ConcatProperties
<1>10. /\ Len(w) = k + 1 + Len(f) /\ Len(f) \in Nat /\ w[k + 1] = client
       /\ \A i \in DOMAIN w : i > k + 1 => w[i] \in Proxies
  <2>1. f \in Seq(A) /\ Len(f) \in Nat
    BY <1>5
  <2>2. Len(w) = k + 1 + Len(f) /\ DOMAIN w = 1 .. Len(w)
    <3>1. Len(w) = Len(g) + Len(f) /\ Len(g) \in Nat
      BY <1>5, <1>7, <1>9, ConcatProperties
    <3>2. DOMAIN w = 1 .. Len(w)
      BY <1>9
    <3> QED BY <1>8, <2>1, <3>1, <3>2
  <2>3. w[k + 1] = g[k + 1]
    BY <1>8, <1>9, <2>1
  <2>4. ASSUME NEW i \in DOMAIN w, i > k + 1 PROVE w[i] \in Proxies
    <3>1. i - (k + 1) \in 1 .. Len(f)
      BY <2>1, <2>2, <2>4
    <3>2. w[i] = f[i - (k + 1)]
      BY <1>8, <1>9, <2>1, <2>2, <2>4
    <3> QED BY <1>5, <3>1, <3>2
  <2> QED BY <1>8, <2>1, <2>2, <2>3, <2>4
<1>11. PICK others : others = {i \in DOMAIN w : w[i] \notin Proxies /\ w[i] # "junk"}
  OBVIOUS
<1>12. others \in SUBSET Nat /\ k + 1 \in others /\ \A i \in others : i <= k + 1
  <2>1. DOMAIN w = 1 .. Len(w)
    BY <1>9
  <2>2. client \notin Proxies /\ client # "junk"
    BY <1>0
  <2> QED BY <1>10, <1>11, <2>1, <2>2
<1>13. Max(others) = k + 1
  BY <1>12, MaxIs
<1>14. others # {}
  BY <1>12
<1>15. ClientIp(Last(hops), w) = w[Max(others)]
  BY <1>4, <1>11, <1>14 DEF ClientIp
<1>16. w = fake \o <<client>> \o Front(hops)
  BY <1>5, <1>7, <1>9, <1>c
<1> QED BY <1>10, <1>13, <1>15, <1>16

LEMMA ClientDirect == ASSUME NEW client \in ClientAddrs, NEW fake PROVE ClientIp(client, fake) = client
BY ThrottleAssumption DEF ClientIp

-----------------------------------------------------------------------------
(* What keeps the rate, the ban and the lock.                              *)
BucketRecords  == [tokens : Nat, last : Nat, violations : Nat, some : BOOLEAN]
AttemptRecords == [failures : Nat, start : Nat, until : Nat, some : BOOLEAN]
ReqRecords     == [at : {"idle", "limit", "check", "verify"}, ip : ClientAddrs \cup {"none"}, real : ClientAddrs \cup {"none"}]

ThrottleTypes ==
    /\ tick \in Nat /\ buckets \in [ClientAddrs -> BucketRecords] /\ attempts \in AttemptRecords
    /\ req \in [Requests -> ReqRecords] /\ lockedUntil \in Nat
    /\ granted \in [ClientAddrs -> Nat] /\ overrun \in [ClientAddrs -> Nat]
    /\ late \in [ClientAddrs -> Nat] /\ upTo \in [ClientAddrs -> Nat]

Charged == \A r \in Requests : req[r].at # "idle" => req[r].ip = req[r].real /\ req[r].ip \in ClientAddrs

\* A dropped bucket was full, by the time it was idle.
Rate(a) ==
    /\ upTo[a] <= tick
    /\ buckets[a].some = TRUE \/ buckets[a] = NoBucket
    /\ buckets[a].some = TRUE => upTo[a] = buckets[a].last
    /\ RefillsBeforeEviction =>
          IF buckets[a].some = TRUE
          THEN (granted[a] * Whole) + buckets[a].tokens <= (Capacity * Whole) + ((upTo[a] + late[a]) * RefillPer)
          ELSE granted[a] * Whole <= (upTo[a] + late[a]) * RefillPer

\* The requests of a banned address that had passed the filter: one of them was refused.
Pending(a) == {r \in Requests : req[r].at = "limit" /\ req[r].ip = a}
Stopped(a) == IF a \in bannedIps THEN overrun[a] + Cardinality(Pending(a)) <= Cardinality(Requests) - 1 ELSE overrun[a] = 0

Locks ==
    /\ lockedUntil <= tick + Lockout
    /\ lockedUntil # 0 => attempts.some = TRUE /\ lockedUntil <= attempts.until + MaxLate

ThrottleInv ==
    /\ ThrottleTypes /\ Charged /\ Locks /\ LockHolds
    /\ \A a \in ClientAddrs : Rate(a) /\ Stopped(a)

\* What a bucket gains while it is idle long enough fills it.
LEMMA EvictedFull ==
    ASSUME NEW G \in Nat, NEW t \in Nat, NEW C \in Nat, NEW u \in Nat, NEW l \in Nat, NEW R \in Nat, NEW reading \in Nat, NEW I \in Nat,
           G + t <= C + ((u + l) * R), reading - u >= I, I * R >= C
    PROVE  G <= (reading + l) * R
<1>1. PICK d \in Nat : reading = u + d /\ d >= I
  <2>1. reading - u \in Nat /\ reading = u + (reading - u)
    OBVIOUS
  <2> QED BY <2>1
<1>2. d * R >= I * R
  BY <1>1
<1>3. (reading + l) * R = ((u + l) * R) + (d * R)
  BY <1>1
<1>4. (u + l) * R \in Nat /\ d * R \in Nat /\ I * R \in Nat
  BY <1>1
<1> QED BY <1>2, <1>3, <1>4

LEMMA MinusIs == ASSUME NEW x \in Nat, NEW y \in Nat
                 PROVE  Minus(x, y) \in Nat /\ (x <= y => Minus(x, y) = 0) /\ (y <= x => Minus(x, y) = x - y)
BY DEF Minus

\* A clock that goes back by d counts d twice, as late.
LEMMA Credited ==
    ASSUME NEW G \in Nat, NEW t \in Nat, NEW s \in Nat, NEW C \in Nat, NEW u \in Nat, NEW l \in Nat, NEW R \in Nat, NEW reading \in Nat,
           G + t <= C + ((u + l) * R), s <= t + (Minus(reading, u) * R)
    PROVE  G + s <= C + ((reading + (l + Minus(u, reading))) * R)
<1>1. CASE u <= reading
  <2>1. PICK d \in Nat : reading = u + d
    <3>1. reading - u \in Nat /\ reading = u + (reading - u)
      BY <1>1
    <3> QED BY <3>1
  <2>2. Minus(reading, u) = d /\ Minus(u, reading) = 0
    BY <2>1 DEF Minus
  <2>3. (reading + l) * R = ((u + l) * R) + (d * R)
    BY <2>1
  <2>4. (u + l) * R \in Nat /\ d * R \in Nat
    BY <2>1
  <2> QED BY <2>2, <2>3, <2>4
<1>2. CASE reading < u
  <2>1. Minus(reading, u) = 0 /\ Minus(u, reading) = u - reading
    BY <1>2, MinusIs
  <2>2. reading + (l + Minus(u, reading)) = u + l
    BY <2>1
  <2>3. s <= t
    BY <2>1
  <2>4. (u + l) * R \in Nat
    OBVIOUS
  <2> QED BY <2>2, <2>3, <2>4
<1> QED BY <1>1, <1>2

LEMMA Advanced ==
    ASSUME NEW u \in Nat, NEW l \in Nat, NEW R \in Nat, NEW reading \in Nat
    PROVE  (u + l) * R <= (reading + (l + Minus(u, reading))) * R
<1>1. PICK x \in Nat : x = reading + (l + Minus(u, reading)) /\ u + l <= x
  <2>1. Minus(u, reading) \in Nat /\ u <= reading + Minus(u, reading)
    BY MinusIs
  <2> QED BY <2>1
<1>2. PICK d \in Nat : x = (u + l) + d
  <2>1. x - (u + l) \in Nat /\ x = (u + l) + (x - (u + l))
    BY <1>1
  <2> QED BY <2>1
<1>3. x * R = ((u + l) * R) + (d * R) /\ d * R \in Nat
  BY <1>2
<1>4. (u + l) * R \in Nat
  OBVIOUS
<1> QED BY <1>1, <1>3, <1>4

LEMMA ThrottleNumbers == /\ Capacity \in Nat /\ RefillPer \in Nat /\ Whole \in Nat /\ Lockout \in Nat /\ MaxLate \in Nat /\ IdleEvict \in Nat
                         /\ IdleEvict >= 1 /\ Capacity * Whole \in Nat
BY ThrottleAssumption

LEMMA AddrIs == ASSUME ThrottleTypes, NEW a \in ClientAddrs
                PROVE  /\ upTo[a] \in Nat /\ late[a] \in Nat /\ granted[a] \in Nat /\ overrun[a] \in Nat
                       /\ buckets[a] \in BucketRecords /\ buckets[a].tokens \in Nat /\ buckets[a].last \in Nat /\ buckets[a].violations \in Nat
<1>1. buckets[a] \in BucketRecords
  BY DEF ThrottleTypes
<1> QED BY <1>1 DEF ThrottleTypes, BucketRecords

\* What a sweep at now makes of an address: its bucket stays, or it was full and goes.
LEMMA SweptRate ==
    ASSUME ThrottleTypes, NEW a \in ClientAddrs, Rate(a), NEW reading \in Nat, Retained(reading)[a] # buckets[a]
    PROVE  /\ Retained(reading)[a] = NoBucket /\ buckets[a].some = TRUE /\ upTo[a] <= reading
           /\ RefillsBeforeEviction => granted[a] * Whole <= (reading + late[a]) * RefillPer
<1>1. Retained(reading)[a] = NoBucket /\ Minus(reading, buckets[a].last) >= IdleEvict
  BY DEF Retained
<1>2. buckets[a].some = TRUE /\ upTo[a] = buckets[a].last
  BY <1>1 DEF Rate
<1>3. upTo[a] <= reading /\ reading - upTo[a] >= IdleEvict
  <2>1. PICK n \in Nat : n = upTo[a]
    BY AddrIs
  <2>2. Minus(reading, n) >= IdleEvict /\ IdleEvict \in Nat /\ IdleEvict >= 1
    BY <1>1, <1>2, <2>1, ThrottleNumbers
  <2>3. n <= reading /\ reading - n >= IdleEvict
    BY <2>2 DEF Minus
  <2> QED BY <2>1, <2>3
<1>4. ASSUME RefillsBeforeEviction PROVE granted[a] * Whole <= (reading + late[a]) * RefillPer
  <2>1. (granted[a] * Whole) + buckets[a].tokens <= (Capacity * Whole) + ((upTo[a] + late[a]) * RefillPer)
    BY <1>2, <1>4 DEF Rate
  <2>2. IdleEvict * RefillPer >= Capacity * Whole
    BY <1>4 DEF RefillsBeforeEviction
  <2>3. PICK G \in Nat : G = granted[a] * Whole
    BY AddrIs, ThrottleNumbers
  <2>4. PICK C \in Nat : C = Capacity * Whole
    BY ThrottleNumbers
  <2>5. G <= (reading + late[a]) * RefillPer
    BY <1>3, <2>1, <2>2, <2>3, <2>4, AddrIs, ThrottleNumbers, EvictedFull
  <2> QED BY <2>3, <2>5
<1> QED BY <1>1, <1>2, <1>3, <1>4

LEMMA NoBucketIs == /\ NoBucket \in BucketRecords /\ NoBucket.some = FALSE /\ NoBucket.tokens = 0 /\ NoBucket.last = 0
                    /\ NoBucket.violations = 0
BY DEF NoBucket, BucketRecords

LEMMA RefilledIs ==
    ASSUME NEW b \in BucketRecords, NEW reading \in Nat, b.some = TRUE \/ b = NoBucket
    PROVE  \E e \in BucketRecords : /\ e = Refilled(b, reading) /\ e.last = reading /\ e.some = TRUE /\ e.tokens <= Capacity * Whole
                                    /\ b.some = TRUE => e.tokens <= b.tokens + (Minus(reading, b.last) * RefillPer)
<1>1. PICK C \in Nat : C = Capacity * Whole
  BY ThrottleNumbers
<1>2. CASE b = NoBucket
  <2>1. PICK e : e = [tokens |-> C, last |-> reading, violations |-> 0, some |-> TRUE]
    OBVIOUS
  <2>2. e \in BucketRecords /\ e.last = reading /\ e.some = TRUE /\ e.tokens = C
    BY <2>1 DEF BucketRecords
  <2>3. e = Refilled(b, reading)
    BY <1>1, <1>2, <2>1, NoBucketIs DEF Refilled
  <2> QED BY <1>1, <1>2, <2>2, <2>3, NoBucketIs
<1>3. CASE b.some = TRUE
  <2>1. PICK t \in Nat, n \in Nat : t = b.tokens /\ n = b.last
    BY DEF BucketRecords
  <2>2. Minus(reading, n) \in Nat /\ RefillPer \in Nat
    BY MinusIs, ThrottleNumbers
  <2>3. PICK g \in Nat : g = t + (Minus(reading, n) * RefillPer)
    BY <2>1, <2>2
  <2>4. PICK m \in Nat : m = Min({g, C}) /\ m <= g /\ m <= C
    BY <1>1, <2>3, MinPair
  <2>5. PICK e : e = [b EXCEPT !.tokens = m, !.last = reading]
    OBVIOUS
  <2>6. e \in BucketRecords /\ e.last = reading /\ e.some = TRUE /\ e.tokens = m
    BY <1>3, <2>5 DEF BucketRecords
  <2>7. Min({t + (Minus(reading, n) * RefillPer), Capacity * Whole}) = m
    BY <1>1, <2>3, <2>4
  <2>8. e = Refilled(b, reading)
    BY <1>3, <2>1, <2>5, <2>7 DEF Refilled
  <2> QED BY <1>1, <2>1, <2>3, <2>4, <2>6, <2>8
<1> QED BY <1>2, <1>3

LEMMA RetainedIs == ASSUME NEW a \in ClientAddrs, NEW reading
                    PROVE  Retained(reading)[a] = buckets[a] \/ Retained(reading)[a] = NoBucket
BY DEF Retained

\* A call that takes the lock at now finds, with the tokens of its bucket, no more than the rate.
LEMMA AllowRate ==
    ASSUME ThrottleTypes, NEW a \in ClientAddrs, Rate(a), NEW reading \in Nat, RefillsBeforeEviction, NEW e \in BucketRecords,
           e = Refilled(Retained(reading)[a], reading)
    PROVE  (granted[a] * Whole) + e.tokens <= (Capacity * Whole) + ((reading + (late[a] + Minus(upTo[a], reading))) * RefillPer)
<1>1. PICK C \in Nat, G \in Nat : C = Capacity * Whole /\ G = granted[a] * Whole
  BY AddrIs, ThrottleNumbers
<1>2. PICK u \in Nat, l \in Nat, b \in BucketRecords : u = upTo[a] /\ l = late[a] /\ b = buckets[a]
  BY AddrIs
<1>3. b.some = TRUE \/ b = NoBucket
  BY <1>2 DEF Rate
<1>4. e.tokens \in Nat /\ RefillPer \in Nat
  BY ThrottleNumbers DEF BucketRecords
<1>5. CASE Retained(reading)[a] # buckets[a]
  <2>1. Retained(reading)[a] = NoBucket /\ u <= reading /\ G <= (reading + l) * RefillPer
    BY <1>1, <1>2, <1>5, SweptRate
  <2>2. e.tokens <= C
    BY <1>1, <2>1, NoBucketIs, RefilledIs
  <2>3. Minus(u, reading) = 0
    BY <2>1, MinusIs
  <2>4. reading + (l + Minus(u, reading)) = reading + l
    BY <2>3
  <2>5. PICK x \in Nat : x = (reading + l) * RefillPer
    BY <1>4
  <2>6. G + e.tokens <= C + x
    BY <1>4, <2>1, <2>2, <2>5
  <2> QED BY <1>1, <1>2, <2>4, <2>5, <2>6
<1>6. CASE Retained(reading)[a] = buckets[a] /\ b.some = TRUE
  <2>1. PICK t \in Nat : t = b.tokens
    BY DEF BucketRecords
  <2>2. u = b.last /\ G + t <= C + ((u + l) * RefillPer)
    BY <1>1, <1>2, <1>6, <2>1 DEF Rate
  <2>3. e.tokens <= t + (Minus(reading, u) * RefillPer)
    BY <1>2, <1>6, <2>1, <2>2, RefilledIs
  <2>4. PICK s \in Nat : s = e.tokens
    BY <1>4
  <2>5. G + s <= C + ((reading + (l + Minus(u, reading))) * RefillPer)
    BY <1>4, <2>2, <2>3, <2>4, Credited
  <2> QED BY <1>1, <1>2, <2>4, <2>5
<1>7. CASE Retained(reading)[a] = buckets[a] /\ b = NoBucket
  <2>1. b.some = FALSE /\ buckets[a].some # TRUE
    BY <1>2, <1>7, NoBucketIs
  <2>2. G <= (u + l) * RefillPer
    BY <1>1, <1>2, <2>1 DEF Rate
  <2>3. e.tokens <= C
    <3>1. \E f \in BucketRecords : f = Refilled(b, reading) /\ f.tokens <= Capacity * Whole
      BY <1>7, RefilledIs
    <3> QED BY <1>1, <1>2, <1>7, <3>1
  <2>4. (u + l) * RefillPer <= (reading + (l + Minus(u, reading))) * RefillPer
    BY <1>4, Advanced
  <2>5. PICK x \in Nat : x = (u + l) * RefillPer
    BY <1>4
  <2>6. PICK y \in Nat : y = (reading + (l + Minus(u, reading))) * RefillPer
    BY <1>4, MinusIs
  <2>7. G + e.tokens <= C + y
    BY <1>4, <2>2, <2>3, <2>4, <2>5, <2>6
  <2> QED BY <1>1, <1>2, <2>6, <2>7
<1> QED BY <1>2, <1>3, <1>5, <1>6, <1>7

-----------------------------------------------------------------------------
(* The steps of a request.                                                 *)
LEMMA ReqMoves ==
    ASSUME ThrottleTypes, NEW r \in Requests, NEW k \in ReqRecords, req' = [req EXCEPT ![r] = k]
    PROVE  req' \in [Requests -> ReqRecords] /\ req'[r] = k /\ \A q \in Requests : q # r => req'[q] = req[q]
BY DEF ThrottleTypes

LEMMA NoReqIs == NoReq \in ReqRecords /\ NoReq.at = "idle"
BY DEF NoReq, ReqRecords

\* Requests leave the limit.
LEMMA PendingCount == ASSUME NEW a PROVE /\ IsFiniteSet(Pending(a)) /\ Cardinality(Pending(a)) \in Nat
                                         /\ Cardinality(Requests) \in Nat /\ Cardinality(Requests) >= 1
                                         /\ \A P \in SUBSET Pending(a) : Cardinality(P) \in Nat /\ Cardinality(P) <= Cardinality(Pending(a))
<1>1. IsFiniteSet(Requests) /\ Requests # {}
  BY ThrottleAssumption
<1>2. Pending(a) \in SUBSET Requests
  BY DEF Pending
<1>3. IsFiniteSet(Pending(a))
  BY <1>1, <1>2, FS_Subset
<1>4. Cardinality(Requests) \in Nat /\ Cardinality(Requests) # 0
  BY <1>1, FS_CardinalityType, FS_EmptySet
<1>5. \A P \in SUBSET Pending(a) : IsFiniteSet(P) /\ Cardinality(P) <= Cardinality(Pending(a))
  BY <1>3, FS_Subset
<1>6. \A P \in SUBSET Pending(a) : Cardinality(P) \in Nat
  BY <1>5, FS_CardinalityType
<1> QED BY <1>3, <1>4, <1>5, <1>6, FS_CardinalityType

LEMMA StoppedKept ==
    ASSUME NEW a \in ClientAddrs, ThrottleTypes, Stopped(a), overrun'[a] = overrun[a], a \in bannedIps' <=> a \in bannedIps,
           a \in bannedIps => Pending(a)' \subseteq Pending(a)
    PROVE  Stopped(a)'
<1>1. CASE a \in bannedIps
  <2>1. Cardinality(Pending(a)') <= Cardinality(Pending(a)) /\ Cardinality(Pending(a)') \in Nat
    BY <1>1, PendingCount
  <2>2. overrun[a] + Cardinality(Pending(a)) <= Cardinality(Requests) - 1
    BY <1>1 DEF Stopped
  <2>3. overrun[a] + Cardinality(Pending(a)') <= Cardinality(Requests) - 1
    BY <2>1, <2>2, AddrIs, PendingCount
  <2> QED BY <1>1, <2>3 DEF Stopped
<1>2. CASE a \notin bannedIps
  BY <1>2 DEF Stopped
<1> QED BY <1>1, <1>2

LEMMA RateKept ==
    ASSUME NEW a \in ClientAddrs, Rate(a), upTo'[a] = upTo[a], late'[a] = late[a], granted'[a] = granted[a], buckets'[a] = buckets[a],
           tick' \in Nat, tick \in Nat, tick <= tick', upTo[a] \in Nat
    PROVE  Rate(a)'
<1>1. upTo'[a] <= tick'
  BY DEF Rate
<1> QED BY <1>1 DEF Rate

LEMMA ArriveStep == ASSUME ThrottleInv, NEW r \in Requests, Arrive(r) PROVE ThrottleInv'
<1>0. ThrottleTypes
  BY DEF ThrottleInv
<1>1. PICK client \in ClientAddrs :
         req' = [req EXCEPT ![r] = IF client \in bannedIps THEN NoReq ELSE [at |-> "limit", ip |-> client, real |-> client]]
  <2>1. PICK client \in ClientAddrs, fake \in Fakes, hops \in BoundedSeq(Proxies, MaxHops) :
           LET ip == IF hops = <<>> THEN ClientIp(client, fake)
                     ELSE ClientIp(Last(hops), fake \o <<client>> \o Front(hops)) IN
           req' = [req EXCEPT ![r] = IF ip \in bannedIps THEN NoReq ELSE [at |-> "limit", ip |-> ip, real |-> client]]
    BY DEF Arrive
  <2>2. (IF hops = <<>> THEN ClientIp(client, fake) ELSE ClientIp(Last(hops), fake \o <<client>> \o Front(hops))) = client
    BY ClientFound, ClientDirect
  <2> QED BY <2>1, <2>2
<1>2. UNCHANGED <<tick, buckets, bannedIps, attempts, granted, overrun, late, upTo, lockedUntil, early>> /\ req[r].at = "idle"
  BY DEF Arrive
<1>3. PICK k : k = IF client \in bannedIps THEN NoReq ELSE [at |-> "limit", ip |-> client, real |-> client]
  OBVIOUS
<1>4. k \in ReqRecords /\ (k.at = "idle" \/ (k.at = "limit" /\ k.ip = client /\ k.real = client /\ client \notin bannedIps))
  <2>1. CASE client \in bannedIps
    BY <1>3, <2>1, NoReqIs
  <2>2. CASE client \notin bannedIps
    BY <1>3, <2>2 DEF ReqRecords
  <2> QED BY <2>1, <2>2
<1>5. req' = [req EXCEPT ![r] = k]
  BY <1>1, <1>3
<1>6. req' \in [Requests -> ReqRecords] /\ req'[r] = k /\ \A q \in Requests : q # r => req'[q] = req[q]
  BY <1>0, <1>4, <1>5, ReqMoves
<1>7. ThrottleTypes' /\ Locks' /\ LockHolds'
  BY <1>2, <1>6 DEF ThrottleInv, ThrottleTypes, Locks, LockHolds
<1>8. Charged'
  BY <1>4, <1>6 DEF ThrottleInv, Charged
<1>9. ASSUME NEW a \in ClientAddrs PROVE Rate(a)' /\ Stopped(a)'
  <2>1. a \in bannedIps => Pending(a)' \subseteq Pending(a)
    BY <1>4, <1>6 DEF Pending
  <2>2. Rate(a) /\ Stopped(a) /\ tick \in Nat /\ upTo[a] \in Nat
    BY <1>0, AddrIs DEF ThrottleInv, ThrottleTypes
  <2>3. Rate(a)'
    BY <1>2, <2>2 DEF Rate
  <2> QED BY <1>0, <1>2, <2>1, <2>2, <2>3, StoppedKept
<1> QED BY <1>7, <1>8, <1>9 DEF ThrottleInv

\* The buckets of the other addresses: as they were, or swept.
LEMMA OtherRate ==
    ASSUME ThrottleInv, NEW c \in ClientAddrs, NEW reading \in Nat, reading <= tick, tick' = tick,
           buckets'[c] = Retained(reading)[c], granted'[c] = granted[c], late'[c] = late[c],
           upTo'[c] = IF Retained(reading)[c] # buckets[c] THEN reading ELSE upTo[c]
    PROVE  Rate(c)'
<1>0. ThrottleTypes /\ Rate(c)
  BY DEF ThrottleInv
<1>1. CASE Retained(reading)[c] # buckets[c]
  <2>1. Retained(reading)[c] = NoBucket /\ (RefillsBeforeEviction => granted[c] * Whole <= (reading + late[c]) * RefillPer)
    BY <1>0, <1>1, SweptRate
  <2>2. upTo'[c] = reading /\ buckets'[c] = NoBucket /\ buckets'[c].some # TRUE
    BY <1>1, <2>1, NoBucketIs
  <2> QED BY <2>1, <2>2 DEF Rate
<1>2. CASE Retained(reading)[c] = buckets[c]
  BY <1>0, <1>2 DEF Rate
<1> QED BY <1>1, <1>2

LEMMA AllowStep == ASSUME ThrottleInv, NEW r \in Requests, NEW reading \in Now, AllowAt(r, reading) PROVE ThrottleInv'
<1>0. ThrottleTypes /\ reading \in Nat /\ reading <= tick
  BY DEF ThrottleInv, Now, ThrottleTypes
<1>1. req[r].at = "limit"
  BY DEF AllowAt
<1>2. PICK a \in ClientAddrs : a = req[r].ip /\ req[r].real = a
  BY <1>1 DEF ThrottleInv, Charged
<1>3. Retained(reading)[a] \in BucketRecords /\ (Retained(reading)[a].some = TRUE \/ Retained(reading)[a] = NoBucket)
  BY <1>0, RetainedIs, NoBucketIs, AddrIs DEF ThrottleInv, Rate
<1>4. PICK e \in BucketRecords : e = Refilled(Retained(reading)[a], reading) /\ e.last = reading /\ e.some = TRUE /\ e.tokens <= Capacity * Whole
  BY <1>0, <1>3, RefilledIs
<1>5. e.tokens \in Nat /\ e.violations \in Nat /\ Whole \in Nat /\ Capacity * Whole \in Nat
  BY ThrottleNumbers DEF BucketRecords
<1>6. /\ late' = [late EXCEPT ![a] = @ + Minus(upTo[a], reading)]
      /\ upTo' = [c \in ClientAddrs |-> IF c = a \/ Retained(reading)[c] # buckets[c] THEN reading ELSE upTo[c]]
      /\ UNCHANGED <<tick, attempts, lockedUntil, early>>
  BY <1>2 DEF AllowAt
<1>7. PICK d \in Nat : d = Minus(upTo[a], reading)
  BY <1>0, AddrIs, MinusIs
<1>8. /\ late' \in [ClientAddrs -> Nat] /\ upTo' \in [ClientAddrs -> Nat] /\ late'[a] = late[a] + d /\ upTo'[a] = reading
      /\ \A c \in ClientAddrs : c # a => late'[c] = late[c] /\ upTo'[c] = IF Retained(reading)[c] # buckets[c] THEN reading ELSE upTo[c]
  <2>1. late \in [ClientAddrs -> Nat] /\ upTo \in [ClientAddrs -> Nat]
    BY <1>0 DEF ThrottleTypes
  <2>2. late'[a] = late[a] + d /\ \A c \in ClientAddrs : c # a => late'[c] = late[c]
    BY <1>6, <1>7, <2>1
  <2>3. late' \in [ClientAddrs -> Nat]
    BY <1>6, <1>7, <2>1
  <2>4. upTo' \in [ClientAddrs -> Nat] /\ upTo'[a] = reading
    BY <1>0, <1>6, <2>1
  <2>5. \A c \in ClientAddrs : c # a => upTo'[c] = IF Retained(reading)[c] # buckets[c] THEN reading ELSE upTo[c]
    BY <1>6
  <2> QED BY <2>2, <2>3, <2>4, <2>5
<1>9. ASSUME RefillsBeforeEviction
      PROVE  (granted[a] * Whole) + e.tokens <= (Capacity * Whole) + ((reading + (late[a] + d)) * RefillPer)
  BY <1>0, <1>4, <1>7, <1>9, AllowRate DEF ThrottleInv
<1>10. PICK f \in BucketRecords, k \in ReqRecords, g \in Nat :
         /\ buckets' = [Retained(reading) EXCEPT ![a] = f] /\ f.last = reading /\ f.some = TRUE
         /\ req' = [req EXCEPT ![r] = k] /\ ((k.at = "check" /\ k.ip = a /\ k.real = a) \/ k.at = "idle")
         /\ granted' = [granted EXCEPT ![a] = g] /\ g * Whole + f.tokens <= (granted[a] * Whole) + e.tokens
         /\ \/ /\ bannedIps' = bannedIps /\ k.at = "check"
               /\ overrun' = [overrun EXCEPT ![a] = IF a \in bannedIps THEN @ + 1 ELSE @]
            \/ /\ bannedIps' \in {bannedIps, bannedIps \cup {a}} /\ k.at = "idle" /\ overrun' = overrun
  <2>1. CASE e.tokens >= Whole
    <3>1. /\ buckets' = [Retained(reading) EXCEPT ![a] = [e EXCEPT !.tokens = @ - Whole]]
          /\ req' = [req EXCEPT ![r].at = "check"]
          /\ granted' = [granted EXCEPT ![a] = @ + 1]
          /\ overrun' = [overrun EXCEPT ![a] = IF a \in bannedIps THEN @ + 1 ELSE @]
          /\ bannedIps' = bannedIps
      BY <1>2, <1>4, <2>1 DEF AllowAt
    <3>2. PICK m \in Nat : m = e.tokens - Whole
      BY <1>5, <2>1
    <3>3. PICK f : f = [e EXCEPT !.tokens = m]
      OBVIOUS
    <3>4. f \in BucketRecords /\ f.last = reading /\ f.some = TRUE /\ f.tokens = m
      BY <1>4, <3>3 DEF BucketRecords
    <3>5. [e EXCEPT !.tokens = @ - Whole] = f
      BY <3>2, <3>3 DEF BucketRecords
    <3>6. PICK x \in ReqRecords : x = req[r]
      BY <1>0 DEF ThrottleTypes
    <3>7. PICK k : k = [x EXCEPT !.at = "check"]
      OBVIOUS
    <3>8. k \in ReqRecords /\ k.at = "check" /\ k.ip = a /\ k.real = a
      BY <1>2, <3>6, <3>7 DEF ReqRecords
    <3>9. req' = [req EXCEPT ![r] = k]
      BY <3>1, <3>6, <3>7
    <3>10. PICK h \in Nat : h = granted[a]
      BY <1>0, AddrIs
    <3>11. (h + 1) * Whole + m = (h * Whole) + e.tokens
      BY <1>5, <3>2
    <3>12. (h + 1) * Whole + m <= (h * Whole) + e.tokens
      <4>1. PICK y \in Nat : y = h * Whole
        BY <1>5
      <4> QED BY <1>5, <3>11, <4>1
    <3>13. buckets' = [Retained(reading) EXCEPT ![a] = f]
      BY <3>1, <3>5
    <3>14. granted' = [granted EXCEPT ![a] = h + 1] /\ h + 1 \in Nat
      BY <3>1, <3>10
    <3> QED BY <3>1, <3>4, <3>8, <3>9, <3>10, <3>12, <3>13, <3>14
  <2>2. CASE ~(e.tokens >= Whole)
    <3>1. /\ buckets' = [Retained(reading) EXCEPT ![a] = [e EXCEPT !.violations = e.violations + 1]]
          /\ req' = [req EXCEPT ![r] = NoReq]
          /\ granted' = granted /\ overrun' = overrun
          /\ bannedIps' \in {bannedIps, bannedIps \cup {a}}
      BY <1>2, <1>4, <2>2 DEF AllowAt
    <3>2. PICK v \in Nat : v = e.violations + 1
      BY <1>5
    <3>3. PICK f : f = [e EXCEPT !.violations = v]
      OBVIOUS
    <3>4. f \in BucketRecords /\ f.last = reading /\ f.some = TRUE /\ f.tokens = e.tokens
      BY <1>4, <3>3 DEF BucketRecords
    <3>5. PICK h \in Nat : h = granted[a]
      BY <1>0, AddrIs
    <3>6. granted' = [granted EXCEPT ![a] = h]
      BY <1>0, <3>1, <3>5 DEF ThrottleTypes
    <3>7. h * Whole + f.tokens <= (granted[a] * Whole) + e.tokens
      <4>1. PICK y \in Nat : y = h * Whole
        BY <1>5
      <4>2. y + e.tokens <= y + e.tokens
        BY <1>5
      <4> QED BY <3>4, <3>5, <4>1, <4>2
    <3>8. buckets' = [Retained(reading) EXCEPT ![a] = f]
      BY <3>1, <3>2, <3>3
    <3> QED BY <3>1, <3>4, <3>6, <3>7, <3>8, NoReqIs
  <2> QED BY <2>1, <2>2
<1>11. /\ buckets'[a] = f /\ buckets' \in [ClientAddrs -> BucketRecords]
       /\ \A c \in ClientAddrs : c # a => buckets'[c] = Retained(reading)[c]
  <2>1. Retained(reading) \in [ClientAddrs -> BucketRecords]
    <3>1. \A c \in ClientAddrs : Retained(reading)[c] \in BucketRecords
      BY <1>0, RetainedIs, NoBucketIs, AddrIs
    <3>2. PICK F : F = [c \in ClientAddrs |-> IF (swept + 1) % SweepEvery = 0 /\ Minus(reading, buckets[c].last) >= IdleEvict
                                              THEN NoBucket ELSE buckets[c]]
      OBVIOUS
    <3>3. F = Retained(reading)
      BY <3>2 DEF Retained
    <3> QED BY <3>1, <3>2, <3>3
  <2> QED BY <1>10, <2>1
<1>12. /\ granted' \in [ClientAddrs -> Nat] /\ granted'[a] = g /\ \A c \in ClientAddrs : c # a => granted'[c] = granted[c]
  BY <1>0, <1>10 DEF ThrottleTypes
<1>13. req' \in [Requests -> ReqRecords] /\ req'[r] = k /\ \A q \in Requests : q # r => req'[q] = req[q]
  BY <1>0, <1>10, ReqMoves
<1>14. overrun' \in [ClientAddrs -> Nat] /\ \A c \in ClientAddrs : c # a => overrun'[c] = overrun[c]
  BY <1>0, <1>10 DEF ThrottleTypes
<1>15. ThrottleTypes'
  BY <1>0, <1>6, <1>8, <1>11, <1>12, <1>13, <1>14 DEF ThrottleTypes
<1>16. Charged'
  BY <1>10, <1>13 DEF ThrottleInv, Charged
<1>17. Locks' /\ LockHolds'
  BY <1>6 DEF ThrottleInv, Locks, LockHolds
<1>18. ASSUME NEW c \in ClientAddrs PROVE Rate(c)'
  <2>1. CASE c # a
    BY <1>0, <1>6, <1>8, <1>11, <1>12, <2>1, OtherRate
  <2>2. CASE c = a
    <3>1. ASSUME RefillsBeforeEviction
          PROVE  (granted'[a] * Whole) + buckets'[a].tokens <= (Capacity * Whole) + ((upTo'[a] + late'[a]) * RefillPer)
      <4>1. g * Whole + f.tokens <= (granted[a] * Whole) + e.tokens
        BY <1>10
      <4>2. (granted[a] * Whole) + e.tokens <= (Capacity * Whole) + ((reading + (late[a] + d)) * RefillPer)
        BY <1>9, <3>1
      <4>3. PICK x \in Nat : x = (granted[a] * Whole) + e.tokens
        BY <1>0, <1>5, AddrIs
      <4>4. PICK y \in Nat : y = (Capacity * Whole) + ((reading + (late[a] + d)) * RefillPer)
        BY <1>0, <1>5, <1>7, AddrIs, ThrottleNumbers
      <4>5. PICK z \in Nat : z = g * Whole + f.tokens
        BY <1>5 DEF BucketRecords
      <4>6. z <= y
        BY <4>1, <4>2, <4>3, <4>4, <4>5
      <4> QED BY <1>8, <1>11, <1>12, <4>4, <4>5, <4>6
    <3> QED BY <1>0, <1>6, <1>8, <1>10, <1>11, <2>2, <3>1 DEF Rate
  <2> QED BY <2>1, <2>2
<1>19. ASSUME NEW c \in ClientAddrs PROVE Stopped(c)'
  <2>1. \A q \in Pending(c)' : q \in Pending(c) /\ q # r
    BY <1>10, <1>13 DEF Pending
  <2>2. CASE c # a
    BY <1>0, <1>10, <1>14, <2>1, <2>2, StoppedKept DEF ThrottleInv
  <2>3. CASE c = a
    <3>1. r \in Pending(a)
      BY <1>1, <1>2 DEF Pending
    <3>2. Pending(a)' \in SUBSET (Pending(a) \ {r})
      BY <2>1, <2>3
    <3>3. IsFiniteSet(Pending(a) \ {r}) /\ Cardinality(Pending(a) \ {r}) = Cardinality(Pending(a)) - 1
      BY <3>1, PendingCount, FS_RemoveElement
    <3>4. PICK n \in Nat : n = Cardinality(Pending(a)') /\ n <= Cardinality(Pending(a)) - 1
      BY <3>2, <3>3, FS_Subset, FS_CardinalityType
    <3>5. Cardinality(Pending(a)) <= Cardinality(Requests)
      <4>1. IsFiniteSet(Requests) /\ Pending(a) \in SUBSET Requests
        BY ThrottleAssumption DEF Pending
      <4> QED BY <4>1, FS_Subset
    <3>6. overrun[a] \in Nat /\ Cardinality(Pending(a)) \in Nat /\ Cardinality(Requests) \in Nat
      BY <1>0, AddrIs, PendingCount
    <3>7. Stopped(a)
      BY DEF ThrottleInv
    <3>8. CASE a \in bannedIps
      <4>1. overrun'[a] <= overrun[a] + 1 /\ overrun'[a] \in Nat /\ a \in bannedIps'
        BY <1>0, <1>10, <3>6, <3>8 DEF ThrottleTypes
      <4>2. overrun[a] + Cardinality(Pending(a)) <= Cardinality(Requests) - 1
        BY <3>7, <3>8 DEF Stopped
      <4>3. overrun'[a] + n <= Cardinality(Requests) - 1
        BY <3>4, <3>6, <4>1, <4>2
      <4> QED BY <2>3, <3>4, <4>1, <4>3 DEF Stopped
    <3>9. CASE a \notin bannedIps
      <4>1. overrun[a] = 0 /\ overrun'[a] = 0
        BY <1>0, <1>10, <3>7, <3>9 DEF Stopped, ThrottleTypes
      <4>2. overrun'[a] + n <= Cardinality(Requests) - 1
        BY <3>4, <3>5, <3>6, <4>1
      <4> QED BY <2>3, <3>4, <4>1, <4>2 DEF Stopped
    <3> QED BY <3>8, <3>9
  <2> QED BY <2>2, <2>3
<1> QED BY <1>15, <1>16, <1>17, <1>18, <1>19 DEF ThrottleInv

\* The steps of the login leave the limiter and the ban alone.
LEMMA LimiterKept ==
    ASSUME ThrottleInv, NEW r \in Requests, NEW k \in ReqRecords, req' = [req EXCEPT ![r] = k], req[r].at # "limit",
           k.at = "idle" \/ (k.at = "verify" /\ k.ip = req[r].ip /\ k.real = req[r].real /\ req[r].at # "idle"),
           UNCHANGED <<tick, buckets, bannedIps, granted, overrun, late, upTo>>, attempts' \in AttemptRecords, lockedUntil' \in Nat
    PROVE  ThrottleTypes' /\ Charged' /\ \A a \in ClientAddrs : Rate(a)' /\ Stopped(a)'
<1>0. ThrottleTypes
  BY DEF ThrottleInv
<1>1. req' \in [Requests -> ReqRecords] /\ req'[r] = k /\ \A q \in Requests : q # r => req'[q] = req[q]
  BY <1>0, ReqMoves
<1>2. ThrottleTypes'
  BY <1>0, <1>1 DEF ThrottleTypes
<1>3. Charged'
  BY <1>1 DEF ThrottleInv, Charged
<1>4. ASSUME NEW a \in ClientAddrs PROVE Rate(a)' /\ Stopped(a)'
  <2>1. Pending(a)' \subseteq Pending(a)
    BY <1>1 DEF Pending
  <2>2. Rate(a) /\ Stopped(a)
    BY DEF ThrottleInv
  <2>3. Rate(a)'
    BY <2>2 DEF Rate
  <2> QED BY <1>0, <2>1, <2>2, <2>3, StoppedKept
<1> QED BY <1>2, <1>3, <1>4

LEMMA AttemptsIs == ASSUME ThrottleTypes PROVE /\ attempts \in AttemptRecords /\ attempts.failures \in Nat /\ attempts.start \in Nat
                                               /\ attempts.until \in Nat /\ tick \in Nat /\ lockedUntil \in Nat
<1>1. attempts \in AttemptRecords
  BY DEF ThrottleTypes
<1> QED BY <1>1 DEF ThrottleTypes, AttemptRecords

LEMMA CheckStep == ASSUME ThrottleInv, NEW r \in Requests, NEW reading \in Now, CheckAt(r, reading) PROVE ThrottleInv'
<1>0. ThrottleTypes /\ Locks /\ LockHolds /\ reading \in Nat /\ reading <= tick
  BY DEF ThrottleInv, Now, ThrottleTypes
<1>1. UNCHANGED <<tick, buckets, bannedIps, attempts, granted, overrun, late, upTo, lockedUntil>> /\ req[r].at = "check"
  BY DEF CheckAt
<1>2. PICK k \in ReqRecords : /\ req' = [req EXCEPT ![r] = k]
                              /\ k.at = "idle" \/ (k.at = "verify" /\ k.ip = req[r].ip /\ k.real = req[r].real)
  <2>1. PICK x \in ReqRecords : x = req[r]
    BY <1>0 DEF ThrottleTypes
  <2>2. PICK k : k = [x EXCEPT !.at = "verify"]
    OBVIOUS
  <2>3. k \in ReqRecords /\ k.at = "verify" /\ k.ip = x.ip /\ k.real = x.real
    BY <2>2 DEF ReqRecords
  <2>4. CASE ~attempts.some \/ reading >= attempts.until
    <3>1. req' = [req EXCEPT ![r] = k]
      BY <2>1, <2>2, <2>4 DEF CheckAt
    <3> QED BY <2>1, <2>3, <3>1
  <2>5. CASE ~(~attempts.some \/ reading >= attempts.until)
    <3>1. req' = [req EXCEPT ![r] = NoReq]
      BY <2>5 DEF CheckAt
    <3> QED BY <3>1, NoReqIs
  <2> QED BY <2>4, <2>5
<1>3. attempts' \in AttemptRecords /\ lockedUntil' \in Nat /\ req[r].at # "limit" /\ req[r].at # "idle"
  BY <1>0, <1>1, AttemptsIs
<1>4. ThrottleTypes' /\ Charged' /\ \A a \in ClientAddrs : Rate(a)' /\ Stopped(a)'
  BY <1>1, <1>2, <1>3, LimiterKept
<1>5. Locks'
  BY <1>0, <1>1 DEF Locks
<1>6. LockHolds'
  <2>1. ~(~attempts.some \/ reading >= attempts.until) \/ ~(tick + MaxLate < lockedUntil)
    <3>1. CASE lockedUntil = 0
      BY <1>0, <3>1, AttemptsIs, ThrottleNumbers
    <3>2. CASE lockedUntil # 0
      <4>1. attempts.some = TRUE /\ lockedUntil <= attempts.until + MaxLate
        BY <1>0, <3>2 DEF Locks
      <4>2. reading >= attempts.until => ~(tick + MaxLate < lockedUntil)
        BY <1>0, <4>1, AttemptsIs, ThrottleNumbers
      <4> QED BY <4>1, <4>2
    <3> QED BY <3>1, <3>2
  <2> QED BY <1>0, <2>1 DEF CheckAt, LockHolds
<1> QED BY <1>4, <1>5, <1>6 DEF ThrottleInv

LEMMA FailureStep == ASSUME ThrottleInv, NEW r \in Requests, NEW reading \in Now, RecordFailureAt(r, reading) PROVE ThrottleInv'
<1>0. ThrottleTypes /\ Locks /\ LockHolds /\ reading \in Nat /\ reading <= tick /\ tick - reading <= MaxLate
  BY DEF ThrottleInv, Now, ThrottleTypes
<1>1. UNCHANGED <<tick, buckets, bannedIps, granted, overrun, late, upTo, early>> /\ req[r].at = "verify"
      /\ req' = [req EXCEPT ![r] = NoReq]
  BY DEF RecordFailureAt
<1>2. PICK e \in AttemptRecords : e = Counting(reading) /\ e.some = TRUE /\ (attempts.some = TRUE => e.until = attempts.until)
  <2>1. PICK x \in AttemptRecords : x = attempts
    BY <1>0, AttemptsIs
  <2>2. CASE ~attempts.some
    <3>1. PICK e : e = [failures |-> 0, start |-> reading, until |-> 0, some |-> TRUE]
      OBVIOUS
    <3>2. e \in AttemptRecords /\ e.some = TRUE
      BY <1>0, <3>1 DEF AttemptRecords
    <3>3. e = Counting(reading)
      BY <2>2, <3>1 DEF Counting
    <3> QED BY <2>2, <3>2, <3>3
  <2>3. CASE attempts.some
    <3>0. x.some = TRUE
      BY <2>1, <2>3 DEF AttemptRecords
    <3>1. PICK e : e = IF Minus(reading, attempts.start) >= Window THEN [x EXCEPT !.failures = 0, !.start = reading] ELSE x
      OBVIOUS
    <3>2. e \in AttemptRecords /\ e.some = TRUE /\ e.until = x.until
      <4>1. CASE Minus(reading, attempts.start) >= Window
        BY <1>0, <3>0, <3>1, <4>1 DEF AttemptRecords
      <4>2. CASE ~(Minus(reading, attempts.start) >= Window)
        BY <3>0, <3>1, <4>2
      <4> QED BY <4>1, <4>2
    <3>3. e = Counting(reading)
      BY <2>1, <2>3, <3>1 DEF Counting
    <3> QED BY <2>1, <3>2, <3>3
  <2> QED BY <2>2, <2>3
<1>3. e.failures \in Nat /\ e.start \in Nat /\ e.until \in Nat
  BY DEF AttemptRecords
<1>4. PICK u \in Nat : u = reading + Lockout
  BY <1>0, ThrottleNumbers
<1>5. attempts' \in AttemptRecords /\ lockedUntil' \in Nat /\ Locks'
  <2>1. CASE e.failures + 1 >= MaxFailures
    <3>1. attempts' = [e EXCEPT !.failures = 0, !.until = u] /\ lockedUntil' = Max({lockedUntil, u})
      BY <1>2, <1>4, <2>1 DEF RecordFailureAt
    <3>2. attempts' \in AttemptRecords /\ attempts'.some = TRUE /\ attempts'.until = u
      BY <1>2, <3>1 DEF AttemptRecords
    <3>3. PICK l \in Nat : l = lockedUntil
      BY <1>0, AttemptsIs
    <3>4. lockedUntil' \in Nat /\ (lockedUntil' = l \/ lockedUntil' = u)
      BY <3>1, <3>3, MaxPair
    <3>5. l <= tick + Lockout
      BY <1>0, <3>3 DEF Locks
    <3>6. lockedUntil' <= tick + Lockout /\ lockedUntil' <= u + MaxLate
      BY <1>0, <1>4, <3>4, <3>5, AttemptsIs, ThrottleNumbers
    <3> QED BY <1>1, <3>2, <3>4, <3>6 DEF Locks
  <2>2. CASE ~(e.failures + 1 >= MaxFailures)
    <3>1. PICK n \in Nat : n = e.failures + 1
      BY <1>3
    <3>2. attempts' = [e EXCEPT !.failures = n] /\ lockedUntil' = lockedUntil
      <4>1. [e EXCEPT !.failures = @ + 1] = [e EXCEPT !.failures = n]
        BY <3>1
      <4>2. attempts' = [e EXCEPT !.failures = @ + 1] /\ lockedUntil' = lockedUntil
        BY <1>2, <2>2 DEF RecordFailureAt
      <4> QED BY <4>1, <4>2
    <3>3. attempts' \in AttemptRecords /\ attempts'.some = TRUE /\ attempts'.until = e.until
      BY <1>2, <3>2 DEF AttemptRecords
    <3>4. Locks'
      BY <1>0, <1>1, <1>2, <3>2, <3>3 DEF Locks
    <3> QED BY <1>0, <3>2, <3>3, <3>4, AttemptsIs
  <2> QED BY <2>1, <2>2
<1>6. ThrottleTypes' /\ Charged' /\ \A a \in ClientAddrs : Rate(a)' /\ Stopped(a)'
  BY <1>1, <1>5, NoReqIs, LimiterKept
<1>7. LockHolds'
  BY <1>0, <1>1 DEF LockHolds
<1> QED BY <1>5, <1>6, <1>7 DEF ThrottleInv

LEMMA SuccessStep == ASSUME ThrottleInv, NEW r \in Requests, RecordSuccess(r) PROVE ThrottleInv'
<1>1. UNCHANGED <<tick, buckets, bannedIps, granted, overrun, late, upTo, early>> /\ req[r].at = "verify"
      /\ req' = [req EXCEPT ![r] = NoReq] /\ attempts' = NoAttempts /\ lockedUntil' = 0
  BY DEF RecordSuccess
<1>2. NoAttempts \in AttemptRecords
  BY DEF NoAttempts, AttemptRecords
<1>3. ThrottleTypes' /\ Charged' /\ \A a \in ClientAddrs : Rate(a)' /\ Stopped(a)'
  BY <1>1, <1>2, NoReqIs, LimiterKept
<1>4. Locks' /\ LockHolds'
  <2>1. tick \in Nat
    BY DEF ThrottleInv, ThrottleTypes
  <2> QED BY <1>1, <2>1, ThrottleNumbers DEF ThrottleInv, Locks, LockHolds
<1> QED BY <1>3, <1>4 DEF ThrottleInv

LEMMA ThrottleTickStep == ASSUME ThrottleInv, ThrottleTick \/ UNCHANGED throttleVars PROVE ThrottleInv'
<1>1. /\ UNCHANGED <<buckets, bannedIps, attempts, req, granted, overrun, late, upTo, lockedUntil, early>>
      /\ tick' = tick + 1 \/ tick' = tick
  BY DEF ThrottleTick, throttleVars
<1>2. tick \in Nat /\ tick' \in Nat /\ tick <= tick' /\ ThrottleTypes
  BY <1>1 DEF ThrottleInv, ThrottleTypes
<1>3. ThrottleTypes'
  BY <1>1, <1>2 DEF ThrottleTypes
<1>4. Charged' /\ LockHolds'
  BY <1>1 DEF ThrottleInv, Charged, LockHolds
<1>5. Locks'
  BY <1>1, <1>2, AttemptsIs, ThrottleNumbers DEF ThrottleInv, Locks
<1>6. ASSUME NEW a \in ClientAddrs PROVE Rate(a)' /\ Stopped(a)'
  <2>1. Rate(a) /\ Stopped(a) /\ upTo[a] \in Nat
    BY <1>2, AddrIs DEF ThrottleInv
  <2>2. Rate(a)'
    BY <1>1, <1>2, <2>1, RateKept
  <2> QED BY <1>1, <2>1, <2>2 DEF Stopped, Pending
<1> QED BY <1>3, <1>4, <1>5, <1>6 DEF ThrottleInv

LEMMA ThrottleInvNext == ASSUME ThrottleInv, [ThrottleNext]_throttleVars PROVE ThrottleInv'
BY ArriveStep, AllowStep, CheckStep, FailureStep, SuccessStep, ThrottleTickStep DEF ThrottleNext

LEMMA ThrottleInvInit == ASSUME ThrottleInit PROVE ThrottleInv
<1>1. NoAttempts \in AttemptRecords /\ NoAttempts.until = 0
  BY DEF NoAttempts, AttemptRecords
<1>2. \A r \in Requests : req[r] = NoReq /\ req[r].at = "idle"
  BY NoReqIs DEF ThrottleInit
<1>3. ThrottleTypes
  BY <1>1, NoReqIs, NoBucketIs DEF ThrottleInit, ThrottleTypes
<1>4. Charged /\ Locks /\ LockHolds
  <2>1. 0 <= 0 + Lockout
    BY ThrottleNumbers
  <2> QED BY <1>2, <2>1 DEF ThrottleInit, Charged, Locks, LockHolds
<1>5. ASSUME NEW a \in ClientAddrs PROVE Rate(a) /\ Stopped(a)
  <2>1. buckets[a] = NoBucket /\ granted[a] = 0 /\ upTo[a] = 0 /\ late[a] = 0 /\ overrun[a] = 0 /\ tick = 0 /\ bannedIps = {}
    BY DEF ThrottleInit
  <2>2. 0 * Whole <= (0 + 0) * RefillPer
    BY ThrottleNumbers
  <2>3. Rate(a)
    BY <2>1, <2>2, NoBucketIs DEF Rate
  <2> QED BY <2>1, <2>3 DEF Stopped
<1> QED BY <1>3, <1>4, <1>5 DEF ThrottleInv

LEMMA ThrottleInvHolds == ASSUME ThrottleInv PROVE ThrottleHolds
<1>0. ThrottleTypes /\ tick \in Nat
  BY DEF ThrottleInv, ThrottleTypes
<1>1. ChargedToTheClient /\ LockHolds
  BY DEF ThrottleInv, Charged, ChargedToTheClient
<1>2. ASSUME NEW a \in ClientAddrs, RefillsBeforeEviction
      PROVE  granted[a] * Whole <= (Capacity * Whole) + ((tick + late[a]) * RefillPer)
  <2>1. Rate(a)
    BY DEF ThrottleInv
  <2>2. PICK u \in Nat, l \in Nat, t \in Nat, G \in Nat, C \in Nat :
           u = upTo[a] /\ l = late[a] /\ t = buckets[a].tokens /\ G = granted[a] * Whole /\ C = Capacity * Whole
    BY <1>0, AddrIs, ThrottleNumbers
  <2>3. u <= tick
    BY <2>1, <2>2 DEF Rate
  <2>4. (u + l) * RefillPer <= (tick + l) * RefillPer
    <3>1. PICK d \in Nat : tick = u + d
      <4>1. tick - u \in Nat /\ tick = u + (tick - u)
        BY <1>0, <2>3
      <4> QED BY <4>1
    <3>2. (tick + l) * RefillPer = ((u + l) * RefillPer) + (d * RefillPer) /\ d * RefillPer \in Nat /\ (u + l) * RefillPer \in Nat
      BY <3>1, ThrottleNumbers
    <3> QED BY <3>2
  <2>5. PICK x \in Nat : x = (u + l) * RefillPer
    BY ThrottleNumbers
  <2>6. PICK y \in Nat : y = (tick + l) * RefillPer
    BY <1>0, ThrottleNumbers
  <2>7. G <= C + x
    <3>1. CASE buckets[a].some = TRUE
      <4>1. G + t <= C + x
        BY <1>2, <2>1, <2>2, <2>5, <3>1 DEF Rate
      <4> QED BY <4>1
    <3>2. CASE buckets[a].some # TRUE
      <4>1. G <= x
        BY <1>2, <2>1, <2>2, <2>5, <3>2 DEF Rate
      <4> QED BY <4>1
    <3> QED BY <3>1, <3>2
  <2>8. G <= C + y
    BY <2>4, <2>5, <2>6, <2>7
  <2> QED BY <2>2, <2>6, <2>8
<1>3. ASSUME NEW a \in ClientAddrs PROVE overrun[a] < Cardinality(Requests)
  <2>1. Stopped(a) /\ overrun[a] \in Nat
    BY <1>0, AddrIs DEF ThrottleInv
  <2> QED BY <2>1, PendingCount DEF Stopped
<1> QED BY <1>1, <1>2, <1>3 DEF ThrottleHolds, RateHeld, BanStops

-----------------------------------------------------------------------------
\* However shards interleave their calls and whichever clocks they read, a client is charged for
\* its own requests and let through at the rate, a banned address gets in no more than the
\* requests that had passed the filter, a lock holds until its time; a restart changes no ban an
\* admin made durably, and a subnet covers its block (client_ip, RateLimit, LoginGuard, Bans
\* and PersistentBans).
THEOREM GateIsSafe == StoresSpec => []GateHolds
<1>1. StoresInit => ThrottleInv /\ BansInv
  BY ThrottleInvInit, BansInvInit DEF StoresInit
<1>2. ThrottleInv /\ BansInv /\ [StoresNext]_<<storesVars, part>> => ThrottleInv' /\ BansInv'
  <2>1. [StoresNext]_<<storesVars, part>> => [ThrottleNext]_throttleVars /\ [BansNext]_banVars
    BY DEF StoresNext, storesVars
  <2> QED BY <2>1, ThrottleInvNext, BansInvNext
<1>3. ThrottleInv /\ BansInv => GateHolds
  BY ThrottleInvHolds, BansInvHolds DEF GateHolds
<1> QED BY <1>1, <1>2, <1>3, PTL DEF StoresSpec
=============================================================================
