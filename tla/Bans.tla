-------------------------------- MODULE Bans --------------------------------
(***************************************************************************)
(* The ban list (kernway-security/src/tracking.rs) and its durable copy in *)
(* Redis (redis_bans.rs): PersistentBans changes memory at once and then   *)
(* awaits the store; restore loads the store after a restart.              *)
(*                                                                         *)
(* A spelling is what an admin types: an address, a subnet with or without *)
(* its prefix, a phrase in any case.  Memory keeps the rule it parses to;  *)
(* the store keeps addresses and phrases normalised and a subnet as typed. *)
(* Addresses have Width bits.                                              *)
(***************************************************************************)
EXTENDS Naturals, FiniteSets

CONSTANTS Admins,       \* admin calls in flight
          Spellings,    \* what they may type
          Width,
          Bare,         \* the prefix of a subnet typed without one
          MaxAdminCalls

ASSUME BansAssumption ==
    /\ Width \in Nat /\ \A n \in 0 .. Width : 2 ^ n \in Nat \ {0}
    /\ Spellings \subseteq [kind : {"ip", "subnet", "phrase"}, net : Nat, prefix : Nat, text : STRING, lower : STRING]

VARIABLES
    rules,      \* Bans: the rules in memory
    store,      \* the members of kw:bans:*
    admin,      \* each call: what it does and with which spelling
    adminCalls,
    apart       \* rules that memory and store may disagree on, and why is listed below

banVars == <<rules, store, admin, adminCalls, apart>>

Free == [at |-> "idle", add |-> FALSE, s |-> {}]

\* add_ip, parse_cidr (a bare address is a whole-width subnet, a prefix too long is ignored),
\* and the phrase in lower case.  {} when the rule is ignored.
RuleOf(s) ==
    CASE s.kind = "ip" -> {[kind |-> "ip", net |-> s.net, prefix |-> Width, text |-> ""]}
      [] s.kind = "subnet" -> IF s.prefix = Bare THEN {[kind |-> "subnet", net |-> s.net, prefix |-> Width, text |-> ""]}
                              ELSE IF s.prefix <= Width THEN {[kind |-> "subnet", net |-> s.net, prefix |-> s.prefix, text |-> ""]}
                              ELSE {}
      [] s.kind = "phrase" -> {[kind |-> "phrase", net |-> 0, prefix |-> 0, text |-> s.lower]}

\* What SADD and SREM are called with.
Member(s) == IF s.kind = "phrase" THEN [s EXCEPT !.text = s.lower] ELSE s

\* load: every member is parsed again.
Load(members) == UNION {RuleOf(s) : s \in members}

\* cidr_contains masks both sides; is_banned is any rule that matches.
Masked(addr, prefix) == IF prefix = 0 THEN 0 ELSE addr - (addr % (2 ^ (Width - prefix)))
IsBanned(ip, agent) ==
    \E r \in rules : \/ r.kind = "ip" /\ r.net = ip
                     \/ r.kind = "subnet" /\ Masked(r.net, r.prefix) = Masked(ip, r.prefix)
                     \/ r.kind = "phrase" /\ r.text \in agent

BansInit ==
    /\ rules = {} /\ store = {} /\ admin = [a \in Admins |-> Free] /\ adminCalls = 0 /\ apart = {}

-----------------------------------------------------------------------------
InFlight(rule) == \E a \in Admins : admin[a].at = "store" /\ \E s \in admin[a].s : rule \in RuleOf(s)

\* ban_* and unban_*: memory first, then the call to the store is on its way.
Change(a, s, add) ==
    /\ admin[a].at = "idle" /\ adminCalls < MaxAdminCalls /\ adminCalls' = adminCalls + 1
    /\ rules' = IF add THEN rules \union RuleOf(s) ELSE rules \ RuleOf(s)
    /\ admin' = [admin EXCEPT ![a] = [at |-> "store", add |-> add, s |-> {s}]]
    /\ apart' = apart \union {r \in RuleOf(s) :
                                 \/ InFlight(r)                                            \* calls overlap
                                 \/ ~add /\ \E t \in store : r \in RuleOf(t) /\ t # Member(s)}  \* typed another way
    /\ UNCHANGED store

Stored(a) ==
    /\ admin[a].at = "store"
    /\ \E s \in admin[a].s : store' = IF admin[a].add THEN store \union {Member(s)} ELSE store \ {Member(s)}
    /\ admin' = [admin EXCEPT ![a] = Free]
    /\ UNCHANGED <<rules, adminCalls, apart>>

\* The store fails: the caller sees an error, memory keeps the change.
StoreFailed(a) ==
    /\ admin[a].at = "store"
    /\ admin' = [admin EXCEPT ![a] = Free]
    /\ apart' = apart \union UNION {RuleOf(s) : s \in admin[a].s}
    /\ UNCHANGED <<rules, store, adminCalls>>

\* RateLimit bans in memory only.
AutoBan(s) ==
    /\ s.kind = "ip" /\ ~(RuleOf(s) \subseteq rules)
    /\ rules' = rules \union RuleOf(s) /\ apart' = apart \union RuleOf(s)
    /\ UNCHANGED <<store, admin, adminCalls>>

ClearBans ==
    /\ rules # {} /\ rules' = {} /\ apart' = apart \union rules \union Load(store)
    /\ UNCHANGED <<store, admin, adminCalls>>

\* The process stops, with calls half way, and restores what the store has.
RestartBans ==
    /\ rules' = Load(store) /\ apart' = {}
    /\ admin' = [a \in Admins |-> Free]
    /\ UNCHANGED <<store, adminCalls>>

BansNext ==
    \/ \E a \in Admins : \/ Stored(a) \/ StoreFailed(a)
                         \/ \E s \in Spellings, add \in BOOLEAN : Change(a, s, add)
    \/ \E s \in Spellings : AutoBan(s)
    \/ ClearBans \/ RestartBans

-----------------------------------------------------------------------------
BansTypeOK ==
    /\ adminCalls \in 0 .. MaxAdminCalls /\ store \subseteq {Member(s) : s \in Spellings}
    /\ rules \subseteq Load(Spellings) /\ apart \subseteq Load(Spellings)

\* A restart changes no ban that an admin made through PersistentBans: a rule is in force again
\* exactly when it was before, unless its call was cut off or failed, two calls
\* about it overlapped, it was lifted under another spelling of its subnet, or it was set in
\* memory only (RateLimit, clear).
BansSurvive ==
    \A r \in Load(Spellings) \ apart : ~InFlight(r) => (r \in rules <=> r \in Load(store))

\* A subnet covers the block of addresses its prefix names, from none left out (prefix 0) to
\* the one address of a full prefix.
SubnetIsItsBlock ==
    \A r \in rules : r.kind = "subnet" =>
       LET size == 2 ^ (Width - r.prefix)  base == size * (r.net \div size) IN
       \A ip \in base .. base + size - 1 : IsBanned(ip, {})
=============================================================================
