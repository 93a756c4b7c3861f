-------------------------------- MODULE Dns --------------------------------
(***************************************************************************)
(* The stub resolver (crates/kernway-dns/src/resolver.rs) and the cache of *)
(* one shard (cache.rs).  A lookup tries the A records and then the AAAA   *)
(* records of each candidate name, each through the cache and then through *)
(* every server in turn; the tasks of a shard interleave at every await.   *)
(*                                                                         *)
(* A name is a sequence of labels; what the servers know of it is one of   *)
(* the constant Zones and may change.  Replies can be lost, late,          *)
(* truncated, wrong or a failure.                                          *)
(***************************************************************************)
EXTENDS Naturals, FiniteSets, SequencesExt

CONSTANTS Lookups,              \* tasks that resolve a name
          HostsOf,              \* what each may resolve: [labels, dot], dot for a name ending in "."
          SearchList, NDots,    \* search domains and ndots of resolv.conf
          Nameservers,          \* their number
          Attempts, QueryTimeout, NegativeTtl, MinTtl, MaxTtl,
          TTLs,                 \* what servers say
          SoftCap,
          Zones,                \* [nx, a, aaaa]: the addresses a name may have
          Changing,             \* names whose entry may change
          EndOfTime, MaxChanges, MaxLookups \* bounds

VARIABLES
    dnsNow,
    zone,    \* each name's entry now
    lastHeld,    \* when a name last had an entry
    dcache,  \* SHARD_CACHE: <<type, name>> -> [ips, negative, expires]
    look,    \* each lookup
    changes, \* of the zones so far
    dnsCalls    \* lookups so far

dnsVars == <<dnsNow, zone, lastHeld, dcache, look, changes, dnsCalls>>

\* candidates: a name with enough dots is tried as it is before the search domains.
Candidates(h) ==
    LET suffixed == [i \in DOMAIN SearchList |-> h.labels \o SearchList[i]] IN
    CASE h.dot -> <<h.labels>>
      [] ~h.dot /\ SearchList = <<>> -> <<h.labels>>
      [] ~h.dot /\ SearchList # <<>> /\ Len(h.labels) - 1 >= NDots -> <<h.labels>> \o suffixed
      [] OTHER -> Append(suffixed, h.labels)

AllNames == UNION {Range(Candidates(h)) : h \in UNION {HostsOf[q] : q \in Lookups}}

\* What resolv.conf and the code's limits are.
ASSUME DnsAssumption ==
    /\ QueryTimeout \in Nat /\ MinTtl \in Nat /\ MaxTtl \in Nat /\ MinTtl <= MaxTtl /\ TTLs \subseteq Nat
    /\ NegativeTtl \in Nat /\ Nameservers \in Nat /\ Changing \subseteq AllNames
    /\ Len(SearchList) \in Nat /\ DOMAIN SearchList = 1 .. Len(SearchList)

NotLooking == [at |-> "idle", cands |-> <<>>, fam |-> "A", cand |-> 1, try |-> 1, server |-> 1, sent |-> 0,
          reply |-> {}, got |-> {}]

DnsInit ==
    /\ dnsNow = 0 /\ changes = 0 /\ dnsCalls = 0 /\ dcache = <<>>
    /\ zone \in [AllNames -> Zones]
    /\ lastHeld = [n \in AllNames |-> [z \in Zones |-> 0]]
    /\ look = [q \in Lookups |-> NotLooking]

-----------------------------------------------------------------------------
(* The cache.                                                               *)

Name(q) == look[q].cands[look[q].cand]
CacheKey(q) == <<look[q].fam, Name(q)>>

\* Cache::get: an entry that has expired is a miss.
LiveEntry(k) == k \in DOMAIN dcache /\ dnsNow < dcache[k].expires

\* put_positive and put_negative: a put at the cap first sweeps what has expired.
Swept == IF Cardinality(DOMAIN dcache) >= SoftCap
         THEN {k \in DOMAIN dcache : dnsNow < dcache[k].expires} ELSE DOMAIN dcache
Clamp(ttl) == IF ttl < MinTtl THEN MinTtl ELSE IF ttl > MaxTtl THEN MaxTtl ELSE ttl
PutEntry(k, e) == dcache' = [x \in Swept \union {k} |-> IF x = k THEN e ELSE dcache[x]]

-----------------------------------------------------------------------------
(* One lookup.                                                              *)

Found(q, answer) == look' = [look EXCEPT ![q] = [@ EXCEPT !.at = "done", !.reply = {}, !.got = {answer}]]
NotFound(q, err) == Found(q, [err |-> err])

\* lookup_family goes on to the next candidate and keeps only the last error; lookup tries
\* AAAA after every error of A but NameNotFound.
NextCandidate(q, err) ==
    CASE look[q].cand < Len(look[q].cands) ->
             look' = [look EXCEPT ![q] = [@ EXCEPT !.at = "consult", !.cand = look[q].cand + 1, !.reply = {}]]
      [] look[q].cand = Len(look[q].cands) /\ look[q].fam = "A" /\ err # "NameNotFound" ->
             look' = [look EXCEPT ![q] = [@ EXCEPT !.at = "consult", !.fam = "AAAA", !.cand = 1, !.reply = {}]]
      [] OTHER -> NotFound(q, err)

\* query_one: a socket of its own, so that a late reply to an earlier query reaches nobody.
Ask(q, s, t) == look' = [look EXCEPT ![q] = [@ EXCEPT !.at = "wait", !.server = s, !.try = t, !.sent = dnsNow, !.reply = {}]]

\* resolve_cached: each server once per attempt.
NextServer(q, err) ==
    CASE look[q].server < Nameservers ->
             Ask(q, look[q].server + 1, look[q].try)
      [] look[q].server = Nameservers /\ look[q].try < Attempts ->
             Ask(q, 1, look[q].try + 1)
      [] OTHER -> NextCandidate(q, err)

StartLookup(q, h) ==
    /\ look[q].at = "idle" /\ dnsCalls < MaxLookups /\ dnsCalls' = dnsCalls + 1
    /\ look' = [look EXCEPT ![q] = [NotLooking EXCEPT !.at = "consult", !.cands = Candidates(h)]]
    /\ UNCHANGED <<dnsNow, zone, lastHeld, dcache, changes>>

Consult(q) ==
    LET k == CacheKey(q) IN
    /\ look[q].at = "consult"
    /\ CASE LiveEntry(k) /\ ~dcache[k].negative -> Found(q, [key |-> k, ips |-> dcache[k].ips, cached |-> TRUE])
         [] LiveEntry(k) /\ dcache[k].negative -> NextCandidate(q, "NameNotFound")
         [] OTHER -> Ask(q, 1, 1)
    /\ UNCHANGED <<dnsNow, zone, lastHeld, dcache, changes, dnsCalls>>

\* The server reads its zone and replies; a failure stands for any bad rcode, id or packet.
ServerReply(q) ==
    /\ look[q].at \in {"wait", "waitTcp"} /\ look[q].reply = {}
    /\ \E r \in {[kind |-> "failure"]} \union (IF look[q].at = "wait" THEN {[kind |-> "truncated"]} ELSE {})
                 \union {[kind |-> "answer", zone |-> zone[Name(q)], ttl |-> t] : t \in TTLs} :
          look' = [look EXCEPT ![q].reply = {r}]
    /\ UNCHANGED <<dnsNow, zone, lastHeld, dcache, changes, dnsCalls>>

AddressesOf(q, z) == IF look[q].fam = "A" THEN z.a ELSE z.aaaa

\* query_one and, for a truncated answer, query_tcp: the same question again.
Receive(q) ==
    /\ look[q].at \in {"wait", "waitTcp"}
    /\ \E r \in look[q].reply :
          \/ r.kind = "failure" /\ NextServer(q, "ServerFailure") /\ UNCHANGED dcache
          \/ /\ r.kind = "truncated" /\ UNCHANGED dcache
             /\ look' = [look EXCEPT ![q] = [@ EXCEPT !.at = "waitTcp", !.sent = dnsNow, !.reply = {}]]
          \/ /\ r.kind = "answer" /\ r.zone.nx
             /\ PutEntry(CacheKey(q), [ips |-> {}, negative |-> TRUE, expires |-> dnsNow + NegativeTtl])
             /\ NextCandidate(q, "NameNotFound")
          \/ /\ r.kind = "answer" /\ ~r.zone.nx /\ AddressesOf(q, r.zone) = {}
             /\ NextServer(q, "NoAddresses") /\ UNCHANGED dcache
          \/ /\ r.kind = "answer" /\ ~r.zone.nx /\ AddressesOf(q, r.zone) # {}
             /\ IF r.ttl = 0 THEN UNCHANGED dcache
                ELSE PutEntry(CacheKey(q), [ips |-> AddressesOf(q, r.zone), negative |-> FALSE, expires |-> dnsNow + Clamp(r.ttl)])
             /\ Found(q, [key |-> CacheKey(q), ips |-> AddressesOf(q, r.zone), cached |-> FALSE])
    /\ UNCHANGED <<dnsNow, zone, lastHeld, changes, dnsCalls>>

QueryTimesOut(q) ==
    /\ look[q].at \in {"wait", "waitTcp"} /\ dnsNow >= look[q].sent + QueryTimeout
    /\ NextServer(q, "Io")
    /\ UNCHANGED <<dnsNow, zone, lastHeld, dcache, changes, dnsCalls>>

\* The caller takes the answer.
Returned(q) ==
    /\ look[q].at = "done" /\ look' = [look EXCEPT ![q] = NotLooking]
    /\ UNCHANGED <<dnsNow, zone, lastHeld, dcache, changes, dnsCalls>>

ClearDns ==
    /\ dcache # <<>> /\ dcache' = <<>> /\ UNCHANGED <<dnsNow, zone, lastHeld, look, changes, dnsCalls>>

\* Time passes once no timer is due and every answer has been handed over.
DnsTick ==
    /\ dnsNow < EndOfTime
    /\ \A q \in Lookups : look[q].at \in {"wait", "waitTcp"} => dnsNow < look[q].sent + QueryTimeout
    /\ \A q \in Lookups : look[q].at # "done"
    /\ dnsNow' = dnsNow + 1
    /\ lastHeld' = [n \in AllNames |-> [lastHeld[n] EXCEPT ![zone[n]] = dnsNow + 1]]
    /\ UNCHANGED <<zone, dcache, look, changes, dnsCalls>>

ZoneChanges(n, z) ==
    /\ changes < MaxChanges /\ zone[n] # z
    /\ zone' = [zone EXCEPT ![n] = z] /\ changes' = changes + 1
    /\ lastHeld' = [lastHeld EXCEPT ![n][z] = dnsNow]
    /\ UNCHANGED <<dnsNow, dcache, look, dnsCalls>>

DnsNext ==
    \/ \E q \in Lookups : \/ \E h \in HostsOf[q] : StartLookup(q, h)
                          \/ Consult(q) \/ ServerReply(q) \/ Receive(q) \/ QueryTimesOut(q) \/ Returned(q)
    \/ ClearDns \/ DnsTick \/ \E n \in Changing, z \in Zones : ZoneChanges(n, z)

-----------------------------------------------------------------------------
DnsTypeOK ==
    /\ dnsNow \in 0 .. EndOfTime /\ zone \in [AllNames -> Zones]
    /\ \A k \in DOMAIN dcache : k \in {"A", "AAAA"} \X AllNames /\ dcache[k].negative = (dcache[k].ips = {})

\* An answer was true no longer ago than a query may take and an entry may live, even when a
\* slow reply overwrites a newer one in the cache.
AnswersAreRecent ==
    \A q \in Lookups : \A g \in look[q].got :
       "ips" \in DOMAIN g =>
          \E z \in Zones : /\ g.ips = IF g.key[1] = "A" THEN z.a ELSE z.aaaa
                           /\ lastHeld[g.key[2]][z] + QueryTimeout + (IF g.cached THEN MaxTtl ELSE 0) >= dnsNow

\* lookup: "return the `A` records if present, else fall back to `AAAA`.  An authoritative
\* `NXDOMAIN` is returned as-is (it applies to every record type)": a name is reported as not
\* existing only if no candidate had an address all along.
NotFoundIsAuthoritative ==
    \A q \in Lookups : [err |-> "NameNotFound"] \in look[q].got /\ changes = 0 =>
       \A i \in DOMAIN look[q].cands : zone[look[q].cands[i]].nx

-----------------------------------------------------------------------------
(* A small instance: one lookup of a name that is tried as it is and then  *)
(* below a search domain, by two name servers, in zones that do not change.*)
DnsSpec == DnsInit /\ [][DnsNext]_dnsVars

SearchHosts  == [k1 |-> {[labels |-> <<"w">>, dot |-> FALSE]}]
SearchDomain == <<<<"d">>>>
SearchZones  == {[nx |-> TRUE, a |-> {}, aaaa |-> {}], [nx |-> FALSE, a |-> {1}, aaaa |-> {}],
                 [nx |-> FALSE, a |-> {}, aaaa |-> {6}]}
=============================================================================
