-------------------------------- MODULE Cache --------------------------------
(***************************************************************************)
(* InMemoryCache (crates/kernway-cache-memory) and the get_or_load every   *)
(* Cache has (kernway-cache-core/src/cache.rs).  Each call of the cache is *)
(* one critical section; get_or_load is three: get, the loader, put.  The  *)
(* source behind the cache is written by callers who then evict the key.   *)
(***************************************************************************)
EXTENDS Naturals, FiniteSets

CONSTANTS CacheKeys,
          Loaders,         \* callers of get_or_load
          CacheCap,        \* with_capacity
          EntryTtl, LastInstant,
          MaxWrites        \* bound on the writes of the source

ASSUME CacheAssumption ==
    IsFiniteSet(CacheKeys) /\ CacheCap \in Nat /\ EntryTtl \in Nat /\ LastInstant \in Nat /\ MaxWrites \in Nat

VARIABLES
    instant,
    entries,    \* store: [key -> [value, made]], only the keys present
    source,     \* the value behind each key, a version
    writing,    \* keys written but not yet evicted
    loading,    \* each loader: where, its key, the value it has loaded
    crossed,    \* keys whose eviction passed a load that had begun before it
    extra       \* entries put_if_absent has added since the last put (at most one per key counts)

cacheVars == <<instant, entries, source, writing, loading, crossed, extra>>

Present == DOMAIN entries
Expired(k) == instant - entries[k].made >= EntryTtl
LiveKeys == {k \in Present : ~Expired(k)}
Only(keys) == [k \in keys |-> entries[k]]
With(k, v) == [j \in Present \union {k} |-> IF j = k THEN [value |-> v, made |-> instant] ELSE entries[j]]
NotLoading == [at |-> "idle", key |-> {}, value |-> 0]

CacheInit ==
    /\ instant = 0 /\ entries = [k \in {} |-> 0] /\ source = [k \in CacheKeys |-> 0] /\ writing = {}
    /\ loading = [l \in Loaders |-> NotLoading] /\ crossed = {} /\ extra = 0

-----------------------------------------------------------------------------
\* get, and contains: an expired entry is removed by the read that finds it.
Get(k) ==
    /\ entries' = Only(IF k \in Present /\ Expired(k) THEN Present \ {k} ELSE Present)
    /\ UNCHANGED <<instant, source, writing, loading, crossed, extra>>

GetOrLoad(l, k) ==
    /\ loading[l].at = "idle"
    /\ entries' = Only(IF k \in Present /\ Expired(k) THEN Present \ {k} ELSE Present)
    /\ loading' = [loading EXCEPT ![l] = IF k \in LiveKeys THEN NotLoading
                                         ELSE [at |-> "load", key |-> {k}, value |-> 0]]
    /\ UNCHANGED <<instant, source, writing, crossed, extra>>

\* The loader reads the source, or fails and nothing is stored.
LoadValue(l) ==
    /\ loading[l].at = "load"
    /\ \/ \E k \in loading[l].key : loading' = [loading EXCEPT ![l] = [@ EXCEPT !.at = "put", !.value = source[k]]]
       \/ loading' = [loading EXCEPT ![l] = NotLoading]
    /\ UNCHANGED <<instant, entries, source, writing, crossed, extra>>

\* What put may leave of a map: all of it within the bound; else what has not expired, and of
\* that, when it is still too much, any CacheCap keys - the new one may be the victim.
KeptKeys(held) ==
    LET fresh == {k \in DOMAIN held : instant - held[k].made < EntryTtl} IN
    IF Cardinality(DOMAIN held) <= CacheCap THEN {DOMAIN held}
    ELSE IF Cardinality(fresh) <= CacheCap THEN {fresh}
    ELSE {s \in SUBSET fresh : Cardinality(s) = CacheCap}

Put(l) ==
    /\ loading[l].at = "put"
    /\ \E k \in loading[l].key : LET held == With(k, loading[l].value) IN
          \E keys \in KeptKeys(held) : entries' = [j \in keys |-> held[j]]
    /\ loading' = [loading EXCEPT ![l] = NotLoading] /\ extra' = 0
    /\ UNCHANGED <<instant, source, writing, crossed>>

\* put_if_absent does not look at the bound.
PutIfAbsent(k) ==
    /\ k \notin LiveKeys
    /\ entries' = With(k, source[k])
    /\ extra' = IF k \in Present \/ extra = Cardinality(CacheKeys) THEN extra ELSE extra + 1
    /\ UNCHANGED <<instant, source, writing, loading, crossed>>

Evicting(keys) ==
    /\ entries' = Only(Present \ keys)
    /\ crossed' = (crossed \ keys) \union {k \in keys : \E l \in Loaders : loading[l].at = "put" /\ loading[l].key = {k}}

\* The usual pattern: write the source, then evict.
WriteSource(k) ==
    /\ source[k] < MaxWrites /\ source' = [source EXCEPT ![k] = @ + 1] /\ writing' = writing \union {k}
    /\ UNCHANGED <<instant, entries, loading, crossed, extra>>

Evict(k) ==
    /\ k \in writing /\ writing' = writing \ {k} /\ Evicting({k})
    /\ UNCHANGED <<instant, source, loading, extra>>

ClearCache ==
    /\ writing' = {} /\ Evicting(CacheKeys)
    /\ UNCHANGED <<instant, source, loading, extra>>

\* size counts after a purge; stats counts what is there.
Size ==
    /\ entries' = Only(LiveKeys)
    /\ UNCHANGED <<instant, source, writing, loading, crossed, extra>>

Instant ==
    /\ instant < LastInstant /\ instant' = instant + 1
    /\ UNCHANGED <<entries, source, writing, loading, crossed, extra>>

CacheNext ==
    \/ \E l \in Loaders : LoadValue(l) \/ Put(l) \/ \E k \in CacheKeys : GetOrLoad(l, k)
    \/ \E k \in CacheKeys : Get(k) \/ PutIfAbsent(k) \/ WriteSource(k) \/ Evict(k)
    \/ ClearCache \/ Size \/ Instant

-----------------------------------------------------------------------------
CacheTypeOK == instant \in 0 .. LastInstant /\ Present \subseteq CacheKeys /\ writing \subseteq CacheKeys

\* An evicted key does not come back with the value of before: a live entry is the source's
\* value, unless its write has not evicted yet or a load that had read the source before the
\* write was still to put when the eviction passed it.
CacheIsFresh ==
    \A k \in LiveKeys : entries[k].value = source[k] \/ k \in writing \/ k \in crossed

\* with_capacity bounds what put stores; only put_if_absent goes beyond, by one entry a call.
CacheBounded == Cardinality(Present) <= CacheCap + extra
=============================================================================
