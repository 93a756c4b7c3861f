------------------------------ MODULE Throttle ------------------------------
(***************************************************************************)
(* What stands between a client and a login: client_ip and BanFilter       *)
(* (kernway-security/src/tracking.rs, kernway-server/src/tracking.rs), the *)
(* token buckets of RateLimit (kernway-server/src/rate_limit.rs) and       *)
(* LoginGuard (kernway-security/src/lockout.rs).                           *)
(*                                                                         *)
(* Shards serve requests at once.  Each call takes its lock after it read  *)
(* the clock, so the time it works with may be old: by at most MaxLate.    *)
(* Tokens are counted in parts: Whole of them make one f64 token.          *)
(***************************************************************************)
EXTENDS Naturals, Sequences, FiniteSets, SequencesExt, FiniteSetsExt

CONSTANTS Requests,      \* requests in flight
          ClientAddrs,   \* addresses of clients
          Proxies,       \* RateLimit.trusted, BanFilter.trusted
          Fakes,         \* X-Forwarded-For values a client may write itself
          Capacity, RefillPer, Whole, SweepEvery, IdleEvict, BanAfter,
          MaxFailures, Lockout, Window,
          MaxTick, MaxLate, MaxArrivals, MaxHops   \* bounds

ASSUME ThrottleAssumption ==
    /\ IsFiniteSet(Requests) /\ Requests # {}
    /\ ClientAddrs \subseteq STRING /\ Proxies \subseteq STRING /\ Fakes \subseteq Seq(STRING)
    /\ ClientAddrs \intersect (Proxies \union {"junk"}) = {}
    /\ Capacity \in Nat /\ RefillPer \in Nat /\ Whole \in Nat /\ Lockout \in Nat /\ MaxLate \in Nat /\ MaxHops \in Nat
    /\ IdleEvict \in Nat \ {0} /\ SweepEvery \in Nat \ {0}

VARIABLES
    tick,       \* the system clock
    buckets,    \* State.buckets: [tokens, last, violations] or NoBucket
    swept,      \* State.seen % SweepEvery
    bannedIps,  \* the Bans both middlewares share
    attempts,   \* LoginGuard.attempts of the one account: [failures, start, until]
    req,        \* where each request stands
    arrivals,
    granted, overrun, late,   \* per address: requests let through, those since its ban, clock moved back
    upTo,                     \* per address: the time up to which its refill was given
    lockedUntil,              \* the latest locked_until record_failure returned, 0 when cleared
    early                     \* a password was verified while the account was locked

throttleVars == <<tick, buckets, swept, bannedIps, attempts, req, arrivals, granted, overrun, late, upTo, lockedUntil, early>>

NoBucket == [tokens |-> 0, last |-> 0, violations |-> 0, some |-> FALSE]
NoAttempts == [failures |-> 0, start |-> 0, until |-> 0, some |-> FALSE]
NoReq == [at |-> "idle", ip |-> "none", real |-> "none"]

ThrottleInit ==
    /\ tick = 0 /\ buckets = [a \in ClientAddrs |-> NoBucket] /\ swept = 0 /\ bannedIps = {}
    /\ attempts = NoAttempts /\ req = [r \in Requests |-> NoReq] /\ arrivals = 0
    /\ granted = [a \in ClientAddrs |-> 0] /\ overrun = [a \in ClientAddrs |-> 0]
    /\ late = [a \in ClientAddrs |-> 0] /\ upTo = late /\ lockedUntil = 0 /\ early = FALSE

Now == {t \in 0 .. tick : tick - t <= MaxLate}
Minus(a, b) == IF a > b THEN a - b ELSE 0      \* saturating_sub

-----------------------------------------------------------------------------
\* Variant for the mutation runs: the header is read left to right.
LeftmostIp(peer, fwd) ==
    LET foreign == {i \in DOMAIN fwd : fwd[i] \notin Proxies} IN
    IF peer \notin Proxies \/ foreign = {} THEN peer ELSE fwd[Min(foreign)]

\* The peer, unless it is a trusted proxy: then the rightmost address of X-Forwarded-For that
\* is none of the proxies, and the peer when there is none.  What does not parse is skipped.
ClientIp(peer, fwd) ==
    LET foreign == {i \in DOMAIN fwd : fwd[i] \notin Proxies /\ fwd[i] # "junk"} IN
    IF peer \notin Proxies \/ foreign = {} THEN peer ELSE fwd[Max(foreign)]

(* A client connects directly or through proxies, each of which appends    *)
(* the address it was called from to a header that the client may have     *)
(* begun.  BanFilter answers 403 to a banned address.                      *)
Arrive(r) ==
    /\ req[r].at = "idle" /\ arrivals < MaxArrivals
    /\ arrivals' = arrivals + 1
    /\ \E client \in ClientAddrs, fake \in Fakes, hops \in BoundedSeq(Proxies, MaxHops) :
          LET ip == IF hops = <<>> THEN ClientIp(client, fake)
                    ELSE ClientIp(Last(hops), fake \o <<client>> \o Front(hops)) IN
          req' = [req EXCEPT ![r] = IF ip \in bannedIps THEN NoReq
                                    ELSE [at |-> "limit", ip |-> ip, real |-> client]]
    /\ UNCHANGED <<tick, buckets, swept, bannedIps, attempts, granted, overrun, late, upTo, lockedUntil, early>>

\* allow_at's sweep: every 4096th call drops the buckets that were idle for five minutes.
Retained(now) ==
    [a \in ClientAddrs |-> IF (swept + 1) % SweepEvery = 0 /\ Minus(now, buckets[a].last) >= IdleEvict
                           THEN NoBucket ELSE buckets[a]]

\* The bucket of a first request is full; a known one gains what the elapsed time brings.
Refilled(b, now) ==
    IF ~b.some THEN [tokens |-> Capacity * Whole, last |-> now, violations |-> 0, some |-> TRUE]
    ELSE [b EXCEPT !.tokens = Min({@ + Minus(now, b.last) * RefillPer, Capacity * Whole}), !.last = now]

\* A token for the request, or 429; the BanAfter-th 429 bans the address in the shared list.
AllowAt(r, now) ==
    LET a == req[r].ip
        b == Refilled(Retained(now)[a], now)
        strikes == b.violations + 1 IN
    /\ req[r].at = "limit"
    /\ swept' = (swept + 1) % SweepEvery
    /\ late' = [late EXCEPT ![a] = @ + Minus(upTo[a], now)]
    /\ upTo' = [c \in ClientAddrs |-> IF c = a \/ Retained(now)[c] # buckets[c] THEN now ELSE upTo[c]]
    /\ IF b.tokens >= Whole
       THEN /\ buckets' = [Retained(now) EXCEPT ![a] = [b EXCEPT !.tokens = @ - Whole]]
            /\ req' = [req EXCEPT ![r].at = "check"]
            /\ granted' = [granted EXCEPT ![a] = @ + 1]
            /\ overrun' = [overrun EXCEPT ![a] = IF a \in bannedIps THEN @ + 1 ELSE @]
            /\ UNCHANGED bannedIps
       ELSE /\ buckets' = [Retained(now) EXCEPT ![a] = [b EXCEPT !.violations = strikes]]
            /\ req' = [req EXCEPT ![r] = NoReq]
            /\ bannedIps' = IF strikes >= BanAfter THEN bannedIps \union {a} ELSE bannedIps
            /\ UNCHANGED <<granted, overrun>>
    /\ UNCHANGED <<tick, attempts, arrivals, lockedUntil, early>>

-----------------------------------------------------------------------------
(* The login handler: check, verify the password, record the outcome.      *)
CheckAt(r, now) ==
    LET admitted == ~attempts.some \/ now >= attempts.until IN
    /\ req[r].at = "check"
    /\ req' = [req EXCEPT ![r] = IF admitted THEN [@ EXCEPT !.at = "verify"] ELSE NoReq]
    /\ early' = (early \/ (admitted /\ tick + MaxLate < lockedUntil))
    /\ UNCHANGED <<tick, buckets, swept, bannedIps, attempts, arrivals, granted, overrun, late, upTo, lockedUntil>>

\* The entry a failure counts in: fresh when there is none or its window has elapsed.  The
\* prune of a map of more than 1024 keys drops only what is neither locked nor in its window.
Counting(now) ==
    IF ~attempts.some THEN [failures |-> 0, start |-> now, until |-> 0, some |-> TRUE]
    ELSE IF Minus(now, attempts.start) >= Window THEN [attempts EXCEPT !.failures = 0, !.start = now]
    ELSE attempts

RecordFailureAt(r, now) ==
    LET e == Counting(now) IN
    /\ req[r].at = "verify"
    /\ IF e.failures + 1 >= MaxFailures
       THEN /\ attempts' = [e EXCEPT !.failures = 0, !.until = now + Lockout]
            /\ lockedUntil' = Max({lockedUntil, now + Lockout})
       ELSE attempts' = [e EXCEPT !.failures = @ + 1] /\ UNCHANGED lockedUntil
    /\ req' = [req EXCEPT ![r] = NoReq]
    /\ UNCHANGED <<tick, buckets, swept, bannedIps, arrivals, granted, overrun, late, upTo, early>>

\* A success clears the count and any lock, also one other failures have set meanwhile.
RecordSuccess(r) ==
    /\ req[r].at = "verify"
    /\ attempts' = NoAttempts /\ lockedUntil' = 0
    /\ req' = [req EXCEPT ![r] = NoReq]
    /\ UNCHANGED <<tick, buckets, swept, bannedIps, arrivals, granted, overrun, late, upTo, early>>

ThrottleTick ==
    /\ tick < MaxTick /\ tick' = tick + 1
    /\ UNCHANGED <<buckets, swept, bannedIps, attempts, req, arrivals, granted, overrun, late, upTo, lockedUntil, early>>

ThrottleNext ==
    \/ \E r \in Requests : \/ Arrive(r) \/ RecordSuccess(r)
                           \/ \E now \in Now : AllowAt(r, now) \/ CheckAt(r, now) \/ RecordFailureAt(r, now)
    \/ ThrottleTick

-----------------------------------------------------------------------------
ThrottleTypeOK ==
    /\ tick \in 0 .. MaxTick /\ swept \in 0 .. SweepEvery - 1 /\ bannedIps \subseteq ClientAddrs
    /\ \A a \in ClientAddrs : buckets[a].tokens \in 0 .. Capacity * Whole /\ buckets[a].last <= tick
    /\ attempts.failures < MaxFailures /\ \A a \in ClientAddrs : upTo[a] <= tick

\* A request that came through trusted proxies, or directly, is charged to the client it came
\* from, whatever X-Forwarded-For the client itself sent.
ChargedToTheClient == \A r \in Requests : req[r].at # "idle" => req[r].ip = req[r].real

\* The limiter holds the rate: an address is let through for a full bucket and for what the
\* elapsed time refills, sweeps of idle buckets included.  Requests that reach the lock with
\* an older clock than the refill, or the sweep, before them count the time between again:
\* that, and nothing else, is the excess.  A bucket that would take longer to refill than a
\* sweep lets it idle (a period of more than five minutes) is full again too early.
RefillsBeforeEviction == IdleEvict * RefillPer >= Capacity * Whole
RateHeld ==
    RefillsBeforeEviction =>
       \A a \in ClientAddrs : granted[a] * Whole <= Capacity * Whole + (tick + late[a]) * RefillPer

\* A ban ends an address at once: only the requests that had passed the filter still get in.
BanStops == \A a \in ClientAddrs : overrun[a] < Cardinality(Requests)

\* A lock that record_failure announced holds until its time: no password is verified before
\* it unless a success cleared it.  A failure verified at the same time that read its clock
\* earlier may rewrite the end, and brings it forward by no more than that delay.
LockHolds == ~early

ThrottleHolds == ChargedToTheClient /\ RateHeld /\ BanStops /\ LockHolds
=============================================================================
