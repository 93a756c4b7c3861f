----------------------------- MODULE HttpClient -----------------------------
(***************************************************************************)
(* The HTTP client (crates/kernway-http-client/src/lib.rs): its pool of    *)
(* keep-alive connections, the exchange on one of them, the retry on a     *)
(* stale one, redirects, and the streaming reader.                         *)
(*                                                                         *)
(* A response travels as units: its head, a piece of body, for a chunked   *)
(* body the last chunk's line and the empty line that ends it.  A read     *)
(* takes any number of the units that are on the wire.  Every unit carries *)
(* the number of the request it answers.                                   *)
(***************************************************************************)
EXTENDS Naturals, FiniteSets, SequencesExt

CONSTANTS Calls,          \* calls of send and send_streaming
          HomeShard,      \* the shard each call runs on
          Streaming,      \* the calls of send_streaming
          Origins,        \* (scheme, host, port)
          UrlOrigins,     \* the origins a call may name; others are redirected to
          Conns,          \* sockets that may exist at once
          MaxIdlePerHost, MaxRedirects,
          ReadSizes,      \* units a read may return, short of all there are
          MaxSends        \* requests written before the last call begins

\* A URL names an origin, and a read that returns brings something.
ASSUME ClientAssumption == UrlOrigins \subseteq Origins /\ ReadSizes \subseteq Nat \ {0} /\ MaxIdlePerHost \in Nat

VARIABLES
    sock,    \* Conn: home shard, origin, wire (sent, unread), open, aged (idle for 20 s)
    pool,    \* ConnPool.idle: a stack for each shard and origin
    sending, \* each call: where it is and what it holds
    serial,  \* requests written so far
    mixed,   \* a call was given a unit of another request's response
    strayed  \* a request with the caller's credentials was written to another origin

clientVars == <<sock, pool, sending, serial, mixed, strayed>>

HomeShards == {HomeShard[c] : c \in Calls}
NoSock == [made |-> FALSE, home |-> {}, origin |-> {}, wire |-> <<>>, open |-> FALSE, aged |-> FALSE]
NoHttpCall == [at |-> "idle", named |-> {}, origin |-> {}, auth |-> FALSE, sock |-> {}, reused |-> FALSE,
               num |-> 0, buf |-> <<>>, hops |-> 0]

ClientInit ==
    /\ sock = [k \in Conns |-> NoSock]
    /\ pool = [b \in HomeShards \X Origins |-> <<>>]
    /\ sending = [c \in Calls |-> NoHttpCall] /\ serial = 0 /\ mixed = FALSE /\ strayed = FALSE

SockOf(c) == CHOOSE k \in Conns : k \in sending[c].sock
OriginOf(c) == CHOOSE o \in Origins : o \in sending[c].origin
Bucket(c) == <<HomeShard[c], OriginOf(c)>>
FirstRead(c) == Head(sending[c].buf)

\* A connection that is not given back is closed where it is dropped.
Close(c) == sock' = [sock EXCEPT ![SockOf(c)] = NoSock]

-----------------------------------------------------------------------------
Send(c, o) ==
    /\ sending[c].at = "idle" /\ serial < MaxSends
    /\ sending' = [sending EXCEPT ![c] = [NoHttpCall EXCEPT !.at = "take", !.named = {o}, !.origin = {o}, !.auth = TRUE]]
    /\ UNCHANGED <<sock, pool, serial, mixed, strayed>>

\* take pops until it finds one that has not been idle too long; what it passes is closed.
Take(c) ==
    LET bucket == pool[Bucket(c)]
        fresh == {i \in DOMAIN bucket : ~sock[bucket[i]].aged}
        last == CHOOSE i \in fresh : \A j \in fresh : j <= i IN
    /\ sending[c].at = "take" /\ bucket # <<>>
    /\ IF fresh = {}
       THEN /\ pool' = [pool EXCEPT ![Bucket(c)] = <<>>]
            /\ sock' = [k \in Conns |-> IF k \in Range(bucket) THEN NoSock ELSE sock[k]]
            /\ UNCHANGED sending
       ELSE /\ pool' = [pool EXCEPT ![Bucket(c)] = SubSeq(bucket, 1, last - 1)]
            /\ sock' = [k \in Conns |-> IF \E i \in DOMAIN bucket : i > last /\ bucket[i] = k THEN NoSock ELSE sock[k]]
            /\ sending' = [sending EXCEPT ![c] = [@ EXCEPT !.at = "write", !.sock = {bucket[last]}, !.reused = TRUE]]
    /\ UNCHANGED <<serial, mixed, strayed>>

\* resolve and connect; either may fail.
Connect(c) ==
    /\ sending[c].at = "take" /\ pool[Bucket(c)] = <<>>
    /\ \/ LET k == CHOOSE k \in Conns : ~sock[k].made IN
            /\ \E j \in Conns : ~sock[j].made
            /\ sock' = [sock EXCEPT ![k] = [NoSock EXCEPT !.made = TRUE, !.home = {HomeShard[c]}, !.origin = sending[c].origin, !.open = TRUE]]
            /\ sending' = [sending EXCEPT ![c] = [@ EXCEPT !.at = "write", !.sock = {k}, !.reused = FALSE]]
       \/ sending' = [sending EXCEPT ![c] = NoHttpCall] /\ UNCHANGED sock
    /\ UNCHANGED <<pool, serial, mixed, strayed>>

\* The request goes out.  A server that still has the connection answers with a body of a
\* known length, in chunks or up to its close; it may die at any point of the answer.
Units(n, framing, to) ==
    <<[k |-> "head", num |-> n, framing |-> framing, to |-> to], [k |-> "data", num |-> n, framing |-> framing, to |-> to]>>
      \o IF framing = "chunked" THEN <<[k |-> "last", num |-> n, framing |-> framing, to |-> to],
                                       [k |-> "crlf", num |-> n, framing |-> framing, to |-> to]>> ELSE <<>>

WriteRequest(c) ==
    LET k == SockOf(c)  n == serial + 1 IN
    /\ sending[c].at = "write" /\ serial' = n
    /\ sending' = [sending EXCEPT ![c] = [@ EXCEPT !.at = "read", !.num = n, !.buf = <<>>]]
    /\ strayed' = (strayed \/ (sending[c].auth /\ sending[c].origin # sending[c].named))
    /\ \/ /\ sock[k].open
          /\ \E framing \in {"length", "chunked", "close"}, to \in {{}} \union {{o} : o \in Origins}, dies \in BOOLEAN :
               LET units == Units(n, framing, to) IN
               \E m \in IF dies THEN 0 .. Len(units) - 1 ELSE {Len(units)} :
                  /\ to # {} => framing = "length" /\ ~dies
                  /\ sock' = [sock EXCEPT ![k] = [@ EXCEPT !.wire = sock[k].wire \o SubSeq(units, 1, m),
                                                        !.open = ~dies /\ framing # "close"]]
       \/ ~sock[k].open /\ UNCHANGED sock
    /\ UNCHANGED <<pool, mixed>>

AtEof(c) == sock[SockOf(c)].wire = <<>> /\ ~sock[SockOf(c)].open

\* The body is complete: Content-Length bytes are here; decode_chunked has seen the last
\* chunk's line, the streaming decoder also the line after it; the peer has closed.
Has(c, kind) == \E i \in DOMAIN sending[c].buf : sending[c].buf[i].k = kind
Complete(c) ==
    /\ sending[c].at = "read" /\ sending[c].buf # <<>> /\ FirstRead(c).k = "head"
    /\ CASE FirstRead(c).framing = "length" -> Has(c, "data")
         [] FirstRead(c).framing = "chunked" -> Has(c, IF c \in Streaming THEN "crlf" ELSE "last")
         [] FirstRead(c).framing = "close" -> AtEof(c)

ReadMore(c, n) ==
    LET k == SockOf(c) IN
    /\ sending[c].at = "read" /\ ~Complete(c) /\ sock[k].wire # <<>>
    /\ sending' = [sending EXCEPT ![c].buf = @ \o SubSeq(sock[k].wire, 1, Min({n, Len(sock[k].wire)}))]
    /\ sock' = [sock EXCEPT ![k].wire = SubSeq(@, n + 1, Len(@))]
    /\ UNCHANGED <<pool, serial, mixed, strayed>>

\* is_stale: the peer closed before the head.  Once, on a fresh connection, for a reused one;
\* an error otherwise.
Stale(c) ==
    /\ sending[c].at = "read" /\ sending[c].buf = <<>> /\ AtEof(c)
    /\ Close(c)
    /\ sending' = [sending EXCEPT ![c] = IF sending[c].reused
                                         THEN [@ EXCEPT !.at = "redial", !.sock = {}] ELSE NoHttpCall]
    /\ UNCHANGED <<pool, serial, mixed, strayed>>

Redial(c) ==
    /\ sending[c].at = "redial"
    /\ \/ \E k \in Conns :
            /\ ~sock[k].made
            /\ sock' = [sock EXCEPT ![k] = [NoSock EXCEPT !.made = TRUE, !.home = {HomeShard[c]}, !.origin = sending[c].origin, !.open = TRUE]]
            /\ sending' = [sending EXCEPT ![c] = [@ EXCEPT !.at = "write", !.sock = {k}, !.reused = FALSE]]
       \/ sending' = [sending EXCEPT ![c] = NoHttpCall] /\ UNCHANGED sock
    /\ UNCHANGED <<pool, serial, mixed, strayed>>

\* Anything but a head where one is due is a bad status line, and an end of file inside a
\* framed body is an error: the connection is dropped.
BadResponse(c) ==
    /\ sending[c].at = "read" /\ sending[c].buf # <<>>
    /\ \/ FirstRead(c).k # "head"
       \/ FirstRead(c).framing # "close" /\ AtEof(c)
    /\ Close(c)
    /\ sending' = [sending EXCEPT ![c] = NoHttpCall]
    /\ UNCHANGED <<pool, serial, mixed, strayed>>

-----------------------------------------------------------------------------
\* Variant for the mutation runs: a connection is given back whether or not there is room.
GiveBackAlways(c) == pool' = [pool EXCEPT ![Bucket(c)] = Append(@, SockOf(c))] /\ UNCHANGED sock

\* maybe_return and finish: a framed body leaves the connection for reuse, if there is room.
GiveBack(c) ==
    LET k == SockOf(c)  b == Bucket(c) IN
    IF FirstRead(c).framing # "close" /\ Len(pool[b]) < MaxIdlePerHost
    THEN pool' = [pool EXCEPT ![b] = Append(@, k)] /\ UNCHANGED sock
    ELSE UNCHANGED pool /\ Close(c)

\* redirect_target: credentials stay behind when the origin changes.
Follow(c, o) ==
    [sending[c] EXCEPT !.at = "take", !.origin = {o}, !.sock = {}, !.buf = <<>>, !.hops = @ + 1,
                       !.auth = @ /\ sending[c].origin = {o}]

Answered(c) ==
    /\ Complete(c)
    /\ mixed' = (mixed \/ \E i \in DOMAIN sending[c].buf : sending[c].buf[i].num # sending[c].num)
    /\ GiveBack(c)
    /\ sending' = [sending EXCEPT ![c] =
                     IF FirstRead(c).to # {} /\ sending[c].hops < MaxRedirects
                     THEN Follow(c, CHOOSE o \in Origins : o \in FirstRead(c).to) ELSE NoHttpCall]
    /\ UNCHANGED <<serial, strayed>>

\* The timeout of send, or a stream dropped before its end: the connection goes with it.
Abandon(c) ==
    /\ sending[c].at \in {"write", "read"}
    /\ Close(c)
    /\ sending' = [sending EXCEPT ![c] = NoHttpCall]
    /\ UNCHANGED <<pool, serial, mixed, strayed>>

\* The server closes an idle connection; one stays idle for 20 seconds.
ServerCloses(k) ==
    /\ \E b \in DOMAIN pool : k \in Range(pool[b])
    /\ sock[k].open /\ sock' = [sock EXCEPT ![k].open = FALSE]
    /\ UNCHANGED <<pool, sending, serial, mixed, strayed>>

GrowOld(k) ==
    /\ \E b \in DOMAIN pool : k \in Range(pool[b])
    /\ ~sock[k].aged /\ sock' = [sock EXCEPT ![k].aged = TRUE]
    /\ UNCHANGED <<pool, sending, serial, mixed, strayed>>

ClientNext ==
    \/ \E c \in Calls :
          \/ \E o \in UrlOrigins : Send(c, o)
          \/ Take(c) \/ Connect(c) \/ WriteRequest(c) \/ \E n \in ReadSizes \union {4} : ReadMore(c, n)
          \/ Stale(c) \/ Redial(c) \/ BadResponse(c) \/ Answered(c) \/ Abandon(c)
    \/ \E k \in Conns : ServerCloses(k) \/ GrowOld(k)

-----------------------------------------------------------------------------
ClientTypeOK ==
    /\ serial \in 0 .. MaxSends + 2 * Cardinality(Calls) * (MaxRedirects + 1)
    /\ \A b \in DOMAIN pool : Len(pool[b]) <= MaxIdlePerHost /\ \A i \in DOMAIN pool[b] : sock[pool[b][i]].made

\* A caller is given the response to its own request, in whole, whoever used the connection
\* before; a pooled connection is one socket in one bucket, of the shard that opened it and
\* of the origin it was opened to; credentials reach no origin but the one the caller named.
ClientHolds ==
    /\ ~mixed /\ ~strayed
    /\ \A b \in DOMAIN pool : \A i \in DOMAIN pool[b] :
          /\ sock[pool[b][i]].home = {b[1]} /\ sock[pool[b][i]].origin = {b[2]}
          /\ \A j \in DOMAIN pool[b] : pool[b][i] = pool[b][j] => i = j
          /\ \A c \in Calls : pool[b][i] \notin sending[c].sock

=============================================================================
