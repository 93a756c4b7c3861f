----------------------------- MODULE Connection -----------------------------
(***************************************************************************)
(* One connection of the server: serve_connection, spool_body,             *)
(* write_response and stream_file of crates/kernway-server/src/app.rs,     *)
(* with the incremental head parser of crates/kernway-http/src/parser.rs.  *)
(*                                                                         *)
(* A byte is a unit that remembers which request of the client's script it *)
(* belongs to and its place in it.  A read returns any number of units, so *)
(* a read may end inside a head, inside a body, or hold several requests.  *)
(* The server sees only blank lines and declared lengths; the request a    *)
(* unit came from is what the properties look at.                          *)
(*                                                                         *)
(* A step is what happens between two awaits.                              *)
(***************************************************************************)
EXTENDS Naturals, Sequences, FiniteSets, SequencesExt

CONSTANTS Scripts,          \* what clients send: sequences of Request records
          ReadChunk,        \* READ_CHUNK and file_chunk
          MaxHeadUnits,     \* MAX_HEAD_BYTES
          MaxInMemoryBody,  \* UploadConfig.max_inmemory_body
          MaxUploadSize,    \* UploadConfig.max_upload_size
          KeepAliveEnabled, \* KeepAliveConfig.enabled
          MaxRequests       \* KeepAliveConfig.max_requests

\* lines: header lines; len: Content-Length; well: the request line parses;
\* keep: Request::wants_keep_alive; cut: units at its end the client never sends.
Request == [lines : Nat \ {0}, len : Nat, well : BOOLEAN, keep : BOOLEAN, cut : Nat]

\* The head of a request is its lines and the blank line; its body follows.
HeadUnits(r) == r.lines + 1

ASSUME ConnAssumption ==
    /\ Scripts \subseteq Seq(Request)
    \* A client that goes silent inside a request stays silent.
    /\ \A s \in Scripts : \A i \in 1 .. Len(s) :
          s[i].cut <= HeadUnits(s[i]) + s[i].len /\ (s[i].cut > 0 => i = Len(s))
    /\ ReadChunk \in Nat /\ MaxHeadUnits \in Nat /\ MaxInMemoryBody \in Nat /\ MaxUploadSize \in Nat
    /\ KeepAliveEnabled \in BOOLEAN /\ MaxRequests \in Nat

VARIABLES
    script,    \* the client's requests
    nsent,     \* requests of it that the client has sent
    wire,      \* units the client sent and the server has not read
    buf,       \* buf
    at,        \* where serve_connection is
    served,    \* served
    cur,       \* the request being read or answered (0: none)
    body,      \* its body so far: request.body, or the temporary file
    need,      \* spool_body: content_length - written
    consumed,  \* bytes of buf the request takes up
    persist,   \* persist
    temp,      \* requests whose temporary file is on disk
    out,       \* the responses written
    stopping,  \* the shutdown signal
    lateKeep   \* keep-alive responses written since the signal

connVars == <<script, nsent, wire, buf, at, served, cur, body, need, consumed, persist, temp, out,
              stopping, lateKeep>>

Unit(i, k) == [req |-> i, k |-> k]

IsBlank(u) == u.k = HeadUnits(script[u.req])

BodyOf(s, i)  == [k \in 1 .. s[i].len |-> Unit(i, HeadUnits(s[i]) + k)]
Message(s, i) == [k \in 1 .. HeadUnits(s[i]) + s[i].len - s[i].cut |-> Unit(i, k)]

ConnInit ==
    /\ script \in Scripts
    /\ nsent = 0 /\ wire = <<>>
    /\ buf = <<>> /\ at = "head" /\ served = 0 /\ cur = 0 /\ body = <<>> /\ need = 0
    /\ consumed = 0 /\ persist = FALSE /\ temp = {} /\ out = <<>>
    /\ stopping = FALSE /\ lateKeep = 0

\* The client sends its requests one after the other, waiting for answers or not.
Send ==
    /\ nsent < Len(script) /\ at # "closed"
    /\ nsent' = nsent + 1
    /\ wire' = wire \o Message(script, nsent + 1)
    /\ UNCHANGED <<script, buf, at, served, cur, body, need, consumed, persist, temp, out, stopping, lateKeep>>

-----------------------------------------------------------------------------
(* parse_head.  A head that starts in the middle of a body does not parse. *)
HeadEnd == SelectInSeq(buf, IsBlank)

Incomplete == HeadEnd = 0 /\ Len(buf) <= MaxHeadUnits

Malformed ==
    \/ HeadEnd = 0 /\ Len(buf) > MaxHeadUnits
    \/ HeadEnd > MaxHeadUnits
    \/ HeadEnd # 0 /\ ~(buf[1].k = 1 /\ script[buf[1].req].well)

Complete == ~Incomplete /\ ~Malformed

ContentLength == script[buf[1].req].len

-----------------------------------------------------------------------------
(* Reads.  Every read has the idle timeout around it.                      *)
Received(n) == SubSeq(wire, 1, n)

ReadSizes == {n \in 1 .. ReadChunk : n <= Len(wire)}

BodyMissing == Len(buf) < consumed

ReadHead ==
    /\ at = "head" /\ Incomplete
    /\ \E n \in ReadSizes : buf' = buf \o Received(n) /\ wire' = SubSeq(wire, n + 1, Len(wire))
    /\ UNCHANGED <<script, nsent, at, served, cur, body, need, consumed, persist, temp, out, stopping, lateKeep>>

ReadBody ==
    /\ at = "body" /\ BodyMissing
    /\ \E n \in ReadSizes : buf' = buf \o Received(n) /\ wire' = SubSeq(wire, n + 1, Len(wire))
    /\ UNCHANGED <<script, nsent, at, served, cur, body, need, consumed, persist, temp, out, stopping, lateKeep>>

\* close: nothing is served after it.
Close == at' = "closed" /\ cur' = 0 /\ body' = <<>> /\ need' = 0 /\ consumed' = 0

\* Variant for the mutation runs: no timeout around the reads of a buffered body.
HangUpHeadOnly ==
    /\ \/ at = "head" /\ Incomplete
       \/ at = "spool" /\ need > 0
    /\ Close
    /\ UNCHANGED <<script, nsent, wire, buf, served, persist, temp, out, stopping, lateKeep>>

\* The timeout, an end of file or an error: the connection is closed.  A body that was
\* being spooled leaves its temporary file behind.
HangUp ==
    /\ \/ at = "head" /\ Incomplete
       \/ at = "body" /\ BodyMissing
       \/ at = "spool" /\ need > 0
    /\ Close
    /\ UNCHANGED <<script, nsent, wire, buf, served, persist, temp, out, stopping, lateKeep>>

\* Only an idle kept-alive connection races its read against the signal.
SignalClose ==
    /\ at = "head" /\ Incomplete /\ buf = <<>> /\ served > 0 /\ stopping
    /\ Close
    /\ UNCHANGED <<script, nsent, wire, buf, served, persist, temp, out, stopping, lateKeep>>

-----------------------------------------------------------------------------
(* Responses.  A response counts once written; `short` says that fewer     *)
(* bytes than its Content-Length went out.                                 *)
Response(i, b, ok, last, s) == [req |-> i, body |-> b, served |-> ok, close |-> last, short |-> s]

\* 400 for a head that does not parse, 413 for a declared body over the limit.
Refuse ==
    /\ at = "head" /\ (Malformed \/ (Complete /\ ContentLength > MaxUploadSize))
    /\ out' = Append(out, Response(buf[1].req, <<>>, FALSE, TRUE, FALSE))
    /\ Close
    /\ UNCHANGED <<script, nsent, wire, buf, served, persist, temp, stopping, lateKeep>>

-----------------------------------------------------------------------------
(* The body, in memory or spooled.                                         *)
BufferBody ==
    /\ at = "head" /\ Complete /\ ContentLength <= MaxInMemoryBody /\ ContentLength <= MaxUploadSize
    /\ at' = "body" /\ cur' = buf[1].req /\ consumed' = HeadEnd + ContentLength
    /\ UNCHANGED <<script, nsent, wire, buf, served, body, need, persist, temp, out, stopping, lateKeep>>

BodyBuffered ==
    /\ at = "body" /\ ~BodyMissing
    /\ body' = SubSeq(buf, HeadEnd + 1, consumed)
    /\ at' = "answer"
    /\ UNCHANGED <<script, nsent, wire, buf, served, cur, need, consumed, persist, temp, out, stopping, lateKeep>>

\* Variant for the mutation runs: what follows the body in the buffer is dropped.
SpoolStartDropsTail ==
    LET from_buf == IF ContentLength < Len(buf) - HeadEnd THEN ContentLength ELSE Len(buf) - HeadEnd IN
    /\ at = "head" /\ Complete /\ ContentLength > MaxInMemoryBody /\ ContentLength <= MaxUploadSize
    /\ at' = "spool" /\ cur' = buf[1].req
    /\ body' = SubSeq(buf, HeadEnd + 1, HeadEnd + from_buf)
    /\ need' = ContentLength - from_buf
    /\ temp' = temp \union {buf[1].req}
    /\ buf' = <<>>
    /\ UNCHANGED <<script, nsent, wire, served, consumed, persist, out, stopping, lateKeep>>

\* spool_body creates the file and moves what arrived of the body with the head into it;
\* the units after the body stay in buf.
SpoolStart ==
    LET from_buf == IF ContentLength < Len(buf) - HeadEnd THEN ContentLength ELSE Len(buf) - HeadEnd IN
    /\ at = "head" /\ Complete /\ ContentLength > MaxInMemoryBody /\ ContentLength <= MaxUploadSize
    /\ at' = "spool" /\ cur' = buf[1].req
    /\ body' = SubSeq(buf, HeadEnd + 1, HeadEnd + from_buf)
    /\ need' = ContentLength - from_buf
    /\ temp' = temp \union {buf[1].req}
    /\ buf' = SubSeq(buf, HeadEnd + from_buf + 1, Len(buf))
    /\ UNCHANGED <<script, nsent, wire, served, consumed, persist, out, stopping, lateKeep>>

SpoolRead ==
    /\ at = "spool" /\ need > 0
    /\ \E n \in ReadSizes :
          LET take == IF need < n THEN need ELSE n IN
          /\ body' = body \o SubSeq(wire, 1, take)
          /\ need' = need - take
          /\ buf' = buf \o SubSeq(wire, take + 1, n)
          /\ wire' = SubSeq(wire, n + 1, Len(wire))
    /\ UNCHANGED <<script, nsent, at, served, cur, consumed, persist, temp, out, stopping, lateKeep>>

\* file.flush(); the request takes up nothing of buf any more.
Spooled ==
    /\ at = "spool" /\ need = 0
    /\ at' = "answer" /\ consumed' = 0
    /\ UNCHANGED <<script, nsent, wire, buf, served, cur, body, need, persist, temp, out, stopping, lateKeep>>

\* Creating, writing or flushing the file fails, or the blocking pool is gone.
SpoolFails ==
    /\ \/ at = "spool"
       \/ /\ at = "head" /\ Complete
          /\ ContentLength > MaxInMemoryBody /\ ContentLength <= MaxUploadSize
    /\ Close
    /\ UNCHANGED <<script, nsent, wire, buf, served, persist, temp, out, stopping, lateKeep>>

-----------------------------------------------------------------------------
(* The answer.  Whether the connection persists is settled before the      *)
(* handler runs.                                                           *)
\* Variant for the mutation runs: the signal is not looked at.
DecideIgnoresSignal ==
    /\ at = "answer"
    /\ served' = served + 1
    /\ persist' = (KeepAliveEnabled /\ script[cur].keep /\ served + 1 < MaxRequests)
    /\ at' = "handle"
    /\ UNCHANGED <<script, nsent, wire, buf, cur, body, need, consumed, temp, out, stopping, lateKeep>>

Decide ==
    /\ at = "answer"
    /\ served' = served + 1
    /\ persist' = (KeepAliveEnabled /\ script[cur].keep /\ served + 1 < MaxRequests /\ ~stopping)
    /\ at' = "handle"
    /\ UNCHANGED <<script, nsent, wire, buf, cur, body, need, consumed, temp, out, stopping, lateKeep>>

\* handle() consumes the request, and the temporary file goes with it (moved away by
\* UploadFile::persist or removed by SpooledBody::drop); a static hit leaves both for later.
Handle ==
    /\ at = "handle"
    /\ temp' \in {temp, temp \ {cur}}
    /\ at' = "write"
    /\ UNCHANGED <<script, nsent, wire, buf, served, cur, body, need, consumed, persist, out, stopping, lateKeep>>

\* write_response succeeds.  s: the file could not be opened, or it or the stream ended
\* early - stream_file and write_response return Ok all the same.
WriteResponse(s) ==
    /\ at = "write"
    /\ out' = Append(out, Response(cur, body, TRUE, ~persist, s))
    /\ temp' = temp \ {cur}
    /\ lateKeep' = IF stopping /\ persist THEN lateKeep + 1 ELSE lateKeep
    /\ IF persist
       THEN /\ at' = "head" /\ buf' = SubSeq(buf, consumed + 1, Len(buf))
            /\ cur' = 0 /\ body' = <<>> /\ need' = 0 /\ consumed' = 0
       ELSE Close /\ UNCHANGED buf
    /\ UNCHANGED <<script, nsent, wire, served, persist, stopping>>

\* The peer vanished, or the source of a streamed body failed.
WriteFails ==
    /\ at = "write"
    /\ temp' = temp \ {cur}
    /\ Close
    /\ UNCHANGED <<script, nsent, wire, buf, served, persist, out, stopping, lateKeep>>

-----------------------------------------------------------------------------
Serve ==
    \/ ReadHead \/ ReadBody \/ HangUp \/ SignalClose \/ Refuse
    \/ BufferBody \/ BodyBuffered \/ SpoolStart \/ SpoolRead \/ Spooled \/ SpoolFails
    \/ Decide \/ Handle \/ (\E s \in BOOLEAN : WriteResponse(s)) \/ WriteFails

\* Shutdown::trigger, at any moment.
Stop ==
    /\ ~stopping /\ stopping' = TRUE
    /\ UNCHANGED <<script, nsent, wire, buf, at, served, cur, body, need, consumed, persist, temp, out, lateKeep>>

ConnNext == Serve \/ Stop \/ Send

ConnSpec == ConnInit /\ [][ConnNext]_connVars

ConnFairSpec == ConnSpec /\ WF_connVars(Serve)

-----------------------------------------------------------------------------
ConnTypeOK ==
    /\ script \in Seq(Request) /\ served \in Nat /\ need \in Nat /\ consumed \in Nat
    /\ at \in {"head", "body", "spool", "answer", "handle", "write", "closed"}
    /\ cur \in 0 .. Len(script) /\ persist \in BOOLEAN /\ stopping \in BOOLEAN
    /\ temp \subseteq 1 .. Len(script) /\ lateKeep \in Nat
    /\ cur = 0 <=> at \in {"head", "closed"}

\* serve_connection implements the service a client is promised: pipelined requests are
\* cut out of the shared buffer exactly, whichever way their bodies were read, and answered
\* once and in order, refused only for what they are; nothing follows an answer that announced the close (AnswersInOrder).
Refusable(r) == ~r.well \/ HeadUnits(r) > MaxHeadUnits \/ r.len > MaxUploadSize
Answers == [i \in DOMAIN out |->
               [req |-> out[i].req, body |-> out[i].body, served |-> out[i].served, close |-> out[i].close]]
Promise == INSTANCE HttpService WITH asked <- script, answers <- Answers, open <- (at # "closed")
\* Every behaviour of the connection is one of the service, by that mapping.
AnswersInOrder == Promise!Spec

\* A graceful stop does not invite more work: after the signal at most one response still
\* says keep-alive, the one whose handler was already running (app.rs:751).
OneLateKeepAlive == lateKeep <= 1

\* No client can hold a connection for ever: every await of serve_connection that depends
\* on the client has the idle timeout around it, and max_requests bounds the rest.
ConnectionEnds == <>(at = "closed")

=============================================================================
