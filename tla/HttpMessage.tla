---------------------------- MODULE HttpMessage ----------------------------
(***************************************************************************)
(* HTTP/1.1 on the wire: reading requests                                  *)
(* (crates/kernway-http/src/parser.rs), writing responses                  *)
(* (crates/kernway-http/src/writer.rs), and the header and query fields    *)
(* between them (crates/kernway-core/src/fields.rs, request.rs,            *)
(* response.rs).                                                           *)
(*                                                                         *)
(* A message is a sequence of cells: CR, LF, SP, or a word.  HeaderWords   *)
(* gives the words that hold a colon, each as its name and value.          *)
(***************************************************************************)
EXTENDS Integers, Sequences, FiniteSets
LOCAL INSTANCE SequencesExt
LOCAL INSTANCE FiniteSetsExt

CONSTANTS Cells,         \* what may follow the first line's words
          FirstLines,    \* how requests begin
          HeaderWords,   \* word |-> [name, value]
          Lower,         \* header name |-> the name in lower case
          SizeOf,        \* value |-> number, for the values that parse as one
          MAX_HEAD_BYTES, MAX_BODY_BYTES,
          MaxCells, MaxHeaderCalls

VARIABLES buf,      \* what a client has sent
          reply,     \* the response a handler is building: [headers, body]
          query     \* the cells of a query string

messageHttpVars == <<buf, reply, query>>

-----------------------------------------------------------------------------
(* Fields: entries in the order they were pushed, names in lower case.      *)

Push(fields, name, value) == Append(fields, [name |-> Lower[name], value |-> value])

\* insert
InsertField(fields, name, value) == Push(SelectSeq(fields, LAMBDA e : e.name # Lower[name]), name, value)

\* get: the last entry, or the value given for none.
GetField(fields, name, none) ==
    LET at == {i \in DOMAIN fields : fields[i].name = Lower[name]}
    IN IF at = {} THEN none ELSE fields[Max(at)].value

-----------------------------------------------------------------------------
(* Lines.                                                                   *)

TrimWs(s) ==
    LET solid == {i \in DOMAIN s : s[i] \notin {"SP", "CR"}}
    IN IF solid = {} THEN <<>> ELSE SubSeq(s, Min(solid), Max(solid))

\* Where the head ends for a reader that trims its lines: a line of blanks ends it as well.
HeadEndsTrimmed(s) ==
    {i \in DOMAIN s : /\ s[i] = "LF"
                      /\ \E j \in 0 .. i - 1 : /\ j = 0 \/ s[IF j = 0 THEN 1 ELSE j] = "LF"
                                               /\ \A k \in j + 1 .. i - 1 : s[k] \in {"CR", "SP"}}

\* find_head_end: the line feeds that end an empty line, with or without a CR.
HeadEnds(s) ==
    {i \in DOMAIN s : /\ s[i] = "LF"
                      /\ \/ i = 1
                         \/ s[i - 1] = "LF"
                         \/ s[i - 1] = "CR" /\ (i = 2 \/ s[i - 2] = "LF")}

\* lines, each trimmed.
LinesOf(s) ==
    LET lf == {i \in DOMAIN s : s[i] = "LF"}
        starts == SetToSortSeq({1} \union {i + 1 : i \in lf \ {Len(s)}}, LAMBDA a, b : a < b)
        endOf(i) == IF \E j \in lf : j >= i THEN Min({j \in lf : j >= i}) - 1 ELSE Len(s)
    IN [n \in DOMAIN starts |-> TrimWs(SubSeq(s, starts[n], endOf(starts[n])))]

\* parse_request_line: splitn(3, ' ').
RequestLine(line) ==
    LET sp == {i \in DOMAIN line : line[i] = "SP"}
        first == Min(sp)
        second == IF sp = {first} THEN Len(line) + 1 ELSE Min(sp \ {first})
        version == TrimWs(SubSeq(line, second + 1, Len(line)))
    IN IF sp = {} THEN [ok |-> FALSE]
       ELSE [ok |-> TRUE, method |-> SubSeq(line, 1, first - 1), path |-> SubSeq(line, first + 1, second - 1),
             http10 |-> second > Len(line) \/ version = <<"HTTP/1.0">>]

\* split_header: at the first colon; a line without one is ignored.
AddHeader(headers, line) ==
    LET colons == {i \in DOMAIN line : line[i] \in DOMAIN HeaderWords}
        at == Min(colons)
        word == HeaderWords[line[at]]
    IN IF colons = {} THEN headers
       ELSE IF at > 1 THEN Append(headers, [name |-> SubSeq(line, 1, at - 1), value |-> word.value])
       ELSE Push(headers, word.name, word.value)

\* The header loop stops at a line with nothing but blanks.
HeadersOf(lines) ==
    LET blank == {i \in DOMAIN lines : lines[i] = <<>>}
    IN FoldLeft(AddHeader, <<>>, IF blank = {} THEN lines ELSE SubSeq(lines, 1, Min(blank) - 1))

BodyLength(headers) ==
    LET v == GetField(headers, "content-length", "none") IN IF v \in DOMAIN SizeOf THEN SizeOf[v] ELSE 0

RequestOf(line, headers, body) ==
    [kind |-> "complete", method |-> line.method, path |-> line.path, http10 |-> line.http10, headers |-> headers, body |-> body]

-----------------------------------------------------------------------------
(* Requests.                                                                *)

RefusedMessage(why) == [kind |-> why]

\* parse_bytes over parse_head_inner.
ParseBytes(s) ==
    LET end == Min(HeadEnds(s))
        lines == LinesOf(SubSeq(s, 1, end))
        line == RequestLine(lines[1])
        headers == HeadersOf(Tail(lines))
        total == end + BodyLength(headers)
    IN IF HeadEnds(s) = {} THEN RefusedMessage(IF Len(s) > MAX_HEAD_BYTES THEN "too large" ELSE "incomplete")
       ELSE IF end > MAX_HEAD_BYTES THEN RefusedMessage("too large")
       ELSE IF ~line.ok THEN RefusedMessage("bad request line")
       ELSE IF BodyLength(headers) > MAX_BODY_BYTES THEN RefusedMessage("too large")
       ELSE IF Len(s) < total THEN RefusedMessage("incomplete")
       ELSE [request |-> RequestOf(line, headers, SubSeq(s, end + 1, total)), consumed |-> total, kind |-> "complete"]

\* parse_from_reader, on a stream that ends after s: it stops at the first
\* line of blanks, and at the end of the stream.
ParseFromReader(s) ==
    LET lines == LinesOf(s)
        blank == {i \in 2 .. Len(lines) : lines[i] = <<>>}
        ends == SetToSortSeq({i \in DOMAIN s : s[i] = "LF"}, LAMBDA a, b : a < b)
        last == IF blank = {} THEN Len(lines) ELSE Min(blank)
        end == IF last > Len(ends) THEN Len(s) ELSE ends[last]
        line == RequestLine(lines[1])
        headers == HeadersOf(SubSeq(lines, 2, last))
        length == BodyLength(headers)
    IN IF ~line.ok THEN RefusedMessage("bad request line")
       ELSE IF length > MAX_BODY_BYTES THEN RefusedMessage("too large")
       ELSE IF end + length > Len(s) THEN RefusedMessage("io")
       ELSE RequestOf(line, headers, SubSeq(s, end + 1, end + length))

\* parse_query_string: pairs without a key are skipped.
RECURSIVE Pairs(_)
Pairs(s) ==
    LET amp == {i \in DOMAIN s : s[i] = "&"}
        end == IF amp = {} THEN Len(s) + 1 ELSE Min(amp)
        pair == SubSeq(s, 1, end - 1)
        eq == {i \in DOMAIN pair : pair[i] = "="}
        at == IF eq = {} THEN Len(pair) + 1 ELSE Min(eq)
        rest == IF amp = {} THEN <<>> ELSE Pairs(SubSeq(s, end + 1, Len(s)))
    IN (IF at = 1 THEN <<>> ELSE <<[name |-> SubSeq(pair, 1, at - 1), value |-> SubSeq(pair, at + 1, Len(pair))]>>) \o rest

-----------------------------------------------------------------------------
(* Responses.                                                               *)

\* encode_head_into leaves out what it writes itself.
WrittenHeaders(headers) == SelectSeq(headers, LAMBDA e : e.name \notin {"connection", "content-length"})

WordFor(name, value) == CHOOSE w \in DOMAIN HeaderWords : HeaderWords[w] = [name |-> name, value |-> value]
HeaderLine(e) == <<WordFor(e.name, e.value), "CR", "LF">>
DigitsFor(n) == CHOOSE v \in DOMAIN SizeOf : SizeOf[v] = n

\* encode_response_with
EncodeResponse(r, connection) ==
    <<"HTTP/1.1", "SP", "200", "CR", "LF">>
      \o FlattenSeq([i \in DOMAIN WrittenHeaders(r.headers) |-> HeaderLine(WrittenHeaders(r.headers)[i])])
      \o HeaderLine([name |-> "content-length", value |-> DigitsFor(Len(r.body))])
      \o HeaderLine([name |-> "connection", value |-> connection])
      \o <<"CR", "LF">> \o r.body

-----------------------------------------------------------------------------

MessageHttpInit == buf = <<>> /\ reply = [headers |-> <<>>, body |-> <<>>, calls |-> 0] /\ query = <<>>

Begin(line) == buf = <<>> /\ buf' = line /\ UNCHANGED <<reply, query>>
Arrive(c) == buf # <<>> /\ Len(buf) < MaxCells /\ buf' = Append(buf, c) /\ UNCHANGED <<reply, query>>

\* Response::header and its kind: insert or append.
SetHeader(w, insert) ==
    /\ reply.calls < MaxHeaderCalls
    /\ reply' = [reply EXCEPT !.calls = @ + 1,
                            !.headers = IF insert THEN InsertField(@, HeaderWords[w].name, HeaderWords[w].value)
                                        ELSE Push(@, HeaderWords[w].name, HeaderWords[w].value)]
    /\ UNCHANGED <<buf, query>>

SetBody(b) == reply.body = <<>> /\ reply' = [reply EXCEPT !.body = b] /\ UNCHANGED <<buf, query>>

AddQueryCell(c) == Len(query) < MaxCells /\ query' = Append(query, c) /\ UNCHANGED <<buf, reply>>

MessageHttpNext ==
    \/ reply.calls = 0 /\ reply.body = <<>> /\ query = <<>>
          /\ ((\E l \in FirstLines : Begin(l)) \/ (\E c \in Cells : Arrive(c)))
    \/ buf = <<>> /\ query = <<>> /\ \E w \in DOMAIN HeaderWords, i \in BOOLEAN : SetHeader(w, i)
    \/ buf = <<>> /\ query = <<>> /\ \E n \in 1 .. 2 : SetBody([i \in 1 .. n |-> "LF"])
    \/ buf = <<>> /\ reply.calls = 0 /\ reply.body = <<>> /\ \E c \in {"k", "=", "&"} : AddQueryCell(c)

-----------------------------------------------------------------------------
(* Properties.                                                              *)

MessageHttpTypeOK == /\ Len(buf) <= MaxCells /\ Len(query) <= MaxCells /\ reply.calls \in 0 .. MaxHeaderCalls

\* However a request is cut into reads, it is found once and for all: what is
\* recognised in a prefix stays recognised, with the same bytes consumed, when
\* more arrives, and nothing is recognised before its last byte is there.
FramingStable ==
    LET all == ParseBytes(buf) IN
    \A n \in 0 .. Len(buf) - 1 :
        LET early == ParseBytes(SubSeq(buf, 1, n)) IN
        /\ early.kind # "incomplete" => early = all
        /\ all.kind = "complete" => (n >= all.consumed <=> early.kind = "complete")

\* The blocking reader and the buffer parser read the same request, as long as
\* no line of the head is made of blanks only; the reader takes the end of the
\* stream for the end of the head.
ReadersAgree ==
    LET all == ParseBytes(buf) IN
    all.kind = "complete" /\ HeadEnds(buf) = HeadEndsTrimmed(buf) => ParseFromReader(buf) = all.request

\* Two responses written one after the other on a connection are read back as
\* two: each head ends where its writer ended it, holds one content-length,
\* the body's, and one connection, whatever the handler set, and the
\* handler's other headers in their order.
ResponseRoundTrips ==
    \A connection \in {"close", "keep-alive"} :
        LET one == EncodeResponse(reply, connection)
            wire == one \o one
            end == Min(HeadEnds(wire))
            headers == HeadersOf(Tail(LinesOf(SubSeq(wire, 1, end))))
        IN /\ end + BodyLength(headers) = Len(one)
           /\ headers = SelectSeq(reply.headers, LAMBDA e : e.name \notin {"connection", "content-length"})
                          \o <<[name |-> "content-length", value |-> DigitsFor(Len(reply.body))],
                               [name |-> "connection", value |-> connection]>>

\* The pairs of a query string, joined again, are the string without its empty
\* keys: nothing of a value is lost, a second = included.
QueryExact ==
    LET pieces == Pairs(query)
        joined == FlattenSeq([i \in DOMAIN pieces |-> pieces[i].name \o <<"=">> \o pieces[i].value])
    IN /\ \A i \in DOMAIN pieces : pieces[i].name # <<>> /\ "=" \notin ToSet(pieces[i].name)
                                    /\ "&" \notin ToSet(pieces[i].name \o pieces[i].value)
       /\ (\A i \in DOMAIN query : query[i] = "=" => i > 1 /\ query[i - 1] # "&")
             => SelectSeq(joined, LAMBDA c : c = "k") = SelectSeq(query, LAMBDA c : c = "k")

MessagesHold == FramingStable /\ ReadersAgree /\ ResponseRoundTrips /\ QueryExact

=============================================================================
