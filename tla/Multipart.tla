----------------------------- MODULE Multipart ------------------------------
(***************************************************************************)
(* multipart/form-data: the server's extractor                             *)
(* (crates/kernway-server/src/multipart.rs) and the stand-alone form       *)
(* parser (crates/kernway-multipart/src/lib.rs), over the same bodies.     *)
(*                                                                         *)
(* A body is a sequence of symbols: "B" for --boundary, "--" for the two   *)
(* dashes that close, "N" for CRLF, "sp" for a blank, "name", "file" and   *)
(* "other" for header lines (a disposition with a name, one with a name    *)
(* and a filename, any other line), "a" for anything else.                 *)
(***************************************************************************)
EXTENDS Integers, Sequences, FiniteSets
LOCAL INSTANCE SequencesExt
LOCAL INSTANCE FiniteSetsExt

CONSTANTS Heads,       \* header blocks a client may send
          BodySymbols, MaxBytes, \* what part bodies are made of, in all
          MaxFields,   \* parts a client may send
          MAX_PARTS

VARIABLES fields,   \* the form being sent: parts [head, body]
          wrap      \* what surrounds it: [pre, pad, post]

multipartVars == <<fields, wrap>>

\* find: the first position of the needle at or after from, or 0.
FindFrom(s, needle, from) ==
    LET at == {i \in from .. Len(s) - Len(needle) + 1 : SubSeq(s, i, i + Len(needle) - 1) = needle}
    IN IF at = {} THEN 0 ELSE Min(at)

At(s, i, needle) == i + Len(needle) - 1 <= Len(s) /\ SubSeq(s, i, i + Len(needle) - 1) = needle
RECURSIVE SkipWs(_, _)
SkipWs(s, i) == IF At(s, i, <<"sp">>) THEN SkipWs(s, i + 1) ELSE i

Bad(why) == [ok |-> FALSE, why |-> why, parts |-> <<>>]

\* parse_headers: what the block says; a part must have a name.
HasName(head) == \E i \in DOMAIN head : head[i] \in {"name", "file"}
IsFile(head) == \E i \in DOMAIN head : head[i] = "file"
RawPart(head, body) == [file |-> IsFile(head), body |-> body]

BodyEnd(s, from) == FindFrom(s, <<"N", "B">>, from)

RECURSIVE PartsFrom(_, _, _)
\* The loop of parse_parts, from just after a delimiter.
PartsFrom(s, pos, parts) ==
    LET line == SkipWs(s, pos)
        start == line + 1
        headEnd == FindFrom(s, <<"N", "N">>, start)
        head == SubSeq(s, start, headEnd - 1)
        bodyEnd == BodyEnd(s, headEnd + 2)
        part == RawPart(head, SubSeq(s, headEnd + 2, bodyEnd - 1)) IN
    IF At(s, pos, <<"--">>) THEN [ok |-> TRUE, why |-> "", parts |-> parts]
    ELSE IF ~At(s, line, <<"N">>) THEN Bad("boundary")
    ELSE IF headEnd = 0 THEN Bad("headers")
    ELSE IF bodyEnd = 0 THEN Bad("body")
    ELSE IF ~HasName(head) THEN Bad("name")
    ELSE IF Len(parts) >= MAX_PARTS THEN Bad("too many")
    ELSE PartsFrom(s, bodyEnd + 2, Append(parts, part))

ParseParts(s) ==
    LET first == FindFrom(s, <<"B">>, 1) IN IF first = 0 THEN Bad("opening") ELSE PartsFrom(s, first + 1, <<>>)

-----------------------------------------------------------------------------
(* MultipartForm::parse: split at every delimiter, trim, skip what has no   *)
(* name.                                                                    *)

RECURSIVE SplitAtB(_)
SplitAtB(s) ==
    LET i == FindFrom(s, <<"B">>, 1)
    IN IF i = 0 THEN <<s>> ELSE <<SubSeq(s, 1, i - 1)>> \o SplitAtB(SubSeq(s, i + 1, Len(s)))

RECURSIVE TrimEnd(_, _), TrimStart(_, _)
TrimEnd(s, set) == IF s # <<>> /\ Last(s) \in set THEN TrimEnd(Front(s), set) ELSE s
TrimStart(s, set) == IF s # <<>> /\ Head(s) \in set THEN TrimStart(Tail(s), set) ELSE s
Blanks == {"N", "sp"}
Trim(s) == TrimStart(TrimEnd(s, Blanks), Blanks)

FormPart(p) ==
    LET cut == FindFrom(p, <<"N", "N">>, 1)
        head == SubSeq(p, 1, cut - 1)
    IN IF cut = 0 \/ ~HasName(head) THEN <<>>
       ELSE <<RawPart(head, TrimEnd(SubSeq(p, cut + 2, Len(p)), {"N"}))>>
FormParse(s) == FlattenSeq([i \in DOMAIN SplitAtB(s) |-> FormPart(Trim(SplitAtB(s)[i]))])

-----------------------------------------------------------------------------
(* A client composes a form.                                                *)

\* A preamble, blanks after each delimiter and an epilogue, or none of them.
Unwrapped == [pre |-> <<>>, pad |-> <<>>, post |-> <<>>]
Wrapped == [pre |-> <<"a", "N">>, pad |-> <<"sp">>, post |-> <<"N", "a">>]

MultipartInit == fields = <<>> /\ wrap \in {Unwrapped, Wrapped}

AddField(head) ==
    /\ Len(fields) < MaxFields
    /\ fields' = Append(fields, [head |-> head, body |-> <<>>]) /\ UNCHANGED wrap

AddByte(b) ==
    /\ fields # <<>> /\ FoldLeft(LAMBDA n, f : n + Len(f.body), 0, fields) < MaxBytes
    /\ fields' = [fields EXCEPT ![Len(fields)].body = Append(@, b)] /\ UNCHANGED wrap

MultipartNext ==
    \/ \E h \in Heads : AddField(h)
    \/ \E b \in BodySymbols : AddByte(b)

\* What goes over the wire, by the RFC.
OnWire ==
    wrap.pre \o <<"B">> \o
    FlattenSeq([i \in DOMAIN fields |->
        wrap.pad \o <<"N">> \o fields[i].head \o <<"N", "N">> \o fields[i].body \o <<"N", "B">>])
    \o <<"--">> \o wrap.post

-----------------------------------------------------------------------------
(* Properties.                                                              *)

MultipartTypeOK ==
    /\ Len(fields) <= MaxFields /\ \A i \in DOMAIN fields : fields[i].head \in Heads
    /\ ParseParts(OnWire).ok \in BOOLEAN

Sendable(body) == FindFrom(<<"N">> \o body, <<"N", "B">>, 1) = 0
Sent == [i \in DOMAIN fields |-> RawPart(fields[i].head, fields[i].body)]

\* A form whose bodies do not hold the delimiter line comes out as it was
\* sent: every part in order, bodies to the byte, line ends and dashes at
\* their edges and a boundary inside a line included; one with a part that has no
\* name, or with more parts than allowed, is refused whole.
FormRoundTrips ==
    (\A i \in DOMAIN fields : Sendable(fields[i].body)) =>
        LET got == ParseParts(OnWire)
            unnamed == {i \in DOMAIN fields : ~HasName(fields[i].head)} IN
        IF unnamed = {} /\ Len(fields) <= MAX_PARTS THEN got.ok /\ got.parts = Sent
        ELSE ~got.ok /\ got.why = IF unnamed # {} /\ Min(unnamed) <= MAX_PARTS + 1 THEN "name" ELSE "too many"

\* The stand-alone parser gives the same named parts as long as no body holds
\* the boundary, is empty (it skips those) or ends in a line end or a blank.
ParsersAgree ==
    (\A i \in DOMAIN fields : /\ FindFrom(fields[i].body, <<"B">>, 1) = 0
                              /\ fields[i].body # <<>> /\ Last(fields[i].body) \notin Blanks)
       => FormParse(OnWire) = FlattenSeq([i \in DOMAIN fields |-> IF HasName(fields[i].head) THEN <<Sent[i]>> ELSE <<>>])

MultipartHolds == FormRoundTrips /\ ParsersAgree

=============================================================================
