----------------------------- MODULE DnsMessage -----------------------------
(***************************************************************************)
(* The DNS wire format: writing a query and reading a response             *)
(* (crates/kernway-dns/src/message.rs).                                    *)
(*                                                                         *)
(* A message is a sequence of cells.  Names are written byte by byte, as   *)
(* length, letters, pointer; every other field, of whatever width, is one  *)
(* cell.  Offsets count from 0.                                            *)
(***************************************************************************)
EXTENDS Integers, Sequences, FiniteSets
LOCAL INSTANCE SequencesExt

CONSTANTS WireBytes, MaxPacket,      \* arbitrary packets
          Labels,                    \* labels a name may have
          MAX_LABEL, MAX_NAME, MAX_JUMPS,
          Records, MaxRecords,       \* what a server may answer
          Flags                      \* header flags: 512 is TC, the low 4 bits the rcode

VARIABLES packet,   \* bytes nobody vouches for
          asked,    \* the labels of the name asked for
          answers   \* what the server answers: [type, ttl, data, owner]

messageVars == <<packet, asked, answers>>

TYPE_A == 1
TYPE_AAAA == 28
Lengths == [t \in {TYPE_A, TYPE_AAAA} |-> IF t = TYPE_A THEN 4 ELSE 16]

-----------------------------------------------------------------------------
(* Writing.                                                                 *)

LabelBytes(l) == <<Len(l)>> \o l

\* encode_name; a name is refused as a whole.
Encodable(labels) ==
    /\ \A l \in ToSet(labels) : Len(l) \in 1 .. MAX_LABEL
    /\ Len(FlattenSeq([i \in DOMAIN labels |-> LabelBytes(labels[i])])) + 1 <= MAX_NAME
EncodeName(labels) == FlattenSeq([i \in DOMAIN labels |-> LabelBytes(labels[i])]) \o <<0>>

\* encode_query_inner: the header, the question, the OPT record if asked for.
EncodeQuery(id, labels, qtype, edns) ==
    <<id, 256, 1, 0, 0, IF edns THEN 1 ELSE 0>> \o EncodeName(labels) \o <<qtype, 1>>
      \o IF edns THEN <<0, 41, 1232, 0, 0>> ELSE <<>>

-----------------------------------------------------------------------------
(* Reading.  pos is 0-based; Cut is what every read past the end returns.   *)

Cut == [ok |-> FALSE, why |-> "truncated"]
Malformed == [ok |-> FALSE, why |-> "malformed"]
TooLong == [ok |-> FALSE, why |-> "too long"]

\* The reader's own position moves on only until the first pointer.
AfterPointer(after, pos) == IF after = -1 THEN pos ELSE after

RECURSIVE NameFrom(_, _, _, _, _, _)
\* Reader::name
NameFrom(buf, pos, labels, len, jumps, after) ==
    IF pos >= Len(buf) THEN Cut
    ELSE LET b == buf[pos + 1] IN
      CASE b = 0 -> [ok |-> TRUE, labels |-> labels, next |-> AfterPointer(after, pos + 1)]
        [] b \in 1 .. 63 ->
             IF pos + 1 + b > Len(buf) THEN Cut
             ELSE IF len + b + 1 > MAX_NAME THEN TooLong
             ELSE NameFrom(buf, pos + 1 + b, Append(labels, SubSeq(buf, pos + 2, pos + 1 + b)), len + b + 1, jumps, after)
        [] b >= 192 ->
             IF pos + 1 >= Len(buf) THEN Cut
             ELSE LET target == (b - 192) * 256 + buf[pos + 2] IN
                  IF jumps + 1 > MAX_JUMPS \/ target >= pos THEN Malformed
                  ELSE NameFrom(buf, target, labels, len, jumps + 1, AfterPointer(after, pos + 2))
        [] OTHER -> Malformed

WireName(buf, pos) == NameFrom(buf, pos, <<>>, 0, 0, -1)

RECURSIVE Questions(_, _, _)
\* The question section is skipped: the position after it, or an error.
Questions(buf, pos, n) ==
    LET name == WireName(buf, pos) IN
    IF n = 0 THEN [ok |-> TRUE, next |-> pos]
    ELSE IF ~name.ok THEN name
    ELSE IF name.next + 2 > Len(buf) THEN Cut ELSE Questions(buf, name.next + 2, n - 1)

RECURSIVE Answers(_, _, _, _)
\* The answer section: name, type, class, ttl, length, data.
Answers(buf, pos, n, found) ==
    LET name == WireName(buf, pos)
        type == buf[name.next + 1]
        ttl == buf[name.next + 3]
        rdlen == buf[name.next + 4]
        end == name.next + 4 + rdlen
        rdata == SubSeq(buf, name.next + 5, end)
        wanted == type \in DOMAIN Lengths /\ rdlen = Lengths[type] IN
    IF n = 0 THEN [ok |-> TRUE, addresses |-> found]
    ELSE IF ~name.ok THEN name
    ELSE IF name.next + 4 > Len(buf) \/ end > Len(buf) THEN Cut
    ELSE Answers(buf, end, n - 1, IF wanted THEN Append(found, [ip |-> rdata, ttl |-> ttl]) ELSE found)

ParseResponse(buf) ==
    IF Len(buf) < 6 THEN Cut
    ELSE LET start == Questions(buf, 6, buf[3])
             got == Answers(buf, start.next, buf[4], <<>>)
         IN IF ~start.ok THEN start
            ELSE IF ~got.ok THEN got
            ELSE [ok |-> TRUE, id |-> buf[1], truncated |-> (buf[2] \div 512) % 2 = 1, rcode |-> buf[2] % 16,
                  addresses |-> got.addresses]

-----------------------------------------------------------------------------
(* The server: it repeats the question and answers under the name asked,    *)
(* written out, as a pointer to it, or as a label and a pointer to its tail. *)

WriteOwner(owner) ==
    CASE owner = "full" -> EncodeName(asked)
      [] owner = "pointer" -> <<192, 6>>
      [] owner = "tail" -> LabelBytes(asked[1]) \o <<192, 6 + 1 + Len(asked[1])>>

WriteRecord(r) == WriteOwner(r.owner) \o <<r.type, 1, r.ttl, Len(r.data)>> \o r.data

AnswerBytes(id, flags) ==
    <<id, flags, 1, Len(answers), 0, 0>> \o EncodeName(asked) \o <<TYPE_A, 1>>
      \o FlattenSeq([i \in DOMAIN answers |-> WriteRecord(answers[i])])

-----------------------------------------------------------------------------

MessageInit == packet = <<>> /\ asked = <<>> /\ answers = <<>>

ReceiveByte(b) == Len(packet) < MaxPacket /\ packet' = Append(packet, b) /\ UNCHANGED <<asked, answers>>

AskFor(labels) ==
    /\ asked = <<>> /\ Encodable(labels)
    /\ asked' = labels /\ UNCHANGED <<packet, answers>>

AddRecord(r) ==
    /\ Len(answers) < MaxRecords /\ answers' = Append(answers, r)
    /\ UNCHANGED <<packet, asked>>

MessageNext ==
    \/ asked = <<>> /\ \E b \in WireBytes : ReceiveByte(b)
    \/ packet = <<>> /\ \E a, b \in Labels : AskFor(<<a>>) \/ AskFor(<<a, b>>)
    \/ asked # <<>> /\ \E r \in Records : AddRecord(r)

-----------------------------------------------------------------------------
(* Properties.                                                              *)

MessageTypeOK == /\ Len(packet) <= MaxPacket /\ Len(answers) <= MaxRecords /\ ToSet(asked) \subseteq Labels

\* Whatever bytes arrive, a name that is read from them ends inside the packet
\* and after where it began, consists of runs of the packet's own bytes, is no
\* longer than MAX_NAME, and, when it holds no pointer, is what is written there.
NameSafe ==
    \A pos \in 0 .. Len(packet) - 1 :
        LET name == WireName(packet, pos)
            flat == EncodeName(name.labels)
        IN name.ok =>
             /\ name.next \in pos + 1 .. Len(packet)
             /\ Len(flat) - 1 <= MAX_NAME
             /\ \A l \in ToSet(name.labels) : \E i \in 1 .. Len(packet) : SubSeq(packet, i, i + Len(l) - 1) = l
             /\ packet[name.next] = 0 /\ name.next - pos = Len(flat) => SubSeq(packet, pos + 1, name.next) = flat

\* What a server writes, names compressed or not, is what parse_response
\* returns: its id, flags and the addresses in order with their lifetimes,
\* records of another type or with data of the wrong length left out; and a
\* message cut short anywhere is refused, never read as a shorter answer.
\* A server reads from the query the name that was asked.
MessageRoundTrips ==
    asked # <<>> =>
      /\ \A edns \in BOOLEAN : WireName(EncodeQuery(7, asked, TYPE_A, edns), 6).labels = asked
      /\ \A flags \in Flags :
            LET message == AnswerBytes(7, flags)
                addresses == SelectSeq(answers, LAMBDA r : r.type \in DOMAIN Lengths /\ Len(r.data) = Lengths[r.type])
            IN /\ ParseResponse(message) =
                     [ok |-> TRUE, id |-> 7, truncated |-> flags >= 512, rcode |-> flags % 16,
                      addresses |-> [i \in DOMAIN addresses |-> [ip |-> addresses[i].data, ttl |-> addresses[i].ttl]]]
               /\ \A n \in 0 .. Len(message) - 1 : ~ParseResponse(SubSeq(message, 1, n)).ok

DnsMessagesHold == NameSafe /\ MessageRoundTrips

=============================================================================
