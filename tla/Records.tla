------------------------------ MODULE Records -------------------------------
(***************************************************************************)
(* The bytes under the file-backed stores of kernway-security: the record  *)
(* formats of sessions (file_sessions.rs; redis_store.rs has the same      *)
(* fields), visitors (activity.rs, file_activity.rs) and bans              *)
(* (file_bans.rs), the framing of snapshots, and replay.                   *)
(*                                                                         *)
(* `family` says which a behaviour is about.  A write is one step          *)
(* here: FileStore has the interleavings and Wal the log beneath.  A       *)
(* registry is a set of entries, no two with one id.                       *)
(***************************************************************************)
EXTENDS Naturals, Sequences, FiniteSets, SequencesExt

CONSTANTS Radix,            \* values of a byte (256 in the code)
          LenBytes,         \* bytes of a length (4)
          TimeBytes,        \* bytes of a time (8)
          NotText,          \* bytes that are no UTF-8
          EntryTexts,       \* ids, users, addresses, paths
          Seen,             \* visitors as ActivityTracking records them
          Stamps,           \* times
          CheckpointEvery,  \* CHECKPOINT_EVERY
          MaxRecordWrites, MaxRestarts

VARIABLES family,    \* "sessions", "visitors" or "bans"
          held,      \* the registry in memory
          log,       \* the records in the log
          snapshot,  \* the snapshot file: <<>>, or <<its bytes>>
          since,     \* since_checkpoint
          unlogged,  \* history: ids whose last change is in memory only
          pruned,    \* history: visitors older than this may be gone from memory
          writes, restarts

recordVars == <<family, held, log, snapshot, since, unlogged, pruned, writes, restarts>>

-----------------------------------------------------------------------------
(* Fields: u32 and u64 little-endian, strings behind their length, a flag   *)
(* and a string for an option (here a sequence of at most one string).      *)
ToLe(n, width) == [i \in 1 .. width |-> (n \div Radix ^ (i - 1)) % Radix]
FromLe(b) == FoldRight(LAMBDA d, acc : acc * Radix + d, b, 0)

PutStr(s) == ToLe(Len(s), LenBytes) \o s
PutOpt(o) == <<Len(o)>> \o PutStr(IF o = <<>> THEN <<>> ELSE o[1])

PutField(kind, x) ==
    CASE kind = "str" -> PutStr(x)
      [] kind = "time" -> ToLe(x, TimeBytes)
      [] kind = "flag" -> <<IF x THEN 1 ELSE 0>>
      [] kind = "opt" -> PutOpt(x)

\* What is left to read, and the fields read; `ok` is lost for good at the first `?` that fails.
Refused == [ok |-> FALSE, got |-> <<>>, rest |-> <<>>]
Took(c, x, n) == [ok |-> TRUE, got |-> Append(c.got, x), rest |-> SubSeq(c.rest, n + 1, Len(c.rest))]

TakeFlag(c) == IF c.ok /\ c.rest # <<>> THEN Took(c, c.rest[1] # 0, 1) ELSE Refused
TakeTime(c) ==
    IF c.ok /\ Len(c.rest) >= TimeBytes THEN Took(c, FromLe(SubSeq(c.rest, 1, TimeBytes)), TimeBytes) ELSE Refused
TakeStr(c) ==
    IF ~c.ok \/ Len(c.rest) < LenBytes THEN Refused
    ELSE LET end == LenBytes + FromLe(SubSeq(c.rest, 1, LenBytes))
             s   == SubSeq(c.rest, LenBytes + 1, end)
         IN  IF end > Len(c.rest) \/ (\E i \in DOMAIN s : s[i] \in NotText) THEN Refused ELSE Took(c, s, end)
TakeOpt(c) ==
    LET both == TakeStr(TakeFlag(c))
        n    == Len(both.got)
        o    == IF both.got[n - 1] THEN <<both.got[n]>> ELSE <<>>
    IN  IF both.ok THEN [both EXCEPT !.got = Append(SubSeq(@, 1, n - 2), o)] ELSE Refused

TakeField(c, kind) ==
    CASE kind = "str" -> TakeStr(c)
      [] kind = "time" -> TakeTime(c)
      [] kind = "flag" -> TakeFlag(c)
      [] kind = "opt" -> TakeOpt(c)

Encode(format, fields) == FlattenSeq([i \in DOMAIN format |-> PutField(format[i], fields[i])])
Decode(format, b) ==
    LET read[n \in 0 .. Len(format)] ==
          IF n = 0 THEN [ok |-> TRUE, got |-> <<>>, rest |-> b] ELSE TakeField(read[n - 1], format[n])
    IN  read[Len(format)]

-----------------------------------------------------------------------------
(* The records.  A session record begins with its tag, a visitor has none, *)
(* a ban is a tag and the rest of the record.                              *)
InsertFormat == <<"str", "str", "time", "time", "str">>
EncodeInsert(e) == <<1>> \o Encode(InsertFormat, <<e.id, e.user, e.created, e.last, e.meta>>)
EncodeTouch(id, at) == <<2>> \o Encode(<<"str", "time">>, <<id, at>>)
EncodeRemove(id) == <<3>> \o PutStr(id)
EncodeRemoveUser(user) == <<4>> \o PutStr(user)

\* An address that is not known is written as the empty string.
VisitorFormat == <<"str", "flag", "str", "opt", "str", "str", "time">>
EncodeVisitor(v) ==
    Encode(VisitorFormat,
           <<v.id, v.authenticated, IF v.ip = <<>> THEN <<>> ELSE v.ip[1], v.agent, v.path, v.method, v.last>>)
DecodeVisitor(got) ==
    [id |-> got[1], authenticated |-> got[2], ip |-> IF got[3] = <<>> THEN <<>> ELSE <<got[3]>>,
     agent |-> got[4], path |-> got[5], method |-> got[6], last |-> got[7]]

EncodeBan(rule, add) == <<2 * rule.kind - (IF add THEN 1 ELSE 0)>> \o rule.text

\* view_record, insert_record and encode_visitor for a snapshot.
Record(e) ==
    CASE family = "sessions" -> EncodeInsert(e)
      [] family = "visitors" -> EncodeVisitor(e)
      [] family = "bans" -> EncodeBan(e.id, TRUE)

SnapshotBytes(order) == FlattenSeq([i \in DOMAIN order |-> PutStr(Record(order[i]))])

\* framed: the records of a snapshot, up to one that does not fit.
Framed[blob \in Seq(Nat)] ==
    IF Len(blob) < LenBytes THEN <<>>
    ELSE LET end == LenBytes + FromLe(SubSeq(blob, 1, LenBytes))
         IN  IF end > Len(blob) THEN <<>>
             ELSE <<SubSeq(blob, LenBytes + 1, end)>> \o Framed[SubSeq(blob, end + 1, Len(blob))]

-----------------------------------------------------------------------------
(* The registries in memory, and replay into them.                         *)
Less(r, id) == {e \in r : e.id # id}
Plus(r, e) == Less(r, e.id) \union {e}
Touched(r, id, at) == {IF e.id = id THEN [e EXCEPT !.last = at] ELSE e : e \in r}
LessUser(r, user) == {e \in r : e.user # user}
Rule(kind, text) == [id |-> [kind |-> kind, text |-> text]]

SessionFormat(tag) == IF tag = 1 THEN InsertFormat ELSE IF tag = 2 THEN <<"str", "time">> ELSE <<"str">>

ApplySession(r, tag, got) ==
    CASE tag = 1 -> Plus(r, [id |-> got[1], user |-> got[2], created |-> got[3], last |-> got[4], meta |-> got[5]])
      [] tag = 2 -> Touched(r, got[1], got[2])
      [] tag = 3 -> Less(r, got[1])
      [] tag = 4 -> LessUser(r, got[1])

ApplyBan(r, tag, text) ==
    LET rule == Rule((tag + 1) \div 2, text) IN IF tag % 2 = 1 THEN Plus(r, rule) ELSE Less(r, rule.id)

\* A record that does not decode changes nothing.
Apply(r, rec) ==
    LET tagged == family # "visitors"
        d == Decode(IF tagged THEN SessionFormat(rec[1]) ELSE VisitorFormat, IF tagged THEN Tail(rec) ELSE rec)
    IN  IF (tagged /\ rec = <<>>) \/ (family # "bans" /\ ~d.ok) THEN r
        ELSE CASE family = "bans" -> ApplyBan(r, rec[1], Tail(rec))
               [] family = "visitors" -> Plus(r, DecodeVisitor(d.got))
               [] family = "sessions" -> ApplySession(r, rec[1], d.got)

\* The snapshot's records, then the log's, in order.
Replay(snap, records) ==
    LET all == (IF snap = <<>> THEN <<>> ELSE Framed[snap[1]]) \o records
        done[n \in 0 .. Len(all)] == IF n = 0 THEN {} ELSE Apply(done[n - 1], all[n])
    IN  done[Len(all)]

-----------------------------------------------------------------------------
RecordsInit ==
    /\ family \in {"sessions", "visitors", "bans"}
    /\ held = {} /\ log = <<>> /\ snapshot = <<>> /\ since = 0
    /\ unlogged = {} /\ pruned = 0 /\ writes = 0 /\ restarts = 0

Ids(r) == {e.id : e \in r}
Changed(r) == Ids((held \ r) \union (r \ held))

\* Memory first, then the log, and after every CheckpointEvery records the snapshot.  An append
\* that fails leaves the change in memory; a failed checkpoint leaves the log as it is.
Logged(rec, r) ==
    /\ writes < MaxRecordWrites /\ writes' = writes + 1
    /\ held' = r
    /\ \/ /\ unlogged' = unlogged \union Changed(r) /\ UNCHANGED <<log, snapshot, since>>
       \/ /\ since + 1 < CheckpointEvery
          /\ log' = Append(log, rec) /\ since' = since + 1
          /\ UNCHANGED <<snapshot, unlogged>>
       \/ /\ since + 1 >= CheckpointEvery /\ since' = 0
          /\ \/ /\ \E order \in SetToSeqs(r) : snapshot' = <<SnapshotBytes(order)>>
                /\ log' = <<>> /\ unlogged' = {}
             \/ log' = Append(log, rec) /\ UNCHANGED <<snapshot, unlogged>>
    /\ UNCHANGED <<family, pruned, restarts>>

InsertSession(id, user, at) ==
    LET e == [id |-> id, user |-> user, created |-> at, last |-> at, meta |-> <<>>]
    IN  family = "sessions" /\ Logged(EncodeInsert(e), Plus(held, e))
TouchSession(id, at) == family = "sessions" /\ Logged(EncodeTouch(id, at), Touched(held, id, at))
RemoveSession(id) == family = "sessions" /\ Logged(EncodeRemove(id), Less(held, id))
RemoveUser(user) == family = "sessions" /\ Logged(EncodeRemoveUser(user), LessUser(held, user))

RecordVisitor(v) == family = "visitors" /\ Logged(EncodeVisitor(v), Plus(held, v))

\* active() prunes the map in memory only.
PruneVisitors(at) ==
    /\ family = "visitors" /\ at > pruned /\ pruned' = at
    /\ held' = {v \in held : v.last >= at}
    /\ UNCHANGED <<family, log, snapshot, since, unlogged, writes, restarts>>

\* A rule of one of five kinds, whose tags are 2 * kind - 1 and 2 * kind; two kinds stand for
\* the five below.
BanRule(kind, text, add) ==
    /\ family = "bans"
    /\ Logged(EncodeBan([kind |-> kind, text |-> text], add),
              IF add THEN Plus(held, Rule(kind, text)) ELSE Less(held, [kind |-> kind, text |-> text]))

\* The process ends and open() replays what the files hold.
RestartRecords ==
    /\ restarts < MaxRestarts /\ restarts' = restarts + 1
    /\ held' = Replay(snapshot, log) /\ since' = 0 /\ unlogged' = {} /\ pruned' = 0
    /\ UNCHANGED <<family, log, snapshot, writes>>

RecordsNext ==
    \/ \E id, user \in EntryTexts, at \in Stamps : InsertSession(id, user, at) \/ TouchSession(id, at)
    \/ \E id \in EntryTexts : RemoveSession(id) \/ RemoveUser(id)
    \/ \E v \in Seen : RecordVisitor(v)
    \/ \E at \in Stamps : PruneVisitors(at)
    \/ \E kind \in 1 .. 2, text \in EntryTexts, add \in BOOLEAN : BanRule(kind, text, add)
    \/ RestartRecords

-----------------------------------------------------------------------------
RecordsTypeOK ==
    /\ Cardinality(Ids(held)) = Cardinality(held)
    /\ \A i \in DOMAIN log : \A j \in DOMAIN log[i] : log[i][j] \in 0 .. Radix - 1
    /\ since \in 0 .. CheckpointEvery - 1

\* "a restart replays the log onto the snapshot" (file_bans.rs): values and all, the registry
\* comes back as it was, but for the changes whose append failed and the visitors that only
\* memory had forgotten.
Recent(r) == {e \in r : e.id \notin unlogged /\ (family = "visitors" => e.last >= pruned)}
RestartRebuilds == Recent(Replay(snapshot, log)) = Recent(held)

\* A session or visitor record cut short is never taken for another one, and a snapshot cut
\* anywhere gives the records before the cut.
CutsRefused ==
    /\ family # "bans" =>
         \A i \in DOMAIN log : \A n \in 0 .. Len(log[i]) - 1 : Apply(held, SubSeq(log[i], 1, n)) = held
    /\ snapshot # <<>> =>
         \A n \in 0 .. Len(snapshot[1]) :
            IsPrefix(Framed[SubSeq(snapshot[1], 1, n)], Framed[snapshot[1]])

RecordsHold == RestartRebuilds /\ CutsRefused
=============================================================================
