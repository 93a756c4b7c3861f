----------------------------- MODULE Repository -----------------------------
(***************************************************************************)
(* Repository<T> on its three backends, with concurrent callers: memory    *)
(* (crates/kernway-orm-memory/src/lib.rs), SQLite                          *)
(* (kernway-orm-sqlite/src/repository.rs), with a key the database assigns *)
(* ("auto") or the caller does ("key"), and Meilisearch                    *)
(* (kernway-orm-meilisearch/src/repository.rs and api.rs), whose writes    *)
(* are tasks that the server performs later.                               *)
(*                                                                         *)
(* A step is one critical section, statement or request.  Each call keeps  *)
(* what the table held while it ran, for the properties.                   *)
(***************************************************************************)
EXTENDS Naturals, Sequences, FiniteSets
LOCAL INSTANCE SequencesExt
LOCAL INSTANCE FiniteSetsExt

CONSTANTS RepoCallers, EntityIds, Vals,
          PageLimit,     \* PAGE of find_all
          MaxPolls,      \* of wait_for_task
          MaxRepoCalls   \* bound on the calls made

VARIABLES backend,   \* "memory", "auto", "key" or "meili"
          table,     \* <<id, value>> pairs, one for an id
          nextId,    \* next_id, and SQLite's sqlite_sequence
          hasIndex,  \* Meilisearch: the index exists
          tasks,     \* Meilisearch: tasks in order, [kind, id, val, status]
          call,      \* each caller's call
          repoCalls, \* calls so far
          taken      \* ids given to new entities, and whether one was given twice

repoVars == <<backend, table, nextId, hasIndex, tasks, call, repoCalls, taken>>

IdsOf(t) == {r[1] : r \in t}

\* Variant for the mutation runs: a row is added beside the one that has its id.
UpsertBeside(t, id, v) == t \union {<<id, v>>}

Upsert(t, id, v) == {r \in t : r[1] # id} \union {<<id, v>>}
Drop(t, id) == {r \in t : r[1] # id}
Resting == [at |-> "idle", op |-> "none", id |-> 0, val |-> 0, new |-> FALSE, task |-> 0, polls |-> 0, rows |-> {},
            offset |-> 0, seen |-> {}, kept |-> {}, missing |-> {}, shrunk |-> FALSE, ok |-> FALSE, result |-> {}]

\* A database may hold rows from before.
RepoInit ==
    /\ backend \in {"memory", "auto", "key", "meili"}
    /\ \E old \in IF backend = "memory" THEN {{}} ELSE SUBSET EntityIds :
          /\ table = {<<i, CHOOSE v \in Vals : TRUE>> : i \in old} /\ taken = [ids |-> old, twice |-> FALSE] /\ hasIndex = (old # {})
          /\ nextId = IF backend = "auto" THEN Max({0} \union old) ELSE 0
    /\ tasks = <<>> /\ repoCalls = 0
    /\ call = [c \in RepoCallers |-> Resting]

-----------------------------------------------------------------------------
\* What the table held while the call ran.
Note(k, t) == IF k.at = "idle" THEN k
              ELSE [k EXCEPT !.seen = @ \union t, !.kept = @ \intersect IdsOf(t), !.missing = @ \union (EntityIds \ IdsOf(t)),
                             !.shrunk = @ \/ ~(IdsOf(table) \subseteq IdsOf(t))]

\* A step of c that leaves the table as t.
Does(c, k, t) == /\ table' = t
                 /\ call' = [x \in RepoCallers |-> Note(IF x = c THEN k ELSE call[x], t)]
Steps(c, k) == call' = [call EXCEPT ![c] = k] /\ UNCHANGED table
Ok(k, result) == [k EXCEPT !.at = "done", !.ok = TRUE, !.result = result]
Err(k) == [k EXCEPT !.at = "done", !.ok = FALSE]
Give(id) == taken' = [ids |-> taken.ids \union {id}, twice |-> taken.twice \/ id \in taken.ids]

StartCall(c, op, id, v) ==
    /\ call[c].at = "idle" /\ repoCalls < MaxRepoCalls /\ repoCalls' = repoCalls + 1
    /\ op = "save" => (backend \in {"key", "meili"} => id # 0)
    /\ op \in {"find", "delete"} => id # 0
    /\ call' = [call EXCEPT ![c] = [Resting EXCEPT !.at = "start", !.op = op, !.id = id, !.val = v, !.new = (id = 0), !.seen = table,
                                                   !.kept = IdsOf(table), !.missing = EntityIds \ IdsOf(table)]]
    /\ UNCHANGED <<backend, table, nextId, hasIndex, tasks, taken>>

EndCall(c) ==
    /\ call[c].at = "done" /\ call' = [call EXCEPT ![c] = Resting]
    /\ UNCHANGED <<backend, table, nextId, hasIndex, tasks, repoCalls, taken>>

-----------------------------------------------------------------------------
(* Memory.                                                                  *)

\* maybe_assign_id: the counter moves before the lock is taken.
AssignId(c) ==
    /\ backend = "memory" /\ call[c].at = "start" /\ call[c].op = "save" /\ call[c].id = 0
    /\ nextId + 1 \in EntityIds
    /\ nextId' = nextId + 1 /\ Steps(c, [call[c] EXCEPT !.id = nextId + 1]) /\ Give(nextId + 1)
    /\ UNCHANGED <<backend, hasIndex, tasks, repoCalls>>

MemorySave(c) ==
    LET k == call[c] IN
    /\ backend = "memory" /\ k.at = "start" /\ k.op = "save" /\ k.id # 0
    /\ Does(c, Ok(k, {<<k.id, k.val>>}), Upsert(table, k.id, k.val))
    /\ UNCHANGED <<backend, nextId, hasIndex, tasks, repoCalls, taken>>

\* One lock, or one statement: find_by_id, find_all and delete_by_id of memory and SQLite.
ReadOrDelete(c) ==
    LET k == call[c] IN
    /\ backend # "meili" /\ k.at = "start" /\ k.op # "save"
    /\ \/ k.op = "find" /\ Steps(c, Ok(k, {r \in table : r[1] = k.id}))
       \/ k.op = "find_all" /\ Steps(c, Ok(k, table))
       \/ k.op = "delete" /\ Does(c, Ok(k, {}), Drop(table, k.id))
    /\ UNCHANGED <<backend, nextId, hasIndex, tasks, repoCalls, taken>>

-----------------------------------------------------------------------------
(* SQLite.                                                                  *)

\* save_sync: a new entity is inserted; one with an id is updated where the database assigns
\* ids, and otherwise looked up first.
SqlDecide(c) ==
    LET k == call[c] IN
    /\ backend \in {"auto", "key"} /\ k.at = "start" /\ k.op = "save"
    /\ Steps(c, [k EXCEPT !.at = IF backend = "auto" THEN (IF k.id = 0 THEN "insert" ELSE "update")
                                 ELSE IF k.id \in IdsOf(table) THEN "update" ELSE "insert"])
    /\ UNCHANGED <<backend, nextId, hasIndex, tasks, repoCalls, taken>>

\* AUTOINCREMENT: an id is never used again.
SqlNewId == Max({nextId} \union IdsOf(table)) + 1

\* do_insert: the row is read back under a second lock.
SqlInsert(c) ==
    LET k == call[c] IN
    /\ k.at = "insert"
    /\ \/ /\ backend = "auto" /\ SqlNewId \in EntityIds /\ nextId' = SqlNewId /\ Give(SqlNewId)
          /\ Does(c, [k EXCEPT !.at = "select", !.id = SqlNewId], Upsert(table, SqlNewId, k.val))
       \/ /\ backend = "key" /\ UNCHANGED <<nextId, taken>>
          /\ IF k.id \in IdsOf(table) THEN Steps(c, Err(k))
             ELSE Does(c, Ok(k, {<<k.id, k.val>>}), Upsert(table, k.id, k.val))
    /\ UNCHANGED <<backend, hasIndex, tasks, repoCalls>>

SqlSelect(c) ==
    LET k == call[c]  rows1 == {r \in table : r[1] = k.id} IN
    /\ k.at = "select"
    /\ Steps(c, IF rows1 = {} THEN Err(k) ELSE Ok(k, rows1))
    /\ UNCHANGED <<backend, nextId, hasIndex, tasks, repoCalls, taken>>

\* do_update answers with the entity however many rows the UPDATE matched.
SqlUpdate(c) ==
    LET k == call[c] IN
    /\ k.at = "update"
    /\ Does(c, Ok(k, {<<k.id, k.val>>}), IF k.id \in IdsOf(table) THEN Upsert(table, k.id, k.val) ELSE table)
    /\ UNCHANGED <<backend, nextId, hasIndex, tasks, repoCalls, taken>>

-----------------------------------------------------------------------------
(* Meilisearch.                                                             *)

Enqueue(c, k, task) ==
    /\ tasks' = Append(tasks, task) /\ Steps(c, [k EXCEPT !.task = Len(tasks) + 1, !.polls = 0])

\* ensure_index, then the documents are posted; a delete posts at once.
MeiliPost(c) ==
    LET k == call[c] IN
    /\ backend = "meili" /\ k.op \in {"save", "delete"} /\ k.at \in {"start", "post"}
    /\ IF k.op = "save" /\ ~hasIndex /\ k.at = "start"
       THEN Enqueue(c, [k EXCEPT !.at = "waitIndex"], [kind |-> "create", id |-> 0, val |-> 0, status |-> "enqueued"])
       ELSE Enqueue(c, [k EXCEPT !.at = "wait"], [kind |-> k.op, id |-> k.id, val |-> k.val, status |-> "enqueued"])
    /\ UNCHANGED <<backend, nextId, hasIndex, repoCalls, taken>>

\* wait_for_task: the call gives up after MaxPolls, the task does not; that another caller
\* created the index first is no failure.
MeiliPoll(c) ==
    LET k == call[c]  status == tasks[k.task].status IN
    /\ k.at \in {"wait", "waitIndex"}
    /\ Steps(c, CASE status = "succeeded" /\ k.at = "wait" /\ k.op = "delete" -> Ok(k, {})
                  [] status = "succeeded" /\ k.at = "wait" /\ k.op = "save" -> [k EXCEPT !.at = "get"]
                  [] status \in {"succeeded", "failed"} /\ k.at = "waitIndex" -> [k EXCEPT !.at = "post"]
                  [] status = "failed" /\ k.at = "wait" -> Err(k)
                  [] OTHER -> IF k.polls < MaxPolls THEN [k EXCEPT !.polls = @ + 1] ELSE Err(k))
    /\ UNCHANGED <<backend, nextId, hasIndex, tasks, repoCalls, taken>>

\* get_optional of the document, at the end of save and in find_by_id.
MeiliGet(c) ==
    LET k == call[c]  rows1 == {r \in table : r[1] = k.id} IN
    /\ backend = "meili" /\ (k.at = "get" \/ (k.at = "start" /\ k.op = "find"))
    /\ Steps(c, IF k.op = "save" /\ rows1 = {} THEN Err(k) ELSE Ok(k, rows1))
    /\ UNCHANGED <<backend, nextId, hasIndex, tasks, repoCalls, taken>>

\* find_all asks for page after page by offset.
MeiliPage(c) ==
    LET k == call[c]
        docs == SetToSortSeq(table, LAMBDA a, b : a[1] < b[1])
        got == ToSet(SubSeq(docs, k.offset + 1, IF k.offset + PageLimit < Len(docs) THEN k.offset + PageLimit ELSE Len(docs)))
        next == [k EXCEPT !.rows = @ \union got, !.offset = @ + Cardinality(got)] IN
    /\ backend = "meili" /\ k.at = "start" /\ k.op = "find_all"
    /\ Steps(c, IF Cardinality(got) < PageLimit \/ next.offset >= Len(docs) THEN Ok(next, next.rows) ELSE next)
    /\ UNCHANGED <<backend, nextId, hasIndex, tasks, repoCalls, taken>>

\* The server takes the next task.
RunTask ==
    LET waiting == {i \in DOMAIN tasks : tasks[i].status = "enqueued"}
        i == Min(waiting)
        t == tasks[i]
        fails == (t.kind = "create") = hasIndex IN
    /\ backend = "meili" /\ waiting # {}
    /\ tasks' = [tasks EXCEPT ![i].status = IF fails THEN "failed" ELSE "succeeded"]
    /\ hasIndex' = (hasIndex \/ t.kind = "create")
    /\ LET after == CASE fails \/ t.kind = "create" -> table
                      [] ~fails /\ t.kind = "save" -> Upsert(table, t.id, t.val)
                      [] OTHER -> Drop(table, t.id) IN
       table' = after /\ call' = [x \in RepoCallers |-> Note(call[x], after)]
    /\ UNCHANGED <<backend, nextId, repoCalls, taken>>

RepoNext ==
    \/ \E c \in RepoCallers :
          \/ \E id \in EntityIds \union {0}, v \in Vals : StartCall(c, "save", id, v)
          \/ \E id \in EntityIds, op \in {"find", "delete"} : StartCall(c, op, id, 0)
          \/ StartCall(c, "find_all", 0, 0)
          \/ AssignId(c) \/ MemorySave(c) \/ ReadOrDelete(c)
          \/ SqlDecide(c) \/ SqlInsert(c) \/ SqlSelect(c) \/ SqlUpdate(c)
          \/ MeiliPost(c) \/ MeiliPoll(c) \/ MeiliGet(c) \/ MeiliPage(c) \/ EndCall(c)
    \/ RunTask

-----------------------------------------------------------------------------
RepoTypeOK == /\ table \subseteq EntityIds \X Vals /\ \A r, s \in table : r[1] = s[1] => r = s
              /\ \A c \in RepoCallers : call[c].id \in EntityIds \union {0}

Succeeded(c, op) == call[c].at = "done" /\ call[c].ok /\ call[c].op = op
BlindUpdate(c) == backend \in {"auto", "key"} /\ ~call[c].new /\ call[c].id \in call[c].missing

\* What a call says is so while it runs: a saved row was in the table (unless SQLite updated a
\* row that was not there, or no longer), a deleted one was out of it, find_all has every row that stayed
\* (unless Meilisearch lost one from under its pages), and no two new entities share an id.
RepositoryHolds ==
    /\ ~taken.twice
    /\ \A c \in RepoCallers :
          /\ Succeeded(c, "save") /\ ~BlindUpdate(c) => call[c].result \subseteq call[c].seen
          /\ Succeeded(c, "delete") => call[c].id \in call[c].missing
          /\ Succeeded(c, "find_all") /\ ~(backend = "meili" /\ call[c].shrunk) => call[c].kept \subseteq IdsOf(call[c].result)

=============================================================================
