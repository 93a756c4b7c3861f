------------------------------- MODULE Query -------------------------------
(***************************************************************************)
(* The query builder of the ORM in memory                                  *)
(* (crates/kernway-orm-memory/src/lib.rs) and on SQLite                    *)
(* (kernway-orm-sqlite/src/query.rs), over the predicate trees of          *)
(* kernway-orm-core/src/spec.rs.                                           *)
(*                                                                         *)
(* One query is built call by call; both builders take the same calls and  *)
(* the terminal operations are evaluated on what they hold.  A value is    *)
(* [kind, text]; the constants give the order of the texts and the numbers *)
(* some of them spell.                                                     *)
(***************************************************************************)
EXTENDS Integers, Sequences, FiniteSets
LOCAL INSTANCE SequencesExt
LOCAL INSTANCE Functions

CONSTANTS Texts,       \* the texts in use, in lexicographic order
          NumberOf,    \* text -> number, for the texts that parse as one
          Columns,     \* column -> "Integer" or "Text"
          Tables,      \* contents the table may have: sets of rows
          Operands,    \* texts a caller filters by
          Upper,       \* the second operand of between and in
          SpecOps,     \* operators tried in two-leaf trees
          Sizes,       \* page sizes
          MaxBuild     \* bound on the builder's calls

VARIABLES rows,    \* the stored rows: column -> value, "id" among the columns
          built,   \* the builder's fields: filters, spec, order, lim, off
          failed   \* SqliteQueryBuilder.error: an unknown field was named

queryVars == <<rows, built, failed>>

NoLimit == 99
Null == [kind |-> "null", text |-> ""]
IsNum(t) == t \in DOMAIN NumberOf
Rank(t) == CHOOSE i \in DOMAIN Texts : Texts[i] = t
Sign(a, b) == IF a < b THEN -1 ELSE IF a > b THEN 1 ELSE 0
LexCmp(a, b) == Sign(Rank(a), Rank(b))
NumCmp(a, b) == Sign(NumberOf[a], NumberOf[b])

Ops == {"eq", "ne", "gt", "lt", "gte", "lte"}
Holds(op, c) ==
    CASE op = "eq" -> c = 0 [] op = "ne" -> c # 0 [] op = "gt" -> c = 1
      [] op = "lt" -> c = -1 [] op = "gte" -> c \in {0, 1} [] op = "lte" -> c \in {-1, 0}

-----------------------------------------------------------------------------
(* The builder.                                                             *)

Leaf(op, f, v) == [op |-> op, field |-> f, v |-> v]
Leaves == {Leaf(op, f, v) : op \in Ops \union {"in", "between"}, f \in DOMAIN Columns, v \in Operands}
            \union {Leaf(op, f, "") : op \in {"null", "notnull"}, f \in DOMAIN Columns}

SpecLeaves == {l \in Leaves : l.op \in SpecOps}

QueryInit ==
    /\ rows \in Tables /\ failed = FALSE
    /\ built = [filters |-> <<>>, spec |-> <<>>, order |-> <<>>, lim |-> NoLimit, off |-> 0, calls |-> 0]

Build(b) ==
    /\ built.calls < MaxBuild
    /\ built' = [b EXCEPT !.calls = @ + 1]
    /\ UNCHANGED <<rows, failed>>

FilterBy(l) == Build([built EXCEPT !.filters = Append(@, l)])

\* filter_spec keeps the last tree it is given: a leaf, its negation, or two leaves joined.
FilterSpec(s) == Build([built EXCEPT !.spec = <<s>>])

OrderBy(f, dir) == Build([built EXCEPT !.order = Append(@, [field |-> f, dir |-> dir])])
Limit(n) == Build([built EXCEPT !.lim = n])
Offset(n) == Build([built EXCEPT !.off = n])

\* resolve_col: SQLite remembers the first unknown field and reports it at the end.
NameUnknown ==
    /\ built.calls < MaxBuild /\ ~failed
    /\ failed' = TRUE /\ built' = [built EXCEPT !.calls = @ + 1]
    /\ UNCHANGED rows

-----------------------------------------------------------------------------
(* Memory: matches_filters and Spec::matches.                               *)

\* Variant for the mutation runs: a number is compared as the text it is stored as.
MemoryCmpAsText(x, q) == LexCmp(x.text, q)

\* cmp_field_to_query: numbers by magnitude when the operand is one, everything else as text.
MemoryCmp(x, q) == IF x.kind = "num" /\ IsNum(q) THEN NumCmp(x.text, q) ELSE LexCmp(x.text, q)

\* Equality goes by the text, order by cmp_field_to_query; a null satisfies only IsNull.
MemoryFilter(r, l) ==
    LET x == r[l.field] IN
    CASE l.op = "null" -> x = Null
      [] l.op = "notnull" -> x # Null
      [] l.op \in {"eq", "ne"} -> x # Null /\ Holds(l.op, LexCmp(x.text, l.v))
      [] l.op = "in" -> x # Null /\ (MemoryCmp(x, l.v) = 0 \/ MemoryCmp(x, Upper) = 0)
      [] l.op = "between" -> x # Null /\ MemoryCmp(x, l.v) >= 0 /\ MemoryCmp(x, Upper) <= 0
      [] OTHER -> x # Null /\ Holds(l.op, MemoryCmp(x, l.v))

\* Spec: cmp is numeric whenever both sides parse, whatever the column; empty counts as null.
SpecLeaf(r, l) ==
    LET x == r[l.field]
        cmp(q) == IF IsNum(x.text) /\ IsNum(q) THEN NumCmp(x.text, q) ELSE LexCmp(x.text, q) IN
    CASE l.op = "null" -> x = Null \/ x.text = ""
      [] l.op = "notnull" -> x # Null /\ x.text # ""
      [] l.op = "in" -> x # Null /\ (cmp(l.v) = 0 \/ cmp(Upper) = 0)
      [] l.op = "between" -> x # Null /\ cmp(l.v) >= 0 /\ cmp(Upper) <= 0
      [] OTHER -> x # Null /\ Holds(l.op, cmp(l.v))

MemorySpec(r, s) ==
    CASE s.op = "not" -> ~SpecLeaf(r, s.a)
      [] s.op = "and" -> SpecLeaf(r, s.a) /\ SpecLeaf(r, s.b)
      [] s.op = "or" -> SpecLeaf(r, s.a) \/ SpecLeaf(r, s.b)

MemoryMatches(r) ==
    /\ ~failed /\ \A l \in Range(built.filters) : MemoryFilter(r, l)
    /\ \A s \in Range(built.spec) : MemorySpec(r, s)

\* compare_entities by the last order given: a null before everything.
Before(r, s, o) ==
    LET x == r[o.field]  y == s[o.field]
        c == CASE x = Null /\ y = Null -> 0 [] x = Null /\ y # Null -> -1 [] x # Null /\ y = Null -> 1
               [] OTHER -> IF x.kind = "num" THEN NumCmp(x.text, y.text) ELSE LexCmp(x.text, y.text) IN
    IF o.dir = "asc" THEN c = -1 ELSE c = 1

\* The results a sort by these orders in turn may give: ties in any order.
Sorted(set, orders) ==
    {q \in SetToSeqs(set) :
       \A i, j \in DOMAIN q : i < j =>
          ~\E k \in DOMAIN orders : /\ Before(q[j], q[i], orders[k])
                                    /\ \A m \in 1 .. k - 1 : ~Before(q[i], q[j], orders[m])}

MemoryItems == Sorted({r \in rows : MemoryMatches(r)}, IF built.order = <<>> THEN <<>> ELSE <<Last(built.order)>>)

-----------------------------------------------------------------------------
(* SQLite: build_where_clause and spec_to_sql, in SQL's three values.       *)

\* filter_value_for_field: an operand that does not parse stays text, which sorts after numbers.
SqlCmp(f, x, q) == IF Columns[f] = "Integer" THEN (IF IsNum(q) THEN NumCmp(x.text, q) ELSE -1) ELSE LexCmp(x.text, q)

SqlLeaf(r, l) ==
    LET x == r[l.field]
        cmp(q) == SqlCmp(l.field, x, q)
        truth(p) == IF p THEN "true" ELSE "false" IN
    CASE l.op = "null" -> truth(x = Null)
      [] l.op = "notnull" -> truth(x # Null)
      [] l.op \notin {"null", "notnull"} /\ x = Null -> "unknown"
      [] l.op = "in" /\ x # Null -> truth(cmp(l.v) = 0 \/ cmp(Upper) = 0)
      [] l.op = "between" /\ x # Null -> truth(cmp(l.v) >= 0 /\ cmp(Upper) <= 0)
      [] OTHER -> truth(Holds(l.op, cmp(l.v)))

SqlSpec(r, s) ==
    LET a == SqlLeaf(r, s.a)  b == SqlLeaf(r, s.b) IN
    CASE s.op = "not" -> (a = "false")
      [] s.op = "and" -> a = "true" /\ b = "true"
      [] s.op = "or" -> a = "true" \/ b = "true"

SqlMatches(r) ==
    /\ \A l \in Range(built.filters) : SqlLeaf(r, l) = "true"
    /\ \A s \in Range(built.spec) : SqlSpec(r, s)

SqlItems == Sorted({r \in rows : SqlMatches(r)}, built.order)

-----------------------------------------------------------------------------
(* The terminal operations: what each backend may return.                   *)

\* apply_window, and LIMIT and OFFSET.
Window(q, off, lim) == SubSeq(q, off + 1, IF off + lim < Len(q) THEN off + lim ELSE Len(q))

FetchAll(items) == {Window(q, built.off, built.lim) : q \in items}

\* build_select_query: an unknown field is an error, and so is an OFFSET without a LIMIT,
\* which SQLite does not parse.
SqlFetchAll == IF failed \/ (built.off > 0 /\ built.lim = NoLimit) THEN {"error"} ELSE FetchAll(SqlItems)

\* fetch_one: the limit becomes one.
FetchOne(items) == {Window(q, built.off, 1) : q \in items}
FetchCount(items) == {Len(q) : q \in items}

\* Page::new
TotalPages(total, size) == IF size = 0 THEN 0 ELSE (total + size - 1) \div size

\* fetch_page: its own window replaces the builder's.
FetchPage(q, page, size) ==
    [items |-> IF size = 0 THEN <<>> ELSE Window(q, page * size, size), total |-> Len(q),
     pages |-> TotalPages(Len(q), size)]
HasNext(p, page) == page + 1 < p.pages

QueryNext ==
    \/ \E l \in Leaves : FilterBy(l)
    \/ \E l \in Leaves : FilterSpec([op |-> "not", a |-> l, b |-> l])
    \/ \E l, m \in SpecLeaves, op \in {"and", "or"} : l.field # m.field /\ FilterSpec([op |-> op, a |-> l, b |-> m])
    \/ \E f \in DOMAIN Columns, d \in {"asc", "desc"} : OrderBy(f, d)
    \/ \E n \in 0 .. 2 : Limit(n) \/ (n > 0 /\ Offset(n))
    \/ NameUnknown

-----------------------------------------------------------------------------
QueryTypeOK == /\ rows \in Tables /\ failed \in BOOLEAN /\ built.calls \in 0 .. MaxBuild /\ Len(built.spec) <= 1

\* The leaves in the query, and those whose operand has the type of its column.
Used == Range(built.filters) \union UNION {{s.a, s.b} : s \in Range(built.spec)}
Typed(l) == l.op \notin {"null", "notnull"} /\ Columns[l.field] = "Integer" => IsNum(l.v)
MayBeNull(l) == \E r \in rows : r[l.field] = Null \/ r[l.field].text = ""

\* A program tested on the memory backend gets the same rows in the same order from SQLite, as
\* long as it names no unknown field, operands have the type of their column, it orders once,
\* gives a limit with an offset, and its Spec meets neither nulls nor text that spells a number.
BackendsAgree ==
    /\ ~failed /\ (built.off > 0 => built.lim # NoLimit)
    /\ \A l \in Used : Typed(l)
    /\ Len(built.order) <= 1
    /\ \A s \in Range(built.spec) : \A l \in {s.a, s.b} : ~MayBeNull(l)
    /\ \A s \in Range(built.spec) : \A l \in {s.a, s.b}, r \in rows : ~(Columns[l.field] = "Text" /\ IsNum(r[l.field].text))
    => MemoryItems = SqlItems /\ FetchAll(MemoryItems) = SqlFetchAll /\ FetchOne(MemoryItems) = FetchOne(SqlItems)

\* The pages of any size, asked for while has_next says so, are the whole result, once each.
PagesCoverResult ==
    \A items \in {MemoryItems, SqlItems} : \A q \in items, size \in Sizes :
       LET page(n) == FetchPage(q, n, size)
           shown == {n \in 0 .. Len(q) : \A m \in 0 .. Len(q) : m < n => HasNext(page(m), m)} IN
       /\ FlattenSeq([i \in 1 .. Cardinality(shown) |-> page(i - 1).items]) = q
       /\ \A n \in shown : page(n).total \in FetchCount(items)
=============================================================================
