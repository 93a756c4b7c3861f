---------------------------- MODULE MeiliFilter ----------------------------
(***************************************************************************)
(* Queries on Meilisearch: the filter expression built from predicate      *)
(* trees and builder calls, and the search requests of the terminal        *)
(* operations (crates/kernway-orm-meilisearch/src/query.rs).               *)
(*                                                                         *)
(* A filter is a sequence of tokens; a value is written bare when it       *)
(* parses as a number and quoted otherwise.  The service, which is         *)
(* external, reads NOT before AND before OR.                               *)
(***************************************************************************)
EXTENDS Integers, Sequences, FiniteSets
LOCAL INSTANCE SequencesExt
LOCAL INSTANCE FiniteSetsExt

CONSTANTS MeiliFields, Values,  \* values are sequences of characters
          NumberValues,         \* those that parse as f64
          MaxCalls, MaxParts,   \* bounds on the calls, and on the nodes of all the trees
          MaxFound,               \* how many documents a filter selects
          PageSizes

VARIABLES calls,    \* the builder's calls, in order: [kind, tree] or [kind, field, n]
          draft     \* a predicate tree being put together

meiliVars == <<calls, draft>>

MeiliOps == {"=", "!=", ">", "<", ">=", "<=", "CONTAINS"}
NoDraft == <<>>
Omitted == -1
MeiliLeaf(op, f, vs) == [op |-> op, field |-> f, vs |-> vs, args |-> <<>>]
Joined(op, args) == [op |-> op, field |-> "", vs |-> <<>>, args |-> args]

-----------------------------------------------------------------------------
(* Writing.                                                                 *)

\* q and quote: a quote inside is escaped.
Quote(v) ==
    IF v \in NumberValues THEN v
    ELSE <<"open">> \o FlattenSeq([i \in DOMAIN v |-> IF v[i] = "quote" THEN <<"\\", "quote">> ELSE <<v[i]>>]) \o <<"close">>

QuoteAll(vs) == FlattenSeq([i \in DOMAIN vs |-> Quote(vs[i]) \o IF i < Len(vs) THEN <<",">> ELSE <<>>])

Group(tokens) == <<"(">> \o tokens \o <<")">>

RECURSIVE SpecToMeili(_)
\* spec_to_meili; push_eq and its kind write the same leaves.
SpecToMeili(t) ==
    CASE t.op \in MeiliOps -> <<t.field, t.op>> \o Quote(t.vs[1])
      [] t.op = "IN" -> <<t.field, "IN", "[">> \o QuoteAll(t.vs) \o <<"]">>
      [] t.op = "TO" -> <<t.field>> \o t.vs[1] \o <<"TO">> \o t.vs[2]
      [] t.op \in {"IS NULL", "IS NOT NULL"} -> <<t.field, t.op>>
      [] t.op \in {"AND", "OR"} -> Group(SpecToMeili(t.args[1]) \o <<t.op>> \o SpecToMeili(t.args[2]))
      [] t.op = "NOT" -> <<"NOT">> \o Group(SpecToMeili(t.args[1]))

Filters == SelectSeq(calls, LAMBDA c : c.kind = "filter")

\* build_filter: joined by AND, absent if there is none.
BuildFilter ==
    FlattenSeq([i \in DOMAIN Filters |-> (IF i > 1 THEN <<"AND">> ELSE <<>>) \o SpecToMeili(Filters[i].tree)])

-----------------------------------------------------------------------------
(* The search requests.                                                     *)

LastOf(kind, none) ==
    LET at == {i \in DOMAIN calls : calls[i].kind = kind} IN IF at = {} THEN none ELSE calls[Max(at)].n
Sort == SelectSeq(calls, LAMBDA c : c.kind = "sort")
Search(sort, limit, offset) == [q |-> LastOf("like", Omitted), filter |-> BuildFilter, sort |-> sort, limit |-> limit, offset |-> offset]

FetchAllRequest == Search(Sort, LastOf("limit", Omitted), IF LastOf("offset", 0) > 0 THEN LastOf("offset", 0) ELSE Omitted)
FetchOneRequest == Search(Sort, 1, Omitted)
FetchPageRequest(page, size) == Search(Sort, size, page * size)

\* The service: positions of the result list a request returns, 20 unless limited.
Hits(r) ==
    LET from == IF r.offset = Omitted THEN 0 ELSE r.offset
        most == IF r.limit = Omitted THEN 20 ELSE r.limit
    IN {i \in 1 .. MaxFound : i > from /\ i <= from + most}

-----------------------------------------------------------------------------

MeiliInit == calls = <<>> /\ draft = NoDraft

Call(c) == Len(calls) < MaxCalls /\ calls' = Append(calls, c)

RECURSIVE NodesIn(_)
NodesIn(t) == 1 + FoldLeft(LAMBDA n, u : n + NodesIn(u), 0, t.args)
Parts == FoldLeft(LAMBDA n, c : n + NodesIn(c.tree), 0, Filters) + FoldLeft(LAMBDA n, t : n + NodesIn(t), 0, draft)

\* A leaf is started, then wrapped or joined.
StartTree(t) == draft = NoDraft /\ Parts < MaxParts /\ draft' = <<t>> /\ UNCHANGED calls

GrowTree(op, t, first) ==
    /\ draft # NoDraft /\ Parts + (IF op = "NOT" THEN 1 ELSE 2) <= MaxParts
    /\ draft' = <<IF op = "NOT" THEN Joined(op, draft)
                  ELSE Joined(op, IF first THEN <<t>> \o draft ELSE draft \o <<t>>)>>
    /\ UNCHANGED calls

\* filter_spec, and every filter_ call with a leaf.
PushFilter ==
    /\ draft # NoDraft /\ Call([kind |-> "filter", tree |-> draft[1]]) /\ draft' = NoDraft

\* order_by, limit, offset; filter_like is the full-text query, not a filter.
OrderLimitOffset(kind, n) == Call([kind |-> kind, n |-> n]) /\ UNCHANGED draft

LeafTrees ==
    {MeiliLeaf("=", f, <<v>>) : f \in MeiliFields, v \in Values}
      \union {MeiliLeaf(op, f, <<v, v>>) : op \in {"IN", "TO"}, f \in MeiliFields, v \in NumberValues}
      \union {MeiliLeaf("IN", f, <<v>>) : f \in MeiliFields, v \in Values}
      \union {MeiliLeaf("IS NULL", f, <<>>) : f \in MeiliFields}

MeiliNext ==
    \/ \E t \in LeafTrees : StartTree(t)
    \/ \E op \in {"NOT", "AND", "OR"}, t \in LeafTrees, first \in BOOLEAN : GrowTree(op, t, first)
    \/ PushFilter
    \/ \E kind \in {"sort", "limit", "offset", "like"}, n \in 0 .. 1 : draft = NoDraft /\ OrderLimitOffset(kind, n)

-----------------------------------------------------------------------------
(* Properties.                                                              *)

MeiliTypeOK == Len(calls) <= MaxCalls /\ Len(draft) <= 1

\* The service's reading of a filter, for comparison: the trees the tokens
\* i .. j can stand for.  A quoted value ends at the first quote that is not
\* escaped.
QuoteEnd(s, i) ==
    LET ends == {k \in i + 1 .. Len(s) : s[k] = "close" \/ (s[k] = "quote" /\ s[k - 1] # "\\")}
    IN IF ends = {} THEN 0 ELSE Min(ends)
Unquoted(s) == SelectSeq(s, LAMBDA c : c # "\\")

\* Brackets and quotes still open before position k.
Within(s, i, k) ==
    /\ Cardinality({m \in i .. k - 1 : s[m] = "("}) = Cardinality({m \in i .. k - 1 : s[m] = ")"})
    /\ Cardinality({m \in i .. k - 1 : s[m] = "open"}) = Cardinality({m \in i .. k - 1 : s[m] = "close"})

RECURSIVE ReadFilter(_, _, _)
ReadFilter(s, i, j) ==
    LET splits(op) == {k \in i + 1 .. j - 1 : s[k] = op /\ Within(s, i, k)}
        cut(op) == Max(splits(op))
        both(op) == {Joined(op, <<l, r>>) : l \in ReadFilter(s, i, cut(op) - 1), r \in ReadFilter(s, cut(op) + 1, j)}
        rest == SubSeq(s, i + 2, j)
        value(v) == IF v # <<>> /\ v[1] = "open" THEN (IF QuoteEnd(v, 1) = Len(v) THEN {Unquoted(SubSeq(v, 2, Len(v) - 1))} ELSE {})
                    ELSE IF v \in NumberValues THEN {v} ELSE {}
        commas == {k \in i + 3 .. j - 1 : s[k] = "," /\ Within(s, i, k)}
    IN IF i > j THEN {}
       ELSE IF splits("OR") # {} THEN both("OR")
       ELSE IF splits("AND") # {} THEN both("AND")
       ELSE IF s[i] = "NOT" THEN {Joined("NOT", <<t>>) : t \in ReadFilter(s, i + 1, j)}
       ELSE IF s[i] = "(" THEN (IF s[j] = ")" THEN ReadFilter(s, i + 1, j - 1) ELSE {})
       ELSE IF s[i] \notin MeiliFields \/ i = j THEN {}
       ELSE IF s[i + 1] \in {"IS NULL", "IS NOT NULL"} THEN {MeiliLeaf(s[i + 1], s[i], <<>>)}
       ELSE IF s[i + 1] \in MeiliOps THEN {MeiliLeaf(s[i + 1], s[i], <<v>>) : v \in value(rest)}
       ELSE IF s[i + 1] = "IN"
            THEN (IF commas = {} THEN {MeiliLeaf("IN", s[i], <<v>>) : v \in value(SubSeq(s, i + 3, j - 1))}
                  ELSE {MeiliLeaf("IN", s[i], <<v, w>>) :
                          v \in value(SubSeq(s, i + 3, Min(commas) - 1)), w \in value(SubSeq(s, Min(commas) + 1, j - 1))})
       ELSE {MeiliLeaf("TO", s[i], <<SubSeq(s, i + 1, k - 1), SubSeq(s, k + 1, j)>>) : k \in {k \in i + 1 .. j : s[k] = "TO"}}

\* The filter the service reads is the conjunction of the filters the builder
\* was given, in order, each tree as it was built: no tree is regrouped by
\* NOT, AND and OR of its own or by the AND between the filters, and no value
\* is read beyond its quotes.
FilterReadBack ==
    Filters # <<>> =>
        LET want == FoldLeft(LAMBDA t, c : Joined("AND", <<t, c.tree>>), Filters[1].tree, Tail(Filters))
        IN ReadFilter(BuildFilter, 1, Len(BuildFilter)) = {want}

\* The pages of a query, taken together, are the whole result, each document on
\* one page, whatever limit or offset was set before; without an offset,
\* fetch_one gives the first of what fetch_all and the first page begin with.
MeiliPagesCover ==
    \A size \in PageSizes :
        LET page(n) == Hits(FetchPageRequest(n, size)) IN
        /\ UNION {page(n) : n \in 0 .. MaxFound} = 1 .. MaxFound
        /\ \A m, n \in 0 .. MaxFound : m # n => page(m) \intersect page(n) = {}
        /\ LastOf("offset", 0) = 0 /\ Hits(FetchAllRequest) # {} =>
              /\ Hits(FetchOneRequest) = {Min(Hits(FetchAllRequest))}
              /\ LastOf("limit", size) >= size => page(0) \subseteq Hits(FetchAllRequest)

MeiliHolds == FilterReadBack /\ MeiliPagesCover

=============================================================================
