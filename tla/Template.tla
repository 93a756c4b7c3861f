------------------------------ MODULE Template ------------------------------
(***************************************************************************)
(* Rendering of the template engine (crates/kernleaf/src/lib.rs): th:each, *)
(* th:authorize, th:if, th:unless, fragments by th:insert and th:replace,  *)
(* th:text and th:utext, inline expressions, dynamic attributes, and the   *)
(* CSRF field of state-changing forms.                                     *)
(*                                                                         *)
(* The DOM of a template is given as node ids into Nodes; what is rendered *)
(* is a sequence of pieces [path, what, esc, text], path being the nodes   *)
(* the piece was rendered through, fragments' hosts included.              *)
(***************************************************************************)
EXTENDS Expr
LOCAL INSTANCE SequencesExt
LOCAL INSTANCE Functions

CONSTANTS Nodes,      \* id |-> element, see Blank
          Sources,    \* template name |-> the sources (sequences of root ids) it may be given
          Elements,   \* variable |-> the items of the sequence it names
          Models,     \* variable |-> value
          Visitors,   \* sets of roles; {} is an anonymous visitor
          MaxFragmentDepth,
          MaxAdds

VARIABLES templates,  \* name |-> root ids, for the templates added
          page,       \* the last render
          adds

templateVars == <<templates, page, adds>>

Never == <<>>
NoExpr == Node("none", <<>>)
\* An element with nothing set.  Its expressions were parsed when the template
\* was added; a reference is <<template or "", fragment or "">>.
Blank == [tag |-> "div", each |-> Never, authorize |-> {}, iff |-> NoExpr, unless |-> NoExpr, insert |-> Never,
          replace |-> Never, fragment |-> "", text |-> NoExpr, utext |-> NoExpr, inline |-> NoExpr, raw |-> NoExpr,
          attr |-> NoExpr, mode |-> "", method |-> "", kids |-> <<>>]

-----------------------------------------------------------------------------
(* Expressions and fragments.                                               *)

ConditionHolds(e, env) == ToBool(Eval(e, env))
AllowedFor(who, n) == Nodes[n].authorize = {} \/ Nodes[n].authorize \intersect who # {}

\* resolve: the loop variables shadow the model.
Bound(scope, model) == [v \in DOMAIN scope \union DOMAIN model |-> IF v \in DOMAIN scope THEN scope[v] ELSE model[v]]

RECURSIVE FindFragment(_, _)
\* find_fragment, depth first; 0 if there is none.
FindFragment(ids, name) ==
    IF ids = <<>> THEN 0
    ELSE LET below == FindFragment(Nodes[Head(ids)].kids, name)
         IN IF Nodes[Head(ids)].fragment = name THEN Head(ids)
            ELSE IF below # 0 THEN below ELSE FindFragment(Tail(ids), name)

\* resolve_fragment: without a template name, the first template that has it,
\* in the order the map happens to give them.
ResolveFragment(ref, order) ==
    LET where == IF ref[1] = "" THEN order ELSE IF ref[1] \in DOMAIN templates THEN <<ref[1]>> ELSE <<>>
        hits == SelectSeq(where, LAMBDA t : FindFragment(templates[t], ref[2]) # 0)
    IN IF ref[2] = "" THEN (IF where = <<>> THEN <<>> ELSE templates[where[1]])
       ELSE IF hits = <<>> THEN <<>> ELSE <<FindFragment(templates[hits[1]], ref[2])>>

-----------------------------------------------------------------------------
(* Rendering.  r is the request: [model, who, csrf, order]; at is where:    *)
(* [path, scope, mode, depth].                                              *)

Piece(path, what, esc, text) == [path |-> path, what |-> what, esc |-> esc, text |-> text]
Done(out) == [ok |-> TRUE, out |-> out]
TooDeep == [ok |-> FALSE, out |-> <<>>]
\* One after the other, up to the first that fails.
Concatenated(parts) ==
    LET bad == {i \in DOMAIN parts : ~parts[i].ok}
    IN IF bad = {} THEN Done(FlattenSeq([i \in DOMAIN parts |-> parts[i].out])) ELSE TooDeep

StateChanging(n) == Nodes[n].method \notin {"", "get"}

RECURSIVE RenderNodes(_, _, _), RenderElement(_, _, _), RenderInstance(_, _, _)

RenderNodes(ids, r, at) == Concatenated([i \in DOMAIN ids |-> RenderElement(ids[i], r, at)])

\* render_element: th:each goes round everything else; what is no sequence has no items.
ItemsOf(e, name) == IF e.is = "seq" THEN Elements[name] ELSE <<>>
RenderElement(n, r, at) ==
    LET each == Nodes[n].each
        items == ItemsOf(Eval(Node(each[2], <<>>), Bound(at.scope, r.model)), each[2])
        during(item) == [at EXCEPT !.scope = Bound([v \in {each[1]} |-> item], @)]
    IN IF each = Never THEN RenderInstance(n, r, at)
       ELSE Concatenated([i \in DOMAIN items |-> RenderInstance(n, r, during(items[i]))])

\* Variant for the mutation runs: th:replace is looked at before th:authorize.
GuardedLate(n, r, env) ==
    \/ Nodes[n].replace = Never /\ ~AllowedFor(r.who, n)
    \/ Nodes[n].iff # NoExpr /\ ~ConditionHolds(Nodes[n].iff, env)
    \/ Nodes[n].unless # NoExpr /\ ConditionHolds(Nodes[n].unless, env)

Guarded(n, r, env) ==
    \/ ~AllowedFor(r.who, n)
    \/ Nodes[n].iff # NoExpr /\ ~ConditionHolds(Nodes[n].iff, env)
    \/ Nodes[n].unless # NoExpr /\ ConditionHolds(Nodes[n].unless, env)

\* render_instance, in the order of the code.
RenderInstance(n, r, at) ==
    LET el == Nodes[n]
        env == Bound(at.scope, r.model)
        here == Append(at.path, n)
        inside == [at EXCEPT !.path = here, !.mode = IF el.mode = "" THEN @ ELSE el.mode]
        fragment(ref, place) ==
            IF at.depth >= MaxFragmentDepth THEN TooDeep
            ELSE RenderNodes(ResolveFragment(ref, r.order), r, [place EXCEPT !.depth = @ + 1])
        piece(what, esc, e) == Piece(here, what, esc, ToText(Eval(e, env)))
        attrs == IF el.attr = NoExpr THEN <<>> ELSE <<piece("attr", "html", el.attr)>>
        csrf == IF r.csrf /\ el.tag = "form" /\ StateChanging(n) THEN <<Piece(here, "csrf", "html", <<>>)>> ELSE <<>>
        body == IF el.insert # Never THEN fragment(el.insert, inside)
                ELSE IF el.text # NoExpr THEN Done(<<piece("value", "html", el.text)>>)
                ELSE IF el.utext # NoExpr THEN Done(<<piece("value", "none", el.utext)>>)
                ELSE LET inlined == IF el.inline = NoExpr THEN <<>> ELSE <<piece("value", inside.mode, el.inline)>>
                         raw == IF el.raw = NoExpr THEN <<>> ELSE <<piece("value", "none", el.raw)>>
                     IN Concatenated(<<Done(inlined \o raw), RenderNodes(el.kids, r, inside)>>)
    IN IF Guarded(n, r, env) THEN Done(<<>>)
       ELSE IF el.replace # Never THEN fragment(el.replace, [at EXCEPT !.path = here])
       ELSE Concatenated(<<Done(<<Piece(here, "open", "html", <<>>)>> \o attrs \o csrf), body,
                     Done(<<Piece(here, "close", "html", <<>>)>>)>>)

-----------------------------------------------------------------------------
(* The engine.                                                              *)

NoPage == [name |-> "none", r |-> <<>>, roots |-> <<>>, ok |-> TRUE, out |-> <<>>]
TemplateInit == templates = <<>> /\ page = NoPage /\ adds = 0

\* add: adding again replaces.
AddTemplate(name, ids) ==
    /\ adds < MaxAdds /\ adds' = adds + 1
    /\ templates' = [t \in DOMAIN templates \union {name} |-> IF t = name THEN ids ELSE templates[t]]
    /\ page' = NoPage

\* render_with; the order of the template map is not the engine's to choose.
RenderPage(name, model, who, csrf, order) ==
    /\ page = NoPage
    /\ LET r == [model |-> model, who |-> who, csrf |-> csrf, order |-> order]
           result == RenderNodes(templates[name], r, [path |-> <<>>, scope |-> <<>>, mode |-> "html", depth |-> 0])
       IN page' = [name |-> name, r |-> r, roots |-> templates[name], ok |-> result.ok, out |-> result.out]
    /\ UNCHANGED <<templates, adds>>

TemplateNext ==
    \/ \E name \in DOMAIN Sources : \E ids \in Sources[name] : AddTemplate(name, ids)
    \/ page = NoPage /\ \E name \in DOMAIN templates, m \in Models, who \in Visitors, csrf \in BOOLEAN,
                           order \in SetToSeqs(DOMAIN templates) : RenderPage(name, m, who, csrf, order)

-----------------------------------------------------------------------------
(* Properties.                                                              *)

TemplateTypeOK ==
    /\ DOMAIN templates \subseteq DOMAIN Sources /\ adds \in 0 .. MaxAdds /\ page.ok \in BOOLEAN
    /\ \A i \in DOMAIN page.out : ToSet(page.out[i].path) \subseteq DOMAIN Nodes

\* What may be rendered right below a node of the page: its children, or its fragment.
Below(n) ==
    IF Nodes[n].replace # Never THEN ToSet(ResolveFragment(Nodes[n].replace, page.r.order))
    ELSE IF Nodes[n].insert # Never THEN ToSet(ResolveFragment(Nodes[n].insert, page.r.order))
    ELSE IF Nodes[n].text # NoExpr \/ Nodes[n].utext # NoExpr THEN {} ELSE ToSet(Nodes[n].kids)
Includes(n) == Nodes[n].replace # Never \/ Nodes[n].insert # Never

\* The variables a node's guards read come from the loops around it.
Loops(path) == {i \in DOMAIN path : Nodes[path[i]].each # Never}
Innermost(path, v) == {i \in Loops(path) : Nodes[path[i]].each[1] = v /\ \A j \in Loops(path) : j > i => Nodes[path[j]].each[1] # v}
MayBe(path, v) ==
    IF Innermost(path, v) # {} THEN UNION {ToSet(Elements[Nodes[path[i]].each[2]]) : i \in Innermost(path, v)}
    ELSE IF v \in DOMAIN page.r.model THEN {page.r.model[v]} ELSE {NullVal}

\* No piece of a page comes from inside an element its visitor is not
\* authorized for, wherever the element was included from, nor from one whose
\* condition the model denies; a loop variable is visible only in its loop.
OnlyAuthorized ==
    \A i \in DOMAIN page.out : \A k \in DOMAIN page.out[i].path :
        LET path == SubSeq(page.out[i].path, 1, k)
            n == path[k] IN
        /\ AllowedFor(page.r.who, n)
        /\ k > 1 => n \in Below(path[k - 1])
        /\ Nodes[n].iff # NoExpr => \E v \in MayBe(path, Nodes[n].iff.op) : ToBool(v)
        /\ page.out[i].what = "value" /\ k = Len(page.out[i].path) /\ Nodes[n].text # NoExpr
              => page.out[i].text \in {ToText(v) : v \in MayBe(path, Nodes[n].text.op)}

\* The escape of an inline expression is the one its surroundings on the page
\* ask for, also when it arrives in a fragment; only th:utext and [( )] write
\* a value as it is.
ModeAt(path) ==
    LET set == {i \in DOMAIN path : Nodes[path[i]].mode # "" /\ Nodes[path[i]].replace = Never}
    IN IF set = {} THEN "html" ELSE Nodes[path[CHOOSE i \in set : \A j \in set : j <= i]].mode
Escaped ==
    \A i \in DOMAIN page.out :
        LET p == page.out[i]
            n == Nodes[Last(p.path)] IN
        p.what = "value" => CASE n.text # NoExpr -> p.esc = "html"
                              [] n.text = NoExpr /\ n.utext # NoExpr -> p.esc = "none"
                              [] OTHER -> p.esc \in (IF n.inline # NoExpr THEN {ModeAt(p.path)} ELSE {})
                                                      \union (IF n.raw # NoExpr THEN {"none"} ELSE {})

\* A form whose method attribute changes state carries the token right after
\* its opening tag, once, and no other form does.
FormsCarryToken ==
    \A i \in DOMAIN page.out :
        LET p == page.out[i]
            form == page.out[i].what = "open" /\ Nodes[Last(p.path)].tag = "form"
            field == {j \in i + 1 .. Len(page.out) : j <= i + 2 /\ page.out[j].path = p.path /\ page.out[j].what = "csrf"} IN
        form => (field # {}) = (page.r.csrf /\ StateChanging(Last(p.path)))

RECURSIVE Reaches(_, _, _)
\* Some chain of unguarded inclusions from these nodes is longer than d.
Reaches(ids, env, d) ==
    \E n \in ids : /\ ~Guarded(n, page.r, env)
                   /\ IF Includes(n) THEN d = 0 \/ Reaches(Below(n), env, d - 1) ELSE Reaches(Below(n), env, d)

\* A render fails exactly when inclusions nest too deep, which only a fragment
\* that includes itself makes them do; it never runs on.
CyclesEnd ==
    page # NoPage => ~page.ok = Reaches(ToSet(page.roots), page.r.model, MaxFragmentDepth)

TemplateHolds == OnlyAuthorized /\ Escaped /\ FormsCarryToken /\ CyclesEnd

-----------------------------------------------------------------------------
(***************************************************************************)
(* The HTML parser of the template engine (crates/kernleaf/src/lib.rs,     *)
(* Parser) and the verbatim part of rendering: a template without          *)
(* directives is parsed to a DOM and written out again.                    *)
(*                                                                         *)
(* A source is a sequence of marks [is, tag]: "open" and "close" tags,     *)
(* "leaf" tags that have no close (void or self-closed), and "text" for    *)
(* text, comments and declarations.  Tags in RawTags hold raw text.        *)
(***************************************************************************)
CONSTANTS Tags, RawTags, MaxMarks

VARIABLE marks

Mark(is, tag) == [is |-> is, tag |-> tag]
Marks == {Mark(is, t) : is \in {"open", "close"}, t \in Tags} \union {Mark("leaf", "br"), Mark("text", "")}

\* A node: its mark, its children, and for a raw element the marks read as text.
Dom(mark, kids, raw) == [mark |-> mark, kids |-> kids, raw |-> raw]
Read(nodes, pos) == [nodes |-> nodes, pos |-> pos]

\* read_raw_text: up to the close tag of the same name, or the end.
RawEnd(src, i, tag) ==
    LET ends == {j \in i .. Len(src) : src[j] = Mark("close", tag)}
    IN IF ends = {} THEN Len(src) + 1 ELSE CHOOSE j \in ends : \A k \in ends : j <= k

RECURSIVE ParseNodes(_, _), ReadElement(_, _)

\* parse_nodes: siblings up to a close tag, whosever it is, or the end.
ParseNodes(src, i) ==
    IF i > Len(src) \/ src[i].is = "close" THEN Read(<<>>, i)
    ELSE LET first == ReadElement(src, i)
             rest == ParseNodes(src, first.pos)
         IN Read(first.nodes \o rest.nodes, rest.pos)

Body(src, i, tag) ==
    IF tag \in RawTags
    THEN [kids |-> <<>>, raw |-> SubSeq(src, i, RawEnd(src, i, tag) - 1), pos |-> RawEnd(src, i, tag)]
    ELSE [kids |-> ParseNodes(src, i).nodes, raw |-> <<>>, pos |-> ParseNodes(src, i).pos]

\* read_element: the close tag that ended the children is consumed, whatever its name.
ReadElement(src, i) ==
    IF src[i].is # "open" THEN Read(<<Dom(src[i], <<>>, <<>>)>>, i + 1)
    ELSE LET body == Body(src, i + 1, src[i].tag)
         IN Read(<<Dom(src[i], body.kids, body.raw)>>, IF body.pos <= Len(src) THEN body.pos + 1 ELSE body.pos)

RECURSIVE Written(_)
\* render_nodes and render_instance with no directive set.
Written(nodes) ==
    FlattenSeq([i \in DOMAIN nodes |->
        IF nodes[i].mark.is # "open" THEN <<nodes[i].mark>>
        ELSE <<nodes[i].mark>> \o nodes[i].raw \o Written(nodes[i].kids) \o <<Mark("close", nodes[i].mark.tag)>>])

\* add, then render.
Copy(src) == Written(ParseNodes(src, 1).nodes)

MarkupInit == marks = <<>>
AddMark(m) == Len(marks) < MaxMarks /\ marks' = Append(marks, m)
MarkupNext == \E m \in Marks : AddMark(m)

-----------------------------------------------------------------------------
(* Properties.                                                              *)

MarkupTypeOK == Len(marks) <= MaxMarks /\ ToSet(marks) \subseteq Marks

\* The elements open after a source, innermost last, or <<"bad">>: inside a
\* raw element only its own close tag is a tag.
Nest(stack, m) ==
    CASE stack = <<"bad">> -> stack
      [] stack # <<>> /\ stack # <<"bad">> /\ Last(stack) \in RawTags ->
             IF m = Mark("close", Last(stack)) THEN Front(stack) ELSE stack
      [] m.is = "open" -> Append(stack, m.tag)
      [] m.is = "close" -> IF stack # <<>> /\ Last(stack) = m.tag THEN Front(stack) ELSE <<"bad">>
      [] OTHER -> stack
Nesting(src) == FoldLeft(Nest, <<>>, src)

\* The same, by depth alone.
Sink(depth, m) ==
    IF m.is = "open" THEN depth + 1 ELSE IF m.is = "close" /\ depth >= 0 THEN depth - 1 ELSE depth
TextsOf(src) == SelectSeq(src, LAMBDA m : m.is = "text")
NoRaw(src) == \A i \in DOMAIN src : src[i].tag \notin RawTags

\* A well nested template without directives comes out as it went in, with
\* tag-like text inside raw elements untouched; whatever went in, what comes
\* out is well nested; and a missing or mismatched close tag loses no text
\* while some element is open for each close tag.
CopyFaithful ==
    /\ Nesting(marks) = <<>> => Copy(marks) = marks
    /\ Nesting(Copy(marks)) = <<>>
    /\ NoRaw(marks) /\ (\A n \in 0 .. Len(marks) : FoldLeft(Sink, 0, SubSeq(marks, 1, n)) >= 0)
          => TextsOf(Copy(marks)) = TextsOf(marks)
=============================================================================
