-------------------------------- MODULE Expr --------------------------------
(***************************************************************************)
(* The Standard Expression language of the template engine                 *)
(* (crates/kernleaf/src/expr.rs): the recursive-descent parser, the        *)
(* evaluator with its coercions, and the @{...} and #{...} forms.          *)
(*                                                                         *)
(* Expressions are built a token at a time.  A token stands for its class: *)
(* "*" for * / %, ">" for the four comparisons, "==" for == and !=; "x"    *)
(* is a variable path.  Text is a sequence of atoms, the digits among      *)
(* them; "{n}" is the placeholder written in a URL or a message.           *)
(***************************************************************************)
EXTENDS Integers, Sequences, FiniteSets
LOCAL INSTANCE SequencesExt
LOCAL INSTANCE FiniteSetsExt

CONSTANTS Tokens,     \* tokens an expression may have
          MaxTokens,
          Literals,   \* token |-> its value, for the literals
          Envs,       \* models: variable |-> value
          Bases,      \* URL bases and message texts
          Names,      \* parameter names
          ParamTexts,     \* texts a parameter may evaluate to
          MaxParams

VARIABLES toks,    \* the tokens so far
          link     \* a URL or a message being built: [base, params]

exprVars == <<toks, link>>

-----------------------------------------------------------------------------
(* Parsing: the position after what was read, or a failure.  An expression *)
(* is [op, args]; a leaf has no arguments.                                  *)

Node(op, args) == [op |-> op, args |-> args]
Parsed(e, pos) == [ok |-> TRUE, e |-> e, pos |-> pos]
Failed(pos) == [ok |-> FALSE, e |-> Node("none", <<>>), pos |-> pos]
Peek(ts, i) == IF i <= Len(ts) THEN ts[i] ELSE "end"

\* or, and, equality, comparison, additive, multiplicative, loosest first.
Levels == <<{"or"}, {"and"}, {"==", "!="}, {">", "<", ">=", "<="}, {"+", "-"}, {"*"}>>
Leafs == {"x", "y"} \union DOMAIN Literals
CloseOf == [t \in {"(", "${"} |-> IF t = "(" THEN ")" ELSE "}"]

RECURSIVE Ternary(_, _), Level(_, _, _), More(_, _, _), Unary(_, _)

Ternary(ts, i) ==
    LET cond == Level(ts, 1, i)
        then == Ternary(ts, cond.pos + 1)
        els == Ternary(ts, then.pos + 1) IN
    IF ~cond.ok THEN cond
    ELSE CASE Peek(ts, cond.pos) = "?:" ->
                  IF then.ok THEN Parsed(Node("?:", <<cond.e, then.e>>), then.pos) ELSE then
           [] Peek(ts, cond.pos) = "?" ->
                  IF ~then.ok THEN then
                  ELSE IF Peek(ts, then.pos) # ":" THEN Failed(then.pos)
                  ELSE IF els.ok THEN Parsed(Node("?", <<cond.e, then.e, els.e>>), els.pos) ELSE els
           [] OTHER -> cond

\* One precedence level: operands of the next, joined from the left.
Level(ts, k, i) ==
    IF k > Len(Levels) THEN Unary(ts, i)
    ELSE LET left == Level(ts, k + 1, i) IN IF left.ok THEN More(ts, k, left) ELSE left

More(ts, k, left) ==
    IF Peek(ts, left.pos) \notin Levels[k] THEN left
    ELSE LET right == Level(ts, k + 1, left.pos + 1)
         IN IF right.ok THEN More(ts, k, Parsed(Node(ts[left.pos], <<left.e, right.e>>), right.pos)) ELSE right

\* unary and primary: a prefix, a leaf, or a bracketed expression.
Unary(ts, i) ==
    LET t == Peek(ts, i)
        operand == Unary(ts, i + 1)
        inner == Ternary(ts, i + 1) IN
    CASE t \in {"-", "not"} -> IF operand.ok THEN Parsed(Node(t, <<operand.e>>), operand.pos) ELSE operand
      [] t \in Leafs -> Parsed(Node(t, <<>>), i + 1)
      [] t \in DOMAIN CloseOf ->
             IF ~inner.ok THEN inner
             ELSE IF Peek(ts, inner.pos) = CloseOf[t] THEN Parsed(inner.e, inner.pos + 1) ELSE Failed(inner.pos)
      [] OTHER -> Failed(i)

\* parse: nothing may be left over.
Parse(ts) ==
    LET whole == Ternary(ts, 1)
    IN IF whole.ok /\ whole.pos # Len(ts) + 1 THEN Failed(whole.pos) ELSE whole

-----------------------------------------------------------------------------
(* Evaluation.  A value is [is, n, text]: a number in n, a boolean as 0 or  *)
(* 1 in n, a text in text, a sequence or a map, or null.                    *)

RECURSIVE Eval(_, _)

Val(is, n, text) == [is |-> is, n |-> n, text |-> text]
NumVal(n) == Val("num", n, <<>>)
BoolVal(b) == Val("bool", IF b THEN 1 ELSE 0, <<>>)
TextVal(s) == Val("text", 0, s)
NullVal == Val("null", 0, <<>>)

DigitAtoms == <<"0", "1", "2", "3", "4", "5", "6", "7", "8", "9">>
RECURSIVE DigitsOf(_)
DigitsOf(n) == IF n < 10 THEN <<DigitAtoms[n + 1]>> ELSE DigitsOf(n \div 10) \o <<DigitAtoms[(n % 10) + 1]>>
ValueOf(s) ==
    LET upTo[i \in 0 .. Len(s)] == IF i = 0 THEN 0 ELSE 10 * upTo[i - 1] + (CHOOSE d \in 0 .. 9 : DigitAtoms[d + 1] = s[i])
    IN upTo[Len(s)]
Numeric(s) == LET digits == IF s # <<>> /\ Head(s) = "-" THEN Tail(s) ELSE s
              IN digits # <<>> /\ ToSet(digits) \subseteq ToSet(DigitAtoms)

\* as_num: text that parses counts, so do booleans.
IsNumber(v) == v.is \in {"num", "bool"} \/ (v.is = "text" /\ Numeric(v.text))
AsNum(v) ==
    IF v.is # "text" THEN v.n
    ELSE IF Head(v.text) = "-" THEN -ValueOf(Tail(v.text)) ELSE ValueOf(v.text)
NumOr0(v) == IF IsNumber(v) THEN AsNum(v) ELSE 0

\* write_string: null, sequences and maps write nothing.
ToText(v) ==
    CASE v.is = "num" -> IF v.n < 0 THEN <<"-">> \o DigitsOf(-v.n) ELSE DigitsOf(v.n)
      [] v.is = "bool" -> <<IF v.n = 1 THEN "true" ELSE "false">>
      [] OTHER -> v.text

ToBool(v) ==
    CASE v.is \in {"num", "bool"} -> v.n # 0
      [] v.is = "text" -> v.text # <<>>
      [] OTHER -> v.is # "null" /\ v.n > 0

\* Texts compare atom by atom.
AtomRank(a) == CHOOSE i \in 1 .. 16 : <<"-", "0", "1", "2", "3", "4", "5", "6", "7", "8", "9", "<", "false", "s", "true", "{1}">>[i] = a
TextAbove(s, t) ==
    \/ Len(s) > Len(t) /\ IsPrefix(t, s)
    \/ \E i \in 1 .. Min({Len(s), Len(t)}) :
          AtomRank(s[i]) > AtomRank(t[i]) /\ SubSeq(s, 1, i - 1) = SubSeq(t, 1, i - 1)

ValuesEqual(l, r) ==
    IF l.is = "null" \/ r.is = "null" THEN l.is = r.is
    ELSE IF IsNumber(l) /\ IsNumber(r) THEN AsNum(l) = AsNum(r) ELSE ToText(l) = ToText(r)

Exceeds(l, r) ==
    IF IsNumber(l) /\ IsNumber(r) THEN AsNum(l) > AsNum(r) ELSE TextAbove(ToText(l), ToText(r))

\* eval_binary, without / and %.
Binary(op, l, r) ==
    CASE op = "or" -> BoolVal(ToBool(l) \/ ToBool(r))
      [] op = "and" -> BoolVal(ToBool(l) /\ ToBool(r))
      [] op \in {"==", "!="} -> BoolVal(ValuesEqual(l, r) = (op = "=="))
      [] op \in {">", "<="} -> BoolVal(Exceeds(l, r) = (op = ">"))
      [] op \in {"<", ">="} -> BoolVal(Exceeds(r, l) = (op = "<"))
      [] op = "+" -> IF IsNumber(l) /\ IsNumber(r) THEN NumVal(AsNum(l) + AsNum(r)) ELSE TextVal(ToText(l) \o ToText(r))
      [] op = "-" -> NumVal(NumOr0(l) - NumOr0(r))
      [] op = "*" -> NumVal(NumOr0(l) * NumOr0(r))

\* eval: an unresolved path is null; both sides of and / or are evaluated.
Eval(e, env) ==
    LET v == [i \in DOMAIN e.args |-> Eval(e.args[i], env)] IN
    CASE e.op \in DOMAIN Literals -> Literals[e.op]
      [] e.args = <<>> /\ e.op \notin DOMAIN Literals -> IF e.op \in DOMAIN env THEN env[e.op] ELSE NullVal
      [] e.op = "not" -> BoolVal(~ToBool(v[1]))
      [] e.op = "-" /\ Len(v) = 1 -> NumVal(-NumOr0(v[1]))
      [] e.op = "?" -> IF ToBool(v[1]) THEN v[2] ELSE v[3]
      [] e.op = "?:" -> IF ToBool(v[1]) THEN v[1] ELSE v[2]
      [] OTHER -> Binary(e.op, v[1], v[2])

-----------------------------------------------------------------------------
(* Links and messages.                                                      *)

Hole(name) == "{" \o name \o "}"
Replaced(s, hole, by) == FlattenSeq([i \in DOMAIN s |-> IF s[i] = hole THEN by ELSE <<s[i]>>])

\* url_encode: digits and letters stay, everything else becomes an escape.
Encoded(s) == [i \in DOMAIN s |-> IF s[i] \in {"s", "true", "false", "-"} \union ToSet(DigitAtoms) THEN s[i] ELSE "%" \o s[i]]

\* eval_url, one parameter at a time: a path variable if the base names it,
\* else a query parameter; what is filled in is encoded.
Fill(u, p) ==
    IF Hole(p.name) \in ToSet(u.path) THEN [u EXCEPT !.path = Replaced(@, Hole(p.name), Encoded(p.text))]
    ELSE [u EXCEPT !.query = Append(@, [name |-> p.name, text |-> Encoded(p.text)])]
EvalUrl(l) == FoldLeft(Fill, [path |-> l.base, query |-> <<>>], l.params)

\* eval_msg: the arguments in turn, as they are.
EvalMsg(l) == FoldLeft(LAMBDA s, p : Replaced(s, Hole(p.name), p.text), l.base, l.params)

-----------------------------------------------------------------------------
(* Building expressions and links.                                          *)

ExprInit ==
    toks = <<>> /\ link = [base |-> <<>>, params |-> <<>>]

\* Tokens are added as long as the parser could still accept.
AddToken(t) ==
    /\ Len(toks) < MaxTokens
    /\ Parse(toks).ok \/ Parse(toks).pos > Len(toks)
    /\ toks' = Append(toks, t) /\ UNCHANGED link

\* parse_url, parse_msg: the base, then the parameters.
StartLink(b) ==
    /\ link.base = <<>> /\ link' = [base |-> b, params |-> <<>>] /\ UNCHANGED toks

AddParam(n, s) ==
    /\ Len(link.params) < MaxParams
    /\ \A i \in DOMAIN link.params : link.params[i].name # n
    /\ link' = [link EXCEPT !.params = Append(@, [name |-> n, text |-> s])]
    /\ UNCHANGED toks

ExprNext ==
    \/ link.base = <<>> /\ \E t \in Tokens : AddToken(t)
    \/ toks = <<>> /\ \E b \in Bases : StartLink(b)
    \/ link.base # <<>> /\ \E n \in Names, s \in ParamTexts : AddParam(n, s)

-----------------------------------------------------------------------------
(* Properties.                                                              *)

ExprTypeOK ==
    /\ Len(toks) <= MaxTokens /\ ToSet(toks) \subseteq Tokens
    /\ link.base \in Bases \union {<<>>} /\ Len(link.params) <= MaxParams

\* The grammar, by where the loosest operator of a span stands.
RECURSIVE Derives(_, _, _)
Opens(t) == IF t \in {"(", "${"} THEN 1 ELSE 0
Closes(t) == IF t \in {")", "}"} THEN 1 ELSE 0
Outside(ts, lo, p) ==
    Cardinality({i \in lo .. p - 1 : Opens(ts[i]) = 1}) = Cardinality({i \in lo .. p - 1 : Closes(ts[i]) = 1})
EndsOperand(t) == t \in Leafs \union {")", "}"}
Infix(ts, lo, hi, k) == {p \in lo + 1 .. hi - 1 : ts[p] \in Levels[k] /\ Outside(ts, lo, p) /\ EndsOperand(ts[p - 1])}
Conditional(ts, lo, hi) == {p \in lo .. hi : ts[p] \in {"?", "?:"} /\ Outside(ts, lo, p)}
\* The colon that belongs to the question mark at q.
ColonOf(ts, lo, hi, q) ==
    {c \in q + 1 .. hi : /\ ts[c] = ":" /\ Outside(ts, lo, c)
                         /\ Cardinality({i \in q .. c - 1 : ts[i] = "?" /\ Outside(ts, lo, i)})
                             = Cardinality({i \in q + 1 .. c : ts[i] = ":" /\ Outside(ts, lo, i)})}

Derives(ts, lo, hi) ==
    LET conds == Conditional(ts, lo, hi)
        q == Min(conds)
        used == {k \in DOMAIN Levels : Infix(ts, lo, hi, k) # {}}
        p == Max(Infix(ts, lo, hi, Min(used)))
        both(op, S, T) == {Node(op, <<a, b>>) : a \in S, b \in T} IN
    IF lo > hi THEN {}
    ELSE IF conds # {} /\ ts[q] = "?:" THEN both("?:", Derives(ts, lo, q - 1), Derives(ts, q + 1, hi))
    ELSE IF conds # {} THEN UNION {{Node("?", <<a, b, c>>) : a \in Derives(ts, lo, q - 1), b \in Derives(ts, q + 1, m - 1),
                                                             c \in Derives(ts, m + 1, hi)} : m \in ColonOf(ts, lo, hi, q)}
    ELSE IF used # {} THEN both(ts[p], Derives(ts, lo, p - 1), Derives(ts, p + 1, hi))
    ELSE IF ts[lo] \in {"-", "not"} THEN {Node(ts[lo], <<a>>) : a \in Derives(ts, lo + 1, hi)}
    ELSE IF ts[lo] \in DOMAIN CloseOf /\ ts[hi] = CloseOf[ts[lo]] /\ lo < hi THEN Derives(ts, lo + 1, hi - 1)
    ELSE IF lo = hi /\ ts[lo] \in Leafs THEN {Node(ts[lo], <<>>)} ELSE {}

\* The parser accepts exactly the expressions of the grammar and gives each
\* its one reading: the loosest operator outermost, operators of one level
\* from the left, ? : and ?: from the right, a prefix tighter than any infix.
ParseExact ==
    LET p == Parse(toks)
    IN Derives(toks, 1, Len(toks)) = IF p.ok THEN {p.e} ELSE {}

OneVerdict(l, r) ==
    LET verdicts == <<Exceeds(l, r), ValuesEqual(l, r), Exceeds(r, l)>>
    IN "null" \in {l.is, r.is} \/ Cardinality({i \in 1 .. 3 : verdicts[i]}) = 1

\* Of two values that are not null, exactly one of
\* l > r, l == r and r > l holds, however numbers, numeric text, booleans and
\* text are mixed; and elvis is the ternary on its own condition.
ComparisonsAgree ==
    LET p == Parse(toks) IN
    p.ok => \A env \in Envs :
        /\ p.e.op \in {">", "=="} =>
              OneVerdict(Eval(p.e.args[1], env), Eval(p.e.args[2], env))
        /\ p.e.op = "?:" => Eval(p.e, env) = Eval(Node("?", <<p.e.args[1], p.e.args[1], p.e.args[2]>>), env)

\* Every placeholder of a message is filled at once, as long as no argument's
\* own text reads like one.
MsgExact ==
    LET holes == {Hole(p.name) : p \in ToSet(link.params)}
        want(a) == IF a \in holes THEN (CHOOSE p \in ToSet(link.params) : Hole(p.name) = a).text ELSE <<a>>
    IN (\A p \in ToSet(link.params) : ToSet(p.text) \intersect holes = {})
         => EvalMsg(link) = FlattenSeq([i \in DOMAIN link.base |-> want(link.base[i])])

\* What a URL is given is found in it where it belongs and nowhere else: each
\* parameter at every place the base names it, or once in the query, encoded,
\* and no value is taken for a placeholder of a later parameter.
UrlExact ==
    LET u == EvalUrl(link)
        given == {link.params[i].name : i \in DOMAIN link.params}
        value(n) == Encoded((CHOOSE p \in ToSet(link.params) : p.name = n).text)
        named == {n \in given : Hole(n) \in ToSet(link.base)}
        want(a) == IF \E n \in named : Hole(n) = a THEN value(CHOOSE n \in named : Hole(n) = a) ELSE <<a>>
    IN /\ u.path = FlattenSeq([i \in DOMAIN link.base |-> want(link.base[i])])
       /\ {q.name : q \in ToSet(u.query)} = given \ named /\ \A q \in ToSet(u.query) : q.text = value(q.name)
       /\ Len(u.query) = Cardinality(given \ named)

ExprHolds == ParseExact /\ ComparisonsAgree /\ MsgExact /\ UrlExact

=============================================================================
