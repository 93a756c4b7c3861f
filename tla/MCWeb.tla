------------------------------- MODULE MCWeb -------------------------------
(***************************************************************************)
(* TLC instances of what a request passes through and what an application  *)
(* is made of: routing and middleware, static files, request and form      *)
(* parsing, templates, wiring, settings, the databases it calls and the    *)
(* messages of name servers.  They share no variable; a behaviour is one   *)
(* of `part`'s and the others stay as they begin.                          *)
(***************************************************************************)
EXTENDS Query, Repository, MeiliFilter, StaticFiles, Context, Dispatch, DnsMessage,
        Template, Multipart, Settings, HttpMessage
LOCAL INSTANCE TLC
LOCAL INSTANCE FiniteSetsExt

VARIABLE part

-----------------------------------------------------------------------------
(* Query: texts that look like numbers order otherwise as text.             *)

MCTexts == <<"", "10", "9", "x">>
MCNumberOf == "10" :> 10 @@ "9" :> 9
MCColumns == "n" :> "Integer" @@ "s" :> "Text"
Num(t) == [kind |-> "num", text |-> t]
Str(t) == [kind |-> "str", text |-> t]
Row(i, n, s) == [id |-> i, n |-> n, s |-> s]
MCTables == {{Row(1, Num("9"), Str("x")), Row(2, Num("10"), Str("x")), Row(3, Null, Str(""))},
             {Row(1, Num("9"), Str("9")), Row(2, Num("10"), Null), Row(3, Num("10"), Str("10"))}}

(* MeiliFilter: a text that spells syntax, and a number.                    *)

MCValues == {<<"OR", "quote">>}
MCNumberValues == {<<"1">>}

(* StaticFiles: a page with one variant of its own and one that leaves the  *)
(* root, a link out of the root, a hidden file.                             *)

File(l) == [is |-> "file", len |-> l, mtime |-> 0, ver |-> 0, to |-> <<>>]
SymLink(t) == [is |-> "link", len |-> 0, mtime |-> 0, ver |-> 0, to |-> t]
MCRoot == <<"pub">>
MCTree == <<"pub", "app">> :> File(2) @@ <<"pub", "app.br">> :> File(1) @@ <<"pub", "app.gz">> :> SymLink(<<"etc", "key">>)
    @@ <<"pub", "out">> :> SymLink(<<"etc", "key">>) @@ <<"etc", "key">> :> File(1)
    @@ <<"pub", ".env">> :> File(1) @@ <<"pub", "index">> :> File(0)
MCTrees == {MCTree}
Wish(u, a, x, y) == [url |-> u, accept |-> a, range |-> [a |-> x, b |-> y]]
App == <<<<"app">>>>
MCWanted ==
    {Wish(App, a, -1, -1) : a \in {<<>>, <<<<"br", 1>>>>, <<<<"br", 0>>, <<"*", 1>>>>}}
    \union {Wish(App, <<>>, r[1], r[2]) : r \in {<<0, 0>>, <<1, -1>>, <<-1, 9>>, <<3, 9>>, <<1, 0>>}}
    \union {Wish(u, <<>>, -1, -1) :
              u \in {<<<<"out">>>>, <<<<"", ".env">>>>, <<<<"a", "..", "..", "etc", "key">>>>, <<<<"?">>>>, <<<<"x">>>>}}
    \union {Wish(<<<<"">>>>, <<>>, 0, 0)}
MCRouted == {<<<<"x">>>>}
MCDeployed == {<<"pub", "app">>, <<"pub", "app.br">>}

(* Context: every application of three components and a trait with at most  *)
(* two hard dependencies and one soft one.                                  *)

Edges == {p \in Components \X (Components \union Traits) : p[1] # p[2]}
From(E, c) == {p[2] : p \in {e \in E : e[1] = c}}
MCSetups ==
    {[queue |-> q, hard |-> [c \in Components |-> From(H, c)], soft |-> [c \in Components |-> From(S, c)],
      traits |-> [c \in Components |-> IF c \in P THEN Traits ELSE {}], primary |-> {"b"}, default |-> D,
      ready |-> {"c"} \ {q[i] : i \in DOMAIN q}] :
        q \in {<<"a", "b", "c">>, <<"c", "a", "b">>, <<"a", "b">>}, P \in {{}, {"a", "c"}, {"b", "c"}},
        D \in {{}, {"c"}}, H \in UNION {kSubset(k, Edges) : k \in 0 .. 2}, S \in UNION {kSubset(k, Edges) : k \in 0 .. 1}}

(* Dispatch: overlapping patterns, every order of up to three layers.       *)

Wild(n) == [lit |-> "*", name |-> n]
MCFirst == {Lit("a"), Wild("x"), Wild("y")}
MCPatterns == {<<s>> : s \in MCFirst} \union {<<s, t>> : s \in MCFirst, t \in {Lit("b"), Wild("x")}}
MCPaths == {<<"a">>, <<"c">>, <<"a", "b">>, <<"a", "c">>, <<"c", "b">>}
MCLayers == {"auth", "security", "cors", "compress", "headers"}
MCChains == {c \in UNION {[1 .. n -> MCLayers] : n \in 0 .. 3} : \A i, j \in DOMAIN c : i # j => c[i] # c[j]}
Rule(m, p, n, of) == [method |-> m, pattern |-> p, access |-> [need |-> n, of |-> of]]
MCPolicies ==
    {[rules |-> <<Rule("GET", <<"a", "**">>, "role", {"admin"}), Rule("any", <<"a", "*">>, "permit", {}),
                  Rule("any", <<"b">>, "deny", {})>>,
      default |-> [need |-> "login", of |-> {}], login |-> TRUE],
     [rules |-> <<Rule("any", <<"**">>, "permit", {})>>, default |-> [need |-> "login", of |-> {}], login |-> FALSE]}
Bearing(v, r) == [valid |-> v, who |-> [authed |-> TRUE, roles |-> r]]
MCAsks ==
    {[method |-> "GET", path |-> p, token |-> t, origin |-> o[1], preflight |-> o[2],
      accept |-> <<<<"br", 0>>, <<"gzip", 1>>>>] :
        p \in {<<"a">>, <<"b">>}, t \in {Bearing(FALSE, {"admin"}), Bearing(TRUE, {}), Bearing(TRUE, {"admin"})},
        o \in {<<"none", FALSE>>, <<"allowed", FALSE>>, <<"allowed", TRUE>>}}
MCApps == {<<[method |-> "GET", pattern |-> <<Wild("x")>>]>>}

(* DnsMessage: lengths, letters, a compression pointer and a byte that is   *)
(* neither.                                                                 *)

MCLabels == {<<97>>, <<97, 98>>, <<97, 98, 99>>}
Rec(type, ttl, data, owner) == [type |-> type, ttl |-> ttl, data |-> data, owner |-> owner]
MCRecords == {Rec(1, 60, <<10, 0, 0, 1>>, "pointer"), Rec(1, 61, <<10, 0, 0, 2>>, "full"), Rec(1, 62, <<10, 0>>, "full"),
              Rec(28, 5, [i \in 1 .. 16 |-> i], "tail"), Rec(5, 5, <<1, 97, 192, 6>>, "tail")}

-----------------------------------------------------------------------------
(* Expr and Template.                                                       *)

MCLiterals == [one |-> NumVal(1), str |-> TextVal(<<"s">>)]
MCEnvs == {[x |-> TextVal(<<"2">>), y |-> BoolVal(TRUE)], [x |-> NullVal, y |-> NumVal(-1)],
           [x |-> TextVal(<<>>), y |-> TextVal(<<"s", "1">>)]}
MCTokens == {"x", "y", "+", "*", "-", ">", "not", "?", ":", "?:", "(", ")"}
MCBases == {<<"/">>, <<"/", "{a}", "/", "{b}">>, <<"{a}", "{a}">>}
MCParamTexts == {<<"s">>, <<"{b}">>, <<"{a}", "1">>, <<>>}

\* 1 a script that inserts the shared fragment; 2 a menu for administrators,
\* taken from lib; 3 and 4 a list; 5 to 7 a form; 8 the page's shared
\* fragment; 9 to 12 lib; 13 a menu that includes itself; 14 all of lib.
MCNodes == <<
    [Blank EXCEPT !.tag = "script", !.mode = "js", !.insert = <<"", "shared">>],
    [Blank EXCEPT !.authorize = {"admin"}, !.replace = <<"lib", "menu">>],
    [Blank EXCEPT !.each = <<"x", "items">>, !.iff = Node("x", <<>>), !.kids = <<4>>],
    [Blank EXCEPT !.text = Node("x", <<>>)],
    [Blank EXCEPT !.tag = "form", !.method = "post", !.attr = Node("y", <<>>), !.kids = <<6, 7>>],
    [Blank EXCEPT !.tag = "form", !.method = "get", !.utext = Node("y", <<>>)],
    [Blank EXCEPT !.unless = Node("y", <<>>), !.raw = Node("x", <<>>)],
    [Blank EXCEPT !.fragment = "shared", !.inline = Node("x", <<>>)],
    [Blank EXCEPT !.kids = <<10, 11>>],
    [Blank EXCEPT !.fragment = "shared", !.inline = Node("y", <<>>), !.mode = "css"],
    [Blank EXCEPT !.fragment = "menu", !.authorize = {"user", "admin"}, !.kids = <<12>>],
    [Blank EXCEPT !.replace = <<"page", "shared">>],
    [Blank EXCEPT !.fragment = "menu", !.iff = Node("y", <<>>), !.insert = <<"lib", "menu">>],
    [Blank EXCEPT !.insert = <<"lib", "">>]>>
MCSources == [page |-> {<<1, 2, 8>>, <<3, 5, 4>>, <<14, 8>>}, lib |-> {<<9>>, <<13>>, <<9, 13>>}]
MCElements == [items |-> <<TextVal(<<"s">>), TextVal(<<>>), TextVal(<<"<">>)>>]
MCModels == {[x |-> TextVal(<<"<">>), y |-> BoolVal(TRUE), items |-> Val("seq", 3, <<>>)],
             [x |-> NullVal, items |-> NullVal]}

(* Multipart and Settings.                                                  *)

MCHeads == {<<"name">>, <<"file", "N", "other">>, <<"other">>}
MCLogPrefixes == {<<"a">>, <<"a", "b">>, <<"b">>}
MCTargets == {<<"a">>, <<"a", "b">>, <<"a", "c">>, <<"b", "a">>, <<"c">>}

(* HttpMessage: lengths that agree, disagree and are no number.             *)

Field(n, v) == [name |-> n, value |-> v]
MCHeaderWords ==
    [cl0 |-> Field("content-length", "0"), cl1 |-> Field("content-length", "1"), cl2 |-> Field("content-length", "2"),
     CL1 |-> Field("Content-Length", "1"), x |-> Field("x", "a"), clx |-> Field("content-length", "x"),
     close |-> Field("connection", "close"), keep |-> Field("connection", "keep-alive")]
MCLower == [n \in {"content-length", "Content-Length", "connection", "x"} |->
              IF n = "Content-Length" THEN "content-length" ELSE n]
MCSizeOf == "0" :> 0 @@ "1" :> 1 @@ "2" :> 2
MCFirstLines == {<<"GET", "SP", "p">>, <<"GET", "SP", "p", "SP">>, <<"GET", "LF", "x">>, <<"LF", "SP", "x">>}

-----------------------------------------------------------------------------

WebParts == {"query", "repository", "meili", "static", "context", "dispatch", "dnsmessage",
             "expr", "template", "markup", "multipart", "settings", "message"}

webVars == <<part, queryVars, repoVars, meiliVars, staticVars, diVars, dispatchVars, messageVars,
             exprVars, templateVars, marks, multipartVars, settingsVars, messageHttpVars>>

\* A part that is not being explored begins in one state.
WebInit ==
    /\ part \in WebParts
    /\ (part = "query" \/ rows = CHOOSE t \in Tables : TRUE) /\ QueryInit
    /\ (part = "repository" \/ backend = "memory") /\ RepoInit
    /\ MeiliInit /\ StaticInit
    /\ (part = "context" \/ setup = CHOOSE s \in Setups : TRUE) /\ ContextInit
    /\ DispatchInit /\ MessageInit /\ ExprInit /\ TemplateInit /\ MarkupInit
    /\ MultipartInit /\ (part = "multipart" \/ wrap = Unwrapped)
    /\ SettingsInit /\ MessageHttpInit

WebNext ==
    /\ UNCHANGED part
    /\ IF part = "query" THEN QueryNext ELSE UNCHANGED queryVars
    /\ IF part = "repository" THEN RepoNext ELSE UNCHANGED repoVars
    /\ IF part = "meili" THEN MeiliNext ELSE UNCHANGED meiliVars
    /\ IF part = "static" THEN StaticNext ELSE UNCHANGED staticVars
    /\ IF part = "context" THEN ContextNext ELSE UNCHANGED diVars
    /\ IF part = "dispatch" THEN DispatchNext ELSE UNCHANGED dispatchVars
    /\ IF part = "dnsmessage" THEN MessageNext ELSE UNCHANGED messageVars
    /\ IF part = "expr" THEN ExprNext ELSE UNCHANGED exprVars
    /\ IF part = "template" THEN TemplateNext ELSE UNCHANGED templateVars
    /\ IF part = "markup" THEN MarkupNext ELSE UNCHANGED marks
    /\ IF part = "multipart" THEN MultipartNext ELSE UNCHANGED multipartVars
    /\ IF part = "settings" THEN SettingsNext ELSE UNCHANGED settingsVars
    /\ IF part = "message" THEN MessageHttpNext ELSE UNCHANGED messageHttpVars

WebSpec == WebInit /\ [][WebNext]_webVars

-----------------------------------------------------------------------------
\* The type invariant of the part being explored.
WebTypeOK ==
    CASE part = "query" -> QueryTypeOK
      [] part = "repository" -> RepoTypeOK
      [] part = "meili" -> MeiliTypeOK
      [] part = "static" -> StaticTypeOK
      [] part = "context" -> ContextTypeOK
      [] part = "dispatch" -> DispatchTypeOK
      [] part = "dnsmessage" -> MessageTypeOK
      [] part = "expr" -> ExprTypeOK
      [] part = "template" -> TemplateTypeOK
      [] part = "markup" -> MarkupTypeOK
      [] part = "multipart" -> MultipartTypeOK
      [] part = "settings" -> SettingsTypeOK
      [] part = "message" -> MessageHttpTypeOK

\* What a request goes through: the route the patterns name (RoutingExact),
\* no handler for whom the rules refuse (DispatchHolds), files of the root
\* alone (StaticHolds), forms read as they were sent (MultipartHolds), and
\* messages that both readers frame alike (MessagesHold).
RequestsHold ==
    /\ part = "dispatch" => RoutingExact /\ DispatchHolds
    /\ part = "static" => StaticHolds
    /\ part = "multipart" => MultipartHolds
    /\ part = "message" => MessagesHold

\* What a page shows: expressions parsed by their precedence (ExprHolds),
\* markup copied as written (CopyFaithful), and nothing the visitor may not
\* see, unescaped, or without end (TemplateHolds).
PagesHold ==
    /\ part = "expr" => ExprHolds
    /\ part = "markup" => CopyFaithful
    /\ part = "template" => TemplateHolds

\* What an application is made of: components wired after what they need
\* (ContextHolds), settings of the topmost layer (SettingsHold).
StartupHolds ==
    /\ part = "context" => ContextHolds
    /\ part = "settings" => SettingsHold

\* What an application calls: databases that answer one query alike
\* (BackendsAgree, PagesCoverResult, RepositoryHolds, MeiliHolds), packets as
\* the name servers wrote them (DnsMessagesHold).
BackendsHold ==
    /\ part = "query" => BackendsAgree /\ PagesCoverResult
    /\ part = "repository" => RepositoryHolds
    /\ part = "meili" => MeiliHolds
    /\ part = "dnsmessage" => DnsMessagesHold

=============================================================================
