------------------------------ MODULE Dispatch ------------------------------
(***************************************************************************)
(* From a parsed request to its response (crates/kernway-server/src):      *)
(* the router's trie (router.rs), the middleware chain (middleware.rs,     *)
(* app.rs handle), and the built-in layers: bearer authentication          *)
(* (auth.rs), access rules (security.rs), CORS (cors.rs), compression      *)
(* (compression.rs) and security headers.                                  *)
(*                                                                         *)
(* The routes are added one by one; then a request goes down the chain a   *)
(* layer at a time, is handled, and comes back up.  A path is a sequence   *)
(* of segments; a pattern segment is a literal or [param: name].           *)
(***************************************************************************)
EXTENDS Integers, Sequences, FiniteSets
LOCAL INSTANCE SequencesExt
LOCAL INSTANCE Functions

CONSTANTS Patterns,   \* patterns a route may have
          Methods, Paths, \* what requests ask for
          Chains,     \* orders in which layers were added
          Policies,   \* access rules: [rules: Seq([method, pattern, access]), default, login]
          Asks,       \* requests sent through the chain
          GuardRole,  \* what #[require_role] on the handler asks for, or "none"
          Apps,       \* the route tables requests are sent to
          MaxRoutes

VARIABLES routes,  \* Router::add calls so far, each [method, pattern]
          chain, policy,
          ask,     \* the request in flight
          pc,      \* "setup", "down", "up" or "done"
          layer,   \* the layer about to be entered or left
          ctx,     \* the SecurityContext in the request scope, or Unset
          resp,    \* the response on its way up
          ran      \* the handler's body ran

dispatchVars == <<routes, chain, policy, ask, pc, layer, ctx, resp, ran>>

-----------------------------------------------------------------------------
(* The trie.  A node is named by the steps that lead to it, Param for the   *)
(* parameter child.                                                         *)

Param == [lit |-> "*", name |-> ""]
Lit(s) == [lit |-> s, name |-> ""]
IsParam(s) == s.lit = "*"
Shape(pattern) == [i \in DOMAIN pattern |-> IF IsParam(pattern[i]) THEN Param ELSE pattern[i]]

HasNode(node) == \E i \in DOMAIN routes : IsPrefix(node, Shape(routes[i].pattern))

First(S) == CHOOSE i \in S : \A j \in S : i <= j

\* The name the parameter child of a node reports: the first registered.
NameAt(node) ==
    LET through == {i \in DOMAIN routes : IsPrefix(Append(node, Param), Shape(routes[i].pattern))}
    IN routes[First(through)].pattern[Len(node) + 1].name

\* handler_for: the first route registered for the method at the node, or 0.
HandlerFor(node, method) ==
    LET here == {i \in DOMAIN routes : Shape(routes[i].pattern) = node /\ routes[i].method = method}
    IN IF here = {} THEN 0 ELSE First(here)

Without(params, name) == Restrict(params, DOMAIN params \ {name})
Bind(params, name, seg) == [n \in DOMAIN params \union {name} |-> IF n = name THEN seg ELSE params[n]]

Miss(params) == [id |-> 0, params |-> params]

\* Variant for the mutation runs: a literal segment is never given up for a parameter.
RECURSIVE WalkGreedy(_, _, _, _)
WalkGreedy(node, path, method, params) ==
    IF path = <<>> THEN [id |-> HandlerFor(node, method), params |-> params]
    ELSE IF HasNode(Append(node, Lit(Head(path)))) THEN WalkGreedy(Append(node, Lit(Head(path))), Tail(path), method, params)
    ELSE IF HasNode(Append(node, Param))
         THEN WalkGreedy(Append(node, Param), Tail(path), method, Bind(params, NameAt(node), Head(path)))
         ELSE Miss(params)

RECURSIVE Walk(_, _, _, _)
Walk(node, path, method, params) ==
    IF path = <<>> THEN [id |-> HandlerFor(node, method), params |-> params]
    ELSE LET static == IF HasNode(Append(node, Lit(Head(path))))
                       THEN Walk(Append(node, Lit(Head(path))), Tail(path), method, params)
                       ELSE Miss(params)
             byName == Walk(Append(node, Param), Tail(path), method, Bind(static.params, NameAt(node), Head(path)))
         IN IF static.id # 0 \/ ~HasNode(Append(node, Param)) THEN static
            ELSE IF byName.id # 0 THEN byName
            ELSE Miss(Without(byName.params, NameAt(node)))

Find(method, path) == Walk(<<>>, path, method, <<>>)

-----------------------------------------------------------------------------
(* Access rules.                                                            *)

\* path_matches: p/** is p and all below it, p/* one segment below it.
PathMatches(pattern, path) ==
    CASE pattern = <<"**">> -> TRUE
      [] pattern # <<"**">> /\ pattern # <<>> /\ Last(pattern) = "**" -> IsPrefix(Front(pattern), path)
      [] pattern # <<>> /\ Last(pattern) = "*" -> IsPrefix(Front(pattern), path) /\ Len(path) = Len(pattern)
      [] OTHER -> pattern = path

AccessFor(method, path) ==
    LET hits == {i \in DOMAIN policy.rules :
                     policy.rules[i].method \in {"any", method} /\ PathMatches(policy.rules[i].pattern, path)}
    IN IF hits = {} THEN policy.default ELSE policy.rules[First(hits)].access

Anonymous == [authed |-> FALSE, roles |-> {}]
Unset == [authed |-> FALSE, roles |-> {"unset"}]

\* decide: an access is [need: "permit", "login", "deny" or "role", of: roles].
Decide(access, who) ==
    CASE access.need = "permit" -> "allow"
      [] access.need # "permit" /\ ~who.authed -> "unauthenticated"
      [] access.need = "login" /\ who.authed -> "allow"
      [] access.need = "role" /\ who.authed /\ access.of \intersect who.roles # {} -> "allow"
      [] OTHER -> "forbidden"

-----------------------------------------------------------------------------
(* Responses.                                                               *)

Reply(status) == [status |-> status, vary |-> {}, enc |-> "identity", origin |-> FALSE,
                  strict |-> FALSE, big |-> FALSE]

\* Cors: stamp_common replaces Vary.
Stamp(r) == [r EXCEPT !.origin = TRUE, !.vary = {"origin"}]

\* negotiate: br before gzip, a token with q = 0 skipped.
Negotiate(accept) ==
    LET offered == {accept[i][1] : i \in {j \in DOMAIN accept : accept[j][2] > 0}}
    IN IF offered \intersect {"br", "*"} # {} THEN "br" ELSE IF "gzip" \in offered THEN "gzip" ELSE "identity"

Compress(r, accept) ==
    IF ~r.big \/ r.enc # "identity" \/ Negotiate(accept) = "identity" THEN r
    ELSE [r EXCEPT !.enc = Negotiate(accept), !.vary = @ \union {"accept-encoding"}]

-----------------------------------------------------------------------------
(* Wiring the application, then one request.                                *)

DispatchInit ==
    /\ routes = <<>> /\ pc = "setup" /\ layer = 0 /\ ran = FALSE
    /\ chain = <<>> /\ policy = (CHOOSE p \in Policies : TRUE) /\ ask = (CHOOSE a \in Asks : TRUE)
    /\ ctx = Unset /\ resp = Reply(0)

Add(method, pattern) ==
    /\ Len(routes) < MaxRoutes
    /\ routes' = Append(routes, [method |-> method, pattern |-> pattern])
    /\ UNCHANGED <<chain, policy, ask, pc, layer, ctx, resp, ran>>

\* AppBuilder::layer calls, build, and a request at the top of the chain.
Accept(ch, p, a) ==
    /\ routes \in Apps
    /\ chain' = ch /\ policy' = p /\ ask' = a
    /\ pc' = "down" /\ layer' = 1
    /\ UNCHANGED <<routes, ctx, resp, ran>>

Here(name) == pc = "down" /\ layer <= Len(chain) /\ chain[layer] = name
Deeper == layer' = layer + 1 /\ UNCHANGED <<pc, resp>>
\* A layer that answers itself: only the layers above it see the response.
Answer(r) == pc' = "up" /\ layer' = layer - 1 /\ resp' = r
Fixed == UNCHANGED <<routes, chain, policy, ask>>

BearerAuth ==
    /\ Here("auth") /\ ctx' = IF ask.token.valid THEN ask.token.who ELSE Anonymous
    /\ Deeper /\ UNCHANGED ran /\ Fixed

Identity == IF ctx = Unset THEN Anonymous ELSE ctx

SecurityLayer ==
    /\ Here("security") /\ UNCHANGED <<ctx, ran>> /\ Fixed
    /\ LET verdict == Decide(AccessFor(ask.method, ask.path), Identity)
       IN CASE verdict = "allow" -> Deeper
            [] verdict = "unauthenticated" -> Answer(Reply(IF policy.login THEN 302 ELSE 401))
            [] OTHER -> Answer(Reply(403))

Cors ==
    /\ Here("cors") /\ UNCHANGED <<ctx, ran>> /\ Fixed
    /\ IF ask.preflight
       THEN Answer(IF ask.origin = "allowed" THEN Stamp(Reply(204)) ELSE Reply(204))
       ELSE Deeper

\* Compression and SecurityHeaders only act on the way up.
PassDown ==
    /\ (Here("compress") \/ Here("headers")) /\ Deeper /\ UNCHANGED <<ctx, ran>> /\ Fixed

\* run_handler: 404, the guard's 403, or the handler's own answer.
Terminal(big) ==
    /\ pc = "down" /\ layer = Len(chain) + 1 /\ UNCHANGED ctx /\ Fixed
    /\ LET routed == Find(ask.method, ask.path).id # 0
           allowed == GuardRole \in Identity.roles \union {"none"}
       IN /\ ran' = (routed /\ allowed)
          /\ Answer(IF ~routed THEN Reply(404) ELSE IF ~allowed THEN Reply(403)
                    ELSE [Reply(200) EXCEPT !.big = big])

\* CatchUnwind: the panic skips the layers above.
Panic ==
    /\ pc = "down" /\ layer = Len(chain) + 1 /\ Find(ask.method, ask.path).id # 0
    /\ GuardRole \in Identity.roles \union {"none"}
    /\ ran' = TRUE /\ pc' = "done" /\ layer' = 0 /\ resp' = Reply(500)
    /\ UNCHANGED ctx /\ Fixed

Leave ==
    /\ pc = "up" /\ layer > 0 /\ layer' = layer - 1
    /\ resp' = CASE chain[layer] = "cors" /\ ask.origin = "allowed" -> Stamp(resp)
                 [] chain[layer] = "compress" -> Compress(resp, ask.accept)
                 [] chain[layer] = "headers" -> [resp EXCEPT !.strict = TRUE]
                 [] OTHER -> resp
    /\ UNCHANGED <<pc, ctx, ran>> /\ Fixed

Respond ==
    /\ pc = "up" /\ layer = 0 /\ pc' = "done"
    /\ UNCHANGED <<layer, ctx, resp, ran>> /\ Fixed

DispatchNext ==
    \/ pc = "setup" /\ \E m \in Methods, p \in Patterns : Add(m, p)
    \/ pc = "setup" /\ \E ch \in Chains, p \in Policies, a \in Asks : Accept(ch, p, a)
    \/ BearerAuth \/ SecurityLayer \/ Cors \/ PassDown
    \/ \E big \in BOOLEAN : Terminal(big)
    \/ Panic \/ Leave \/ Respond

-----------------------------------------------------------------------------
(* Properties.                                                              *)

DispatchTypeOK ==
    /\ pc \in {"setup", "down", "up", "done"} /\ layer \in 0..Len(chain) + 1
    /\ Len(routes) <= MaxRoutes /\ ran \in BOOLEAN
    /\ resp.status \in {0, 200, 204, 302, 401, 403, 404, 500}

Matches(pattern, path) ==
    Len(pattern) = Len(path) /\ \A i \in DOMAIN path : IsParam(pattern[i]) \/ pattern[i] = Lit(path[i])

\* Static beats parameter at the first position where two patterns differ.
Beats(p, q) ==
    \E i \in DOMAIN p : /\ ~IsParam(p[i]) /\ IsParam(q[i])
                        /\ \A j \in 1..i - 1 : IsParam(p[j]) = IsParam(q[j])

BestRoute(method, path) ==
    LET hits == {i \in DOMAIN routes : routes[i].method = method /\ Matches(routes[i].pattern, path)}
        best == {i \in hits : \A j \in hits : ~Beats(routes[j].pattern, routes[i].pattern)}
    IN IF hits = {} THEN 0 ELSE First(best)

\* The route found is the one with a static segment where another matching
\* route has a parameter, at the first such position, whatever the order of
\* registration; registration order decides between equal shapes; and the
\* segments are bound to the names first registered, with nothing left over
\* from branches that were abandoned.
RoutingExact ==
    pc = "setup" => \A m \in Methods, path \in Paths :
        LET found == Find(m, path)
            pattern == Shape(routes[found.id].pattern)
            params == {i \in DOMAIN pattern : IsParam(pattern[i])}
        IN /\ found.id = BestRoute(m, path)
           /\ found.id # 0 => /\ DOMAIN found.params = {NameAt(SubSeq(pattern, 1, i - 1)) : i \in params}
                              /\ \A i \in params :
                                  (\A j \in params : j > i => NameAt(SubSeq(pattern, 1, j - 1)) # NameAt(SubSeq(pattern, 1, i - 1)))
                                    => found.params[NameAt(SubSeq(pattern, 1, i - 1))] = path[i]
           /\ found.id = 0 => found.params = <<>>

Above(a, b) == \E i, j \in DOMAIN chain : i < j /\ chain[i] = a /\ chain[j] = b
InChain(a) == \E i \in DOMAIN chain : chain[i] = a
Bearer == IF InChain("auth") /\ ask.token.valid THEN ask.token.who ELSE Anonymous

\* With the access rules anywhere in the chain, a handler runs only for a
\* request whose own credentials the first matching rule allows, whatever the
\* order of the layers; and a preflight never reaches it through CORS.
OnlyAllowedRuns ==
    ran => /\ InChain("security") => Decide(AccessFor(ask.method, ask.path), Bearer) = "allow"
           /\ GuardRole \in Bearer.roles \union {"none"}
           /\ ask.preflight => ~InChain("cors")

\* An answer that reached the top without a panic has the headers of every
\* layer above whoever gave it: security headers on rejections too, and with
\* compression above CORS a Vary that names both.
HeadersOnTheWayUp ==
    pc = "done" /\ resp.status # 500 =>
        /\ chain # <<>> /\ chain[1] = "headers" => resp.strict
        /\ resp.enc # "identity" => "accept-encoding" \in resp.vary \/ Above("cors", "compress")
        /\ resp.origin => "origin" \in resp.vary

DispatchHolds == OnlyAllowedRuns /\ HeadersOnTheWayUp

=============================================================================
