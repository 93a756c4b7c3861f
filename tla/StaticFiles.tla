---------------------------- MODULE StaticFiles ----------------------------
(***************************************************************************)
(* Serving files (crates/kernway-server/src/app.rs, try_static to          *)
(* apply_range) with the path rules and validators of                      *)
(* crates/kernway-static/src/lib.rs.                                       *)
(*                                                                         *)
(* Clients ask through one shared cache while a deployer rewrites and      *)
(* removes files.  A request has two steps: the lookup on the blocking     *)
(* pool, which only names the file, and the later read of its bytes.       *)
(* A URL is a sequence of raw segments, each the sequence of segments it   *)
(* decodes to (%2F decodes to a separator), or "?" for a bad escape.       *)
(***************************************************************************)
EXTENDS Integers, Sequences, FiniteSets
LOCAL INSTANCE SequencesExt
LOCAL INSTANCE FiniteSetsExt

CONSTANTS Fetchers,      \* requests in flight at once
          Routed,        \* those a route claims
          Trees,         \* file systems at the start: path -> node
          Root,          \* the canonical root, a path
          Compressible,  \* last names whose type is_compressible
          Wanted,        \* requests: [url, accept, range], accept a sequence of <<token, q>>
          Precompressed, \* StaticFiles::precompressed
          Deployed,      \* the files a deploy replaces
          FileSizes, MaxFetches, MaxDeploys

VARIABLES fs,      \* path -> [is, len, mtime, ver, to]
          store,   \* the shared cache: entries [url, key, etag, ver, enc]
          fetch,   \* fetcher -> the request it has in flight
          fetches, deploys

staticVars == <<fs, store, fetch, fetches, deploys>>

Hidden == {".env"}
NoFile == [is |-> "none", len |-> 0, mtime |-> 0, ver |-> 0, to |-> <<>>]
NodeAt(p) == IF p \in DOMAIN fs THEN fs[p] ELSE NoFile

-----------------------------------------------------------------------------
(* kernway-static.                                                          *)

Rejected == <<"rejected">>

Decoded(u) == FlattenSeq(u)

Named(u) == SelectSeq(Decoded(u), LAMBDA s : s \notin {"", "."})

resolve(u) ==
    IF \E i \in DOMAIN Decoded(u) : Decoded(u)[i] \in {"?", ".."} \union Hidden THEN Rejected
    ELSE LET directory == Named(u) = <<>> \/ Last(Decoded(u)) = ""
         IN Root \o Named(u) \o (IF directory THEN <<"index">> ELSE <<>>)


\* is_accepted: the last q-value of the token, else of the wildcard, else 0.
QOf(accept, t) ==
    LET at == {i \in DOMAIN accept : accept[i][1] = t}
    IN IF at = {} THEN -1 ELSE accept[Max(at)][2]

IsAccepted(accept, t) ==
    IF QOf(accept, t) >= 0 THEN QOf(accept, t) > 0 ELSE QOf(accept, "*") > 0

accepted_encodings(accept) ==
    SelectSeq(<<"br", "gzip">>, LAMBDA t : IsAccepted(accept, t))

Extension == [br |-> ".br", gzip |-> ".gz"]
WithSuffix(p, e) == Front(p) \o <<Last(p) \o Extension[e]>>

Etag(node) == <<node.len, node.mtime>>

EtagMatches(inm, tag) == tag \in inm

-----------------------------------------------------------------------------
(* load_static: resolve links, stay under the root, negotiate, validate.    *)

Canon(p) == IF NodeAt(p).is = "link" THEN NodeAt(p).to ELSE p

\* The file a path leads to, if it is a regular file under the root.
Reachable(p) == NodeAt(Canon(p)).is = "file" /\ IsPrefix(Root, Canon(p))

Negotiated(p) == Precompressed /\ Last(p) \in Compressible

Variants(p, accept) ==
    SelectSeq(accepted_encodings(accept), LAMBDA e : Reachable(WithSuffix(Canon(p), e)))

LoadStatic(p, accept, inm) ==
    IF ~Reachable(p) THEN [hit |-> FALSE]
    ELSE LET found == IF Last(p) \in Compressible /\ Precompressed THEN Variants(p, accept) ELSE <<>>
             enc == IF found = <<>> THEN "identity" ELSE Head(found)
             served == IF found = <<>> THEN Canon(p) ELSE Canon(WithSuffix(Canon(p), enc))
             tag == Etag(NodeAt(served))
         IN [hit |-> TRUE, served |-> served, enc |-> enc, etag |-> tag, len |-> NodeAt(served).len,
             vary |-> Negotiated(p), fresh |-> EtagMatches(inm, tag)]

-----------------------------------------------------------------------------
(* parse_range.  A header is [a, b] with NoPos for an empty side; both      *)
(* empty stands for a malformed one or several ranges (WholeFile).          *)

NoPos == -1
WholeFile == [a |-> NoPos, b |-> NoPos]

EndIncl(r, len) ==
    IF r.a = NoPos \/ r.b = NoPos THEN len - 1 ELSE Min({r.b, len - 1})

StartAt(r, len) ==
    IF r.a # NoPos THEN r.a ELSE IF r.b >= len THEN 0 ELSE len - r.b

ParseRange(r, len) ==
    IF r = WholeFile THEN [status |-> 200, from |-> 0, upto |-> len]
    ELSE IF (r.a = NoPos /\ r.b = 0) \/ len = 0 \/ StartAt(r, len) >= len \/ StartAt(r, len) > EndIncl(r, len)
         THEN [status |-> 416, from |-> 0, upto |-> 0]
         ELSE [status |-> 206, from |-> StartAt(r, len), upto |-> EndIncl(r, len) + 1]


\* What a range asks for, as the positions of the file it names.
Asked(r, len) ==
    {i \in 0..len - 1 : IF r.a = NoPos THEN r.b = NoPos \/ i >= len - r.b
                        ELSE i >= r.a /\ (r.b = NoPos \/ i <= r.b)}

-----------------------------------------------------------------------------
(* Requests through a shared cache that keeps the answers keyed as Vary     *)
(* says and revalidates on every use (cache-control: no-cache).             *)

Ready == [at |-> "idle"]

StaticInit ==
    /\ fs \in Trees /\ store = {} /\ fetches = 0 /\ deploys = 0
    /\ fetch = [f \in Fetchers |-> Ready]

Matching(u, accept) == {e \in store : e.url = u /\ e.key \in {<<>>, <<accept>>}}

\* try_static up to the await: a claimed or rejected path falls through.
TryStatic(f, w) ==
    /\ fetch[f].at # "loaded" /\ fetches < MaxFetches
    /\ fetches' = fetches + 1
    /\ LET u == w.url
           accept == w.accept
           p == resolve(u)
           loaded == IF u \in Routed \/ p = Rejected THEN [hit |-> FALSE]
                     ELSE LoadStatic(p, accept, {e.etag : e \in Matching(u, accept)})
           ranged == IF loaded.hit /\ ~loaded.fresh THEN w.range ELSE WholeFile
       IN fetch' = [fetch EXCEPT ![f] =
              IF loaded.hit
              THEN [at |-> "loaded", url |-> u, accept |-> accept, out |-> loaded,
                    part |-> ParseRange(ranged, loaded.len), asked |-> ranged,
                    since |-> NodeAt(loaded.served).ver, held |-> Matching(u, accept)]
              ELSE [at |-> "router", url |-> u]]
    /\ UNCHANGED <<fs, store, deploys>>

\* A 304 refers to the copy with that validator; otherwise the bytes are read now.
Finish(f) ==
    /\ fetch[f].at = "loaded"
    /\ LET q == fetch[f]
           now == NodeAt(q.out.served)
           whole == q.part.status = 200 /\ now.is = "file"
           entry == [url |-> q.url, key |-> IF q.out.vary THEN <<q.accept>> ELSE <<>>,
                     etag |-> q.out.etag, ver |-> now.ver, enc |-> q.out.enc]
           kept == CHOOSE e \in q.held : e.etag = q.out.etag
       IN /\ store' = IF q.out.fresh \/ ~whole THEN store
                      ELSE {e \in store : e.url # q.url \/ e.key # entry.key} \union {entry}
          /\ fetch' = [fetch EXCEPT ![f] =
                 [at |-> "done", url |-> q.url, accept |-> q.accept, path |-> q.out.served,
                  since |-> q.since, asked |-> q.asked, part |-> q.part, len |-> q.out.len,
                  ver |-> IF q.out.fresh THEN kept.ver ELSE now.ver,
                  enc |-> IF q.out.fresh THEN kept.enc ELSE q.out.enc]]
    /\ UNCHANGED <<fs, fetches, deploys>>

\* A deploy replaces a file (a later mtime) or removes it.
Deploy(p, len) ==
    /\ deploys < MaxDeploys /\ fs[p].is = "file"
    /\ deploys' = deploys + 1
    /\ fs' = [fs EXCEPT ![p] = [@ EXCEPT !.len = len, !.mtime = deploys + 1, !.ver = deploys + 1]]
    /\ UNCHANGED <<store, fetch, fetches>>

Unlink(p) ==
    /\ deploys < MaxDeploys /\ fs[p].is = "file"
    /\ deploys' = deploys + 1 /\ fs' = [fs EXCEPT ![p] = NoFile]
    /\ UNCHANGED <<store, fetch, fetches>>

StaticNext ==
    \/ \E f \in Fetchers, w \in Wanted : TryStatic(f, w)
    \/ \E f \in Fetchers : Finish(f)
    \/ \E p \in Deployed : Unlink(p) \/ \E n \in FileSizes : Deploy(p, n)

-----------------------------------------------------------------------------
(* Properties.                                                              *)

StaticTypeOK ==
    /\ fetches \in 0..MaxFetches /\ deploys \in 0..MaxDeploys
    /\ \A p \in DOMAIN fs : fs[p].is \in {"file", "link", "none"} /\ fs[p].ver \in 0..MaxDeploys
    /\ \A e \in store : e.enc \in {"identity", "br", "gzip"}
    /\ \A f \in Fetchers : fetch[f].at \in {"idle", "loaded", "done", "router"}

Served == {fetch[f] : f \in {g \in Fetchers : fetch[g].at = "done"}}

\* What a client is handed lies under the root (never behind a link that leads
\* out of it, never a dotfile, whatever the spelling of the URL) and is not a
\* file whose path a route claims.
ServedInsideRoot ==
    \A q \in Served : /\ IsPrefix(Root, q.path) /\ q.url \notin Routed
                      /\ \A i \in DOMAIN q.path : q.path[i] \notin {".."} \union Hidden

\* A client never gets an encoding it did not offer, not even from a shared
\* cache that another client filled: every negotiated answer carries Vary.
ServedDecodable ==
    \A q \in Served : q.enc # "identity" => IsAccepted(q.accept, q.enc)

\* A copy confirmed by 304, like one read from disk, is at least as new as the
\* file was when the request looked it up; a file removed meanwhile gives none.
ServedNotStale == \A q \in Served : q.ver >= q.since \/ NodeAt(q.path).is = "none"

\* A single range gives exactly the bytes it names that the file has, and 416
\* when it has none of them.
RangeExact ==
    \A q \in Served :
        IF Asked(q.asked, q.len) = {} /\ q.asked # WholeFile THEN q.part.status = 416
        ELSE Asked(q.asked, q.len) = q.part.from..q.part.upto - 1

StaticHolds == ServedInsideRoot /\ ServedDecodable /\ ServedNotStale /\ RangeExact

=============================================================================
