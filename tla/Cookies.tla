------------------------------ MODULE Cookies -------------------------------
(***************************************************************************)
(* The cookie jar of the HTTP client (crates/kernway-http-client/src/      *)
(* cookie.rs) and its use by roundtrip (lib.rs): the clock is read and the *)
(* Cookie header made before the request is sent, and the cookies of the   *)
(* response are stored, with that clock, when it has come.                 *)
(*                                                                         *)
(* A host is the sequence of its labels, in lower case; a path is a        *)
(* sequence of characters.                                                 *)
(***************************************************************************)
EXTENDS Naturals, Sequences, FiniteSets, SequencesExt

CONSTANTS CookieCalls, CookieUrls,  \* the callers, and the URLs they ask for
          CookieAnswers,            \* the Set-Cookie values of a response, in order
          LastSec, MaxCookieCalls

VARIABLES jar,         \* CookieJar.cookies
          sec,         \* the clock
          trip,        \* of each caller: where roundtrip is, its url and its clock
          told,        \* history: cookies in the order they were stored, with their arrival
          cookieCalls  \* calls so far

cookieVars == <<jar, sec, trip, told, cookieCalls>>

Never == [lives |-> FALSE, until |-> 0]
Until(t) == [lives |-> TRUE, until |-> t]

-----------------------------------------------------------------------------
(* Parsing.  A Set-Cookie is a name, a value and attributes in order; a     *)
(* later one of a kind overrides, and what is not understood is ignored.    *)
PathOf(path_and_query) ==
    LET q == SelectInSeq(path_and_query, LAMBDA ch : ch = "?")
    IN  IF q = 0 THEN path_and_query ELSE SubSeq(path_and_query, 1, q - 1)

DefaultPath(path_and_query) ==
    LET slash == SelectLastInSeq(PathOf(path_and_query), LAMBDA ch : ch = "/")
    IN  IF slash <= 1 THEN <<"/">> ELSE SubSeq(path_and_query, 1, slash - 1)

Attribute(c, attr, now) ==
    CASE attr.key = "domain" /\ attr.host # <<>> -> [c EXCEPT !.domain = attr.host, !.host_only = FALSE]
      [] attr.key = "path" /\ attr.path # <<>> /\ Head(attr.path) = "/" -> [c EXCEPT !.path = attr.path]
      [] attr.key = "max-age" -> [c EXCEPT !.expires = Until(IF attr.secs <= 0 THEN 0 ELSE now + attr.secs)]
      [] attr.key = "secure" -> [c EXCEPT !.secure = TRUE]
      [] OTHER -> c

ParseSetCookie(raw, url, now) ==
    FoldLeft(LAMBDA c, attr : Attribute(c, attr, now),
             [name |-> raw.name, value |-> raw.value, domain |-> url.host, host_only |-> TRUE,
              path |-> DefaultPath(url.path), expires |-> Never, secure |-> FALSE],
             raw.attrs)

-----------------------------------------------------------------------------
(* store and header_for.                                                   *)
SameCookie(a, b) == a.name = b.name /\ a.domain = b.domain /\ a.path = b.path
Unexpired(c, now) == c.expires.lives => c.expires.until > now

\* A cookie replaces the one of its name, domain and path; one that has expired only removes it.
StoreOne(cookies, c, now) ==
    LET others == SelectSeq(cookies, LAMBDA d : ~SameCookie(d, c))
    IN  IF Unexpired(c, now) THEN Append(others, c) ELSE others

Named(raws) == SelectSeq(raws, LAMBDA raw : raw.name # "")
StoreAll(raws, url, now) ==
    FoldLeft(LAMBDA cookies, raw : StoreOne(cookies, ParseSetCookie(raw, url, now), now), jar, Named(raws))

DomainMatch(c, host) ==
    \/ host = c.domain
    \/ ~c.host_only /\ Len(host) > Len(c.domain) /\ IsSuffix(c.domain, host)

PathMatch(cookie_path, path_and_query) ==
    LET path == PathOf(path_and_query)
    IN  \/ path = cookie_path
        \/ /\ IsPrefix(cookie_path, path)
           /\ Last(cookie_path) = "/" \/ path[Len(cookie_path) + 1] = "/"

HeaderFor(url, now) ==
    SelectSeq(jar, LAMBDA c : /\ Unexpired(c, now)
                              /\ c.secure => url.tls
                              /\ DomainMatch(c, url.host)
                              /\ PathMatch(c.path, url.path))

-----------------------------------------------------------------------------
NoTrip == [at |-> "idle", url |-> {}, now |-> 0, cookies |-> <<>>]

CookiesInit == jar = <<>> /\ sec = 1 /\ trip = [k \in CookieCalls |-> NoTrip] /\ told = <<>> /\ cookieCalls = 0

BeginTrip(k, url) ==
    /\ trip[k].at = "idle" /\ cookieCalls < MaxCookieCalls
    /\ trip' = [trip EXCEPT ![k] = [at |-> "sent", url |-> url, now |-> sec, cookies |-> HeaderFor(url, sec)]]
    /\ cookieCalls' = cookieCalls + 1
    /\ UNCHANGED <<jar, sec, told>>

EndTrip(k, raws) ==
    /\ trip[k].at = "sent"
    /\ jar' = StoreAll(raws, trip[k].url, trip[k].now)
    /\ told' = told \o [i \in DOMAIN Named(raws) |->
                          [c |-> ParseSetCookie(Named(raws)[i], trip[k].url, trip[k].now),
                           raw |-> Named(raws)[i], at |-> sec]]
    /\ trip' = [trip EXCEPT ![k] = NoTrip]
    /\ UNCHANGED <<sec, cookieCalls>>

\* The exchange fails or times out: nothing is stored.
FailTrip(k) ==
    /\ trip[k].at = "sent"
    /\ trip' = [trip EXCEPT ![k] = NoTrip]
    /\ UNCHANGED <<jar, sec, told, cookieCalls>>

CookieSecond == sec < LastSec /\ sec' = sec + 1 /\ UNCHANGED <<jar, trip, told, cookieCalls>>

CookiesNext ==
    \/ \E k \in CookieCalls : \/ \E url \in CookieUrls : BeginTrip(k, url)
                              \/ \E raws \in CookieAnswers : EndTrip(k, raws)
                              \/ FailTrip(k)
    \/ CookieSecond

-----------------------------------------------------------------------------
CookiesTypeOK ==
    /\ sec \in 1 .. LastSec /\ \A k \in CookieCalls : trip[k].now <= sec
    /\ \A i \in DOMAIN jar : Head(jar[i].path) = "/" /\ jar[i].host_only => Len(jar[i].domain) > 0

\* A request carries, once each, exactly the cookies that were stored last under their name,
\* domain and path, are within their lifetime, and are meant for its host, its directory and
\* its scheme - however responses to concurrent requests were interleaved.
InDirectory(dir, path) == path = dir \/ IsPrefix(IF Last(dir) = "/" THEN dir ELSE Append(dir, "/"), path)
Due(url) ==
    {told[i].c : i \in {j \in DOMAIN told :
        LET c == told[j].c
        IN  /\ \A l \in j + 1 .. Len(told) : ~SameCookie(told[l].c, c)
            /\ c.expires.lives => sec < c.expires.until
            /\ c.secure => url.tls
            /\ IF c.host_only THEN url.host = c.domain ELSE IsSuffix(c.domain, url.host)
            /\ InDirectory(c.path, PathOf(url.path))}}
CookiesExact ==
    \A url \in CookieUrls :
       LET sent == HeaderFor(url, sec) IN ToSet(sent) = Due(url) /\ Len(sent) = Cardinality(Due(url))

\* A lifetime runs from before the response that sets it: no cookie is sent Max-Age or more
\* seconds after it came.
LifetimeHeld ==
    \A i \in DOMAIN told : \A n \in DOMAIN told[i].raw.attrs :
       LET attr == told[i].raw.attrs[n] IN
       /\ attr.key = "max-age"
       /\ \A m \in n + 1 .. Len(told[i].raw.attrs) : told[i].raw.attrs[m].key # "max-age"
       /\ sec >= told[i].at + attr.secs
       => ~Unexpired(told[i].c, sec)

CookiesHold == CookiesExact /\ LifetimeHeld
=============================================================================
