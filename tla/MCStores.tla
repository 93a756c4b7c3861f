------------------------------ MODULE MCStores ------------------------------
(***************************************************************************)
(* TLC instances of what requests are judged by and what outlives them:    *)
(* sessions, bearer tokens, sign-in, rate limits and lockouts, bans,       *)
(* presence, the cache and the Redis client under several of them; and the *)
(* pooled connections, name lookups and log contexts that requests share.  *)
(* They share no variable; a behaviour is one of `part`'s and the others   *)
(* stay as they begin.                                                     *)
(***************************************************************************)
EXTENDS Sessions, Throttle, RedisClient, Bans, Presence, Cache, Credentials, SignIn, Records, Cookies,
        HttpClient, Dns, LogScope

VARIABLE part

-----------------------------------------------------------------------------
(* Sessions: three sids to draw in memory, where a call is one step; over   *)
(* Redis, where every command is one, the races of a single session.        *)

MCUsedUp == [memory |-> {}, redis |-> {"s2", "s3"}]

(* Throttle: what a client may put in front of the proxies' entries.        *)

MCFakes == {<<>>, <<"junk">>, <<"10.0.0.1">>, <<"9.9.9.9">>}

(* Bans: one address, blocks with and without host bits or too long a       *)
(* prefix, two spellings of a phrase.                                       *)

Spelled(kind, net, prefix, text, lower) == [kind |-> kind, net |-> net, prefix |-> prefix, text |-> text, lower |-> lower]
MCSpellings ==
    {Spelled("ip", 2, Bare, "", ""), Spelled("subnet", 2, Bare, "", ""), Spelled("subnet", 2, 2, "", ""),
     Spelled("subnet", 3, 1, "", ""), Spelled("subnet", 1, 3, "", ""),
     Spelled("phrase", 0, Bare, "Bot", "bot"), Spelled("phrase", 0, Bare, "bot", "bot")}

(* Jwks: tokens of every rejection, over a rotation from key k1 to key k2.  *)

Bearer(alg, kid, key, exp, nbf, iss) ==
    [alg |-> alg, kid |-> kid, key |-> key, exp |-> exp, nbf |-> nbf, iss |-> iss, aud |-> "app", wellFormed |-> TRUE]
MCBearers ==
    {Bearer("RS256", "k1", "k1", 1, 0, "us"), Bearer("RS256", "k2", "k2", 0, 0, "us"),
     Bearer("RS256", "none", "k2", 0, 0, "us"), Bearer("HS256", "k1", "k1", 0, 0, "us"),
     Bearer("RS256", "k1", "k9", 0, 0, "us"), Bearer("RS256", "k2", "k2", 0, 4, "us"),
     Bearer("RS256", "k2", "k2", 0, 0, "them"), [Bearer("RS256", "k1", "k1", 1, 0, "us") EXCEPT !.wellFormed = FALSE]}
MCRotation == <<<<"k1">>, <<"k1", "k2">>, <<"k2">>>>
MCExpected == [iss |-> "us", aud |-> "any"]

(* Records: texts of different lengths; visitors with and without what is   *)
(* optional.                                                                *)

MCEntryTexts == {<<1>>, <<1, 2>>}
SeenAt(id, ip, agent, known, at) ==
    [id |-> id, authenticated |-> known, ip |-> ip, agent |-> agent, path |-> <<2>>, method |-> <<>>, last |-> at]
MCSeen ==
    {SeenAt(<<1>>, <<>>, <<>>, FALSE, 0), SeenAt(<<1>>, <<<<2>>>>, <<<<>>>>, TRUE, 9),
     SeenAt(<<1, 2>>, <<>>, <<<<1>>>>, FALSE, 9), SeenAt(<<1, 2>>, <<<<1, 2>>>>, <<>>, TRUE, 0)}

(* Cookies: a host and one below it, with and without TLS; directories.     *)

MCCookieUrls ==
    {[host |-> <<"ex">>, path |-> <<"/">>, tls |-> TRUE], [host |-> <<"ex">>, path |-> <<"/", "a", "/", "b", "?", "/">>, tls |-> FALSE],
     [host |-> <<"w", "ex">>, path |-> <<"/", "a", "b">>, tls |-> TRUE]}
SetCookie(v, attrs) == <<[name |-> "n", value |-> v, attrs |-> attrs]>>
Path(p) == [key |-> "path", path |-> p]
Domain(h) == [key |-> "domain", host |-> h]
MaxAge(n) == [key |-> "max-age", secs |-> n]
MCCookieAnswers ==
    {<<>>, SetCookie(1, <<>>), SetCookie(2, <<Domain(<<"ex">>), Path(<<"/">>)>>), SetCookie(1, <<Path(<<"/", "a">>), [key |-> "secure"]>>),
     SetCookie(2, <<MaxAge(2), [key |-> "other"]>>), SetCookie(2, <<MaxAge(1), MaxAge(0)>>),
     SetCookie(1, <<Path(<<"/", "a", "/">>), Domain(<<>>)>>) \o SetCookie(2, <<Path(<<"b">>), Domain(<<"ex">>)>>),
     <<[name |-> "", value |-> 1, attrs |-> <<>>]>>}

(* Credentials.                                                             *)

MCNoTime == -9
MCJwtClaims == {[sub |-> "a", exp |-> 2, nbf |-> MCNoTime], [sub |-> "b", exp |-> MCNoTime, nbf |-> 3]}
MCUserTexts == {<<"u">>, <<"u", "SEP">>, <<>>}
MCRoleTexts == {<<"r">>, <<"r", ",">>, <<"SEP">>, <<>>, <<"1">>}
MCCookiePairs == {[name |-> n, value |-> <<v>>] : n \in {"kw_csrf", "kw"}, v \in {"a", "b"}}
MCFormPairs == {[name |-> "_csrf", value |-> <<"%61">>], [name |-> "_csrf", value |-> <<"b">>], [name |-> "x", value |-> <<"a">>]}
MCSubmits == {<<<<"a">>>>, <<<<"c">>>>}

(* HttpClient, Dns and LogScope.                                            *)

MCHomeShard == [h1 |-> "s1", h2 |-> "s1"]
MCHostsOf == [k \in {"k1", "k2"} |-> {[labels |-> <<"w">>, dot |-> TRUE]}]
MCChanging == {<<"w">>}
MCSearchList == <<>>
MCZones == {[nx |-> TRUE, a |-> {}, aaaa |-> {}], [nx |-> FALSE, a |-> {1}, aaaa |-> {}],
            [nx |-> FALSE, a |-> {}, aaaa |-> {6}]}
MCThreadOf == [p |-> 1, q |-> 1, r |-> 2]

-----------------------------------------------------------------------------

storesVars == <<sessionVars, throttleVars, redisVars, banVars, presenceVars, cacheVars, credentialVars, signInVars,
                jwksVars, recordVars, cookieVars, clientVars, dnsVars, logVars>>

StoresInit ==
    /\ part \in {"sessions", "throttle", "redis", "bans", "presence", "cache", "credentials", "signin",
                "jwks", "records", "cookies", "client", "dns", "log"}
    /\ SessionsInit /\ (part = "sessions" \/ backend = "memory")
    /\ ThrottleInit /\ RedisInit /\ BansInit
    /\ PresenceInit /\ (part = "presence" \/ tracker = "memory")
    /\ CacheInit /\ CredentialInit /\ SignInInit /\ JwksInit
    /\ RecordsInit /\ (part = "records" \/ family = "bans")
    /\ CookiesInit /\ ClientInit
    /\ DnsInit /\ (part = "dns" \/ zone[<<"w">>].nx)
    /\ LogInit

StoresNext ==
    /\ UNCHANGED part
    /\ IF part = "sessions" THEN SessionsNext ELSE UNCHANGED sessionVars
    /\ IF part = "throttle" THEN ThrottleNext ELSE UNCHANGED throttleVars
    /\ IF part = "redis" THEN RedisNext ELSE UNCHANGED redisVars
    /\ IF part = "bans" THEN BansNext ELSE UNCHANGED banVars
    /\ IF part = "presence" THEN PresenceNext ELSE UNCHANGED presenceVars
    /\ IF part = "cache" THEN CacheNext ELSE UNCHANGED cacheVars
    /\ IF part = "credentials" THEN CredentialNext ELSE UNCHANGED credentialVars
    /\ IF part = "signin" THEN SignInNext ELSE UNCHANGED signInVars
    /\ IF part = "jwks" THEN JwksNext ELSE UNCHANGED jwksVars
    /\ IF part = "records" THEN RecordsNext ELSE UNCHANGED recordVars
    /\ IF part = "cookies" THEN CookiesNext ELSE UNCHANGED cookieVars
    /\ IF part = "client" THEN ClientNext ELSE UNCHANGED clientVars
    /\ IF part = "dns" THEN DnsNext ELSE UNCHANGED dnsVars
    /\ IF part = "log" THEN LogNext ELSE UNCHANGED logVars

StoresSpec == StoresInit /\ [][StoresNext]_<<storesVars, part>>

-----------------------------------------------------------------------------
\* The type invariant of the part being explored.
StoresTypeOK ==
    CASE part = "sessions" -> SessionsTypeOK
      [] part = "throttle" -> ThrottleTypeOK
      [] part = "redis" -> RedisTypeOK
      [] part = "bans" -> BansTypeOK
      [] part = "presence" -> PresenceTypeOK
      [] part = "cache" -> CacheTypeOK
      [] part = "credentials" -> CredentialTypeOK
      [] part = "signin" -> SignInTypeOK
      [] part = "jwks" -> JwksTypeOK
      [] part = "records" -> RecordsTypeOK
      [] part = "cookies" -> CookiesTypeOK
      [] part = "client" -> ClientTypeOK
      [] part = "dns" -> DnsTypeOK
      [] part = "log" -> LogTypeOK

\* Sessions: a session that was revoked authenticates nobody, and concurrent
\* logins exceed max_sessions by no more than the logins that ran together.
SessionsHold == part = "sessions" => RevokedStaysOut /\ CapOverrunBounded

\* What turns a request away: the rate limiter and the lockout
\* (ThrottleHolds), bans that survive restarts and concurrent edits
\* (BansSurvive) and cover the block they name (SubnetIsItsBlock).
GateHolds ==
    /\ part = "throttle" => ThrottleHolds
    /\ part = "bans" => BansSurvive /\ SubnetIsItsBlock

\* What is remembered and shared between requests: nobody is shown online
\* outside the window or missed inside it (PresenceWindow), no cached value
\* outlives its lifetime or a write (CacheIsFresh), the cache stays within its
\* capacity (CacheBounded), keys of the issuer across rotations (JwksHolds),
\* logins of one's own (SignInIsOwn), HTTP answers of the request itself
\* (ClientHolds), addresses as the name servers held them (AnswersAreRecent),
\* log lines under the context of their own task (LinesCarryOwnContext).
RegistriesHold ==
    /\ part = "presence" => PresenceWindow
    /\ part = "cache" => CacheIsFresh /\ CacheBounded
    /\ part = "signin" => SignInIsOwn
    /\ part = "jwks" => JwksHolds
    /\ part = "client" => ClientHolds
    /\ part = "dns" => AnswersAreRecent
    /\ part = "log" => LinesCarryOwnContext

\* What is written and read back: tokens and forms as they were issued
\* (CredentialsHold), registries from their bytes as they were (RecordsHold),
\* requests with the cookies that are theirs (CookiesHold).
TextsHold ==
    /\ part = "credentials" => CredentialsHold
    /\ part = "records" => RecordsHold
    /\ part = "cookies" => CookiesHold

=============================================================================
