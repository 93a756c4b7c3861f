------------------------------- MODULE SignIn -------------------------------
(***************************************************************************)
(* Signing in at an OAuth2 provider with the authorization code flow       *)
(* (crates/kernway-oauth2/src/lib.rs, OAuth2Client).                       *)
(*                                                                         *)
(* The application follows the steps the crate documents: it keeps state   *)
(* and verifier in the browser's session, compares the state on the        *)
(* callback, exchanges the code and asks for the user.  The browsers, the  *)
(* provider and the application's callback are external; a callback may    *)
(* reach another browser than the one that asked, late or twice.           *)
(***************************************************************************)
EXTENDS Integers, Sequences, FiniteSets, SequencesExt

CONSTANTS Browsers, Accounts,  \* Accounts: who may be signed in at the provider
          MaxLogins         \* bound on the authorizations begun

ASSUME SignInAssumption == MaxLogins \in Nat

VARIABLES logins,    \* authorizations begun; the n-th drew state n and verifier n
          saved,     \* browser -> the login its session remembers, 0 for none
          codes,     \* codes the provider issued: code n is for login n
          spent,     \* codes redeemed
          calls,     \* browser -> the callback handler's progress
          session    \* browser -> the user signed in and the login that did it

signInVars == <<logins, saved, codes, spent, calls, session>>

NoUser == "none"
NoCall == [at |-> "idle", login |-> 0, verifier |-> 0, token |-> NoUser]

SignInInit ==
    /\ logins = <<>>
    /\ saved = [b \in Browsers |-> 0]
    /\ codes = <<>>
    /\ spent = {}
    /\ calls = [b \in Browsers |-> NoCall]
    /\ session = [b \in Browsers |-> [user |-> NoUser, login |-> 0]]

\* random_b64url: a state of its own for the n-th login.
StateOf(n) == n

\* authorize_url draws a verifier and a state, puts the hash of the one and
\* the other into the URL; both are saved, over what an earlier tab saved.
AuthorizeUrl(b) ==
    /\ Len(logins) < MaxLogins
    /\ logins' = Append(logins, b)
    /\ saved' = [saved EXCEPT ![b] = Len(logins) + 1]
    /\ UNCHANGED <<codes, spent, calls, session>>

\* The provider: the user at whichever browser follows the URL of login n
\* approves; the code is bound to the challenge.
Approve(n, u) ==
    /\ n \notin DOMAIN codes
    /\ codes' = [m \in DOMAIN codes \union {n} |-> IF m = n THEN u ELSE codes[m]]
    /\ UNCHANGED <<logins, saved, spent, calls, session>>

\* The callback: the state is compared, the verifier taken from the session.
Callback(b, n) ==
    /\ calls[b] = NoCall
    /\ saved[b] # 0 /\ StateOf(saved[b]) = StateOf(n)
    /\ calls' = [calls EXCEPT ![b] = [at |-> "exchange", login |-> n, verifier |-> saved[b], token |-> NoUser]]
    /\ UNCHANGED <<logins, saved, codes, spent, session>>

\* exchange_code at the provider: each code once, and only with the verifier
\* whose hash it was issued for.
Redeem(b) ==
    LET c == calls[b]
        good == c.login \notin spent /\ c.verifier = c.login
    IN /\ c.at = "exchange"
       /\ spent' = spent \union {c.login}
       /\ calls' = [calls EXCEPT ![b] = IF good THEN [c EXCEPT !.at = "redeemed", !.token = codes[c.login]]
                                        ELSE [c EXCEPT !.at = "refused"]]
       /\ UNCHANGED <<logins, saved, codes, session>>

\* exchange_code returns: the token, Status for a refusal, or Http when the
\* answer is lost on the way, the code being spent all the same.
Exchanged(b) ==
    /\ calls[b].at \in {"redeemed", "refused"}
    /\ \/ calls' = [calls EXCEPT ![b] = IF @.at = "redeemed" THEN [@ EXCEPT !.at = "userinfo"] ELSE NoCall]
       \/ calls' = [calls EXCEPT ![b] = NoCall]
    /\ UNCHANGED <<logins, saved, codes, spent, session>>

\* userinfo: the owner of the token; the session starts, the login is done.
Userinfo(b) ==
    /\ calls[b].at = "userinfo"
    /\ calls' = [calls EXCEPT ![b] = NoCall]
    /\ \/ /\ session' = [session EXCEPT ![b] = [user |-> calls[b].token, login |-> calls[b].login]]
          /\ saved' = [saved EXCEPT ![b] = IF @ = calls[b].login THEN 0 ELSE @]
       \/ UNCHANGED <<session, saved>>
    /\ UNCHANGED <<logins, codes, spent>>

SignInNext ==
    \/ \E b \in Browsers : AuthorizeUrl(b) \/ Redeem(b) \/ Exchanged(b) \/ Userinfo(b)
    \/ \E n \in DOMAIN logins, u \in Accounts : Approve(n, u)
    \/ \E b \in Browsers, n \in DOMAIN codes : Callback(b, n)

-----------------------------------------------------------------------------
(* Properties.                                                              *)

SignInTypeOK ==
    /\ Len(logins) <= MaxLogins /\ \A b \in Browsers : saved[b] \in 0 .. Len(logins)
    /\ DOMAIN codes \subseteq DOMAIN logins /\ spent \subseteq DOMAIN codes

\* A browser is signed in only through a login it began itself, as the user
\* who approved that very login, however many logins run at once and whichever
\* callback reaches whom; a login signs in once; and a tab whose state was
\* overwritten costs nobody else's code.
SignInIsOwn ==
    /\ \A b \in Browsers :
          LET s == session[b] IN s.login # 0 => logins[s.login] = b /\ s.user = codes[s.login]
    /\ \A b \in Browsers : calls[b].at # "idle" => logins[calls[b].login] = b
    /\ \A b, c \in Browsers : b # c /\ session[b].login # 0 => session[b].login # session[c].login

-----------------------------------------------------------------------------
(***************************************************************************)
(* Verifying an external issuer's RS256 tokens                             *)
(* (crates/kernway-oauth2/src/lib.rs, JwksClient) with the checks of       *)
(* crates/kernway-security/src/jwt.rs.                                     *)
(*                                                                         *)
(* The issuer rotates its keys and time passes while requests verify       *)
(* tokens; each fetch of the key set is a call that takes time, may fail,  *)
(* and may finish after one that began later.                              *)
(***************************************************************************)

CONSTANTS Verifiers,  \* requests verifying a token
          Bearers,    \* the tokens presented: [alg, kid, key, exp, nbf, iss, aud, wellFormed]
          Rotation,   \* the key sets the issuer publishes, in order (sequences of key ids)
          Expected,   \* Validation: [iss, aud], "any" where nothing is expected
          Leeway, LastSecond, MaxVerifies

\* "none" is the key id of a token that names no key, "no key" what finding none gives.
ASSUME JwksAssumption ==
    /\ Rotation \in Seq(Seq(STRING)) /\ Rotation # <<>>
    /\ Leeway \in Nat /\ LastSecond \in Nat \ {0} /\ MaxVerifies \in Nat
    /\ \A t \in Bearers : t.exp \in Nat /\ t.key \notin {"none", "no key"}

VARIABLES now, epoch,  \* the clock; the index of the key set now published
          keyCache,    \* JwksClient.cache: a key set, or NoKeys
          job,         \* verifier -> the verify call it is in
          verified     \* calls begun so far

jwksVars == <<now, epoch, keyCache, job, verified>>

NoKeys == <<"none">>
Published == Rotation[epoch]

-----------------------------------------------------------------------------
(* jwt.rs.                                                                  *)

\* validate_claims, in the order of the code; 0 for an absent time.
ValidateClaims(t, at) ==
    IF t.exp # 0 /\ at > t.exp + Leeway THEN "expired"
    ELSE IF t.nbf # 0 /\ at + Leeway < t.nbf THEN "not yet valid"
    ELSE IF Expected.iss \notin {"any", t.iss} THEN "issuer"
    ELSE IF Expected.aud \notin {"any", t.aud} THEN "audience"
    ELSE "ok"

\* Jwks::find: the key named, or the first when the token names none.
KeyFor(keys, kid) ==
    IF kid = "none" THEN (IF keys = <<>> THEN "no key" ELSE keys[1])
    ELSE IF \E i \in DOMAIN keys : keys[i] = kid THEN kid ELSE "no key"

\* Jwks::verify: form, algorithm, key, signature, then the claims.
VerifyWith(keys, t, at) ==
    IF ~t.wellFormed THEN "malformed"
    ELSE IF t.alg # "RS256" THEN "algorithm"
    ELSE IF KeyFor(keys, t.kid) = "no key" THEN "unknown key"
    ELSE IF KeyFor(keys, t.kid) # t.key THEN "signature"
    ELSE ValidateClaims(t, at)

-----------------------------------------------------------------------------
(* JwksClient::verify.                                                      *)

JwksInit ==
    /\ now = 1 /\ epoch = 1 /\ keyCache = NoKeys /\ verified = 0
    /\ job = [v \in Verifiers |-> [at |-> "idle"]]

Settle(v, result) ==
    job' = [job EXCEPT ![v] = [at |-> "done", token |-> @.token, time |-> @.time, since |-> @.since,
                               failed |-> @.failed, result |-> result]]

\* The caller's clock is read once; the mutex is released before any await.
Verify(v, t) ==
    /\ job[v].at \in {"idle", "done"} /\ verified < MaxVerifies /\ verified' = verified + 1
    /\ LET begun == [at |-> "checking", token |-> t, time |-> now, since |-> epoch,
                     failed |-> FALSE, keys |-> keyCache, retried |-> FALSE]
       IN job' = [job EXCEPT ![v] = IF keyCache = NoKeys THEN [begun EXCEPT !.at = "fetching"] ELSE begun]
    /\ UNCHANGED <<now, epoch, keyCache>>

\* The issuer answers with the set it publishes at that moment.
Serve(v) ==
    /\ job[v].at = "fetching"
    /\ job' = [job EXCEPT ![v].at = "received", ![v].keys = Published]
    /\ UNCHANGED <<now, epoch, keyCache, verified>>

FetchFails(v) ==
    /\ job[v].at = "fetching"
    /\ job' = [job EXCEPT ![v] = [at |-> "done", token |-> @.token, time |-> @.time, since |-> @.since,
                                  failed |-> TRUE, result |-> "fetch"]]
    /\ UNCHANGED <<now, epoch, keyCache, verified>>

\* fetch stores what it received, in the order the answers are handled.
Fetched(v) ==
    /\ job[v].at = "received" /\ keyCache' = job[v].keys
    /\ job' = [job EXCEPT ![v].at = "checking"]
    /\ UNCHANGED <<now, epoch, verified>>

\* The second attempt is final, also when the first set came from a fetch.
CheckToken(v) ==
    /\ job[v].at = "checking"
    /\ LET result == VerifyWith(job[v].keys, job[v].token, job[v].time)
       IN IF result = "unknown key" /\ ~job[v].retried
          THEN job' = [job EXCEPT ![v].at = "fetching", ![v].retried = TRUE]
          ELSE Settle(v, result)
    /\ UNCHANGED <<now, epoch, keyCache, verified>>

Rotate ==
    /\ epoch < Len(Rotation) /\ epoch' = epoch + 1
    /\ UNCHANGED <<now, keyCache, job, verified>>

Second ==
    /\ now < LastSecond /\ now' = now + 1
    /\ UNCHANGED <<epoch, keyCache, job, verified>>

JwksNext ==
    \/ \E v \in Verifiers : \/ \E t \in Bearers : Verify(v, t)
                            \/ Serve(v) \/ FetchFails(v) \/ Fetched(v) \/ CheckToken(v)
    \/ Rotate \/ Second

-----------------------------------------------------------------------------
(* Properties.                                                              *)

JwksTypeOK ==
    /\ now \in 1..LastSecond /\ epoch \in DOMAIN Rotation /\ verified \in 0..MaxVerifies
    /\ keyCache = NoKeys \/ \E e \in 1..epoch : keyCache = Rotation[e]
    /\ \A v \in Verifiers : job[v].at \in {"idle", "checking", "fetching", "received", "done"}

In(key, e) == \E i \in DOMAIN Rotation[e] : Rotation[e][i] = key

\* An accepted token was signed by the key it names, one the issuer had
\* published by then, and was within its lifetime when the call began.
AcceptedIsGenuine ==
    \A v \in Verifiers : job[v].at = "done" /\ job[v].result = "ok" =>
        LET t == job[v].token
        IN /\ t.alg = "RS256" /\ t.kid \in {t.key, "none"} /\ \E e \in 1..epoch : In(t.key, e)
           /\ t.exp # 0 => job[v].time <= t.exp + Leeway
           /\ Expected.iss \in {"any", t.iss} /\ Expected.aud \in {"any", t.aud}

\* A token signed by a key published all through the call is accepted when its
\* claims are, across a rotation and whichever fetch wrote the cache last.
CurrentKeyAccepted ==
    \A v \in Verifiers : job[v].at = "done" /\ ~job[v].failed =>
        LET t == job[v].token
        IN t.wellFormed /\ t.alg = "RS256" /\ t.kid = t.key /\ (\A e \in job[v].since..epoch : In(t.key, e))
               => job[v].result = ValidateClaims(t, job[v].time)

JwksHolds == AcceptedIsGenuine /\ CurrentKeyAccepted
=============================================================================
