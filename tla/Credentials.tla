---------------------------- MODULE Credentials ----------------------------
(***************************************************************************)
(* What the application hands out and takes back: signed tokens            *)
(* (crates/kernway-security/src/jwt.rs, token.rs) and the double-submit    *)
(* CSRF token (crates/kernway-security/src/lib.rs).                        *)
(*                                                                         *)
(* A token is the sequence of its dot-separated parts; a signature is the  *)
(* key and the parts it was computed from, so that two agree only when     *)
(* those do.  Texts are sequences of characters.                           *)
(***************************************************************************)
EXTENDS Integers, Sequences, FiniteSets, SequencesExt

CONSTANTS ByteValues, MaxOctets,         \* data for base64url
          JwtClaims, Algs, OwnKey, OtherKey, \* claims issued: [sub, exp, nbf], NoTime where absent
          NoTime, TokenLeeway, MaxClock,
          UserTexts, RoleTexts,          \* what a session token carries
          CookiePairs, FormPairs, Submits \* CSRF requests

VARIABLES octets,    \* bytes to be encoded
          token,     \* parts put together by whoever presents it
          wallClock,     \* seconds
          grant,     \* the claims of a session token
          form       \* a request: [cookies, header, fields]

credentialVars == <<octets, token, wallClock, grant, form>>

-----------------------------------------------------------------------------
(* base64url.  A character is its value, 0 .. 63.                           *)

\* b64url_encode: three bytes at a time, the last one or two cut short.
Chunk(s) ==
    LET at(i) == IF i <= Len(s) THEN s[i] ELSE 0
        n == at(1) * 65536 + at(2) * 256 + at(3)
    IN SubSeq(<<n \div 262144, (n \div 4096) % 64, (n \div 64) % 64, n % 64>>, 1, IF Len(s) >= 3 THEN 4 ELSE Len(s) + 1)
B64UrlEncode(s) ==
    FlattenSeq([k \in 1 .. (Len(s) + 2) \div 3 |-> Chunk(SubSeq(s, 3 * k - 2, IF 3 * k < Len(s) THEN 3 * k ELSE Len(s)))])

\* Variant for the mutation runs: the bits left over are kept in the count.
TakeBitsLate(d, v) ==
    LET acc == (d.acc * 64 + v) % 16777216
        bits == d.bits + 6
    IN IF bits > 8 THEN [acc |-> acc, bits |-> bits - 8, out |-> Append(d.out, (acc \div 2^(bits - 8)) % 256)]
       ELSE [d EXCEPT !.acc = acc, !.bits = bits]

\* b64url_decode, one character; only the low bits of the accumulator are ever read.
TakeBits(d, v) ==
    LET acc == (d.acc * 64 + v) % 16777216
        bits == d.bits + 6
    IN IF bits >= 8 THEN [acc |-> acc, bits |-> bits - 8, out |-> Append(d.out, (acc \div 2^(bits - 8)) % 256)]
       ELSE [d EXCEPT !.acc = acc, !.bits = bits]
B64UrlDecode(s) == FoldLeft(TakeBits, [acc |-> 0, bits |-> 0, out |-> <<>>], s).out

-----------------------------------------------------------------------------
(* JSON web tokens.                                                         *)

NoClaims == [sub |-> "", exp |-> NoTime, nbf |-> NoTime]
HeaderPart(alg) == [is |-> "header", alg |-> alg, claims |-> NoClaims, key |-> "", of |-> <<>>]
PayloadPart(c) == [is |-> "payload", alg |-> "", claims |-> c, key |-> "", of |-> <<>>]
MacPart(key, h, p) == [is |-> "mac", alg |-> h.alg, claims |-> p.claims, key |-> key, of |-> <<h.is, p.is>>]

\* Jwt::encode
EncodeJwt(key, alg, c) == <<HeaderPart(alg), PayloadPart(c), MacPart(key, HeaderPart(alg), PayloadPart(c))>>

\* validate_claims, for exp and nbf.
Timely(c, now) ==
    /\ c.exp = NoTime \/ now <= c.exp + TokenLeeway
    /\ c.nbf = NoTime \/ now + TokenLeeway >= c.nbf

Denied(why) == [ok |-> FALSE, why |-> why]

\* Jwt::decode_with: three parts, the signature, the algorithm, then the claims.
DecodeJwt(t, now) ==
    IF Len(t) # 3 THEN Denied("malformed")
    ELSE IF t[3] # MacPart(OwnKey, t[1], t[2]) THEN Denied("signature")
    ELSE IF t[1].is # "header" THEN Denied("malformed")
    ELSE IF t[1].alg # "HS256" THEN Denied("alg")
    ELSE IF t[2].is # "payload" THEN Denied("malformed")
    ELSE IF ~Timely(t[2].claims, now) THEN Denied("time")
    ELSE [ok |-> TRUE, why |-> "", claims |-> t[2].claims]

-----------------------------------------------------------------------------
(* Session tokens: the claims as one text (encode_claims, decode_claims).   *)

JoinWith(parts, sep) == FlattenSeq([i \in DOMAIN parts |-> (IF i > 1 THEN <<sep>> ELSE <<>>) \o parts[i]])
SplitBy(s, sep) ==
    FoldLeft(LAMBDA parts, x : IF x = sep THEN Append(parts, <<>>) ELSE [parts EXCEPT ![Len(parts)] = Append(@, x)],
             <<<<>>>>, s)

EncodeClaims(c) == JoinWith(<<c.sid, c.user, JoinWith(c.roles, ","), <<c.version>>, <<c.exp>>>>, "SEP")

DecodeClaims(s) ==
    LET f == SplitBy(s, "SEP")
        number(x) == x \in {<<"1">>, <<"2">>}
    IN IF Len(f) # 5 THEN <<>>
       ELSE IF ~number(f[4]) \/ ~number(f[5]) THEN <<>>
       ELSE <<[sid |-> f[1], user |-> f[2], roles |-> IF f[3] = <<>> THEN <<>> ELSE SplitBy(f[3], ","),
               version |-> f[4][1], exp |-> f[5][1]]>>

-----------------------------------------------------------------------------
(* CSRF.                                                                    *)

\* url_decode: an escape is one character here.
UrlDecoded(v) == [i \in DOMAIN v |-> IF v[i] = "%61" THEN "a" ELSE IF v[i] = "+" THEN "SP" ELSE v[i]]

FirstNamed(pairs, name) == SelectSeq(pairs, LAMBDA p : p.name = name)

\* verify_request: the header if there is one, else the form field, against the first cookie.
VerifyRequest(r) ==
    LET cookies == FirstNamed(r.cookies, "kw_csrf")
        fields == FirstNamed(r.fields, "_csrf")
        submitted == IF r.header # <<>> THEN r.header ELSE IF fields = <<>> THEN <<>> ELSE <<UrlDecoded(fields[1].value)>>
    IN cookies # <<>> /\ submitted # <<>> /\ submitted[1] = cookies[1].value

-----------------------------------------------------------------------------

NoGrant == <<>>
NoForm == [cookies |-> <<>>, header |-> <<>>, fields |-> <<>>]

CredentialInit == octets = <<>> /\ token = <<>> /\ wallClock = 0 /\ grant = NoGrant /\ form = NoForm

AddOctet(b) == Len(octets) < MaxOctets /\ octets' = Append(octets, b) /\ UNCHANGED <<token, wallClock, grant, form>>

\* What a client can put into a token: any part of the tokens issued, headers
\* and claims of its own, and signatures under a key of its own.
IssuedJwts == {EncodeJwt(OwnKey, "HS256", c) : c \in JwtClaims}
KnownParts ==
    {HeaderPart(a) : a \in Algs} \union {PayloadPart(c) : c \in JwtClaims} \union UNION {ToSet(t) : t \in IssuedJwts}
      \union {EncodeJwt(OtherKey, a, c)[3] : a \in Algs, c \in JwtClaims}
PresentPart(p) == Len(token) < 4 /\ token' = Append(token, p) /\ UNCHANGED <<octets, wallClock, grant, form>>

\* The clock jumps to where validity may change.
Elapse(t) == wallClock' = t /\ t > wallClock /\ UNCHANGED <<octets, token, grant, form>>

GrantClaims(u, rs) ==
    /\ grant = NoGrant /\ grant' = <<[sid |-> <<"s">>, user |-> u, roles |-> rs, version |-> "1", exp |-> "2"]>>
    /\ UNCHANGED <<octets, token, wallClock, form>>

Submit(c, h, f) == form = NoForm /\ form' = [cookies |-> c, header |-> h, fields |-> f] /\ UNCHANGED <<octets, token, wallClock, grant>>

SeqsUpTo2(S) == {<<>>} \union {<<x>> : x \in S} \union {<<x, y>> : x, y \in S}

CredentialNext ==
    \/ token = <<>> /\ grant = NoGrant /\ form = NoForm /\ wallClock = 0 /\ \E b \in ByteValues : AddOctet(b)
    \/ octets = <<>> /\ grant = NoGrant /\ form = NoForm /\ \E p \in KnownParts : PresentPart(p)
    \/ octets = <<>> /\ grant = NoGrant /\ form = NoForm /\ \E t \in 1 .. MaxClock : Elapse(t)
    \/ octets = <<>> /\ token = <<>> /\ wallClock = 0 /\ \E u \in UserTexts, rs \in SeqsUpTo2(RoleTexts) : GrantClaims(u, rs)
    \/ octets = <<>> /\ token = <<>> /\ wallClock = 0 /\ grant = NoGrant
          /\ \E c \in SeqsUpTo2(CookiePairs), h \in Submits \union {<<>>}, f \in SeqsUpTo2(FormPairs) : Submit(c, h, f)

-----------------------------------------------------------------------------
(* Properties.                                                              *)

CredentialTypeOK == Len(octets) <= MaxOctets /\ Len(token) <= 4 /\ wallClock \in 0 .. MaxClock /\ Len(grant) <= 1

\* Bytes survive base64url whatever their number modulo three.
BytesRoundTrip == B64UrlDecode(B64UrlEncode(octets)) = octets

\* However the parts of issued tokens are recombined with made up ones, what
\* decode accepts is exactly a token that was issued, at a time its claims
\* allow; nothing signed by another key or declared under another algorithm.
AcceptedWasIssued ==
    DecodeJwt(token, wallClock).ok <=> token \in IssuedJwts /\ Timely(token[2].claims, wallClock)

\* The claims of a session token come back as they were signed or not at all:
\* a separator inside one moves no text into another field, as long as no
\* role is empty or contains the comma that joins them.
ClaimsNeverShift ==
    \A c \in ToSet(grant) :
        (\A r \in ToSet(c.roles) : r # <<>> /\ "," \notin ToSet(r)) =>
            DecodeClaims(EncodeClaims(c)) =
                IF "SEP" \in ToSet(c.user \o FlattenSeq(c.roles)) THEN <<>> ELSE <<c>>

\* A form is accepted only when it repeats the value of a CSRF cookie the
\* browser sent, and never on the strength of a field when a header came too.
CsrfRepeatsCookie ==
    VerifyRequest(form) =>
        \E c \in ToSet(form.cookies) :
            /\ c.name = "kw_csrf"
            /\ IF form.header # <<>> THEN form.header = <<c.value>>
               ELSE \E f \in ToSet(form.fields) : f.name = "_csrf" /\ UrlDecoded(f.value) = c.value

CredentialsHold == BytesRoundTrip /\ AcceptedWasIssued /\ ClaimsNeverShift /\ CsrfRepeatsCookie

=============================================================================
