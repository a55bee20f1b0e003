----------------------------- MODULE SigningKeys -----------------------------
(***************************************************************************)
(* Signed access tokens: JwtConfig (jwt.rs), what the server signs           *)
(* (server.rs), and the harness a host runs over a signer and a verifier     *)
(* before it trusts them (signer_conformance.rs).                            *)
(*                                                                          *)
(* The configuration belongs to the server, so promoting a key means another *)
(* server value: a request being handled by the old one keeps the key it was *)
(* received under, and reads the clock, and signs, only after its awaits.    *)
(* A signer may be remote, so signing is two steps itself: the header and    *)
(* claims are written, and the signature comes back later.  A resource       *)
(* server fetches the published set, selects by `kid`, and verifies.         *)
(*                                                                          *)
(* Signers and verifiers are supplied by the host, so either may have a      *)
(* fault.  A signature is the key, algorithm and input it was made with and  *)
(* the form its bytes take.                                                  *)
(***************************************************************************)
EXTENDS Jose, Sequences, FiniteSets

CONSTANTS
    Signers,            \* [alg, key, kid, fault]
    Verifiers,          \* [alg, fault]
    TokenRequests,      \* [client, subject, scope, resource], None where there is none
    Signings,           \* access tokens the server sets out to sign, each once
    ConfiguredAudience, \* the `audience` of JwtConfig, a sequence
    signed_token_ttl,
    forget_after,       \* how long the host keeps a retired key published
    MaxHandling,        \* how long a request is handled before its token's clock is read, at most
    MaxKeyInstant,      \* bound: the last instant of the clock
    NoValue             \* Rust's Option::None

\* A host gives each key a name of its own, and only an ECDSA signature has a DER form.
ASSUME SignerAssumption ==
    /\ \A s \in Signers : s.alg \in JwsAlg
    /\ \A s, t \in Signers : s.kid = t.kid /\ s.kid # NoValue =>
           s.key = t.key /\ key_kind(s.alg) = key_kind(t.alg)
    /\ \A v \in Verifiers : v.fault = "der" => v.alg = "ES256"
    /\ signed_token_ttl \in Nat /\ forget_after \in Nat /\ MaxHandling \in Nat

VARIABLES
    jwt,        \* the server's JwtConfig
    vouched,    \* the verifier each algorithm's tokens are verified with
    retired_at, \* history: when each kid left the active place
    signing,    \* the requests being handled, and the tokens being signed
    issued,     \* the tokens signed
    keyInstant  \* the clock

keyVars == <<jwt, vouched, retired_at, signing, issued, keyInstant>>

-----------------------------------------------------------------------------
(***************************************************************************)
(* What a signer and a verifier do, faults included                          *)
(***************************************************************************)
Jwk_(id, kind, kid) == [id |-> id, kind |-> kind, kid |-> kid, on_curve |-> TRUE, decodes |-> TRUE]

\* `public_jwk`, the first time and every later time it is called.
public_jwk(s, again) ==
    LET honest == Jwk_(s.key, key_kind(s.alg), s.kid)
    IN  CASE s.fault = "publishes_another_key" -> [honest EXCEPT !.id = "another"]
          [] s.fault = "unstable_key" /\ again -> [honest EXCEPT !.id = "another"]
          [] s.fault = "bad_coordinate" -> [honest EXCEPT !.decodes = FALSE]
          [] OTHER -> honest

\* The bytes of a signature: as made, or cut, padded or re-encoded on the way.
Signature(key, alg, input) == [key |-> key, alg |-> alg, input |-> input, form |-> "whole"]
As(form, signature) == [signature EXCEPT !.form = form]

sign(s, input) ==
    LET made == Signature(s.key, s.alg, IF s.fault = "constant" THEN "constant" ELSE input)
    IN  IF s.fault = "der" THEN As("der", made) ELSE made

\* `JwsVerifier::verify`: each condition, and the fault that drops it.
Fits(v, jwk, input, signature) ==
    /\ consistent(v.alg, jwk)
    /\ jwk.decodes
    /\ jwk.on_curve \/ v.fault = "any_curve"
    /\ \/ v.fault = "any_signature"
       \/ /\ jwk.id = signature.key \/ v.fault = "any_key"
          /\ signature.alg = v.alg
          /\ input = signature.input \/ v.fault = "any_input"
          /\ \/ signature.form = "whole"
             \/ signature.form = "der" /\ v.fault = "der"
             \/ signature.form = "zero stripped" /\ v.fault = "pads"
             \/ signature.form = "zero appended" /\ v.fault = "reads_a_prefix"

Panics(v, jwk, signature) ==
    \/ v.fault = "slices" /\ signature.form \in {"empty", "one byte", "half", "cut"}
    \/ v.fault = "unwraps_the_point" /\ ~jwk.on_curve

Verdict(v, jwk, input, signature) ==
    IF Panics(v, jwk, signature) THEN "panics"
    ELSE IF Fits(v, jwk, input, signature) THEN "verified" ELSE "refused"

-----------------------------------------------------------------------------
(***************************************************************************)
(* SignerConformance: a host runs it over a pair                             *)
(***************************************************************************)
\* What a probe passes to the verifier, what must come back, and the check it belongs to.
Probe(check, jwk, input, signature, wanted) ==
    [check |-> check, jwk |-> jwk, input |-> input, signature |-> signature, wanted |-> wanted]

\* `alg_profile`: the published vector of each algorithm, and a foreign key of its kind.
alg_profile(alg) ==
    [signing_input |-> "vector",
     vector_key |-> Jwk_("published example", key_kind(alg), NoValue),
     vector_signature |-> Signature("published example", alg, "vector"),
     foreign_key |-> Jwk_("foreign", key_kind(alg), NoValue)]

SharedProbes(p) ==
    {Probe("VERIFIER_RFC7515_A3", p.vector_key, "vector", p.vector_signature, TRUE),
     Probe("VERIFIER_REJECTS_A_FOREIGN_KEY", p.foreign_key, "vector", p.vector_signature, FALSE),
     Probe("VERIFIER_REJECTS_A_TAMPERED_INPUT", p.vector_key, "tampered", p.vector_signature, FALSE),
     Probe("VERIFIER_REJECTS_A_TAMPERED_INPUT", p.vector_key, "empty", p.vector_signature, FALSE),
     Probe("VERIFIER_REJECTS_A_TAMPERED_SIGNATURE", p.vector_key, "vector",
           As("bit flipped", p.vector_signature), FALSE)}

WrongLength(jwk, signature, form) ==
    Probe("VERIFIER_REJECTS_A_WRONG_LENGTH_SIGNATURE", jwk, signature.input, As(form, signature), FALSE)

\* The vector whose R begins with a zero byte.
padding_key == Jwk_("padding", "P-256", NoValue)
leading_zero == Signature("padding", "ES256", "leading zero")

check_wrong_length_signatures(p) ==
    {WrongLength(p.vector_key, p.vector_signature, form) :
        form \in {"empty", "one byte", "half", "cut", "zero appended"}}
    \cup {WrongLength(padding_key, leading_zero, "zero stripped")}

check_verifier(p) ==
    SharedProbes(p)
    \cup {Probe("VERIFIER_REJECTS_DER", p.vector_key, "vector", As("der", p.vector_signature), FALSE),
          Probe("VERIFIER_REJECTS_A_FOREIGN_KEY", [p.vector_key EXCEPT !.on_curve = FALSE], "vector",
                p.vector_signature, FALSE)}
    \cup check_wrong_length_signatures(p)

\* A slip: the other algorithms' verifiers are handed whole signatures only.
check_verifier_whole_signatures(p) == SharedProbes(p)

check_verifier_generic(p) ==
    SharedProbes(p)
    \cup {WrongLength(p.vector_key, p.vector_signature, form) : form \in {"empty", "cut", "zero appended"}}

VerifierProbes(alg) ==
    IF alg = "ES256" THEN check_verifier(alg_profile(alg)) ELSE check_verifier_generic(alg_profile(alg))

\* `verify`: a panic is caught, reported, and counts as a refusal.
Reports(v, probes) ==
    {p.check : p \in {q \in probes : (Verdict(v, q.jwk, q.input, q.signature) = "verified") # q.wanted}}
    \cup {"VERIFIER_DOES_NOT_PANIC" :
            p \in {q \in probes : Verdict(v, q.jwk, q.input, q.signature) = "panics"}}

check_published_key(s, published) ==
    IF published.kind # key_kind(s.alg) \/ ~published.decodes
    THEN {"SIGNER_PUBLIC_JWK_IS_ES256"} ELSE {}

\* The part of check_signer before anything is signed.
check_signer_key(s) ==
    LET published == public_jwk(s, FALSE)
    IN  check_published_key(s, published)
        \cup (IF published.kid = NoValue THEN {"SIGNER_PUBLIC_JWK_HAS_A_KID"} ELSE {})
        \cup (IF public_jwk(s, TRUE) # published THEN {"SIGNER_PUBLIC_JWK_IS_STABLE"} ELSE {})
        \cup (IF published.id = "published example"
              THEN {"SIGNER_IS_NOT_THE_PUBLISHED_EXAMPLE_KEY"} ELSE {})

\* The part after: two inputs are signed, and each signature must cover its own input alone.
check_signer_signatures(s, v) ==
    LET own == public_jwk(s, FALSE)
        first == sign(s, "a")
        second == sign(s, "b")
        Covers(input, signature) == Verdict(v, own, input, signature) = "verified"
    IN  (IF s.alg = "ES256" /\ first.form = "der" THEN {"SIGNER_IS_NOT_DER"} ELSE {})
        \cup Reports(v, {Probe("SIGNER_VERIFIES_UNDER_ITS_OWN_JWK", own, "a", first, TRUE),
                         Probe("SIGNER_REJECTED_BY_ANOTHER_KEY", alg_profile(s.alg).foreign_key,
                               "a", first, FALSE)})
        \cup CASE s.fault = "signs_once" -> {"SIGNER_SIGNS"}
               [] s.fault # "signs_once" /\ (~Covers("b", second) \/ Covers("a", second) \/ Covers("b", first))
                    -> {"SIGNER_BINDS_THE_SIGNING_INPUT"}
               [] OTHER -> {}

\* `run`.  A signer that panics or refuses is not asked for a second signature.
run_signer(s, v) ==
    Reports(v, VerifierProbes(s.alg))
    \cup check_signer_key(s)
    \cup CASE s.fault = "panics" -> {"SIGNER_DOES_NOT_PANIC", "SIGNER_SIGNS"}
           [] s.fault = "refuses" -> {"SIGNER_SIGNS"}
           [] OTHER -> check_signer_signatures(s, v)

-----------------------------------------------------------------------------
(***************************************************************************)
(* JwtConfig                                                                 *)
(***************************************************************************)
names_a_resource_server(aud) == aud # <<>> /\ \A i \in 1..Len(aud) : aud[i] # ""

encoded_jose_header(alg, active) == [alg |-> alg, kid |-> active.kid]

\* `new`: what the key is called, and what it signs with, are read once.
JwtConfig(s) ==
    LET active == public_jwk(s, TRUE)
    IN  [signer |-> s, alg |-> s.alg, active |-> active, retired |-> {},
         audience |-> ConfiguredAudience, encoded_header |-> encoded_jose_header(s.alg, active)]

\* The retired keys are kept as a set: a resource server selects by `kid`, never by position.
Others(jwks, kids) == {jwk \in jwks : jwk.kid \notin kids}

\* A slip: the outgoing key is the only one kept.
rotate_keeping_one(config, s) ==
    LET active == public_jwk(s, TRUE)
    IN  [config EXCEPT !.signer = s, !.alg = s.alg, !.active = active,
                       !.encoded_header = encoded_jose_header(s.alg, active),
                       !.retired = IF config.active.kid # active.kid THEN {config.active} ELSE {}]

rotate_to(config, s) ==
    LET active == public_jwk(s, TRUE)
        retiring == config.active
        kept == Others(config.retired, {retiring.kid, active.kid})
    IN  [config EXCEPT !.signer = s, !.alg = s.alg, !.active = active,
                       !.encoded_header = encoded_jose_header(s.alg, active),
                       !.retired = IF retiring.kid # active.kid THEN {retiring} \cup kept ELSE kept]

forget_retired_key(config, kid) == [config EXCEPT !.retired = Others(config.retired, {kid})]

\* The published set.  An RSA entry names no algorithm, because two use the same key.
JwksEntry(jwk) ==
    [jwk |-> jwk,
     alg |-> CASE jwk.kind = "P-256" -> "ES256" [] jwk.kind = "Ed25519" -> "EdDSA" [] OTHER -> NoValue]

jwks(config) == {JwksEntry(jwk) : jwk \in {config.active} \cup config.retired}

-----------------------------------------------------------------------------
(***************************************************************************)
(* The server                                                               *)
(***************************************************************************)
\* `access_token_signing_input`: the audience is what the grant names, and the configured one
\* when it names none; the subject of a token with no user is the client.
AccessTokenClaims(audience, r) ==
    [aud |-> IF r.resource = <<>> THEN audience ELSE r.resource,
     sub |-> IF r.subject = NoValue THEN r.client ELSE r.subject,
     client_id |-> r.client,
     scope |-> IF r.scope = {} THEN NoValue ELSE r.scope,
     iat |-> keyInstant,
     exp |-> keyInstant + signed_token_ttl]

\* The pairs a host installs: the ones the harness has nothing to say against.
Conforming == {pair \in {[s |-> s, v |-> v] : s \in Signers, v \in Verifiers} :
                  pair.s.alg = pair.v.alg /\ run_signer(pair.s, pair.v) = {}}

KeyInit ==
    /\ \E pair \in Conforming : LET s == pair.s  v == pair.v IN
        /\ jwt = JwtConfig(s)
        /\ vouched = [alg \in JwsAlg |-> IF alg = s.alg THEN v ELSE NoValue]
    /\ retired_at = [kid \in {s.kid : s \in Signers} |-> NoValue]
    /\ signing = [t \in Signings |-> NoValue]
    /\ issued = {}
    /\ keyInstant = 0

InState(t, states) == signing[t] # NoValue /\ signing[t].state \in states

\* No request is handled for longer than the host lets it be.
KeyTick ==
    /\ keyInstant < MaxKeyInstant
    /\ \A t \in Signings : InState(t, {"handling"}) => keyInstant < signing[t].since + MaxHandling
    /\ keyInstant' = keyInstant + 1
    /\ UNCHANGED <<jwt, vouched, retired_at, signing, issued>>

\* A request reaches the server, whose configuration it borrows to its end.
HandlingBegins ==
    \E t \in Signings :
        /\ signing[t] = NoValue
        /\ signing' = [signing EXCEPT ![t] =
                          [state |-> "handling", signer |-> jwt.signer, header |-> jwt.encoded_header,
                           audience |-> jwt.audience, since |-> keyInstant]]
        /\ UNCHANGED <<jwt, vouched, retired_at, issued, keyInstant>>

\* `issue` reads the clock, and `signing_input` refuses an audience naming no resource server.
SigningBegins ==
    \E t \in Signings, r \in TokenRequests :
        /\ InState(t, {"handling"})
        /\ LET claims == AccessTokenClaims(signing[t].audience, r) IN
            /\ names_a_resource_server(claims.aud)
            /\ signing' = [signing EXCEPT ![t] =
                              [state |-> "signing", signer |-> signing[t].signer,
                               header |-> signing[t].header, claims |-> claims]]
        /\ UNCHANGED <<jwt, vouched, retired_at, issued, keyInstant>>

\* `finish_signing`.
SigningEnds ==
    \E t \in Signings :
        /\ InState(t, {"signing"})
        /\ issued' = issued \cup
              {[header |-> signing[t].header, claims |-> signing[t].claims,
                signature |-> sign(signing[t].signer, <<signing[t].header, signing[t].claims>>)]}
        /\ signing' = [signing EXCEPT ![t] = [state |-> "done"]]
        /\ UNCHANGED <<jwt, vouched, retired_at, keyInstant>>

\* The request was refused, or the signer could not sign: an error, and no token.
SigningFails ==
    \E t \in Signings :
        /\ InState(t, {"handling", "signing"})
        /\ signing' = [signing EXCEPT ![t] = [state |-> "done"]]
        /\ UNCHANGED <<jwt, vouched, retired_at, issued, keyInstant>>

\* A host promotes the next key: a server with the next configuration takes over, and what the last
\* one is handling stays with it.
KeyRotates ==
    \E pair \in Conforming : LET s == pair.s  v == pair.v IN
        /\ jwt' = rotate_to(jwt, s)
        /\ vouched' = [vouched EXCEPT ![s.alg] = v]
        /\ retired_at' = [retired_at EXCEPT ![jwt.active.kid] = keyInstant]
        /\ UNCHANGED <<signing, issued, keyInstant>>

\* And drops a retired one, no sooner than `forget_after` since it was retired.
Forgets ==
    \E kid \in {jwk.kid : jwk \in jwt.retired} :
        /\ keyInstant >= retired_at[kid] + forget_after
        /\ jwt' = forget_retired_key(jwt, kid)
        /\ UNCHANGED <<vouched, retired_at, signing, issued, keyInstant>>

KeyNext == KeyTick \/ HandlingBegins \/ SigningBegins \/ SigningEnds \/ SigningFails \/ KeyRotates \/ Forgets

KeySpec == KeyInit /\ [][KeyNext]_keyVars

-----------------------------------------------------------------------------
(***************************************************************************)
(* Properties                                                               *)
(***************************************************************************)
\* A resource server: the entries the token's header selects, and what the verifier says of each.
Selected(token) ==
    {e \in jwks(jwt) : e.jwk.kid = token.header.kid /\ e.alg \in {NoValue, token.header.alg}}

AtAResourceServer(token, signature) ==
    {Verdict(vouched[token.header.alg], e.jwk, <<token.header, token.claims>>, signature) : e \in Selected(token)}

Mangled == {"bit flipped", "der", "empty", "cut", "zero appended"}

\* A token the server signed is accepted by a resource server for as long as it lives: whatever keys
\* were promoted or dropped while its request was handled, while it was signed or since, the published
\* set holds exactly one key of its name, under which it verifies.  And a copy with anything done to
\* its signature is refused, and crashes nobody (rotate_to and forget_retired_key, jwt.rs;
\* SignerConformance::run).  A retired key must then be kept for a token's lifetime and the longest
\* handling of a request: the documentation asks for the lifetime alone, with which this fails.
SignedTokensVerify ==
    \A token \in issued :
        keyInstant < token.claims.exp =>
            /\ Cardinality(Selected(token)) = 1
            /\ AtAResourceServer(token, token.signature) = {"verified"}
            /\ \A form \in Mangled : AtAResourceServer(token, As(form, token.signature)) = {"refused"}
=============================================================================
