------------------------- MODULE ClientAuthentication -------------------------
(***************************************************************************)
(* Who is calling: the credentials of an HTTP request (http.rs), client      *)
(* authentication by secret, assertion or certificate (server.rs,           *)
(* client_assertion.rs, mtls.rs, client.rs), DPoP proofs (dpop.rs), and the  *)
(* replay identifiers both spend in the store.                               *)
(*                                                                          *)
(* A request is a task of several steps: the store is read and written       *)
(* across awaits, and other tasks, the clock and a sweep run in between.     *)
(*                                                                          *)
(* Abstracted: a secret, a certificate name and an audience are values to    *)
(* compare; durations are small numbers with the order the code gives them.  *)
(* What a refusal costs is counted in verifications run, by scheme.          *)
(***************************************************************************)
EXTENDS Storage, Jose, Sequences, TLC

CONSTANTS
    Applications,               \* the registrations each client may have
    Spelling,                   \* the characters of each client id and key thumbprint
    Presentations,              \* the pairs a host may hand to `authenticate_client`
    HttpRequests,               \* what may arrive at an HTTP endpoint that authenticates
    Proofs,                     \* the DPoP proofs in circulation
    Tasks,                      \* requests, each served once
    Installed,                  \* the algorithms with a verifier
    SecretVerifier,             \* the host's: "none", "without_dummy" or "with_dummy"
    assertion_audience,         \* "Rfc7523" or "IssuerOnly"
    require_dpop,
    MAX_ASSERTION_LIFETIME, MAX_PROOF_AGE, MAX_JTI_BYTES, CLOCK_SKEW_LEEWAY,
    MaxClock                    \* bound: the last instant of the clock

VARIABLES
    clock,
    task        \* the state of each request

authVars == <<clock, task>>

-----------------------------------------------------------------------------
(***************************************************************************)
(* Keys in the replay table.  The owner is length-prefixed, because neither  *)
(* an owner nor a `jti` is restricted in the characters it may hold.         *)
(***************************************************************************)
Digits == <<"0", "1", "2", "3", "4", "5", "6", "7", "8", "9">>

\* A number below ten thousand, as `write!` writes it, in `decimal_width` digits.  Every owner is
\* shorter: a client id that reaches a key is the `sub` of an assertion of at most
\* MAX_ASSERTION_BYTES, and a thumbprint has THUMBPRINT characters.
MAX_ASSERTION_BYTES == 4096
THUMBPRINT == 43
Decimal(n) ==
    LET digit(unit) == Digits[((n \div unit) % 10) + 1] IN
    CASE n < 10 -> <<digit(1)>>
      [] n >= 10 /\ n < 100 -> <<digit(10), digit(1)>>
      [] n >= 100 /\ n < 1000 -> <<digit(100), digit(10), digit(1)>>
      [] n >= 1000 -> <<digit(1000), digit(100), digit(10), digit(1)>>

\* A slip: the parts are joined and nothing says where the owner ends.
replay_key_unprefixed(kind, owner, jti) == <<kind, ":">> \o owner \o jti

replay_key(kind, owner, jti) ==
    <<kind, ":">> \o Decimal(Len(owner)) \o <<":">> \o owner \o jti

(***************************************************************************)
(* What arrives.  Two clients never have the same identifier, nor two keys  *)
(* the same thumbprint.  An assertion within the size limit is longer than  *)
(* the subject it names.  The replay table has a place for every key of     *)
(* what arrives.                                                            *)
(***************************************************************************)
PresentedAssertions ==
    ({p.cred.assertion : p \in Presentations} \cup {h.assertion : h \in HttpRequests}) \ {None}

ProofKeys == {p.jwk.id : p \in {q \in Proofs : q.jwk # None}}

ASSUME ArrivalAssumption ==
    /\ None \notin ClientIds
    /\ \A p \in Presentations : p.client_id \in ClientIds
    /\ \A h \in HttpRequests :
           /\ h.body_id \in Option(ClientIds)
           /\ h.basic # None => h.basic.id \in ClientIds
    /\ \A a \in PresentedAssertions :
           /\ a.sub \in Option(ClientIds) /\ a.exp \in Option(Nat)
           /\ a.sub # None /\ ~a.oversized => Len(Spelling[a.sub]) < MAX_ASSERTION_BYTES
           /\ a.sub # None /\ a.jti # None =>
                  /\ a.jti \in Seq(STRING)
                  /\ replay_key("ca", Spelling[a.sub], a.jti) \in ReplayIds
    /\ \A p \in Proofs :
           /\ p.iat \in Option(Nat)
           /\ p.jti # None /\ p.jwk # None =>
                  /\ p.jti \in Seq(STRING)
                  /\ replay_key("dpop", Spelling[p.jwk.id], p.jti) \in ReplayIds

ASSUME VerifierAssumption == Installed \subseteq JwsAlg /\ MAX_PROOF_AGE \in Nat

ASSUME SpellingAssumption ==
    /\ \A o \in ClientIds \cup ProofKeys : Spelling[o] \in Seq(STRING)
    /\ \A c, d \in ClientIds : Spelling[c] = Spelling[d] => c = d
    /\ \A k \in ProofKeys : Len(Spelling[k]) = THUMBPRINT
    /\ \A k, l \in ProofKeys : Spelling[k] = Spelling[l] => k = l

ASSUME RegistrationAssumption ==
    \A c \in ClientIds : \A reg \in Applications[c] : reg.keys \in Seq(Jwk(STRING))

-----------------------------------------------------------------------------
(***************************************************************************)
(* http.rs: the credential a request presents                               *)
(***************************************************************************)
NoCredential == [secret |-> None, assertion |-> None, assertion_type |-> FALSE, certificate |-> None]

Presented(client_id, cred) == [ok |-> TRUE, client_id |-> client_id, cred |-> cred]
NotPresented == [ok |-> FALSE]

\* An assertion without a `client_id` names its client in its unverified `sub`, if it has one.
unverified_subject(a) == IF a.oversized \/ ~parses(a) THEN None ELSE a.sub

\* `h.basic` is None, or the pair the header decodes to if it does.
credentials_where(h, client_id_is_a_request_parameter) ==
    CASE h.assertion # None ->
             IF h.basic # None \/ h.body_secret # None THEN NotPresented
             ELSE IF h.body_id = None /\ unverified_subject(h.assertion) = None THEN NotPresented
             ELSE Presented(IF h.body_id # None THEN h.body_id ELSE unverified_subject(h.assertion),
                            [NoCredential EXCEPT !.assertion = h.assertion,
                                                 !.assertion_type = h.assertion_type])
      [] h.assertion = None /\ h.basic # None ->
             IF \/ h.body_secret # None
                \/ h.body_id # None /\ ~client_id_is_a_request_parameter
                \/ ~h.basic.decodes
             THEN NotPresented
             ELSE Presented(h.basic.id, [NoCredential EXCEPT !.secret = h.basic.secret])
      [] h.assertion = None /\ h.basic = None ->
             IF h.body_id = None THEN NotPresented
             ELSE Presented(h.body_id, [NoCredential EXCEPT !.secret = h.body_secret])

-----------------------------------------------------------------------------
(***************************************************************************)
(* The verifications                                                        *)
(***************************************************************************)
\* `checks` is the number of verifications that were run.
Accepted(jti, until, checks) ==
    [failure |-> "none", checks |-> checks, jti |-> jti, until |-> until]
Rejected(failure, checks) == [failure |-> failure, checks |-> checks]

audience_matches(a) ==
    IF assertion_audience = "Rfc7523" THEN a.aud \cap {"issuer", "token_endpoint"} # {}
    ELSE a.aud = {"issuer"} /\ ~a.aud_is_array

signing_alg(reg) == reg.alg

\* Any one registered key is enough.  No verifier for the registered algorithm verifies nothing.
assertion_signed(reg, a) ==
    IF reg.alg = "HS256" THEN verify_hs256(reg.secret, a)
    ELSE reg.alg \in Installed /\ \E i \in 1..Len(reg.keys) : verify(reg.alg, reg.keys[i], a)

\* The keys that `any` asks about: up to the first that verifies.  A key of another kind, or one that
\* does not decode, is turned down before any work is done.
TriedKeys(reg, a) ==
    {i \in 1..Len(reg.keys) :
        /\ \A j \in 1..Len(reg.keys) : verify(reg.alg, reg.keys[j], a) => i <= j
        /\ consistent(reg.alg, reg.keys[i]) /\ reg.keys[i].decodes}

SignatureChecks(reg, a) ==
    CASE reg.alg = "HS256" -> 1
      [] reg.alg # "HS256" /\ reg.alg \in Installed -> Cardinality(TriedKeys(reg, a))
      [] reg.alg # "HS256" /\ reg.alg \notin Installed -> 0

verify_assertion(reg, a, client_id, now) ==
    LET checks == SignatureChecks(reg, a) IN
    IF a.oversized \/ ~parses(a) \/ ~a.typ_accepted THEN Rejected("Malformed", 0)
    ELSE IF a.alg # signing_alg(reg) THEN Rejected("AlgorithmMismatch", 0)
    ELSE IF ~crit_is_acceptable(a) THEN Rejected("Malformed", 0)
    ELSE IF ~assertion_signed(reg, a) THEN Rejected("BadSignature", checks)
    ELSE IF a.iss # client_id \/ a.sub # client_id THEN Rejected("WrongPrincipal", checks)
    ELSE IF ~audience_matches(a) THEN Rejected("WrongAudience", checks)
    ELSE IF a.exp = None \/ now >= a.exp \/ a.exp > now + MAX_ASSERTION_LIFETIME
         THEN Rejected("Expired", checks)
    ELSE IF \E claim \in {a.nbf, a.iat} \ {None} : claim > now + CLOCK_SKEW_LEEWAY
         THEN Rejected("NotYetValid", checks)
    ELSE IF a.jti = None THEN Rejected("MissingJti", checks)
    ELSE Accepted(a.jti, a.exp, checks)

\* A slip: the identifier is kept for the leeway of the clock, and the proof accepted for its age.
replay_until_leeway(p) == p.iat + CLOCK_SKEW_LEEWAY
replay_until(p) == p.iat + MAX_PROOF_AGE

\* dpop.rs: a proof carries its own key, and its replay identifier is kept until its age runs out.
verify_proof(p, now) ==
    IF p.oversized \/ ~parses(p) \/ ~crit_is_acceptable(p) THEN Rejected("Malformed", 0)
    ELSE IF ~p.typ_accepted THEN Rejected("NotAProof", 0)
    ELSE IF ~any_installed(p, Installed) THEN Rejected("UnsupportedAlgorithm", 0)
    ELSE IF p.jwk = None \/ ~from_json(p.jwk) \/ ~consistent(p.alg, p.jwk)
         THEN Rejected("BadProofKey", 0)
    ELSE IF ~verify(p.alg, p.jwk, p) THEN Rejected("BadSignature", 1)
    ELSE IF ~p.htm_matches THEN Rejected("WrongMethod", 1)
    ELSE IF ~p.htu_matches THEN Rejected("WrongUri", 1)
    ELSE IF p.iat = None \/ p.iat > now + CLOCK_SKEW_LEEWAY \/ p.iat + MAX_PROOF_AGE <= now
         THEN Rejected("StaleProof", 1)
    ELSE IF p.jti = None THEN Rejected("MissingJti", 1)
    ELSE IF Len(p.jti) > MAX_JTI_BYTES THEN Rejected("Malformed", 1)
    ELSE Accepted(p.jti, replay_until(p), 1)

\* mtls.rs: one expected subject name, or a set of registered thumbprints; never a secret as well.
certificate_accepted(reg, cert) ==
    IF reg.method = "tls_client_auth" THEN reg.subject \in cert.names
    ELSE cert.thumbprint \in reg.thumbprints

verify_certificate(reg, cred) ==
    CASE cred.secret # None -> "SecretMismatch"
      [] cred.secret = None /\ cred.certificate = None -> "NoCertificatePresented"
      [] cred.secret = None /\ cred.certificate # None ->
             IF certificate_accepted(reg, cred.certificate) THEN "none" ELSE "CertificateMismatch"

\* `ClientAuth::verify_with`.
HoldsSecret(reg) == reg.auth \in {"ConfidentialSecret", "ConfidentialSecretHash"}
verify_with(reg, presented) ==
    CASE reg.auth = "Public" -> presented = None
      [] HoldsSecret(reg) ->
             /\ presented # None /\ presented = reg.secret
             /\ reg.auth = "ConfidentialSecretHash" /\ reg.scheme = "host" => SecretVerifier # "none"
      [] OTHER -> FALSE

secret_expired(reg, now) ==
    reg.expires_at # None /\ reg.expires_at # 0 /\ now >= reg.expires_at

assertion_could_be_verified(cred) ==
    cred.assertion # None /\ cred.assertion_type /\ cred.secret = None

-----------------------------------------------------------------------------
(***************************************************************************)
(* What is spent: how many times each verification is run.  "digest" is the *)
(* comparison the crate makes itself, "host" the host's own scheme.          *)
(***************************************************************************)
Work == {"digest", "host", "HS256"} \cup JwsAlg
Free == [w \in Work |-> 0]
Runs(scheme, times) == [Free EXCEPT ![scheme] = times]
Together(some, more) == [w \in Work |-> some[w] + more[w]]

\* A registration in the host's scheme is compared by nobody when the host installs no verifier.
SchemeOf(reg) == IF reg.auth = "ConfidentialSecret" THEN "digest" ELSE reg.scheme
verify_with_work(reg, presented) ==
    IF HoldsSecret(reg) /\ presented # None /\ (SchemeOf(reg) = "host" => SecretVerifier # "none")
    THEN Runs(SchemeOf(reg), 1) ELSE Free

\* `dummy_verify`: the host's `dummy_hash` if it supplies one, and the crate's otherwise.
DummyScheme == IF SecretVerifier = "with_dummy" THEN "host" ELSE "digest"
dummy_verify(cred) == IF cred.secret # None THEN Runs(DummyScheme, 1) ELSE Free

\* `dummy_assertion_verify` with `presented_assertion_alg`: the algorithm the header names if it can
\* be read and has a verifier, and an HMAC otherwise.
dummy_assertion_verify(a) ==
    IF ~a.oversized /\ parses(a) /\ classify_alg(a.alg) /\ a.alg \in Installed THEN Runs(a.alg, 1)
    ELSE Runs("HS256", 1)

(***************************************************************************)
(* `classify_client_credential` up to its second await, the claim.  `paid`   *)
(* is CredentialCost, with the work the branch taken has really done.        *)
(***************************************************************************)
Nothing == [secret |-> FALSE, assertion |-> FALSE, work |-> Free]
Refuse(why, paid) == [verdict |-> "refused", why |-> why, paid |-> paid]
Pass(paid) == [verdict |-> "authenticated", why |-> "none", paid |-> paid]

authenticate_by_assertion(client_id, reg, cred, now) ==
    CASE ~assertion_could_be_verified(cred) -> Refuse("Malformed", Nothing)
      [] assertion_could_be_verified(cred) /\ reg.auth # "ConfidentialAssertion" ->
             Refuse("WrongPrincipal", Nothing)
      [] OTHER ->
             LET seen == verify_assertion(reg, cred.assertion, client_id, now)
                 paid == [secret |-> FALSE, assertion |-> TRUE, work |-> Runs(reg.alg, seen.checks)]
             IN  IF seen.failure # "none" THEN Refuse(seen.failure, paid)
                 ELSE [verdict |-> "claim", why |-> "none", paid |-> paid,
                       id |-> replay_key("ca", Spelling[client_id], seen.jti),
                       until |-> seen.until]

classify_client_credential(client_id, found, cred, now) ==
    IF found = None THEN Refuse("UnknownClient", Nothing)
    ELSE IF secret_expired(found, now) THEN Refuse("SecretExpired", Nothing)
    ELSE IF cred.assertion # None THEN authenticate_by_assertion(client_id, found, cred, now)
    ELSE IF found.auth = "Mtls"
         THEN LET seen == verify_certificate(found, cred) IN
              IF seen = "none" THEN Pass(Nothing) ELSE Refuse(seen, Nothing)
    ELSE     LET paid == [secret |-> HoldsSecret(found), assertion |-> FALSE,
                          work |-> verify_with_work(found, cred.secret)]
             IN  IF verify_with(found, cred.secret) THEN Pass(paid) ELSE Refuse("SecretMismatch", paid)

\* A slip: a secret that was presented and compared with nothing is not paid for.
settle_assertion_alone(cred, paid) ==
    Together(paid.work, IF ~paid.assertion /\ assertion_could_be_verified(cred)
                        THEN dummy_assertion_verify(cred.assertion) ELSE Free)

\* The one exit of every refusal: pay for what was presented and not yet verified.
settle_credential_cost(cred, paid) ==
    Together(Together(paid.work, IF paid.secret THEN Free ELSE dummy_verify(cred)),
             IF ~paid.assertion /\ assertion_could_be_verified(cred)
             THEN dummy_assertion_verify(cred.assertion) ELSE Free)

-----------------------------------------------------------------------------
(***************************************************************************)
(* The requests                                                             *)
(***************************************************************************)
Fresh == [step |-> "new"]
Now == clock

AuthInit ==
    /\ StoreInit
    /\ clock = 0
    /\ task = [t \in Tasks |-> Fresh]

AuthTick ==
    /\ clock < MaxClock
    /\ clock' = clock + 1
    /\ UNCHANGED <<storeVars, task>>

\* `register_client`, as the host provisions its clients, at the first instant (a bound);
\* all redirect URIs here are valid.
register_client(c, reg) ==
    /\ clock = 0
    /\ clients[c] = None
    /\ put_client(c, reg)
    /\ UNCHANGED authVars

AuthSweep ==
    /\ sweep_expired(clock)
    /\ replay_ids' # replay_ids
    /\ UNCHANGED authVars

Enter(t, client_id, cred) ==
    /\ task' = [task EXCEPT ![t] = [step |-> "lookup", kind |-> "ca", owner |-> client_id,
                                    cred |-> cred]]
    /\ UNCHANGED <<storeVars, clock>>

\* A host calls `authenticate_client`, or a handler does with what the request presented.
HostAsks(t, client_id, cred) ==
    /\ task[t] = Fresh
    /\ Enter(t, client_id, cred)

RequestArrives(t, h) ==
    LET seen == credentials_where(h, h.at_par) IN
    /\ task[t] = Fresh
    /\ seen.ok
    /\ Enter(t, seen.client_id, seen.cred)

Finish(t, outcome) ==
    task' = [task EXCEPT ![t] = [step |-> "done", kind |-> @.kind, owner |-> @.owner,
                                 cred |-> @.cred, outcome |-> outcome]]

NothingClaimed == [verdict |-> "authenticated", why |-> "none", claimed |-> FALSE]
Declined(why, id, cost) ==
    [verdict |-> "refused", why |-> why, id |-> id, bill |-> cost.bill, keys |-> cost.keys,
     residual |-> cost.residual]

\* No credential, or two methods at once; or the limiter's answer, given before the store is read.
RequestRefused(t, h) ==
    /\ task[t] = Fresh
    /\ ~credentials_where(h, h.at_par).ok
    /\ task' = [task EXCEPT ![t] = [step |-> "refused"]]
    /\ UNCHANGED <<storeVars, clock>>

Throttled(t) ==
    /\ task[t].step = "lookup"
    /\ task' = [task EXCEPT ![t] = [step |-> "refused"]]
    /\ UNCHANGED <<storeVars, clock>>

\* A refusal's bill, with how many assertion keys the client has registered, and whether it is one of
\* the residuals `authenticate_client` documents: a registration that does use assertions refused this
\* one without any signature work (FOURTH), or its secret is compared in another scheme than the dummy's
\* (FIRST and THIRD).
Bill(found, cred, paid) ==
    [bill |-> settle_credential_cost(cred, paid),
     keys |-> IF paid.assertion THEN Len(found.keys) ELSE 0,
     residual |-> \/ paid.assertion /\ paid.work = Free
                  \/ paid.secret /\ cred.secret # None /\ SchemeOf(found) # DummyScheme]

\* `get_client` has answered: everything up to the claim is one uninterrupted run.
LookedUp(t) ==
    LET c == task[t]
        found == clients[c.owner]
        outcome == classify_client_credential(c.owner, found, c.cred, Now)
    IN
    /\ c.step = "lookup"
    /\ CASE outcome.verdict = "claim" ->
                task' = [task EXCEPT ![t] = [step |-> "claim", kind |-> "ca", owner |-> c.owner,
                                             cred |-> c.cred, reg |-> found, paid |-> outcome.paid,
                                             id |-> outcome.id, until |-> outcome.until,
                                             deadline |-> c.cred.assertion.exp]]
         [] outcome.verdict = "authenticated" ->
                Finish(t, NothingClaimed)
         [] outcome.verdict = "refused" ->
                Finish(t, Declined(outcome.why, None, Bill(found, c.cred, outcome.paid)))
    /\ UNCHANGED <<storeVars, clock>>

\* A DPoP proof at the token or the PAR endpoint is verified before any store call.
ProofArrives(t, p) ==
    LET seen == verify_proof(p, Now) IN
    /\ task[t] = Fresh
    /\ task' = [task EXCEPT ![t] =
                   IF seen.failure # "none"
                   THEN [step |-> "refused"]
                   ELSE [step |-> "claim", kind |-> "dpop", owner |-> p.jwk.id, cred |-> NoCredential,
                         id |-> replay_key("dpop", Spelling[p.jwk.id], seen.jti),
                         until |-> seen.until, deadline |-> p.iat + MAX_PROOF_AGE]]
    /\ UNCHANGED <<storeVars, clock>>

ProofMissing(t) ==
    /\ task[t] = Fresh
    /\ task' = [task EXCEPT ![t] = IF require_dpop THEN [step |-> "refused"] ELSE [step |-> "bearer"]]
    /\ UNCHANGED <<storeVars, clock>>

Claimed(t) ==
    [verdict |-> "authenticated", why |-> "none", claimed |-> TRUE, id |-> task[t].id,
     deadline |-> task[t].deadline, live |-> Now < task[t].deadline]

\* A refusal at the claim: what the assertion cost is on the bill.
Unclaimed(t, why) ==
    LET c == task[t]
    IN  Declined(why, c.id, IF c.kind = "ca" THEN Bill(c.reg, c.cred, c.paid)
                            ELSE [bill |-> None, keys |-> 0, residual |-> FALSE])

\* The claim.  Refused, it is a replay.
Claim(t) ==
    /\ task[t].step = "claim"
    /\ claim_replay_id(task[t].id, task[t].until)
    /\ Finish(t, IF ReplayIdFree(task[t].id) THEN Claimed(t) ELSE Unclaimed(t, "Replayed"))
    /\ UNCHANGED clock

\* The store could not be asked: fail closed, and never call it a replay.
ClaimFails(t) ==
    /\ task[t].step = "claim"
    /\ Finish(t, Unclaimed(t, "ReplayCheckUnavailable"))
    /\ UNCHANGED <<storeVars, clock>>

AuthNext ==
    \/ AuthTick
    \/ AuthSweep
    \/ \E c \in ClientIds : \E reg \in Applications[c] : register_client(c, reg)
    \/ \E t \in Tasks :
          \/ \E a \in Presentations : HostAsks(t, a.client_id, a.cred)
          \/ \E h \in HttpRequests : RequestArrives(t, h) \/ RequestRefused(t, h)
          \/ \E p \in Proofs : ProofArrives(t, p)
          \/ ProofMissing(t)
          \/ Throttled(t)
          \/ LookedUp(t)
          \/ Claim(t)
          \/ ClaimFails(t)

AuthSpec == AuthInit /\ [][AuthNext]_<<storeVars, authVars>>

-----------------------------------------------------------------------------
(***************************************************************************)
(* Properties                                                               *)
(***************************************************************************)
Done(t) == task[t].step = "done"
Outcome(t) == task[t].outcome
HasClaimed(t) == Done(t) /\ Outcome(t).verdict = "authenticated" /\ Outcome(t).claimed
Took(t) == HasClaimed(t) /\ Outcome(t).live
SameIdentifier(t, u) == Outcome(t).id = Outcome(u).id
SameProof(t, u) == SameIdentifier(t, u) /\ Outcome(t).deadline = Outcome(u).deadline

\* An assertion or proof that two requests present is accepted from one of them only, whatever the
\* sweep and the clock do in between, as long as both claims are made before its deadline (a request
\* that stalls past the deadline claims an identifier the sweep may already have dropped).
ProofAcceptedOnce ==
    \A t, u \in Tasks : t # u /\ Took(t) /\ Took(u) => ~SameProof(t, u)

\* "Replayed" is the audit channel's worst incident, so it is never a false alarm: it is reported
\* only when a request of the same kind and owner has spent the very same identifier
\* (`replay_key` keeps owners, kinds and identifiers apart).
ReplayedMeansReplayed ==
    \A t \in Tasks : Done(t) /\ Outcome(t).why = "Replayed" =>
        \E u \in Tasks \ {t} :
            /\ HasClaimed(u) /\ SameIdentifier(t, u)
            /\ task[u].kind = task[t].kind /\ task[u].owner = task[t].owner

\* What a request of this shape costs when it is refused, said of the request alone.
PriceOf(cred) ==
    Together(dummy_verify(cred), IF assertion_could_be_verified(cred)
                                 THEN dummy_assertion_verify(cred.assertion) ELSE Free)

RefusedOtherwise(t) ==
    /\ Done(t) /\ task[t].kind = "ca"
    /\ Outcome(t).verdict = "refused" /\ ~Outcome(t).residual

\* A refusal is never cheap because of what the store holds: unknown, expired, registered for another
\* method, replayed or simply wrong, a client is refused at the price of what the request presented,
\* scheme by scheme, and a registration costs more than an unknown client in one case only, a
\* signature that was tried under several of its keys (settle_credential_cost; the documented
\* residuals apart).
RefusalPaysItsPrice ==
    \A t \in Tasks : RefusedOtherwise(t) =>
        \A w \in Work :
            \/ Outcome(t).bill[w] = PriceOf(task[t].cred)[w]
            \/ /\ w \in JwsAlg /\ PriceOf(task[t].cred)[w] = 1
               /\ Outcome(t).bill[w] \in 1..Outcome(t).keys

\* "What a refusal costs is therefore a function of what the request PRESENTED (...) and of nothing
\* the store holds" (`authenticate_client`, server.rs; its documented residuals apart).
RefusalCostsTheSame ==
    \A t \in Tasks : RefusedOtherwise(t) => Outcome(t).bill = PriceOf(task[t].cred)
=============================================================================
