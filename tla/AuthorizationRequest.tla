------------------------- MODULE AuthorizationRequest -------------------------
(***************************************************************************)
(* How an authorization request reaches the server and becomes a code:      *)
(* on the query string, as a signed request object (RFC 9101), or pushed    *)
(* first and named by its request_uri (RFC 9126).  par.rs, authorization.rs, *)
(* the validation in server.rs and the authorization endpoint of http.rs.   *)
(*                                                                          *)
(* A push and a visit to the authorization endpoint are tasks of several    *)
(* steps, one per await on the store; the other tasks, the clock, a sweep    *)
(* and a deletion of the client run in between.                              *)
(*                                                                          *)
(* Abstracted: a parameter's text is a value to compare, except the list of  *)
(* pairs itself, whose order matters; a resolver of the host (subject,       *)
(* approval, authentication report) answers anything.                        *)
(***************************************************************************)
EXTENDS ClientAuthentication
LOCAL INSTANCE SequencesExt

CONSTANTS
    Policies,           \* what a deployment may configure (see Policy)
    StandingClients,    \* the registrations that may stand when the server starts
    Pushes,             \* what each visit may post to the PAR endpoint
    Queries,            \* the query strings each may bring to the authorization endpoint
    RequestObjectKeys,  \* the host's `RequestObjectKeys`: a key per client, or None
    Logins,             \* the authentications a host may report, None included
    Visits,             \* requests to either endpoint, each served once
    AllowedResources,   \* `allowed_resources`, or None
    DetailTypes,        \* `authorization_details_types_supported`
    MAX_RESOURCE_INDICATORS, MAX_ACR_VALUES, MAX_REQUEST_OBJECT_LIFETIME,
    request_uri_ttl, MIN_REQUEST_URI_TTL, code_ttl, barrier_ttl,
    PushStoreErrors     \* bound: whether putting a record back may fail

VARIABLES
    policy,     \* the deployment's configuration
    visit       \* the state of each request

requestVars == <<policy, visit>>

\* `ParConfig` and `JarConfig`, as far as they refuse something.
Policy == [require_pushed: BOOLEAN, require_signed: BOOLEAN, require_redirect_uri: BOOLEAN]

-----------------------------------------------------------------------------
(***************************************************************************)
(* authorization.rs: the parameters                                         *)
(***************************************************************************)
Parameters ==
    {"response_type", "client_id", "redirect_uri", "scope", "code_challenge",
     "code_challenge_method", "resource", "authorization_details", "acr_values", "max_age",
     "dpop_jkt"}

ValuesOf(pairs, name) ==
    LET hits == SelectSeq(pairs, LAMBDA p : p[1] = name) IN [i \in DOMAIN hits |-> hits[i][2]]

\* http.rs `param`: the first pair of that name.
param(pairs, name) == IF ValuesOf(pairs, name) = <<>> THEN None ELSE ValuesOf(pairs, name)[1]

\* The first of each name counts and the rest are ignored, except `resource`, which repeats.
from_pairs(pairs) ==
    [name \in Parameters |->
        IF name = "resource" THEN ValuesOf(pairs, name) ELSE param(pairs, name)]

-----------------------------------------------------------------------------
(***************************************************************************)
(* Validation                                                               *)
(***************************************************************************)
\* An `http` URI on a loopback address, with a port: its host and what follows the port.
LoopbackParts(uri) ==
    IF /\ uri.scheme = "http" /\ uri.host \in {"127.0.0.1", "[::1]"}
       /\ uri.port \in 1..65535 /\ uri.suffix_is_a_path
    THEN <<uri.host, uri.suffix>> ELSE None

\* RFC 8252: only the port may differ.
loopback_redirect_matches(registered, requested) ==
    /\ LoopbackParts(registered) # None /\ LoopbackParts(requested) # None
    /\ LoopbackParts(registered) = LoopbackParts(requested)

\* The URI an answer may be sent to, or None: exactly a registered one, or the only one.
redirect_target(client, requested) ==
    IF requested # None
    THEN IF \E r \in ToSet(client.redirect_uris) :
               r = requested \/ (client.auth = "Public" /\ loopback_redirect_matches(r, requested))
         THEN requested ELSE None
    ELSE IF Len(client.redirect_uris) = 1 THEN client.redirect_uris[1] ELSE None

target_is_permitted(value) == AllowedResources = None \/ value \in AllowedResources

\* `validate_resources`: every indicator a URI the server serves, and duplicates dropped.
resources_refused(requested) ==
    \/ Len(requested) > MAX_RESOURCE_INDICATORS
    \/ \E r \in ToSet(requested) : ~r.absolute_without_fragment \/ ~target_is_permitted(r)
validate_resources(requested) == ToSet(requested)

granted_default_scope(client) == client.default_scopes \cap client.allowed_scopes

\* consent.rs: what the client asks of the user's authentication, and whether the report meets it.
requirement_refused(req) ==
    \/ req.acr_values # None /\ Len(req.acr_values) > MAX_ACR_VALUES
    \/ req.max_age # None /\ req.max_age \notin Nat
requirement(req) ==
    [acr_values |-> IF req.acr_values = None THEN {} ELSE ToSet(req.acr_values),
     max_age |-> req.max_age]
satisfied_by(wanted, login, now) ==
    \/ wanted.acr_values = {} /\ wanted.max_age = None
    \/ /\ login # None
       /\ wanted.max_age # None =>
              (IF login.at > now THEN 0 ELSE now - login.at) <= wanted.max_age
       /\ wanted.acr_values # {} => login.acr # None /\ login.acr \in wanted.acr_values

details_refused(details) == details # None /\ ~(details.parses /\ details.types \subseteq DetailTypes)

\* Each refusal in the order it is tested, and where it may be reported: a request whose redirect
\* URI is not trusted yet is answered directly and never by a redirect.
Answered(how, why) == [how |-> how, why |-> why]

validate_direct_authorization_request(req, client) ==
    LET uri == redirect_target(client, req.redirect_uri) IN
    CASE req.client_id = None -> Answered("direct", "invalid_request")
      [] req.client_id # None /\ client = None -> Answered("direct", "invalid_request")
      [] client # None /\ uri = None -> Answered("direct", "invalid_request")
      [] client # None /\ uri # None ->
             IF req.response_type # "code"
             THEN Answered("redirect", IF req.response_type = None THEN "invalid_request"
                                       ELSE "unsupported_response_type")
             ELSE IF "authorization_code" \notin client.grants
             THEN Answered("redirect", "unauthorized_client")
             ELSE IF req.code_challenge_method # "S256" \/ req.code_challenge # "well-formed"
             THEN Answered("redirect", "invalid_request")
             ELSE IF req.scope # None /\ ~(req.scope \subseteq client.allowed_scopes)
             THEN Answered("redirect", "invalid_scope")
             ELSE IF resources_refused(req.resource) THEN Answered("redirect", "invalid_target")
             ELSE IF details_refused(req.authorization_details)
             THEN Answered("redirect", "invalid_authorization_details")
             ELSE IF requirement_refused(req) THEN Answered("redirect", "invalid_request")
             ELSE [how |-> "valid", why |-> "none", redirect_uri |-> uri,
                   redirect_uri_was_explicit |-> req.redirect_uri # None,
                   scope |-> IF req.scope = None THEN granted_default_scope(client) ELSE req.scope,
                   resource |-> validate_resources(req.resource),
                   requirement |-> requirement(req),
                   dpop_jkt |-> req.dpop_jkt]

-----------------------------------------------------------------------------
(***************************************************************************)
(* par.rs: signed request objects                                           *)
(***************************************************************************)
\* The header and the signature, against the one key registered for the client.
object_signature_accepted(o, registered) ==
    /\ registered # None
    /\ registered.alg \in Installed
    /\ ~o.oversized /\ parses(o) /\ crit_is_acceptable(o)
    /\ registered_alg(o, registered.alg)
    /\ o.kid # None => o.kid = registered.kid
    /\ o.typ_accepted
    /\ verify(registered.alg, registered.key, o)

\* Who it is for and who made it.  A request object names no other request.
object_addressed(o, client_id) ==
    /\ ~o.carries_a_request
    /\ param(o.claims, "client_id") = client_id
    /\ o.aud # None => "issuer" \in o.aud

\* An expiry is required, and is bounded ahead.
object_in_time(o, now) ==
    /\ o.dates_are_numbers
    /\ o.exp # None /\ now < o.exp /\ o.exp - now <= MAX_REQUEST_OBJECT_LIFETIME
    /\ o.nbf # None => o.nbf < now + CLOCK_SKEW_LEEWAY

\* Every parameter has the JSON type its name requires.
object_parameters_read(o) == o.claims_typed

verified_request_object(client_id, o, now) ==
    /\ object_signature_accepted(o, RequestObjectKeys[client_id])
    /\ object_addressed(o, client_id)
    /\ object_in_time(o, now)
    /\ object_parameters_read(o)

\* `RequestObjectClaims::as_request`: what the object says, and nothing the query string says.
as_request(o) == from_pairs(o.claims)

-----------------------------------------------------------------------------
(***************************************************************************)
(* The PAR endpoint                                                         *)
(***************************************************************************)
NewVisit == [step |-> "new"]
At(v, step) == visit[v].step = step
Answer(v, why) == visit' = [visit EXCEPT ![v] = [step |-> "answered", why |-> why]]

RequestInit ==
    /\ policy \in Policies
    /\ visit = [v \in Visits |-> NewVisit]
    /\ clock = 0
    /\ task = [t \in Tasks |-> Fresh]
    /\ clients \in StandingClients
    /\ device_by_code = Empty(DeviceCodes) /\ user_code_index = Empty(UserCodes)
    /\ codes = Empty(AuthCodes) /\ pushed = Empty(RequestUris)
    /\ tokens = Empty(AccessTokens) /\ refresh = Empty(RefreshTokens)
    /\ consents = Empty(ConsentIds) /\ replay_ids = Empty(ReplayIds)
    /\ client_barriers = Empty(ClientIds) /\ family_barriers = Empty(FamilyIds)
    /\ consent_barriers = Empty(ClientIds \X Subjects)

\* What the pushes in circulation may ask for: their request object or their own parameters, bound
\* to the key of a proof or not.
PushedParameters ==
    UNION {LET asked == {from_pairs(p.pairs)} \cup
                        {as_request(o) : o \in {param(p.pairs, "request")} \ {None}}
           IN  asked \cup {[req EXCEPT !.dpop_jkt = proof.jwk.id] :
                               req \in asked, proof \in {p.proof} \ {None}}
           : p \in UNION {Pushes[v] : v \in Visits}}

PushedRecord ==
    [client_id: ClientIds, pushed_at: Nat, req: PushedParameters, signed: BOOLEAN, expires_at: Nat]

\* Requests name clients and handles that can be looked up, and None is neither a handle nor a record.
ASSUME RequestAssumption ==
    /\ {request_uri_ttl, MIN_REQUEST_URI_TTL} \subseteq Nat
    /\ \A standing \in StandingClients : DOMAIN standing = ClientIds
    /\ \A v \in Visits :
           /\ \A p \in Pushes[v] : p.client_id \in ClientIds
           /\ \A q \in Queries[v] : param(q, "request_uri") \in Option(RequestUris)
    /\ None \notin RequestUris
    /\ None \notin PushedRecord

\* The instant of the push is read before the client is looked up, so that a deletion the lookup
\* overlaps is later than it.
PushArrives(v, p) ==
    /\ At(v, "new")
    /\ visit' = [visit EXCEPT ![v] = [step |-> "authenticate", push |-> p, pushed_at |-> clock]]
    /\ UNCHANGED <<storeVars, authVars, policy>>

\* `bind_par_dpop`: the key of a proof presented here, which an explicit `dpop_jkt` must match.
bind_par_dpop(req, proof) ==
    IF proof = None THEN [ok |-> TRUE, req |-> req]
    ELSE [ok |-> /\ verify_proof(proof, clock).failure = "none"
                 /\ req.dpop_jkt # None => req.dpop_jkt = proof.jwk.id,
          req |-> [req EXCEPT !.dpop_jkt = proof.jwk.id]]

\* A slip: only the authorization endpoint insists on a signature.
pushed_parameters_any(p, client_id) ==
    IF param(p.pairs, "request") # None
    THEN [ok |-> verified_request_object(client_id, param(p.pairs, "request"), clock),
          signed |-> TRUE, req |-> as_request(param(p.pairs, "request"))]
    ELSE [ok |-> TRUE, signed |-> FALSE, req |-> from_pairs(p.pairs)]

\* What a push asks for: its request object if it carries one, its own parameters otherwise.
pushed_parameters(p, client_id) ==
    IF param(p.pairs, "request") # None
    THEN [ok |-> verified_request_object(client_id, param(p.pairs, "request"), clock),
          signed |-> TRUE, req |-> as_request(param(p.pairs, "request"))]
    ELSE [ok |-> ~policy.require_signed, signed |-> FALSE, req |-> from_pairs(p.pairs)]

\* The client has been looked up and authenticated (the claim of an assertion's or a proof's replay
\* identifier is ClientAuthentication's); everything up to the validation's own lookup follows.
PushAuthenticated(v) ==
    LET p == visit[v].push
        found == clients[p.client_id]
        seen == classify_client_credential(p.client_id, found, p.cred, clock)
        asked == pushed_parameters(p, p.client_id)
        bound == bind_par_dpop(asked.req, p.proof)
    IN
    /\ At(v, "authenticate")
    /\ CASE seen.verdict = "refused" -> Answer(v, "invalid_client")
         [] seen.verdict # "refused" /\ (param(p.pairs, "request_uri") # None \/ ~asked.ok) ->
                Answer(v, "invalid_request")
         [] seen.verdict # "refused" /\ param(p.pairs, "request_uri") = None /\ asked.ok ->
                IF ~bound.ok THEN Answer(v, "invalid_dpop_proof")
                ELSE IF \/ asked.req.client_id # p.client_id
                        \/ policy.require_redirect_uri /\ asked.req.redirect_uri = None
                THEN Answer(v, "invalid_request")
                ELSE visit' = [visit EXCEPT ![v] =
                        [step |-> "check", client_id |-> p.client_id, req |-> bound.req,
                         signed |-> asked.signed, pushed_at |-> visit[v].pushed_at]]
    /\ UNCHANGED <<storeVars, authVars, policy>>

\* The limiter may refuse either endpoint's validation before the store is read.
RequestThrottled(v) ==
    /\ visit[v].step \in {"check", "validate"}
    /\ visit' = [visit EXCEPT ![v] = [step |-> "declined", how |-> "direct",
                                      given |-> IF @.step = "validate" THEN @.given ELSE None]]
    /\ UNCHANGED <<storeVars, authVars, policy>>

\* The pushed request is validated now, as well as when it is used.
PushChecked(v) ==
    LET c == visit[v]
        outcome == validate_direct_authorization_request(c.req, clients[c.client_id])
    IN
    /\ At(v, "check")
    /\ IF outcome.how # "valid" THEN Answer(v, outcome.why)
       ELSE visit' = [visit EXCEPT ![v] =
               [step |-> "store",
                record |-> [client_id |-> c.client_id, pushed_at |-> c.pushed_at, req |-> c.req,
                            signed |-> c.signed,
                            expires_at |-> clock + Later(request_uri_ttl, MIN_REQUEST_URI_TTL)]]]
    /\ UNCHANGED <<storeVars, authVars, policy>>

\* The handle is fresh; a client deleted since the push began gets none.
PushStored(v, uri) ==
    LET record == visit[v].record IN
    /\ At(v, "store")
    /\ pushed[uri] = None /\ \A w \in Visits : "uri" \in DOMAIN visit[w] => visit[w].uri # uri
    /\ put_pushed_authorization_request(uri, record)
    /\ IF PushRefused(record) THEN Answer(v, "invalid_client")
       ELSE visit' = [visit EXCEPT ![v] = [step |-> "pushed", uri |-> uri, record |-> record]]
    /\ UNCHANGED <<authVars, policy>>

-----------------------------------------------------------------------------
(***************************************************************************)
(* The authorization endpoint                                               *)
(***************************************************************************)
Validate(v, door, req, uri, signed, received_at) ==
    visit' = [visit EXCEPT ![v] =
        [step |-> "validate", door |-> door, req |-> req, given |-> uri, signed |-> signed,
         received_at |-> received_at]]

\* `validate_signed_authorization_request` is closed when requests must be pushed first.
SignedDoorOpen == ~policy.require_pushed
\* `validate_authorization_request`, the plain query string, is closed by either requirement.
PlainDoorOpen == ~policy.require_pushed /\ ~policy.require_signed

\* `authorize_handler` and `resolve_authorization_request`: which door the request came by.
VisitArrives(v, q) ==
    LET by_reference == param(q, "request_uri")
        by_value == param(q, "request")
        client_id == param(q, "client_id")
    IN
    /\ At(v, "new")
    /\ IF by_reference = None /\ by_value = None
       THEN IF PlainDoorOpen THEN Validate(v, "plain", from_pairs(q), None, FALSE, clock)
            ELSE Answer(v, "invalid_request")
       ELSE IF (by_reference # None /\ by_value # None) \/ client_id = None
       THEN Answer(v, "invalid_request")
       ELSE IF by_reference # None
       THEN visit' = [visit EXCEPT ![v] = [step |-> "take", wanted |-> by_reference,
                                           client_id |-> client_id, received_at |-> clock]]
       ELSE IF SignedDoorOpen /\ verified_request_object(client_id, by_value, clock)
       THEN Validate(v, "signed", as_request(by_value), None, TRUE, clock)
       ELSE Answer(v, "invalid_request_object")
    /\ UNCHANGED <<storeVars, authVars, policy>>

\* A slip: a stranger's attempt consumes the request.
take_without_restoring(v) ==
    LET c == visit[v]
        record == pushed[c.wanted]
    IN
    /\ At(v, "take")
    /\ take_pushed_authorization_request(c.wanted)
    /\ IF record = None \/ record.client_id # c.client_id \/ clock >= record.expires_at
       THEN Answer(v, "invalid_request_uri")
       ELSE Validate(v, "pushed", record.req, c.wanted, record.signed, c.received_at)
    /\ UNCHANGED <<authVars, policy>>

\* A slip: the request is read, and stays where it is.
take_without_removing(v) ==
    LET c == visit[v]
        record == pushed[c.wanted]
    IN
    /\ At(v, "take")
    /\ IF record = None \/ record.client_id # c.client_id \/ clock >= record.expires_at
       THEN Answer(v, "invalid_request_uri")
       ELSE Validate(v, "pushed", record.req, c.wanted, record.signed, c.received_at)
    /\ UNCHANGED <<storeVars, authVars, policy>>

\* `validate_pushed_authorization_request`: the handle is taken before anything is known of who
\* asks, so what another client asked for is put back.
TakePushed(v) ==
    LET c == visit[v]
        record == pushed[c.wanted]
    IN
    /\ At(v, "take")
    /\ take_pushed_authorization_request(c.wanted)
    /\ IF record = None THEN Answer(v, "invalid_request_uri")
       ELSE IF record.client_id # c.client_id
       THEN visit' = [visit EXCEPT ![v] = [step |-> "restore", held |-> c.wanted, record |-> record]]
       ELSE IF clock >= record.expires_at THEN Answer(v, "invalid_request_uri")
       ELSE Validate(v, "pushed", record.req, c.wanted, record.signed, c.received_at)
    /\ UNCHANGED <<authVars, policy>>

\* A refusal is right here: the client was deleted while the record was out of the store.
RestorePushed(v) ==
    /\ At(v, "restore")
    /\ put_pushed_authorization_request(visit[v].held, visit[v].record)
    /\ Answer(v, "invalid_request_uri")
    /\ UNCHANGED <<authVars, policy>>

RestoreFails(v) ==
    /\ PushStoreErrors
    /\ At(v, "restore")
    /\ visit' = [visit EXCEPT ![v] = [step |-> "lost", held |-> visit[v].held]]
    /\ UNCHANGED <<storeVars, authVars, policy>>

\* The validation's lookup, and then the host's resolvers, with no await that writes in between:
\* nobody signed in, a refusal, a page of the host's own, or an approval.
VisitValidated(v, login, approves) ==
    LET c == visit[v]
        client == IF c.req.client_id = None THEN None ELSE clients[c.req.client_id]
        outcome == validate_direct_authorization_request(c.req, client)
    IN
    /\ At(v, "validate")
    /\ visit' = [visit EXCEPT ![v] =
           IF outcome.how # "valid"
           THEN [step |-> "declined", given |-> c.given, how |-> outcome.how]
           ELSE IF ~approves THEN [step |-> "declined", given |-> c.given, how |-> "host"]
           ELSE IF ~satisfied_by(outcome.requirement, login, clock)
           THEN [step |-> "declined", given |-> c.given, how |-> "redirect"]
           ELSE [step |-> "issue", given |-> c.given, door |-> c.door, signed |-> c.signed,
                 client_id |-> c.req.client_id, received_at |-> c.received_at,
                 redirect_uri |-> outcome.redirect_uri]]
    /\ UNCHANGED <<storeVars, authVars, policy>>

CodeOf(v, s) ==
    [client_id |-> visit[v].client_id, subject |-> s, issued_at |-> visit[v].received_at,
     expires_at |-> clock + code_ttl,
     state |-> [status |-> "Issued", access_token |-> None, refresh_token |-> None]]

\* `issue_authorization_code`, dated when the request arrived.
VisitIssues(v, s, code) ==
    /\ At(v, "issue")
    /\ codes[code] = None
    /\ put_authorization_code(code, CodeOf(v, s))
    /\ visit' = [visit EXCEPT ![v] = [step |-> "issued", given |-> @.given, door |-> @.door,
                                      signed |-> @.signed, code |-> code]]
    /\ UNCHANGED <<authVars, policy>>

-----------------------------------------------------------------------------
\* The client is deleted, or what has expired is swept.
DeregisterClient(c) ==
    /\ clients[c] # None
    /\ delete_client(c, [recorded_at |-> clock, until |-> clock + barrier_ttl])
    /\ UNCHANGED <<authVars, requestVars>>

RequestSweep ==
    /\ sweep_expired(clock)
    /\ pushed' # pushed
    /\ UNCHANGED <<authVars, requestVars>>

RequestTick ==
    /\ AuthTick
    /\ UNCHANGED requestVars

RequestNext ==
    \/ RequestTick
    \/ RequestSweep
    \/ \E c \in ClientIds : DeregisterClient(c)
    \/ \E v \in Visits :
          \/ \E p \in Pushes[v] : PushArrives(v, p)
          \/ \E q \in Queries[v] : VisitArrives(v, q)
          \/ PushAuthenticated(v)
          \/ RequestThrottled(v)
          \/ PushChecked(v)
          \/ \E uri \in RequestUris : PushStored(v, uri)
          \/ TakePushed(v)
          \/ RestorePushed(v)
          \/ RestoreFails(v)
          \/ \E login \in Logins, approves \in BOOLEAN : VisitValidated(v, login, approves)
          \/ \E s \in Subjects, code \in AuthCodes : VisitIssues(v, s, code)

RequestSpec == RequestInit /\ [][RequestNext]_<<storeVars, authVars, requestVars>>

-----------------------------------------------------------------------------
(***************************************************************************)
(* Properties                                                               *)
(***************************************************************************)
Has(v, field) == field \in DOMAIN visit[v]
Used(v, uri) == Has(v, "given") /\ visit[v].given = uri

\* A request_uri authorizes once: of all the visits that present it, in whatever order they
\* interleave with strangers who take it and put it back, at most one gets past it
\* (`take_pushed_authorization_request`).
PushedRequestUsedOnce ==
    \A uri \in RequestUris : \A v, w \in Visits : Used(v, uri) /\ Used(w, uri) => v = w

\* A stranger who presents another client's request_uri costs that client nothing but the moment
\* the record is out of the store: until it is used, expires, or its client is deleted, the request
\* is stored or about to be put back, unless the store itself failed. (A stranger's handler that its
\* host drops between the take and the put-back loses the record; no visit is dropped here.)
PushedRequestNeverLost ==
    \A v \in Visits : At(v, "pushed") =>
        LET uri == visit[v].uri IN
        \/ pushed[uri] # None
        \/ clock >= visit[v].record.expires_at
        \/ clients[visit[v].record.client_id] = None
        \/ \E w \in Visits : Used(w, uri)
        \/ \E w \in Visits : visit[w].step \in {"restore", "lost"} /\ visit[w].held = uri

\* A policy holds on every entry point: when requests must be signed, no code rests on an unsigned
\* one, pushed or not; when they must be pushed, none on a request that came any other way.
NoDoorAroundThePolicy ==
    \A v \in Visits : At(v, "issued") =>
        /\ policy.require_signed => visit[v].signed
        /\ policy.require_pushed => visit[v].door = "pushed"
=============================================================================
