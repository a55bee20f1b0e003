------------------------------ MODULE MCServer ------------------------------
(***************************************************************************)
(* The parts of the server whose requests do not meet one another, for TLC: *)
(* a behaviour exercises one of them, on the same constants, while the      *)
(* others stay as the server started.                                       *)
(***************************************************************************)
EXTENDS RateLimiter, TokenExchange, ClientRegistration, ConsentFlow, SigningKeys, VerificationPage

CONSTANTS c1, c2, s1, u1, v1, v2, v3, a1, a2, a3, l1, l2, l3, i1, i2,
          j1, j2, h1, h2, e2, e3, g1, g2, d1, d2, y1, y2, j3

VARIABLE part

Clients == {c1, c2}
KeyA == [id |-> "kA", kind |-> "P-256", private |-> FALSE, decodes |-> TRUE]
KeyC == [KeyA EXCEPT !.id = "kC"]
KeyB == [id |-> "kB", kind |-> "RSA", private |-> FALSE, decodes |-> TRUE]
PrivateKey == [KeyA EXCEPT !.private = TRUE]

PublicClient ==
    [auth |-> "Public", secret |-> None, scheme |-> "none", alg |-> "none", keys |-> <<>>,
     method |-> "none", subject |-> None, thumbprints |-> {}, expires_at |-> None]

SignedBy(key, alg) ==
    [shape |-> "compact", oversized |-> FALSE, typ_accepted |-> TRUE, crit |-> "absent",
     alg |-> alg, signed_by |-> [key |-> key, alg |-> alg]]

DPoP == SignedBy("kA", "ES256")
        @@ [jwk |-> KeyA, htm_matches |-> TRUE, htu_matches |-> TRUE, iat |-> 1, jti |-> <<"1", "b">>]

-----------------------------------------------------------------------------
(***************************************************************************)
(* The rate limiter                                                         *)
(***************************************************************************)
MCLimits ==
    [window |-> 1,
     device_user_code_capacity |-> 4, device_user_code_failure_cost |-> 3,
     client_registration_capacity |-> 2, client_registration_failure_cost |-> 1,
     authorization_request_capacity |-> 1, authorization_request_failure_cost |-> 2,
     client_authentication_capacity |-> 1, client_authentication_failure_cost |-> 2,
     client_authentication_capacity_for |-> (i1 :> 2 @@ i2 :> 1),
     max_tracked_clients |-> 1]

MCMixes ==
    {{"DeviceUserCodeEntry"}, {"ClientRegistration"}, {"ClientAuthentication"},
     {"AuthorizationRequest"}}

-----------------------------------------------------------------------------
(***************************************************************************)
(* Client authentication.  Two clients, of which the first may hold every   *)
(* kind of credential; identifiers that only a length prefix tells apart,   *)
(* of nine characters and of ten.                                           *)
(***************************************************************************)
Signing == [PublicClient EXCEPT !.auth = "ConfidentialAssertion", !.alg = "ES256", !.keys = <<KeyA>>]

MCRegistrations ==
    {PublicClient, Signing, [Signing EXCEPT !.keys = <<KeyC, KeyA>>],
     [PublicClient EXCEPT !.auth = "ConfidentialSecret", !.secret = "right"],
     [PublicClient EXCEPT !.auth = "ConfidentialSecretHash", !.secret = "right", !.scheme = "host",
                          !.expires_at = 1],
     [PublicClient EXCEPT !.auth = "ConfidentialAssertion", !.alg = "HS256", !.secret = "shared",
                          !.expires_at = 0],
     [Signing EXCEPT !.alg = "RS256", !.keys = <<KeyB>>],
     [PublicClient EXCEPT !.auth = "Mtls", !.method = "tls_client_auth", !.subject = "name"],
     [PublicClient EXCEPT !.auth = "Mtls", !.method = "self_signed_tls_client_auth",
                          !.thumbprints = {"x5t"}]}

MCApplications == (c1 :> MCRegistrations @@ c2 :> {Signing})

Repeated(character, times) == [i \in 1..times |-> character]
MCSpelling ==
    (c1 :> Repeated("a", 9) @@ c2 :> Append(Repeated("a", 9), "1")
     @@ "kA" :> Repeated("a", 43) @@ "kB" :> Repeated("b", 43))

Assertion(c, jti) ==
    SignedBy("kA", "ES256")
    @@ [iss |-> c, sub |-> c, aud |-> {"issuer"}, aud_is_array |-> FALSE, exp |-> 2, nbf |-> 0,
        iat |-> None, jti |-> jti]
FirstAssertion == Assertion(c1, <<"1", "b">>)
SecondAssertion == Assertion(c2, <<"b">>)

Assertions ==
    {FirstAssertion, SecondAssertion,
     [FirstAssertion EXCEPT !.alg = "HS256", !.signed_by = [key |-> "shared", alg |-> "HS256"],
                            !.aud = {"token_endpoint"}],
     [FirstAssertion EXCEPT !.shape = "garbage"],
     [FirstAssertion EXCEPT !.alg = "RS256"],
     [FirstAssertion EXCEPT !.signed_by = [key |-> "kB", alg |-> "ES256"]],
     [FirstAssertion EXCEPT !.aud = {"elsewhere"}],
     [FirstAssertion EXCEPT !.exp = 4], [FirstAssertion EXCEPT !.iat = 2],
     [FirstAssertion EXCEPT !.sub = None]}

WithAssertion(a) == [NoCredential EXCEPT !.assertion = a, !.assertion_type = TRUE]
Certificate == [thumbprint |-> "x5t", names |-> {"name"}]

MCPresentations ==
    {[client_id |-> c2, cred |-> WithAssertion(SecondAssertion)]}
    \cup {[client_id |-> c1, cred |-> cred] : cred \in
        {WithAssertion(a) : a \in Assertions \ {SecondAssertion}} \cup
        {NoCredential,
         [NoCredential EXCEPT !.secret = "right"], [NoCredential EXCEPT !.secret = "wrong"],
         [WithAssertion(FirstAssertion) EXCEPT !.secret = "right"],
         [WithAssertion(FirstAssertion) EXCEPT !.assertion_type = FALSE],
         [NoCredential EXCEPT !.certificate = Certificate],
         [NoCredential EXCEPT !.certificate = [thumbprint |-> "other", names |-> {}]],
         [NoCredential EXCEPT !.certificate = Certificate, !.secret = "right"]}}

Bare == [basic |-> None, body_id |-> None, body_secret |-> None, assertion |-> None,
         assertion_type |-> TRUE, at_par |-> FALSE]
Basic(secret) == [decodes |-> TRUE, id |-> c1, secret |-> secret]

MCHttpRequests ==
    {Bare, [Bare EXCEPT !.body_id = c1, !.body_secret = "right"],
     [Bare EXCEPT !.basic = Basic("wrong")],
     [Bare EXCEPT !.basic = [Basic("right") EXCEPT !.decodes = FALSE]],
     [Bare EXCEPT !.basic = Basic("right"), !.body_id = c1],
     [Bare EXCEPT !.basic = Basic("right"), !.body_id = c1, !.at_par = TRUE],
     [Bare EXCEPT !.assertion = FirstAssertion],
     [Bare EXCEPT !.assertion = [FirstAssertion EXCEPT !.oversized = TRUE]],
     [Bare EXCEPT !.assertion = FirstAssertion, !.body_secret = "right"]}

MCProofs ==
    {DPoP, [DPoP EXCEPT !.iat = 3], [DPoP EXCEPT !.jwk = PrivateKey], [DPoP EXCEPT !.alg = "RS256"],
     [DPoP EXCEPT !.jwk = KeyB], [DPoP EXCEPT !.htu_matches = FALSE],
     [DPoP EXCEPT !.jti = <<"1", "b", "c">>]}

MCReplayIds ==
    {replay_key("ca", MCSpelling[a.sub], a.jti) : a \in {FirstAssertion, SecondAssertion}}
    \cup {replay_key("dpop", MCSpelling[p.jwk.id], p.jti) : p \in MCProofs}

-----------------------------------------------------------------------------
(***************************************************************************)
(* Authorization requests: pushed, signed and plain, against every policy.  *)
(***************************************************************************)
Callback == [scheme |-> "https", host |-> "app", port |-> None, suffix |-> "/cb",
             suffix_is_a_path |-> TRUE]
Loopback(port) == [Callback EXCEPT !.scheme = "http", !.host = "127.0.0.1", !.port = port]

WebApp ==
    PublicClient @@ [redirect_uris |-> <<Callback>>, grants |-> {"authorization_code"},
                     allowed_scopes |-> {"a"}, default_scopes |-> {"a", "b"}]
NativeApp == [WebApp EXCEPT !.redirect_uris = <<Callback, Loopback(1)>>]

Plain(c) ==
    << <<"client_id", c>>, <<"response_type", "code">>, <<"code_challenge_method", "S256">>,
       <<"code_challenge", "well-formed">> >>

RequestObject ==
    SignedBy("kA", "ES256")
    @@ [kid |-> None, carries_a_request |-> FALSE, aud |-> None, dates_are_numbers |-> TRUE,
        exp |-> 1, nbf |-> None, claims_typed |-> TRUE, claims |-> Plain(c1)]

Push == [client_id |-> c1, cred |-> NoCredential, pairs |-> Plain(c1), proof |-> None]
ByUri(c) == << <<"client_id", c>>, <<"request_uri", u1>> >>
ByValue(object) == << <<"client_id", c1>>, <<"request", object>> >>

MCPushes ==
    [v \in {v1, v2, v3} |-> IF v # v1 THEN {} ELSE
        {Push,
         [Push EXCEPT !.pairs = << <<"request", RequestObject>> >>, !.proof = DPoP],
         [Push EXCEPT !.pairs = Plain(c1) \o << <<"request_uri", u1>> >>],
         [Push EXCEPT !.pairs = Plain(c2)],
         [Push EXCEPT !.pairs = Plain(c1) \o << <<"redirect_uri", Callback>>, <<"dpop_jkt", "kB">> >>,
                      !.proof = DPoP],
         [Push EXCEPT !.cred.secret = "right"]}]

MCQueries ==
    (v1 :> {Plain(c1), Plain(c2) \o << <<"redirect_uri", Loopback(2)>>, <<"max_age", 0>> >>,
            ByValue(RequestObject), ByValue([RequestObject EXCEPT !.exp = 3]),
            ByValue(RequestObject) \o << <<"request_uri", u1>> >>}
     @@ v2 :> {ByUri(c1)}
     @@ v3 :> {ByUri(c1), ByUri(c2)})

MCRequestObjectKeys == (c1 :> [alg |-> "ES256", kid |-> "k", key |-> KeyA] @@ c2 :> None)
MCLogins == {None, [at |-> 0, acr |-> None]}

Open == [require_pushed |-> FALSE, require_signed |-> FALSE, require_redirect_uri |-> FALSE]
MCPolicies ==
    {Open, [Open EXCEPT !.require_pushed = TRUE, !.require_redirect_uri = TRUE],
     [Open EXCEPT !.require_signed = TRUE],
     [Open EXCEPT !.require_pushed = TRUE, !.require_signed = TRUE]}

-----------------------------------------------------------------------------
(***************************************************************************)
(* Grants, exchanges of their tokens and introspection.  Three requests in  *)
(* a row: a grant, an exchange of its token, an exchange of that one's.     *)
(***************************************************************************)
Service ==
    [PublicClient EXCEPT !.auth = "ConfidentialSecret", !.secret = "right"]
    @@ [redirect_uris |-> <<>>,
        grants |-> {"authorization_code", "token_exchange", "client_credentials"},
        allowed_scopes |-> {"a", "b"}, default_scopes |-> {"a"}]

Target(name) == [name |-> name, absolute_without_fragment |-> TRUE]
MCAllowedResources == {Target("api"), Target("files")}

Detail(locations, actions) ==
    [type |-> "pay", identifier |-> None, locations |-> locations, actions |-> actions,
     other |-> None]

StandingGrant(kind, resource, details, jkt) ==
    [kind |-> kind, client_id |-> c1, subject |-> s1, scope |-> {"a", "b"}, resource |-> resource,
     details |-> details, jkt |-> jkt, grant_established_at |-> 0]

MCStandingGrants ==
    {StandingGrant("code", MCAllowedResources \cup {Target("gone")},
         <<Detail(MCAllowedResources, {"r", "w"}), Detail({}, {"r"})>>, None),
     StandingGrant("refresh", {Target("gone")}, <<>>, None),
     StandingGrant("device", {}, <<>>, "kA")}

Asking(scope, resource, details) ==
    [scope |-> scope, resource |-> resource, details |-> details, jkt |-> None]
MCAsks ==
    [l \in {l1, l2, l3} |-> IF l # l1 THEN {} ELSE
        {Asking(None, <<>>, <<>>), [Asking(None, <<>>, <<>>) EXCEPT !.jkt = "kA"],
         Asking({"a"}, <<Target("api")>>, <<>>),
         Asking(None, <<>>, <<Detail({Target("api")}, {"r"})>>),
         Asking(None, <<>>, <<Detail({Target("api")}, {"r"}), Detail({Target("api")}, {"r"})>>)}]

Exchange ==
    [client_id |-> c2, cred |-> [NoCredential EXCEPT !.secret = "right"],
     requested_token_type |-> None, subject_token |-> a1, subject_token_type |-> "access_token",
     actor_token |-> None, actor_token_type |-> None, resource |-> <<>>, audience |-> <<>>,
     scope |-> {"a"}]
OwnExchange == [Exchange EXCEPT !.client_id = c1, !.scope = None]
ActingFor(request, token) ==
    [request EXCEPT !.actor_token = token, !.actor_token_type = "access_token"]

MCExchangeRequests ==
    (l1 :> {[Exchange EXCEPT !.subject_token_type = "jwt"],
            [Exchange EXCEPT !.requested_token_type = "jwt"]}
     @@ l2 :> {Exchange, OwnExchange, ActingFor(OwnExchange, a1),
               [Exchange EXCEPT !.audience = <<Target("api")>>],
               [ActingFor(Exchange, a1) EXCEPT !.scope = None]}
     @@ l3 :> {[ActingFor(Exchange, a2) EXCEPT !.subject_token = a2],
               [ActingFor(Exchange, a2) EXCEPT !.audience = <<Target("files")>>]})

MCDraws == (l1 :> a1 @@ l2 :> a2 @@ l3 :> a3)
MCResourceServers == (c1 :> {} @@ c2 :> {Target("api")})
MCEnquiries == {[client_id |-> c2, token |-> a1]}

NoClients == [c \in Clients |-> None]
RequestClients == (c1 :> WebApp @@ c2 :> NativeApp)
ExchangeClients == (c1 :> Service @@ c2 :> [Service EXCEPT !.allowed_scopes = {"a"}])
MCStandingClients == {NoClients, RequestClients, ExchangeClients}

-----------------------------------------------------------------------------
(***************************************************************************)
(* Client registration and client ID documents                              *)
(***************************************************************************)
RedirectTo(site) == [absolute_without_fragment |-> TRUE, origin |-> site]

PlainMetadata ==
    [software_statement |-> FALSE, grant_types |-> None, response_types |-> None,
     redirect_uris |-> <<RedirectTo("app")>>, method |-> None, scope |-> None]
ServiceMetadata ==
    [PlainMetadata EXCEPT !.grant_types = <<"client_credentials">>, !.redirect_uris = <<>>]

MCMetadata ==
    {PlainMetadata, ServiceMetadata, [PlainMetadata EXCEPT !.method = "none", !.scope = {"a"}],
     [ServiceMetadata EXCEPT !.method = "none"], [PlainMetadata EXCEPT !.redirect_uris = <<>>],
     [PlainMetadata EXCEPT !.scope = {"root"}]}

DocumentUrl ==
    [too_long |-> FALSE, printable |-> TRUE, scheme |-> "https", fragment |-> FALSE,
     userinfo |-> FALSE, path |-> <<"client">>, query |-> FALSE, host |-> [kind |-> "name"],
     escaped_authority |-> FALSE, origin |-> "app"]
Document ==
    [url |-> DocumentUrl, too_large |-> FALSE, is_json |-> TRUE, claims |-> c2, client_id |-> c2,
     holds_a_secret |-> FALSE, holds_keys |-> FALSE, metadata |-> PlainMetadata]

MCDocuments ==
    {Document, [Document EXCEPT !.metadata.redirect_uris = <<RedirectTo("elsewhere")>>],
     [Document EXCEPT !.metadata.grant_types = <<"client_credentials">>],
     [Document EXCEPT !.url.host = [kind |-> "v4", octets |-> <<10, 0, 0, 1>>]],
     [Document EXCEPT !.url.host =
         [kind |-> "v6", segments |-> <<0, 0, 0, 0, 0, 65535, 2560, 1>>]],
     [Document EXCEPT !.claims = c1]}

MCBounds == [grant_types |-> {"client_credentials", "refresh_token"}, scopes |-> {"a"}]
MCCimdPolicy ==
    [allow_loopback |-> FALSE, allow_query_string |-> FALSE, redirect_uris_same_origin |-> TRUE]

-----------------------------------------------------------------------------
(***************************************************************************)
(* Consents and signing keys                                                *)
(***************************************************************************)
MCApprovals == {[scope |-> {x}, resource |-> <<x>>] : x \in Scopes}

Signer(alg, key, kid, fault) == [alg |-> alg, key |-> key, kid |-> kid, fault |-> fault]
MCSigners ==
    {Signer("ES256", "ec1", "k1", "none"), Signer("ES256", "ec1", NoValue, "none"),
     Signer("ES256", "published example", "k9", "none")}
    \cup {Signer("ES256", "ec2", "k2", fault) : fault \in
             {"none", "publishes_another_key", "unstable_key", "bad_coordinate", "constant", "der",
              "signs_once", "panics", "refuses"}}
    \cup {Signer("EdDSA", "ed1", "k3", fault) : fault \in {"none", "constant"}}

MCVerifiers ==
    {[alg |-> "ES256", fault |-> fault] : fault \in
        {"none", "any_key", "any_input", "any_signature", "any_curve", "der", "pads",
         "reads_a_prefix", "slices", "unwraps_the_point"}}
    \cup {[alg |-> "EdDSA", fault |-> fault] : fault \in
             {"none", "any_key", "any_signature", "reads_a_prefix", "slices"}}

MCTokenRequests ==
    {[client |-> "app", subject |-> NoValue, scope |-> {}, resource |-> <<>>],
     [client |-> "app", subject |-> "user", scope |-> {"a"}, resource |-> <<"">>]}
MCAudience == <<"api">>

-----------------------------------------------------------------------------
(***************************************************************************)
(* The verification page.  One submission is in order; the others each fail *)
(* one check.                                                               *)
(***************************************************************************)
ApprovalPost ==
    [signed_in |-> TRUE, body |-> [announced |-> 0, received |-> 1, cut_short |-> FALSE],
     urlencoded |-> TRUE, fetch_site |-> "same-origin", origin |-> "elsewhere", action |-> "approve"]
MCAskingDevices ==
    {[device |-> d1, client_id |-> c1, user_code |-> y1],
     [device |-> d2, client_id |-> c1, user_code |-> y2]}
SomePosts ==
    {ApprovalPost, [ApprovalPost EXCEPT !.action = "none"],
     [ApprovalPost EXCEPT !.action = "deny", !.fetch_site = None, !.origin = "issuer"],
     [ApprovalPost EXCEPT !.fetch_site = "cross-site", !.origin = "issuer"],
     [ApprovalPost EXCEPT !.signed_in = FALSE], [ApprovalPost EXCEPT !.urlencoded = FALSE],
     [ApprovalPost EXCEPT !.body.received = 2]}
MCPosts == (j1 :> SomePosts @@ j2 :> SomePosts @@ j3 :> {})

-----------------------------------------------------------------------------
(***************************************************************************)
(* One part at a time                                                       *)
(***************************************************************************)
Parts == {"limiter", "authentication", "requests", "exchange", "registration", "consent", "keys",
          "page"}

LastInstant == [p \in Parts |-> CASE p = "authentication" -> 3
                                  [] p \in {"registration", "page"} -> 1
                                  [] OTHER -> 2]

\* What a part that is not exercised is left with where its start is a choice.
AtRest ==
    /\ part # "limiter" => mix = CHOOSE m \in Mixes : TRUE
    /\ part # "requests" => policy = Open
    /\ part # "page" => protection = "Tokens"
    /\ clients = CASE part = "requests" -> RequestClients
                   [] part = "exchange" -> ExchangeClients
                   [] OTHER -> NoClients
    /\ part # "keys" => /\ jwt = JwtConfig(Signer("ES256", "ec1", "k1", "none"))
                        /\ vouched["ES256"].fault = "none"

\* Requests and threads that differ in nothing but their name, exchanged all at once: only one
\* part moves.
Twins ==
    {f \in Permutations({j1, j2, h1, h2, e2, e3, g1, g2}) :
        <<f[j1], f[j2], f[h1], f[h2], f[e2], f[e3], f[g1], f[g2]>> \in
            {<<j1, j2, h1, h2, e2, e3, g1, g2>>, <<j2, j1, h2, h1, e3, e2, g2, g1>>}}

ServerInit ==
    /\ part \in Parts
    /\ LimiterInit /\ ExchangeInit /\ NoErrands /\ NoCalls /\ KeyInit /\ NoPages
    /\ AtRest

ServerNext ==
    /\ UNCHANGED part
    /\ \/ /\ part = "limiter" /\ LimiterNext
          /\ UNCHANGED <<storeVars, authVars, requestVars, exchangeVars, registrationVars,
                         consentVars, keyVars, pageVars>>
       \/ /\ part = "authentication" /\ AuthNext
          /\ UNCHANGED <<limiterVars, requestVars, exchangeVars, registrationVars, consentVars,
                         keyVars, pageVars>>
       \/ /\ part = "requests" /\ RequestNext
          /\ UNCHANGED <<limiterVars, exchangeVars, registrationVars, consentVars, keyVars, pageVars>>
       \/ /\ part = "exchange" /\ ExchangeNext
          /\ UNCHANGED <<limiterVars, registrationVars, consentVars, keyVars, pageVars>>
       \/ /\ part = "registration" /\ RegistrationNext
          /\ UNCHANGED <<limiterVars, requestVars, exchangeVars, consentVars, keyVars, pageVars>>
       \/ /\ part = "consent" /\ ConsentNext
          /\ \A r \in Recordings : recording'[r].step = "find" => recording'[r].client_id = c1
          /\ UNCHANGED <<limiterVars, authVars, requestVars, exchangeVars, registrationVars,
                         keyVars, pageVars>>
       \/ /\ part = "keys" /\ KeyNext
          /\ UNCHANGED <<storeVars, limiterVars, authVars, requestVars, exchangeVars,
                         registrationVars, consentVars, pageVars>>
       \/ /\ part = "page" /\ PageNext
          /\ UNCHANGED <<limiterVars, requestVars, exchangeVars, registrationVars, consentVars,
                         keyVars>>
    /\ clock' <= LastInstant[part]

ServerSpec ==
    ServerInit /\ [][ServerNext]_<<part, storeVars, limiterVars, authVars, requestVars,
                                  exchangeVars, registrationVars, consentVars, keyVars, pageVars>>
=============================================================================
