-------------------------- MODULE ClientRegistration --------------------------
(***************************************************************************)
(* Dynamic client registration and its management (RFC 7591, RFC 7592):     *)
(* registration.rs and its handlers in http.rs; and client ID metadata       *)
(* documents, which a host fetches and registers (cimd.rs).                  *)
(*                                                                          *)
(* A management request authenticates by the registration access token,     *)
(* reads the registration, and writes it in a later step.  A freshly drawn   *)
(* identifier, secret or token is the name of the errand that drew it.       *)
(***************************************************************************)
EXTENDS ClientAuthentication
LOCAL INSTANCE SequencesExt

CONSTANTS
    Errands,            \* requests, each served once
    RegistrationTokens, \* the registration access tokens presented: names of errands
    Metadata,           \* the client metadata a body may hold
    Documents,          \* the client ID documents a host may fetch
    Bounds,             \* `RegistrationConfig`, of both routes: allowed_grant_types, allowed_scopes
    CimdPolicy,         \* allow_loopback, allow_query_string, redirect_uris_same_origin
    management_enabled, client_secret_ttl, registration_window,
    MAX_REGISTERED_REDIRECT_URIS

\* A document may leave its method out, and says so.
ASSUME DocumentAssumption ==
    /\ None # "none"
    /\ \A d \in Documents : "method" \in DOMAIN d.metadata

VARIABLES
    errand,     \* the state of each request
    lineage     \* what each client's registration was, and what each write of it had read

registrationVars == <<errand, lineage>>

-----------------------------------------------------------------------------
(***************************************************************************)
(* What may be registered                                                   *)
(***************************************************************************)
AUTH_METHOD_NONE == "none"
RegisterableMethods == {AUTH_METHOD_NONE, "client_secret_basic", "client_secret_post"}
GrantTypes ==
    {"authorization_code", "refresh_token", "client_credentials", "device_code", "token_exchange"}

GrantsAsked(m) == IF m.grant_types = None THEN {"authorization_code"} ELSE ToSet(m.grant_types)
UsesCode(m) == "authorization_code" \in GrantsAsked(m)
MethodAsked(m) == IF m.method = None THEN "client_secret_basic" ELSE m.method

\* A slip: a public client may have the client credentials grant.
metadata_refused_public_credentials(m) ==
    \/ m.software_statement
    \/ m.grant_types # None /\ ~(GrantsAsked(m) \subseteq GrantTypes \cap Bounds.grant_types)
    \/ m.response_types # None /\ (m.response_types # <<>>) # UsesCode(m)
    \/ UsesCode(m) /\ m.redirect_uris = <<>>
    \/ Len(m.redirect_uris) > MAX_REGISTERED_REDIRECT_URIS
    \/ MethodAsked(m) \notin RegisterableMethods
    \/ m.scope # None /\ ~(m.scope \subseteq Bounds.scopes)

\* `validate`, which every way into the client table goes through.  The default grant is not held
\* against `allowed_grant_types`.
metadata_refused(m) ==
    \/ m.software_statement
    \/ m.grant_types # None /\ ~(GrantsAsked(m) \subseteq GrantTypes \cap Bounds.grant_types)
    \/ m.response_types # None /\
           \/ ToSet(m.response_types) \ {"code"} # {}
           \/ (m.response_types # <<>>) # UsesCode(m)
    \/ UsesCode(m) /\ m.redirect_uris = <<>>
    \/ Len(m.redirect_uris) > MAX_REGISTERED_REDIRECT_URIS
    \/ \E uri \in ToSet(m.redirect_uris) : ~uri.absolute_without_fragment
    \/ MethodAsked(m) \notin RegisterableMethods
    \/ MethodAsked(m) = AUTH_METHOD_NONE /\ "client_credentials" \in GrantsAsked(m)
    \/ m.scope # None /\ ~(m.scope \subseteq Bounds.scopes)

ScopeAsked(m) == IF m.scope = None THEN {} ELSE m.scope

\* The `Client` a registration, an update or a document writes.
ClientOf(m, auth, secret, registration, default_scopes) ==
    [auth |-> auth, secret |-> secret, grants |-> GrantsAsked(m),
     redirect_uris |-> m.redirect_uris, allowed_scopes |-> ScopeAsked(m),
     default_scopes |-> default_scopes, registration |-> registration]

SecretExpiry == IF client_secret_ttl = None THEN 0 ELSE clock + client_secret_ttl

-----------------------------------------------------------------------------
(***************************************************************************)
(* cimd.rs                                                                  *)
(***************************************************************************)
\* The addresses no client ID may be fetched from: octets of an IPv4 literal.
special_use_v4(o, allow_loopback) ==
    IF o[1] = 127 THEN ~allow_loopback
    ELSE \/ o[1] \in {0, 10} \/ o[1] >= 224
         \/ o[1] = 172 /\ o[2] \in 16..31
         \/ o[1] = 100 /\ o[2] \in 64..127
         \/ o[1] = 198 /\ o[2] \in {18, 19}
         \/ <<o[1], o[2]>> \in {<<192, 168>>, <<169, 254>>}
         \/ <<o[1], o[2], o[3]>> \in
                {<<192, 0, 0>>, <<192, 0, 2>>, <<198, 51, 100>>, <<203, 0, 113>>, <<192, 88, 99>>}

\* An IPv6 literal, segment by segment; an embedded IPv4 address is judged as one.
special_use_v6(s, allow_loopback) ==
    LET first == s[1] IN
    CASE s = <<0, 0, 0, 0, 0, 0, 0, 1>> -> ~allow_loopback
      [] /\ s # <<0, 0, 0, 0, 0, 0, 0, 1>>
         /\ \A i \in 1..5 : s[i] = 0
         /\ s[6] \in {0, 65535} ->
             special_use_v4(<<s[7] \div 256, s[7] % 256, s[8] \div 256, s[8] % 256>>, allow_loopback)
      [] OTHER ->
             \/ first \in {0, 100, 8194}
             \/ first = 256 /\ s[2] = 0 /\ s[3] = 0 /\ s[4] = 0
             \/ first = 8193 /\ (s[2] < 512 \/ s[2] = 3512)
             \/ first \div 512 = 126 \/ first \div 64 = 1018 \/ first \div 256 = 255

\* `is_special_use_literal`: a name is not an address, and is the fetcher's to resolve.
is_special_use_literal(host, allow_loopback) ==
    CASE host.kind = "v4" -> special_use_v4(host.octets, allow_loopback)
      [] host.kind = "v6" -> special_use_v6(host.segments, allow_loopback)
      [] host.kind \in {"name", "numeric"} -> FALSE

\* `ClientIdUrl::parse`.  A "numeric" host ends in a number and is no dotted quad.
client_id_url_refused(u) ==
    \/ u.too_long \/ ~u.printable \/ u.scheme # "https" \/ u.fragment \/ u.userinfo
    \/ u.path = <<>> \/ ToSet(u.path) \cap {".", ".."} # {}
    \/ u.query /\ ~CimdPolicy.allow_query_string
    \/ u.host.kind \in {"none", "numeric"} \/ u.escaped_authority
    \/ is_special_use_literal(u.host, CimdPolicy.allow_loopback)

\* `ValidatedClientIdDocument::validate`: the document names itself, holds no credential, is within
\* the bounds of a registration, and sends users to its own origin.
DocumentMetadata(d) ==
    [d.metadata EXCEPT !.method = IF @ = None THEN AUTH_METHOD_NONE ELSE @]
document_refused(d) ==
    \/ client_id_url_refused(d.url)
    \/ d.too_large \/ ~d.is_json
    \/ d.claims # d.client_id
    \/ d.holds_a_secret \/ d.holds_keys
    \/ d.metadata.method \in {"client_secret_basic", "client_secret_post", "client_secret_jwt"}
    \/ metadata_refused(DocumentMetadata(d))
    \/ CimdPolicy.redirect_uris_same_origin
       /\ \E uri \in ToSet(d.metadata.redirect_uris) : uri.origin # d.url.origin
to_client(d) == ClientOf(DocumentMetadata(d), "Public", None, None, {})

-----------------------------------------------------------------------------
(***************************************************************************)
(* The requests                                                             *)
(***************************************************************************)
NewErrand == [step |-> "new"]
Waits(e, step) == errand[e].step = step
Reply(e, what) == errand' = [errand EXCEPT ![e] = [step |-> "answered", what |-> what]]

\* A write of the registration, with what it was decided on.
Wrote(c, read, record) == lineage' = [lineage EXCEPT ![c] = Append(@, [read |-> read, wrote |-> record])]

NoErrands ==
    /\ errand = [e \in Errands |-> NewErrand]
    /\ lineage = [c \in ClientIds |-> <<>>]

RegistrationInit == AuthInit /\ NoErrands

\* `register_handler`: limiter, body, policy and metadata are judged without an await.
RegisterArrives(e, m) ==
    /\ Waits(e, "new")
    /\ IF metadata_refused(m) THEN Reply(e, "invalid")
       ELSE LET confidential == MethodAsked(m) # AUTH_METHOD_NONE IN
            errand' = [errand EXCEPT ![e] =
               [step |-> "put", client_id |-> None,
                record |-> ClientOf(m, IF confidential THEN "ConfidentialSecretHash" ELSE "Public",
                                    IF confidential THEN e ELSE None,
                                    [rat |-> e, method |-> MethodAsked(m),
                                     expires_at |-> IF confidential THEN SecretExpiry ELSE None],
                                    ScopeAsked(m))]]
    /\ UNCHANGED <<storeVars, authVars, lineage>>

\* The limiter, the host's policy, or a body that is not metadata.
Refuses(e) ==
    /\ errand[e].step \in {"new", "gate", "authenticate"}
    /\ Reply(e, "unauthorized")
    /\ UNCHANGED <<storeVars, authVars, lineage>>

\* The host fetched a document and registers the client it describes, under its own URL.
DocumentFetched(e, d) ==
    /\ Waits(e, "new")
    /\ IF document_refused(d) THEN Reply(e, "invalid")
       ELSE errand' = [errand EXCEPT ![e] = [step |-> "put", client_id |-> d.client_id,
                                               record |-> to_client(d)]]
    /\ UNCHANGED <<storeVars, authVars, lineage>>

\* The identifier is drawn fresh and is no URL, or it is the document's own: then the host installs
\* the client over whatever it installed for an earlier request.
Registers(e, c) ==
    /\ Waits(e, "put")
    /\ IF errand[e].client_id # None THEN c = errand[e].client_id
       ELSE lineage[c] = <<>> /\ \A d \in Documents : c # d.client_id
    /\ put_client(c, errand[e].record)
    /\ Wrote(c, clients[c], errand[e].record)
    /\ Reply(e, "registered")
    /\ UNCHANGED authVars

ManageArrives(e, op, c, rat, m) ==
    /\ Waits(e, "new")
    /\ errand' = [errand EXCEPT ![e] =
           [step |-> IF op = "update" THEN "gate" ELSE "authenticate",
            op |-> op, client_id |-> c, rat |-> rat, metadata |-> m]]
    /\ UNCHANGED <<storeVars, authVars, lineage>>

\* `authenticate_registration`: the same refusal for an unknown client, one that was not registered
\* here, and a wrong token.
Manages(found, rat) ==
    /\ management_enabled
    /\ found # None /\ found.registration # None /\ found.registration.rat = rat

\* The update handler authenticates before it reads the body, and `update_registration` again.
Gate(e) ==
    /\ Waits(e, "gate")
    /\ IF Manages(clients[errand[e].client_id], errand[e].rat)
       THEN errand' = [errand EXCEPT ![e].step = "authenticate"]
       ELSE Reply(e, "unauthorized")
    /\ UNCHANGED <<storeVars, authVars, lineage>>

\* The record an update would write over `found`: a secret is kept, drawn or dropped with the method.
UpdatedClient(e, found, m) ==
    LET wants == MethodAsked(m) # AUTH_METHOD_NONE
        had == found.auth # "Public"
        old == found.registration
    IN ClientOf(m,
           CASE wants /\ ~had -> "ConfidentialSecretHash" [] wants /\ had -> found.auth
             [] ~wants -> "Public",
           CASE wants /\ ~had -> e [] wants /\ had -> found.secret [] ~wants -> None,
           [rat |-> old.rat, method |-> MethodAsked(m),
            expires_at |-> CASE wants /\ ~had -> SecretExpiry [] wants /\ had -> old.expires_at
                             [] ~wants -> None],
           ScopeAsked(m))

Authenticated(e) ==
    LET c == errand[e]
        found == clients[c.client_id]
    IN
    /\ Waits(e, "authenticate")
    /\ IF ~Manages(found, c.rat) THEN Reply(e, "unauthorized")
       ELSE CASE c.op = "read" -> Reply(e, "information")
              [] c.op = "delete" -> errand' = [errand EXCEPT ![e].step = "delete"]
              [] c.op = "update" ->
                     IF metadata_refused(c.metadata) THEN Reply(e, "invalid")
                     ELSE errand' = [errand EXCEPT ![e] =
                              [step |-> "swap", client_id |-> c.client_id, read |-> found,
                               record |-> UpdatedClient(e, found, c.metadata)]]
    /\ UNCHANGED <<storeVars, authVars, lineage>>

\* A slip: the registration is written over whatever is there.
updates_blindly(e) ==
    LET c == errand[e] IN
    /\ Waits(e, "swap")
    /\ put_client(c.client_id, c.record)
    /\ Wrote(c.client_id, c.read, c.record)
    /\ Reply(e, "updated")
    /\ UNCHANGED authVars

\* Refused if the registration is no longer the one that was read.
Updates(e) ==
    LET c == errand[e] IN
    /\ Waits(e, "swap")
    /\ compare_and_swap_client(c.client_id, c.read, c.record)
    /\ IF ClientSwaps(c.client_id, c.read)
       THEN Wrote(c.client_id, c.read, c.record) /\ Reply(e, "updated")
       ELSE UNCHANGED lineage /\ Reply(e, "unauthorized")
    /\ UNCHANGED authVars

Deletes(e) ==
    LET c == errand[e].client_id IN
    /\ Waits(e, "delete")
    /\ delete_client(c, [recorded_at |-> clock, until |-> clock + registration_window])
    /\ IF clients[c] # None THEN Wrote(c, clients[c], None) ELSE UNCHANGED lineage
    /\ Reply(e, "deleted")
    /\ UNCHANGED authVars

RegistrationTick == AuthTick /\ UNCHANGED registrationVars

RegistrationNext ==
    \/ RegistrationTick
    \/ \E e \in Errands :
          \/ \E m \in Metadata : RegisterArrives(e, m)
          \/ Refuses(e)
          \/ \E d \in Documents : DocumentFetched(e, d)
          \/ \E c \in ClientIds : Registers(e, c)
          \/ \E c \in ClientIds, rat \in RegistrationTokens :
                \/ ManageArrives(e, "read", c, rat, None)
                \/ ManageArrives(e, "delete", c, rat, None)
                \/ \E m \in Metadata : ManageArrives(e, "update", c, rat, m)
          \/ Gate(e)
          \/ Authenticated(e)
          \/ Updates(e)
          \/ Deletes(e)

RegistrationSpec == RegistrationInit /\ [][RegistrationNext]_<<storeVars, authVars, registrationVars>>

-----------------------------------------------------------------------------
(***************************************************************************)
(* Properties                                                               *)
(***************************************************************************)
\* Every write of a registration is decided on what the store held when it was made: no update
\* overwrites one it has not seen, and none brings a deleted registration back
\* (`update_registration` reads, awaits and swaps; `delete_registration` may come in between; a
\* document's client is replaced whole, and nobody updates it).
UpdatesBuildOnWhatStands ==
    \A c \in ClientIds : \A i \in DOMAIN lineage[c] :
        lineage[c][i].read = (IF i = 1 THEN None ELSE lineage[c][i - 1].wrote)

\* Whether it registered itself or its document did, and whatever it was updated to, a client
\* stays within what the deployment offers: a public client never holds the client credentials
\* grant, a client of the code grant has somewhere to be redirected to, and scopes and requested
\* grants are within bounds.
RegisteredWithinBounds ==
    \A c \in ClientIds : lineage[c] # <<>> /\ clients[c] # None =>
        LET r == clients[c] IN
        /\ r.auth = "Public" => "client_credentials" \notin r.grants
        /\ "authorization_code" \in r.grants => r.redirect_uris # <<>>
        /\ r.allowed_scopes \subseteq Bounds.scopes
        /\ r.default_scopes \subseteq r.allowed_scopes
        /\ r.grants \subseteq Bounds.grant_types \cup {"authorization_code"}
=============================================================================
