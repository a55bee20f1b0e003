---------------------------- MODULE TokenExchange ----------------------------
(***************************************************************************)
(* Tokens derived from grants and from other tokens: the narrowing at the    *)
(* token endpoint, the client credentials grant and introspection            *)
(* (server.rs), rich authorization details (rar.rs), and token exchange      *)
(* (token_exchange.rs).                                                      *)
(*                                                                          *)
(* An exchanged token is an access token and may be exchanged in turn, so    *)
(* what one exchange lets through, a chain of them compounds.  An exchange   *)
(* reads its client, the subject token and the actor token in three steps,   *)
(* and stores the new token in a fourth; a client credentials request is     *)
(* dated, reads its client, and stores its token.                            *)
(*                                                                          *)
(* How a code or a refresh token is consumed is TokenEndpoint's; here a      *)
(* standing grant is what its record says was granted.  A resource list is   *)
(* a set, an act chain the sequence of its actors.                           *)
(***************************************************************************)
EXTENDS AuthorizationRequest
LOCAL INSTANCE SequencesExt

CONSTANTS
    StandingGrants,     \* the code and refresh records clients hold
    Asks,               \* what each leg may ask of a grant: [scope, resource, details, jkt]
    ExchangeRequests,   \* what each may ask of the token exchange endpoint
    Enquiries,          \* what may be asked of the introspection endpoint
    ResourceServers,    \* `resource_servers`: the resources each client is registered to serve
    Legs,               \* requests to the token endpoint, each served once
    Draws,              \* the access token each would draw
    allow_sender_constrained_exchange, allow_authorization_details_exchange,
    MAX_ACT_CHAIN_DEPTH, MAX_AUDIENCE_VALUES, MAX_AUTHORIZATION_DETAILS_ELEMENTS,
    MAX_DETAIL_LIST_ENTRIES, exchange_ttl,
    MaxExchangeInstant  \* bound: the last instant of the clock

VARIABLES
    leg,        \* the state of each request
    origin,     \* history: the grant each access token descends from, and the first token of it
    told        \* history: what introspection answered

exchangeVars == <<leg, origin, told>>

-----------------------------------------------------------------------------
(***************************************************************************)
(* Narrowing                                                                *)
(***************************************************************************)
Denied == [ok |-> FALSE]

narrow_resources(granted, requested) ==
    IF requested \subseteq granted
    THEN [ok |-> TRUE, resource |-> IF requested = {} THEN granted ELSE requested]
    ELSE Denied

\* A leg that asks for nothing gets what is still permitted, and not an unrestricted token when
\* nothing of it is.
narrow_and_permit(granted, requested) ==
    LET issued == narrow_resources(granted, requested)
        permitted == {r \in granted : target_is_permitted(r)}
    IN  IF ~issued.ok \/ requested # {} THEN issued
        ELSE IF permitted = {} /\ granted # {} THEN Denied
        ELSE [ok |-> TRUE, resource |-> permitted]

is_narrowing_of(want, granted) ==
    /\ want.type = granted.type
    /\ want.identifier = granted.identifier
    /\ want.locations \subseteq granted.locations
    /\ want.actions \subseteq granted.actions
    /\ want.other = granted.other

\* `narrow` takes the requested elements in order, and each consumes the first granted element that
\* covers it and is not consumed yet.
Consumes(granted, requested, m) ==
    \A j \in DOMAIN requested :
        LET free == {i \in DOMAIN granted : /\ is_narrowing_of(requested[j], granted[i])
                                            /\ \A k \in 1..(j - 1) : m[k] # i}
        IN  m[j] \in free /\ \A i \in free : m[j] <= i

narrow_details(granted, requested) ==
    IF requested = <<>> THEN [ok |-> TRUE, details |-> granted]
    ELSE IF \E m \in [DOMAIN requested -> DOMAIN granted] : Consumes(granted, requested, m)
    THEN [ok |-> TRUE, details |-> requested]
    ELSE Denied

resolve_scope(client, requested) ==
    IF requested = None THEN [ok |-> TRUE, scope |-> granted_default_scope(client)]
    ELSE IF requested \subseteq client.allowed_scopes THEN [ok |-> TRUE, scope |-> requested]
    ELSE Denied

-----------------------------------------------------------------------------
(***************************************************************************)
(* Issuing                                                                  *)
(***************************************************************************)
Step(l, s) == leg[l].step = s
Move(l, to) == leg' = [leg EXCEPT ![l] = to]
Rebuff(l, why) == Move(l, [step |-> "answered", why |-> why])
OnlyLegs == UNCHANGED <<storeVars, authVars, requestVars, origin, told>>

\* A slip: the token has a lifetime of its own.
minted_without_ceiling(client_id, from, scope, resource, details, act, jkt, ceiling) ==
    [client_id |-> client_id, family_id |-> None, subject |-> from.subject, scope |-> scope,
     resource |-> resource, details |-> details, act |-> act, jkt |-> jkt,
     grant_established_at |-> from.grant_established_at, expires_at |-> clock + exchange_ttl]

\* The part of `issue` before the store is called.  A lifetime ceiling caps the expiry.
Minted(client_id, from, scope, resource, details, act, jkt, ceiling) ==
    [client_id |-> client_id, family_id |-> None, subject |-> from.subject, scope |-> scope,
     resource |-> resource, details |-> details, act |-> act, jkt |-> jkt,
     grant_established_at |-> from.grant_established_at,
     expires_at |-> IF ceiling # None /\ ceiling < clock + exchange_ttl THEN ceiling ELSE clock + exchange_ttl]

Issuing(l, record, root) == Move(l, [step |-> "issue", record |-> record, root |-> root])

\* The rest of it.  A token refused for a revocation is not handed out.
Issues(l) ==
    LET r == leg[l].record
        t == Draws[l]
    IN
    /\ Step(l, "issue")
    /\ put_token(t, r)
    /\ IF Refused(r) THEN Rebuff(l, "invalid_grant") /\ UNCHANGED origin
       ELSE /\ Move(l, [step |-> "issued"])
            /\ origin' = [origin EXCEPT ![t] =
                  IF leg[l].root.first = None THEN [leg[l].root EXCEPT !.first = r] ELSE leg[l].root]
    /\ UNCHANGED <<authVars, requestVars, told>>

Root(grant) == [grant |-> grant, first |-> None]

\* `AuthorizationDetails::parse` and `require_supported_types`.
details_unacceptable(details) ==
    \/ Len(details) > MAX_AUTHORIZATION_DETAILS_ELEMENTS
    \/ \E d \in ToSet(details) :
        \/ d.type \notin DetailTypes
        \/ Cardinality(d.locations) > MAX_DETAIL_LIST_ENTRIES
        \/ Cardinality(d.actions) > MAX_DETAIL_LIST_ENTRIES

\* What every leg of `token_with_context` is held to before its grant is looked at.  A device grant
\* was given neither a resource nor a detail that a leg could ask for.
LegRefused(kind, ask) ==
    CASE resources_refused(ask.resource) -> "invalid_target"
      [] ~resources_refused(ask.resource) /\ details_unacceptable(ask.details) -> "invalid_authorization_details"
      [] OTHER -> IF kind # "device" THEN "none"
                  ELSE IF ask.resource # <<>> THEN "invalid_target"
                  ELSE IF ask.details # <<>> THEN "invalid_authorization_details" ELSE "none"

\* A code is redeemed, a refresh token used or a device code polled: the leg narrows what its record
\* was granted, and a refresh is refused when the registration no longer allows the grant's scope.
Redeems(l, g, ask) ==
    LET client == clients[g.client_id]
        scope == IF ask.scope = None THEN g.scope ELSE ask.scope
        resource == narrow_and_permit(g.resource, validate_resources(ask.resource))
        details == narrow_details(g.details, ask.details)
        early == LegRefused(g.kind, ask)
    IN
    /\ Step(l, "new")
    /\ client # None
    /\ g.kind # "refresh" => ask.scope = None
    /\ IF early # "none" THEN Rebuff(l, early)
       ELSE IF g.kind = "refresh" /\ ~(g.scope \subseteq client.allowed_scopes /\ scope \subseteq g.scope)
       THEN Rebuff(l, "invalid_scope")
       ELSE IF ~resource.ok THEN Rebuff(l, "invalid_target")
       ELSE IF ~details.ok THEN Rebuff(l, "invalid_authorization_details")
       ELSE Issuing(l, Minted(g.client_id, g, scope, resource.resource, details.details,
                                   <<>>, g.jkt, None), Root(g))
    /\ OnlyLegs

\* `client_credentials_token`: there is no user, and what is asked is what is granted, to the key the
\* request proves.  The grant dates from before the registration is read.
CredentialsArrive(l, c, ask) ==
    LET early == LegRefused("credentials", ask) IN
    /\ Step(l, "new")
    /\ IF early # "none" THEN Rebuff(l, early)
       ELSE Move(l, [step |-> "credentials", client_id |-> c, ask |-> ask, at |-> clock])
    /\ OnlyLegs

\* `authenticate_client`: the registration is read, and the secret or the assertion verified against
\* it before the request goes on (ClientAuthentication has the verifications).
CredentialsRead(l) ==
    LET client == clients[leg[l].client_id] IN
    /\ Step(l, "credentials")
    /\ IF client = None THEN Rebuff(l, "invalid_client")
       ELSE Move(l, [step |-> "authenticated", client_id |-> leg[l].client_id, ask |-> leg[l].ask,
                     at |-> leg[l].at, client |-> client])
    /\ OnlyLegs

CredentialsGrant(w) ==
    [kind |-> "credentials", client_id |-> w.client_id, subject |-> None,
     scope |-> resolve_scope(w.client, w.ask.scope).scope, resource |-> validate_resources(w.ask.resource),
     details |-> w.ask.details, jkt |-> w.ask.jkt, grant_established_at |-> w.at]

ClientCredentials(l) ==
    LET w == leg[l]
        grant == CredentialsGrant(w)
    IN
    /\ Step(l, "authenticated")
    /\ IF w.client.auth = "Public" THEN Rebuff(l, "invalid_client")
       ELSE IF "client_credentials" \notin w.client.grants THEN Rebuff(l, "unauthorized_client")
       ELSE IF ~resolve_scope(w.client, w.ask.scope).ok THEN Rebuff(l, "invalid_scope")
       ELSE Issuing(l, Minted(w.client_id, grant, grant.scope, grant.resource, grant.details,
                                   <<>>, grant.jkt, None), Root(grant))
    /\ OnlyLegs

-----------------------------------------------------------------------------
(***************************************************************************)
(* Token exchange                                                           *)
(***************************************************************************)
introspect(t) == tokens[t] # None /\ clock < tokens[t].expires_at

\* `exchange`, up to the authentication: only access tokens are issued, and only they are accepted.
ExchangeArrives(l, r) ==
    /\ Step(l, "new")
    /\ IF r.requested_token_type \in {None, "access_token"} THEN Move(l, [step |-> "client", request |-> r])
       ELSE Rebuff(l, "invalid_request")
    /\ OnlyLegs

ExchangeAuthenticated(l) ==
    LET r == leg[l].request
        client == clients[r.client_id]
    IN
    /\ Step(l, "client")
    /\ IF \/ classify_client_credential(r.client_id, client, r.cred, clock).verdict = "refused"
          \/ client.auth = "Public"
       THEN Rebuff(l, "invalid_client")
       ELSE IF "token_exchange" \notin client.grants THEN Rebuff(l, "unauthorized_client")
       ELSE IF r.subject_token_type # "access_token" THEN Rebuff(l, "invalid_request")
       ELSE Move(l, [step |-> "subject", request |-> r, client |-> client])
    /\ OnlyLegs

\* Which targets the new token may name: resources and audiences go through the same gate.
ExchangeTargets(r) == validate_resources(r.resource) \cup ToSet(r.audience)
targets_refused(r) ==
    \/ resources_refused(r.resource)
    \/ Len(r.audience) > MAX_AUDIENCE_VALUES
    \/ \E a \in ToSet(r.audience) : ~target_is_permitted(a)

\* The ceilings, and the token that comes under them.
ExchangeDecides(l, r, client, subject, act, root) ==
    LET scope == IF r.scope = None THEN subject.scope ELSE r.scope
        resource == narrow_and_permit(subject.resource, ExchangeTargets(r))
    IN  IF ~(scope \subseteq subject.scope \cap client.allowed_scopes) THEN Rebuff(l, "invalid_scope")
        ELSE IF /\ subject.details # <<>>
                /\ subject.client_id # r.client_id
                /\ ~allow_authorization_details_exchange
        THEN Rebuff(l, "invalid_request")
        ELSE IF targets_refused(r) \/ ~resource.ok THEN Rebuff(l, "invalid_target")
        ELSE Issuing(l, Minted(r.client_id, subject, scope, resource.resource, subject.details,
                                    act, None, subject.expires_at), root)

\* The subject token is read.  A token bound to a key is not exchanged for one that is not.
SubjectRead(l) ==
    LET r == leg[l].request
        subject == tokens[r.subject_token]
    IN
    /\ Step(l, "subject")
    /\ IF ~introspect(r.subject_token) THEN Rebuff(l, "invalid_request")
       ELSE IF subject.jkt # None /\ ~allow_sender_constrained_exchange THEN Rebuff(l, "invalid_request")
       ELSE IF r.actor_token = None
       THEN IF r.actor_token_type # None THEN Rebuff(l, "invalid_request")
            ELSE ExchangeDecides(l, r, leg[l].client, subject, <<>>, origin[r.subject_token])
       ELSE IF r.actor_token_type # "access_token" THEN Rebuff(l, "invalid_request")
       ELSE Move(l, [step |-> "actor", request |-> r, client |-> leg[l].client, subject |-> subject,
                     root |-> origin[r.subject_token]])
    /\ OnlyLegs

\* The actor token is read: it must be the requester's own, and the chain it heads not too long.
ActorRead(l) ==
    LET w == leg[l]
        actor == tokens[w.request.actor_token]
        sub == IF actor.subject = None THEN actor.client_id ELSE actor.subject
    IN
    /\ Step(l, "actor")
    /\ IF ~introspect(w.request.actor_token) \/ actor.client_id # w.request.client_id
       THEN Rebuff(l, "invalid_request")
       ELSE IF Len(w.subject.act) >= MAX_ACT_CHAIN_DEPTH THEN Rebuff(l, "invalid_request")
       ELSE ExchangeDecides(l, w.request, w.client, w.subject,
                            <<[sub |-> sub, client_id |-> actor.client_id]>> \o w.subject.act, w.root)
    /\ OnlyLegs

-----------------------------------------------------------------------------
(***************************************************************************)
(* Introspection                                                            *)
(***************************************************************************)
\* `introspection_view`: the resources of the token the asking client serves.
Mine(c, token) == ResourceServers[c] \cap token.resource

\* A slip: a resource server is shown every detail of a token that names it.
all_details(details, mine) == details

\* A detail with locations is shown where it is located, with the others left out.
ShownTo(mine, details) == SelectSeq(details, LAMBDA d : d.locations = {} \/ d.locations \cap mine # {})

details_for_resource_server(details, mine) ==
    LET Here(d) == [type |-> d.type, identifier |-> d.identifier, actions |-> d.actions,
                    other |-> d.other, locations |-> d.locations \cap mine]
        shown == ShownTo(mine, details)
    IN  [i \in DOMAIN shown |-> Here(shown[i])]

introspection_response(c, t) ==
    LET token == tokens[t]
        owner == token.client_id = c
    IN  IF ~introspect(t) \/ ~(owner \/ Mine(c, token) # {}) THEN [active |-> FALSE]
        ELSE [active |-> TRUE, sub |-> token.subject, scope |-> token.scope, exp |-> token.expires_at,
              client_id |-> token.client_id, act |-> token.act,
              aud |-> IF owner THEN token.resource ELSE Mine(c, token),
              details |-> IF owner THEN token.details
                          ELSE details_for_resource_server(token.details, Mine(c, token))]

\* The asking client is authenticated, and a public one is refused.
Introspects(c, t) ==
    /\ told = None
    /\ clients[c] # None /\ clients[c].auth # "Public"
    /\ told' = [to |-> c, origin |-> origin[t], answer |-> introspection_response(c, t)]
    /\ UNCHANGED <<storeVars, authVars, requestVars, leg, origin>>

-----------------------------------------------------------------------------
ExchangeInit ==
    /\ RequestInit
    /\ leg = [l \in Legs |-> [step |-> "new"]]
    /\ origin = [t \in AccessTokens |-> None]
    /\ told = None

ExchangeTick ==
    /\ clock < MaxExchangeInstant
    /\ clock' = clock + 1
    /\ UNCHANGED <<storeVars, task, requestVars, exchangeVars>>

\* A token is revoked, or a client deregistered, at any point of somebody's exchange.
TokenRevoked(t) ==
    /\ tokens[t] # None
    /\ delete_token(t)
    /\ UNCHANGED <<authVars, requestVars, exchangeVars>>

ASSUME ExchangeAssumption ==
    /\ exchange_ttl \in Nat /\ MAX_ACT_CHAIN_DEPTH \in Nat
    /\ \A l \in Legs : \A r \in ExchangeRequests[l] :
           r.subject_token \in AccessTokens /\ r.actor_token \in Option(AccessTokens)
    /\ \A q \in Enquiries : q.token \in AccessTokens
    /\ \A l \in Legs : \A ask \in Asks[l] :
           Len(ask.details) \in Nat /\ DOMAIN ask.details = 1..Len(ask.details)

ExchangeNext ==
    \/ ExchangeTick
    \/ \E l \in Legs :
        \/ \E g \in StandingGrants, ask \in Asks[l] : Redeems(l, g, ask)
        \/ \E c \in ClientIds, ask \in Asks[l] : CredentialsArrive(l, c, ask)
        \/ CredentialsRead(l)
        \/ ClientCredentials(l)
        \/ \E r \in ExchangeRequests[l] : ExchangeArrives(l, r)
        \/ ExchangeAuthenticated(l)
        \/ SubjectRead(l)
        \/ ActorRead(l)
        \/ Issues(l)
    \/ \E q \in Enquiries : Introspects(q.client_id, q.token)
    \/ \E t \in AccessTokens : TokenRevoked(t)
    \/ \E c \in ClientIds : DeregisterClient(c) /\ UNCHANGED exchangeVars

ExchangeSpec ==
    ExchangeInit /\ [][ExchangeNext]_<<storeVars, authVars, requestVars, exchangeVars>>

-----------------------------------------------------------------------------
(***************************************************************************)
(* Properties                                                               *)
(***************************************************************************)
\* Every detail narrows a detail that was granted, and no two the same one.
EachFrom(details, granted) ==
    \E m \in [DOMAIN details -> DOMAIN granted] :
        /\ \A j \in DOMAIN details : is_narrowing_of(details[j], granted[m[j]])
        /\ \A j, k \in DOMAIN details : m[j] = m[k] => j = k

\* However long the chain of exchanges behind a token, it lies within the grant it descends from, and
\* within the first token of that grant: no scope or target the grant did not carry, a detail of its
\* own behind each detail (one authorization does not become two by being repeated), no later
\* expiry, the same user and the instant a revocation is measured against; details never reach
\* another client, and a key-bound token has no unbound descendant (exchange, narrow_and_permit,
\* issue).
DescendantsStayWithin ==
    \A t \in AccessTokens :
        tokens[t] # None =>
            LET token == tokens[t]
                grant == origin[t].grant
                first == origin[t].first
            IN  /\ token.scope \subseteq grant.scope
                /\ token.resource \subseteq grant.resource
                /\ grant.resource # {} => token.resource # {}
                /\ AllowedResources # None => token.resource \subseteq AllowedResources
                /\ EachFrom(token.details, grant.details)
                /\ token.expires_at <= first.expires_at
                /\ token.subject = grant.subject
                /\ token.grant_established_at = grant.grant_established_at
                /\ Len(token.act) <= MAX_ACT_CHAIN_DEPTH
                /\ token.details # <<>> /\ ~allow_authorization_details_exchange
                        => token.client_id = grant.client_id
                /\ grant.jkt # None /\ ~allow_sender_constrained_exchange => token = first

\* What a resource server is told about a token concerns it: of the token's targets the ones it
\* serves, and no detail located at somebody else's.  It is told nothing about a token whose grant
\* names none of its resources (introspection_response, details_for_resource_server).
IntrospectionStaysLocal ==
    told # None /\ told.answer.active /\ told.to # told.answer.client_id =>
        /\ told.answer.aud # {}
        /\ told.answer.aud \subseteq ResourceServers[told.to] \cap told.origin.grant.resource
        /\ \A i \in DOMAIN told.answer.details :
               told.answer.details[i].locations \subseteq told.answer.aud
=============================================================================
