SPECIFICATION ServerSpec
CONSTANTS
    c1 = c1
    c2 = c2
    s1 = s1
    u1 = u1
    v1 = v1
    v2 = v2
    v3 = v3
    a1 = a1
    a2 = a2
    a3 = a3
    l1 = l1
    l2 = l2
    l3 = l3
    i1 = i1
    i2 = i2
    j1 = j1
    j2 = j2
    h1 = h1
    h2 = h2
    e2 = e2
    e3 = e3
    g1 = g1
    g2 = g2
    d1 = d1
    d2 = d2
    y1 = y1
    y2 = y2
    j3 = j3
    ClientIds = {c1, c2}
    Registrations <- MCRegistrations
    Subjects = {s1}
    Scopes = {p1, p2}
    FamilyIds = {}
    AuthCodes = {x1}
    AccessTokens = {a1, a2, a3}
    RefreshTokens = {}
    DeviceCodes = {d1, d2}
    UserCodes = {y1, y2}
    RequestUris = {u1}
    ConsentIds = {k1, k2, k3}
    ReplayIds <- MCReplayIds
    Times = {}
    None = None
    PresentedIds = {i1, i2}
    OverlongIds = {}
    Limits <- MCLimits
    Mixes <- MCMixes
    Callers = {h1, h2}
    MaxInstant = 1
    Applications <- MCApplications
    Spelling <- MCSpelling
    Presentations <- MCPresentations
    HttpRequests <- MCHttpRequests
    Proofs <- MCProofs
    Tasks = {j1, j2}
    Installed = {"ES256"}
    SecretVerifier = "with_dummy"
    assertion_audience = "Rfc7523"
    require_dpop = FALSE
    MAX_ASSERTION_LIFETIME = 2
    MAX_PROOF_AGE = 2
    MAX_JTI_BYTES = 2
    CLOCK_SKEW_LEEWAY = 1
    MaxClock = 3
    Policies <- MCPolicies
    StandingClients <- MCStandingClients
    Pushes <- MCPushes
    Queries <- MCQueries
    RequestObjectKeys <- MCRequestObjectKeys
    Logins <- MCLogins
    Visits = {v1, v2, v3}
    AllowedResources <- MCAllowedResources
    DetailTypes = {"pay"}
    MAX_RESOURCE_INDICATORS = 2
    MAX_ACR_VALUES = 1
    MAX_REQUEST_OBJECT_LIFETIME = 2
    request_uri_ttl = 0
    MIN_REQUEST_URI_TTL = 1
    code_ttl = 1
    barrier_ttl = 5
    PushStoreErrors = TRUE
    StandingGrants <- MCStandingGrants
    Asks <- MCAsks
    ExchangeRequests <- MCExchangeRequests
    Enquiries <- MCEnquiries
    ResourceServers <- MCResourceServers
    Legs = {l1, l2, l3}
    Draws <- MCDraws
    allow_sender_constrained_exchange = FALSE
    allow_authorization_details_exchange = FALSE
    MAX_ACT_CHAIN_DEPTH = 1
    MAX_AUDIENCE_VALUES = 1
    MAX_AUTHORIZATION_DETAILS_ELEMENTS = 2
    MAX_DETAIL_LIST_ENTRIES = 2
    exchange_ttl = 2
    MaxExchangeInstant = 1
    Errands = {e1, e2, e3}
    RegistrationTokens = {e1}
    Metadata <- MCMetadata
    Documents <- MCDocuments
    Bounds <- MCBounds
    CimdPolicy <- MCCimdPolicy
    management_enabled = TRUE
    client_secret_ttl = 1
    registration_window = 3
    MAX_REGISTERED_REDIRECT_URIS = 2
    Recordings = {r1, r2, r3}
    Withdrawals = {w1}
    Approvals <- MCApprovals
    MAX_CONSENT_RESOURCES = 1
    Signers <- MCSigners
    Verifiers <- MCVerifiers
    TokenRequests <- MCTokenRequests
    Signings = {g1, g2}
    ConfiguredAudience <- MCAudience
    signed_token_ttl = 1
    forget_after = 2
    MaxHandling = 1
    MaxKeyInstant = 3
    NoValue = NoValue
    PageRequests = {j1, j2, j3}
    Sessions = {n1, n2}
    Posts <- MCPosts
    MAX_BODY_BYTES = 1
    AskingDevices <- MCAskingDevices
    Protections = {"Unwired", "Tokens", "Disabled"}
    PageStoreErrors = TRUE
INVARIANTS
    DenialHasItsPrice
    GuessesBounded
    ProofAcceptedOnce
    ReplayedMeansReplayed
    RefusalPaysItsPrice
    PushedRequestUsedOnce
    PushedRequestNeverLost
    NoDoorAroundThePolicy
    DescendantsStayWithin
    IntrospectionStaysLocal
    UpdatesBuildOnWhatStands
    RegisteredWithinBounds
    WithdrawnRecordStaysGone
    RecordedConsentStands
    SignedTokensVerify
    EntryChargedOnce
    DecisionFromOwnForm
SYMMETRY Twins
CHECK_DEADLOCK FALSE
