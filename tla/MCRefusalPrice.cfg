SPECIFICATION AuthSpec
CONSTANTS
    c1 = c1
    ClientIds = {c1}
    Registrations <- MCRegistrations
    Subjects = {}
    Scopes = {}
    FamilyIds = {}
    AuthCodes = {}
    AccessTokens = {}
    RefreshTokens = {}
    DeviceCodes = {}
    UserCodes = {}
    RequestUris = {}
    ConsentIds = {}
    ReplayIds <- MCReplayIds
    Times = {}
    None = None
    Applications <- MCApplications
    Spelling <- MCSpelling
    Presentations <- MCPresentations
    HttpRequests = {}
    Proofs = {}
    Tasks = {j1}
    Installed = {"ES256"}
    SecretVerifier = "none"
    assertion_audience = "Rfc7523"
    require_dpop = FALSE
    MAX_ASSERTION_LIFETIME = 2
    MAX_PROOF_AGE = 2
    MAX_JTI_BYTES = 2
    CLOCK_SKEW_LEEWAY = 1
    MaxClock = 1
INVARIANTS
    RefusalCostsTheSame
CHECK_DEADLOCK FALSE
