SPECIFICATION Spec
CONSTANTS
    ClientIds = {c1}
    Registrations = {g1}
    Subjects = {s1}
    Scopes = {}
    FamilyIds = {f1}
    AuthCodes = {x1}
    AccessTokens = {a1, a2, a3}
    RefreshTokens = {n1, n2, n3}
    DeviceCodes = {}
    UserCodes = {}
    RequestUris = {}
    ConsentIds = {}
    ReplayIds = {}
    Times = {}
    None = None
    Requests = {q1, q2}
    Operations = {"redeem", "refresh", "revoke"}
    Rotations = {"Rotate"}
    RetryWindows = {0}
    issue_refresh_tokens = TRUE
    access_token_ttl = 2
    refresh_token_ttl = None
    refresh_reuse_window = 3
    authorization_code_ttl = 1
    device_code_ttl = 1
    Faults = {{}}
    MaxNow = 0
    MaxInFlight = 1
SYMMETRY Symmetry
INVARIANTS
    RevokedMeansDead
