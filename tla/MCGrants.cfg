SPECIFICATION GrantsSpec
CONSTANTS
    a1 = a1
    a2 = a2
    a3 = a3
    n1 = n1
    n2 = n2
    n3 = n3
    f1 = f1
    f2 = f2
    ClientIds = {c1}
    Registrations = {g1}
    Subjects = {s1}
    Scopes = {}
    FamilyIds = {f1, f2}
    AuthCodes = {x1}
    AccessTokens = {a1, a2, a3}
    RefreshTokens = {n1, n2, n3}
    DeviceCodes = {d1, d2}
    UserCodes = {u1}
    RequestUris = {}
    ConsentIds = {}
    ReplayIds = {}
    Times = {}
    None = None
    Requests = {q1, q2}
    Operations = {"redeem", "refresh", "revoke", "delete"}
    Rotations = {"Rotate", "Reuse"}
    RetryWindows = {0, 1}
    issue_refresh_tokens = TRUE
    access_token_ttl = 4
    refresh_token_ttl = None
    refresh_reuse_window = 3
    authorization_code_ttl = 1
    device_code_ttl = 2
    Faults = {{"store_error"}, {"drop"}}
    MaxNow = 2
    MaxInFlight = 1
    poll_interval = 1
    slow_down_increment = 1
    MaxDuration = 2
SYMMETRY Symmetry
ACTION_CONSTRAINT Within
INVARIANTS
    OneSuccessor
    SpentStaysSpent
    ReplayContained
    RevokedMeansDead
    DeviceSingleUse
    DecisionStands
    DeletedRegistrationYieldsNothing
