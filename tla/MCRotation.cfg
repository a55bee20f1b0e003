SPECIFICATION RotationSpec
CONSTANTS
    c1 = c1
    f1 = f1
    f2 = f2
    a1 = a1
    a2 = a2
    a3 = a3
    n1 = n1
    n2 = n2
    n3 = n3
    q1 = q1
    q2 = q2
    q3 = q3
    ClientIds = {c1, c2}
    Registrations = {g1}
    Subjects = {s1}
    Scopes = {}
    FamilyIds = {f1, f2}
    AuthCodes = {x1}
    AccessTokens = {a1, a2, a3}
    RefreshTokens = {n1, n2, n3}
    DeviceCodes = {}
    UserCodes = {}
    RequestUris = {}
    ConsentIds = {k1}
    ReplayIds = {}
    Times = {}
    None = None
    Requests = {q1, q2, q3}
    Operations = {"redeem", "refresh", "revoke", "withdraw", "delete"}
    Rotations = {"Rotate", "Reuse"}
    RetryWindows = {0, 1}
    issue_refresh_tokens = TRUE
    access_token_ttl = 1
    refresh_token_ttl = None
    refresh_reuse_window = 1
    authorization_code_ttl = 1
    device_code_ttl = 3
    Faults = {{}, {"drop", "store_error"}}
    MaxNow = 3
    MaxInFlight = 1
ACTION_CONSTRAINT Within
INVARIANTS
    SingleRedemption
    RedemptionRecorded
    RevokedStaysDead
PROPERTIES
    ImplementsLineage
