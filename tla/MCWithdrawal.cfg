SPECIFICATION ConsentSpec
CONSTANTS
    ClientIds = {c1}
    Registrations = {}
    Subjects = {s1}
    Scopes = {p1, p2}
    FamilyIds = {}
    AuthCodes = {}
    AccessTokens = {}
    RefreshTokens = {}
    DeviceCodes = {}
    UserCodes = {}
    RequestUris = {}
    ConsentIds = {k1, k2, k3}
    ReplayIds = {}
    Times = {}
    None = None
    Recordings = {r1, r2}
    Withdrawals = {w1}
    Approvals <- MCApprovals
    MAX_CONSENT_RESOURCES = 1
INVARIANTS WithdrawalRefusesBothShapes
CHECK_DEADLOCK FALSE
