SPECIFICATION Spec
CONSTANTS
    ClientIds = {"", "client", "doomed", "bystander"}
    Registrations = {"original", "renamed", "clobber", "third"}
    Subjects = {"mine", "theirs", "third"}
    Scopes = {"read", "write", "admin"}
    FamilyIds = {"", "fa", "fb"}
    AuthCodes = {"x1", "x2", "x3", "x4"}
    AccessTokens = {"a1", "a2", "a3", "a4", "a5", "a6"}
    RefreshTokens = {"r1", "r2", "r3", "r4", "r5"}
    DeviceCodes = {"d1", "d2", "d3"}
    UserCodes = {"AAAA", "BBBB", "CCCC"}
    RequestUris = {"u1", "u2"}
    ConsentIds = {"k1", "k2"}
    ReplayIds = {"j1", "j2"}
    Times = {}
    None = None
    Err = Err
    Spawners = {"none", "runtime", "inline", "aborting"}
    GATE_POLL_BUDGET = 1
    Faults <- MCFaults
INVARIANTS
    NoFalseAlarm
    EveryFaultReported
    CleanSetupMeansOverlap
PROPERTIES
    HarnessReturns
