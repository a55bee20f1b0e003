SPECIFICATION PartSpec
CONSTANTS
    ClientIds = {c1}
    Registrations = {g1}
    Subjects = {s1}
    Scopes = {}
    FamilyIds = {f1}
    AuthCodes = {x1}
    AccessTokens = {a1}
    RefreshTokens = {r1}
    DeviceCodes = {d1, d2}
    UserCodes = {u1, u2}
    RequestUris = {p1}
    ConsentIds = {k1}
    ReplayIds = {i1}
    Times = {1, 2}
    None = None
INVARIANTS
    TypeOK
    NoRowBehindBarrier
    UserCodeIndexSound
PROPERTIES
    BarriersOnlyStrengthen
