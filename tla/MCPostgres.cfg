SPECIFICATION PgSpec
CONSTANTS
    c1 = c1
    s1 = s1
    f1 = f1
    g1 = g1
    g2 = g2
    x1 = x1
    a1 = a1
    r1 = r1
    r2 = r2
    d1 = d1
    u1 = u1
    p1 = p1
    k1 = k1
    k2 = k2
    i1 = i1
    Txns = {t1, t2, t3}
    Workloads <- MCWorkloads
    ClientIds = {c1}
    Registrations = {g1, g2}
    Subjects = {s1}
    Scopes = {read}
    FamilyIds = {f1}
    AuthCodes = {x1}
    AccessTokens = {a1}
    RefreshTokens = {r1, r2}
    DeviceCodes = {d1}
    UserCodes = {u1}
    RequestUris = {p1}
    ConsentIds = {k1, k2}
    ReplayIds = {i1}
    Times = {1, 2}
    None = None
SYMMETRY Symmetry
INVARIANTS
    NoRowBehindBarrier
    NoDeadlock
    CommitsAreAtomic
    OneConsentPerPair
