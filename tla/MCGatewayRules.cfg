SPECIFICATION Spec

CONSTANTS
    painting = painting
    tenantA = tenantA
    tenantB = tenantB
    infer = infer
    publish = publish
    basic = basic
    root = root
    n1 = n1
    Assets = {painting}
    Tenants <- MCTenants
    Metadata <- MCMetadata
    Absent = Absent
    Revokers = {v1}
    Listeners = {}
    FaultyListeners = {}
    MaxListeners = 0
    MaxWithdrawals = 1
    Nonces = {n1}
    NoToken = NoToken
    Forged = Forged
    NonAscii = {tenantB}
    IssueTimes = {0, 2}
    Lifetimes = {1, 5}
    ClockSkew = 1
    MaxTime = 1
    Workers = {w1}
    Actions <- MCActions
    HighRisk = {publish}
    Scopes = {basic, root}
    LongScopes = {root}
    Requests <- MCRequests
    NoRequest = NoRequest
    MaxCalls = 2

INVARIANTS
    TypeOK
    GrantsAuthorised
    ReplayExplained

PROPERTIES
    WithdrawalMonotonic
    EveryCallAnswered

CHECK_DEADLOCK FALSE
