SPECIFICATION Spec

CONSTANTS
    painting = painting
    tenantA = tenantA
    infer = infer
    basic = basic
    n1 = n1
    n2 = n2
    Assets <- MCAssets
    Tenants <- MCTenants
    Metadata <- MCMetadata
    Absent = Absent
    Revokers = {v1}
    Listeners = {}
    FaultyListeners = {}
    MaxListeners = 0
    MaxWithdrawals = 1
    Nonces = {n1, n2}
    NoToken = NoToken
    Forged = Forged
    NonAscii = {}
    IssueTimes = {0}
    Lifetimes = {1}
    ClockSkew = 1
    MaxTime = 1
    Workers = {w1, w2}
    Actions = {infer}
    HighRisk = {}
    Scopes = {basic}
    LongScopes = {}
    Requests <- MCRequests
    NoRequest = NoRequest
    MaxCalls = 3

PROPERTIES
    WithdrawalRevokesTokens

CHECK_DEADLOCK FALSE
