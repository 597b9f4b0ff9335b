SPECIFICATION Spec

CONSTANTS
    Assets = {bench, ghost}
    Tenants = {}
    Metadata = {meta}
    Absent = Absent
    Revokers = {c1, c2, c3}
    Listeners = {}
    FaultyListeners = {}
    MaxListeners = 0
    MaxWithdrawals = 3
    Seeds = {bench}
    SeedMetadata = meta
    PoolSize = 2
    NoCall = NoCall
    MaxPosts = 3

INVARIANTS
    ServiceTypeOK
    RevokeConfirmed
    RevokedStaysBlocked

PROPERTIES
    EveryRequestAnswered
    MirrorsGateway

CHECK_DEADLOCK FALSE
