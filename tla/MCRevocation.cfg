SPECIFICATION Spec

CONSTANTS
    Assets = {a1, a2}
    Tenants = {}
    Metadata = {meta}
    Absent = Absent
    Revokers = {v1, v2}
    Listeners = {registry, audit}
    FaultyListeners = {audit}
    registry = registry
    MaxListeners = 2
    MaxWithdrawals = 2
    Connectors = {c1, c2}
    Readers = {r1}
    NotReading = NotReading

INVARIANTS
    TypeOK
    CutOffHolds
    QuarantineTraced

PROPERTIES
    ServedWasServable
    WithdrawReturns

CHECK_DEADLOCK FALSE
