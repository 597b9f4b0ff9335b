SPECIFICATION EngineSpec

CONSTANTS
    Assets = {painting}
    RequestIds = {q1}
    RunIds <- MCRunIds
    Workers = {w1, w2}
    Nonces = {n1, n2}
    NoToken = NoToken
    NoJob = NoJob
    MaxRuns = 3
    MaxTools = 1

INVARIANTS
    HeldRunsAreParked

CHECK_DEADLOCK FALSE
