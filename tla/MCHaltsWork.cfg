SPECIFICATION EngineSpec

CONSTANTS
    Assets = {painting}
    RequestIds = {q1}
    RunIds <- MCRunIds
    Workers = {w1, w2}
    Nonces = {n1, n2}
    NoToken = NoToken
    NoJob = NoJob
    MaxRuns = 1
    MaxTools = 1

PROPERTIES
    NoToolCallAfterWithdrawal

CHECK_DEADLOCK FALSE
