SPECIFICATION FairSpec
CONSTANTS
    Backend = "redis"
    Jobs = {j1}
    Workers = {w1, w2}
    Requests = {r1, r2, r3}
    NoJob = NoJob
    Ops = {"create", "retry", "cancel", "delete"}
    MaxRetries = 1
    MaxFaults = 0
PROPERTIES
    WaitingSettles
CHECK_DEADLOCK FALSE
