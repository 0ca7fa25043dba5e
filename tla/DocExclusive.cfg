SPECIFICATION Spec
CONSTANTS
    Backend = "redis"
    Jobs = {j1}
    Workers = {w1, w2}
    Requests = {r1, r2, r3}
    NoJob = NoJob
    Ops = {"create", "retry"}
    MaxRetries = 0
    MaxFaults = 0
INVARIANTS
    ExclusiveExecution
CHECK_DEADLOCK FALSE
