SPECIFICATION Spec
CONSTANTS
    Backend = "redis"
    Jobs = {j1}
    Workers = {w1, w2}
    Requests = {r1, r2, r3}
    NoJob = NoJob
    Ops = {"create", "retry", "cancel", "delete"}
    MaxRetries = 1
    MaxFaults = 1
SYMMETRY Symmetry
INVARIANTS
    AttemptsBounded
    ExclusiveWithoutRetry
    SuccessHasRows
    NoLostJob
    NoLeakedLease
    RunningHasRunner
    ReadyMeansIdle
PROPERTIES
    SettledStable
CHECK_DEADLOCK FALSE
