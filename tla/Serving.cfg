SPECIFICATION FairSpec
CONSTANTS
    Deployments <- MCDeployments
    Pids = {2, 3}
    Requests = {1, 2}
    MaxWorkers = 2
    MaxSpawns = 3
    MaxKills = 1
CHECK_DEADLOCK FALSE
INVARIANTS
    NoDoubleCard
    NoSilentCpu
    AnswersTruthful
    RecordsPointToObjects
    FlagsAccumulate
PROPERTY
    RequestsEnd
