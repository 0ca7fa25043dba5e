CONSTANTS
    Hosts <- MCHosts
    Models <- MCModels
    Behaviours <- MCBehaviours
    Chains <- MCChains
    MaxCompiles = 2
    MaxCommands = 3

SPECIFICATION Spec
INVARIANTS NoFakeRelease OneCompile VerdictEarned ConformanceEarned
CHECK_DEADLOCK FALSE
