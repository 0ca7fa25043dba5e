SPECIFICATION Spec
CONSTANTS
    Deployments <- Models
    Datasets <- Data
    Unit = 432
    TopK = 2
INVARIANTS ApSound ScoresBounded
CHECK_DEADLOCK FALSE
