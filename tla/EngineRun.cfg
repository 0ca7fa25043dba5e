SPECIFICATION Spec
CONSTANTS
    Jobs = {j1}
    Shared = FALSE
    Timeouts = TRUE
    MaxRuns = 2
    MaxLosses = 1
INVARIANTS TypeOK SuccessIsEarned RowsHaveObjects DownloadsAreGood
PROPERTY ImplementsDelivery
CHECK_DEADLOCK FALSE
