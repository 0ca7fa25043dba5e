SPECIFICATION FairSpec
CONSTANTS
    Runs = {r1, r2}
    MaxEvents = 2
    Overlap = FALSE
    SendsHeader = FALSE
    MaxApiWrites = 1
    MaxBreaks = 1
INVARIANTS StrictSequence CompleteAtEnd
PROPERTIES ImplementsFeed EventuallyShown
CHECK_DEADLOCK FALSE
