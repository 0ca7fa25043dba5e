SPECIFICATION GraphSpec
CONSTANTS
    Graphs <- MCGraphs
    Samples = {1, 2, 5}
    Sizes = {0, 2, 3}
    Levels = {0, 1, 2}
    Unregistered = {"Silu", "Upsample"}
CHECK_DEADLOCK FALSE
INVARIANTS
    MeaningKept
    StaysLegal
    NeverWorse
