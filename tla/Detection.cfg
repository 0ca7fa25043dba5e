SPECIFICATION Spec
CONSTANTS
    Heads <- AllHeads
    Images <- Pictures
    Scenes <- SomeScenes
    Tables <- SomeTables
    Net = 8
    NumMasks = 2
    Candidates = 100
    ConfThres = 250
    IouThres = 45
    MaxDet = 2
INVARIANTS NmsSound Truthful NothingLost
CHECK_DEADLOCK FALSE
