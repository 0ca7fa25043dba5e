SPECIFICATION Spec
CONSTANTS
    Heads <- ClassHeads
    Images <- OnePicture
    Scenes <- OneObject
    Tables <- OneTable
    Net = 8
    NumMasks = 2
    Candidates = 100
    ConfThres = 250
    IouThres = 45
    MaxDet = 2
INVARIANTS ClassesAnswered
CHECK_DEADLOCK FALSE
