CONSTANTS
    press = press
    level = level
    Message = {press}
    Hop = {3}
    Kind = {"good", "damaged"}
    Window = 1
    Extend = 2
    MaxWindow = 2
    Lateness = 1
    RepeatMemory = 20
    AllowCombine = TRUE
    Gap = 4
    Spread = 1
    MaxLag = 2
    MaxSent = 2
    MaxCopies = 3
    MaxTime = 7
SPECIFICATION FairSpec
CHECK_DEADLOCK FALSE
INVARIANTS FusionInv RetransmissionsKeptApart OneEventPerTransmission RepeatsTellSendings
PROPERTIES GatheringSpec EverythingEmitted
