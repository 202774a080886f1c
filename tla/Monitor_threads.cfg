CONSTANTS
    press = press
    level = level
    Msg = {press, level}
    Window = 2
    IdleTick = 1
    Capacity = 1
    Options <- Both
    PutTimeout = 4
    JoinTimeout = 6
    WritesFail = FALSE
    Gap = 7
    Spread = 1
    MaxLag = 1
    MaxSent = 2
    MaxBlocks = 2
    MaxSignals = 1
    MaxTime = 7
SPECIFICATION Spec
CHECK_DEADLOCK FALSE
INVARIANTS MonitorInv LogIsComplete RecordsAreTransmissions
PROPERTIES GatheringSpec
SYMMETRY MsgSymmetry
