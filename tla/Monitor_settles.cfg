CONSTANTS
    press = press
    level = level
    Msg = {press}
    Window = 1
    IdleTick = 1
    Capacity = 1
    Options <- Both
    PutTimeout = 1
    JoinTimeout = 1
    WritesFail = TRUE
    Gap = 2
    Spread = 1
    MaxLag = 1
    MaxSent = 1
    MaxBlocks = 2
    MaxSignals = 2
    MaxTime = 5
SPECIFICATION FairSpec
CHECK_DEADLOCK FALSE
PROPERTIES RecordsAgeOut SignalEndsProcess
