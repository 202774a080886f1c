CONSTANTS
    press = press
    level = level
    Message = {press}
    Hop = {3}
    Kind = {"good", "damaged"}
    Window = 1
    Extend = 2
    MaxWindow = 2
    Lateness = 1
    RepeatMemory = 20
    AllowCombine = TRUE
    Gap = 4
    Spread = 1
    MaxLag = 2
    MaxSent = 2
    MaxCopies = 2
    MaxTime = 7
SPECIFICATION Spec
CHECK_DEADLOCK FALSE
INVARIANT FirstTransmissionIsZero
