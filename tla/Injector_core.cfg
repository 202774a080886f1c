CONSTANTS
    pressA = pressA
    levelA = levelA
    pressB = pressB
    replyA = replyA
    pressX = pressX
    modemCmd = modemCmd
    devA = devA
    devB = devB
    stranger = stranger
    plm = plm
    Key = {pressA, pressX}
    Device <- MCDevice
    SenderOf <- MCSenderOf
    TypeOf <- MCTypeOf
    PlmAddr = plm
    KnownAddrs <- MCKnown
    BatteryAddrs = {devB}
    Allow = {"BATTERY", "GROUP", "STATE"}
    Shadow = FALSE
    SuppressWindow = 1
    Retain = 2
    PerDeviceInterval = 1
    Minute = 3
    GlobalPerMinute = 2
    MinCombinedReceivers = 3
    Defects = {"none", "corrected"}
    Votes = {0}
    MaxAge = 2
    MaxTime = 4
    MaxReports = 2
    MaxConsidered = 3
SPECIFICATION Spec
CHECK_DEADLOCK FALSE
INVARIANTS InjectorInv RateLimits
PROPERTIES SuppressedUnlessLost
