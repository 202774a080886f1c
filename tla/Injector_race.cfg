CONSTANTS
    pressA = pressA
    levelA = levelA
    pressB = pressB
    replyA = replyA
    pressX = pressX
    modemCmd = modemCmd
    devA = devA
    devB = devB
    stranger = stranger
    plm = plm
    Key = {pressA}
    Device <- MCDevice
    SenderOf <- MCSenderOf
    TypeOf <- MCTypeOf
    PlmAddr = plm
    KnownAddrs <- MCKnown
    BatteryAddrs = {devB}
    Allow = {"BATTERY", "GROUP", "STATE"}
    Shadow = FALSE
    SuppressWindow = 1
    Retain = 2
    PerDeviceInterval = 0
    Minute = 3
    GlobalPerMinute = 2
    MinCombinedReceivers = 3
    Defects = {"none"}
    Votes = {0}
    MaxAge = 9
    MaxTime = 6
    MaxReports = 3
    MaxConsidered = 3
SPECIFICATION Spec
CHECK_DEADLOCK FALSE
PROPERTIES FreshReportSuppresses
