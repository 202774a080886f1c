CONSTANTS
    pressA = pressA
    pressX = pressX
    modemCmd = modemCmd
    devA = devA
    stranger = stranger
    plm = plm
    Key = {pressA}
    Device <- MCDevice
    SenderOf <- MCSenderOf
    TypeOf <- MCTypeOf
    PlmAddr = plm
    KnownAddrs = {devA, plm}
    BatteryAddrs = {}
    Allow = {"GROUP"}
    Shadow = FALSE
    SuppressWindow = 1
    Retain = 4
    PerDeviceInterval = 2
    Minute = 3
    GlobalPerMinute = 2
    MinCombinedReceivers = 3
    Defects = {"none"}
    Votes = {0}
    HasInjector = TRUE
    UsePlm = TRUE
    RequireLink = TRUE
    Grace = 1
    MaxSilence = 2
    EntryPoints = {"mesh_main", "run"}
    MaxAge = 1
    MaxEvents = 2
    MaxReports = 2
    MaxTime = 3
SPECIFICATION FairSpec
CHECK_DEADLOCK FALSE
INVARIANTS MeshInv MissTableAddsUp
PROPERTIES VerdictAfterGrace LinkLossEndsInjection InjectorSpec HeldIsSettled
