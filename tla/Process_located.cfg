CONSTANTS
    Clean <- MCNone
    Damaged <- MCLocated
    GateFrames = 4
    GateErrors = 2
    TrackWindow = 1
    KnownGroups = {5}
    DeviceGroups = {1}
    HistoryWindow = 1
    StormCount = 3
    StormWindow = 1
    Cooldown = 2
    Backups = 2
    FileRecords = 1
    MaxBlocks = 1
    MaxKills = 0
    MaxTime = 0
SPECIFICATION Spec
CHECK_DEADLOCK FALSE
INVARIANT HeaderIndexFindsIt
