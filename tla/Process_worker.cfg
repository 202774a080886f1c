CONSTANTS
    Clean <- MCClean
    Damaged <- MCDamaged
    GateFrames = 4
    GateErrors = 2
    TrackWindow = 1
    KnownGroups = {5}
    DeviceGroups = {1}
    HistoryWindow = 1
    StormCount = 3
    StormWindow = 1
    Cooldown = 2
    Backups = 2
    FileRecords = 1
    MaxBlocks = 3
    MaxKills = 1
    MaxTime = 3
SPECIFICATION Spec
CHECK_DEADLOCK FALSE
INVARIANTS ProcessInv CleanBurstIsHeard  MeshHearsTheSame AcksReadInTheirTable EveryAllOnReportedOnce
