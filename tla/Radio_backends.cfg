SPECIFICATION RadioSpec
CONSTANTS
  IdleRearm = 1
  MaxSilence = 2
  DiagAfter = 4
  MaxUsbErrors = 2
  MaxFaults = 3
  HealFaults = {"open", "configure"}
  ReadSize = 2
  QueueSize = 2
  Hop = 3
  Overlap = 3
  SyncLen = 2
  Anchors = 2
  PipeSize = 3
  End = 12
  MaxLost = 1
  Airs <- SomeAirs
INVARIANTS WatchdogInv SdrReaderInv EveryCarrierJudged
PROPERTIES NothingDrasticWhenHealthy HearsAgain EndIsSeen
CHECK_DEADLOCK FALSE
