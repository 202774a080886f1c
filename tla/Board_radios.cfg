SPECIFICATION BoardSpec
CONSTANTS
  Boards = {b1, b2}
  MaxSize = 1
  MaxRecordings = 4
  MaxReboots = 1
  CaptureBytes = 3
  FifoBytes = 2
  WakeBytes = 2
  MinBytes = 2
  QueueDepth = 1
  MaxCaptures = 2
  MaxTunes = 2
  MaxFaults = 1
  Requests = {"reset"}
INVARIANTS CaptureInv GapsTellLosses RecordingsReadOut Cc1101Inv CapturesWhole
PROPERTIES ListensAgain CaptureEnds
CHECK_DEADLOCK FALSE
