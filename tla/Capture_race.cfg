SPECIFICATION CaptureSpec
CONSTANTS
  Boards = {b1}
  MaxSize = 1
  MaxRecordings = 2
  MaxReboots = 0
INVARIANT PublishedOnce
CHECK_DEADLOCK FALSE
