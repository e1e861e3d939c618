SPECIFICATION DevSpec
CONSTANTS
  Backends = {"macos"}
  Sessions = 2
  RingSize = 1
  QueueSize = 1
  Batch = 1
  Slices = 1
  MaxFrames = 2
  MaxPosted = 1
INVARIANTS OneHangup ReleasedOnTeardown
 
CHECK_DEADLOCK FALSE
