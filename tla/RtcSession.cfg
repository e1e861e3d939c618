SPECIFICATION FairSpec
CONSTANTS
  Backends = {"windows", "macos", "mock"}
  Sessions = 2
  RingSize = 2
  QueueSize = 2
  Batch = 1
  Slices = 2
  MaxFrames = 3
  MaxPosted = 1
INVARIANTS EngineReleased 
PROPERTIES ImplementsOrderedDelivery JoinAndLeaveEnd
CHECK_DEADLOCK FALSE
