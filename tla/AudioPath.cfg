SPECIFICATION FairSpec
CONSTANTS
  Platforms = {"win32", "posix"}
  Capacity = 3
  ChunkBytes = 2
  FrameSizes = {3, 5}
  MaxEmpty = 2
  Keep = 1
  MaxReads = 2
  MaxFrames = 2
  MaxCalls = 2
   
PROPERTIES ImplementsOrderedDelivery TeardownEnds
CHECK_DEADLOCK FALSE
