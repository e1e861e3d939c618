SPECIFICATION FairSpec
CONSTANTS
  Calls = {c1}
  MaxDials = 2
  MaxQueue = 1
  MaxUrcs = 1
  MaxLaunches = 1
  MaxSwaps = 0
PROPERTIES CallSettles CancelEndsCall SlotFreed
CHECK_DEADLOCK FALSE
