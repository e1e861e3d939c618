SPECIFICATION FairSpec
CONSTANTS
  Durable = TRUE
  Capacity = 2
  PageSize = 1
  InitialBackoff = 1
  MaxBackoff = 2
  Producers = {"call_event"}
  MaxSends = 3
  MaxInbound = 1
  MaxFaults = 1
  MaxRestarts = 2
INVARIANTS InOrderOnce FlushedWhileConnected NothingVanishes OneFate
PROPERTIES DurableRowsKept PendingSettles ShutdownCompletes
CHECK_DEADLOCK FALSE
