SPECIFICATION Spec
CONSTANTS
  MaxCommands = 4
  MaxQueued = 2
  MaxAbandoned = 2
INVARIANTS LagBounded 
CHECK_DEADLOCK FALSE
