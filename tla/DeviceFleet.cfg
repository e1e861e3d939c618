SPECIFICATION Spec
CONSTANTS
  Devices = {d1, d2}
  Requests = {r1, r2}
  Unhealthy = {d2}
  MaxUpsets = 1
  None = None
  
PROPERTY SlotReleased
CHECK_DEADLOCK FALSE
