SPECIFICATION Spec
CONSTANTS
  Tokens = {a}
  Accepted = {a}
  Threads = {t1}
  Capacity = 1
  MaxLines = 0
  Menus = {}
  MaxFaults = 0
  MaxLaunches = 1
  None = None
PROPERTY QuitEnds
CHECK_DEADLOCK FALSE
