SPECIFICATION Spec
CONSTANTS
  Tokens = {a, b}
  Accepted = {a}
  Threads = {t1, t2}
  Capacity = 1
  MaxLines = 2
  Menus = {"menu"}
  MaxFaults = 1
  MaxLaunches = 2
  None = None
INVARIANTS NoLostUpdate 
PROPERTIES EnvFileWhole 
CHECK_DEADLOCK FALSE
