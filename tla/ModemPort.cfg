SPECIFICATION Spec
CONSTANTS
  Modems = {m1, m2}
  Known = {m1}
  Procs = {p1, p2}
  MaxPlugs = 1
  MaxOpens = 3
  Codes = {1}
  None = None
INVARIANTS EventsReplayTheBus OneDriver FailedOpenLeavesNothing
CHECK_DEADLOCK FALSE
