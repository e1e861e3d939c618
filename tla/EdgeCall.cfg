SPECIFICATION Spec
CONSTANTS
  Calls = {c1, c2}
  MaxDials = 2
  MaxQueue = 1
  MaxUrcs = 1
  MaxLaunches = 2
  MaxSwaps = 1
SYMMETRY Symmetry
INVARIANTS  AudioExclusive ReleasedAtEnd OneAttemptPerCall HangupHitsItsOwnCall
CHECK_DEADLOCK FALSE
