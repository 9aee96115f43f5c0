CONSTANTS
  Jobs = {j1}
  Stoppers = {c1}
  MaxCrashes = 0
SPECIFICATION Spec
INVARIANTS StoppedJobHasNoTurn
CHECK_DEADLOCK FALSE
