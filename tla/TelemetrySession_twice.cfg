SPECIFICATION Spec
CONSTANTS
  Stoppers = {c1}
  DiskFaults = FALSE
  MaxCancels = 2
  MaxPeriodic = 1
INVARIANTS
  CancelledStopCompletes
