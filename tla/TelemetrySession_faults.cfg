SPECIFICATION Spec
CONSTANTS
  Stoppers = {c1, c2}
  DiskFaults = TRUE
  MaxCancels = 3
  MaxPeriodic = 2
INVARIANTS
  StoppedIsClosed
  FirstCancelCompletes
PROPERTIES
  StopsEnd
  ImplementsWindow
