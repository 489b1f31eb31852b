SPECIFICATION Spec
CONSTANTS
  Stoppers = {c1}
  DiskFaults = TRUE
  MaxCancels = 0
  MaxPeriodic = 1
PROPERTIES
  PartialRunsRetainData
