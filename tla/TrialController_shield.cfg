SPECIFICATION Spec
CONSTANTS
  DiskFaults = FALSE
  CleanupFaults = TRUE
  MaxCancels = 1
PROPERTIES
  ShieldReportsCancellation
