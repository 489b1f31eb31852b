SPECIFICATION Spec
CONSTANTS
  DiskFaults = TRUE
  CleanupFaults = TRUE
  MaxCancels = 3
INVARIANTS
  SelectableIsMeasured
  AbortedIsSealed
PROPERTIES
  FinalSampleFirst
  EventuallySettles
  ImplementsLease
