CONSTANTS
  MaxConcurrency = 1
  Warmups = 1
  HasCounter = TRUE
  MaxClock = 1
  Scale = 2
CONSTANTS
  Requests <- MCRequests
  Offset <- MCOffset
  Prompt <- MCPrompt
  Scripts <- MCScripts
  Readings <- MCReadings
  Faults <- MCFaults
  Slo <- MCSlo
  Limits <- MCLimits
SPECIFICATION Spec
CHECK_DEADLOCK FALSE
INVARIANT SuccessHasTokens
