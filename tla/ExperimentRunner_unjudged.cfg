CONSTANTS
  CollectNvml = TRUE
  TopCount = 1
  RepeatCount = 1
  HoldoutEnabled = TRUE
  RatioPercent = 80
  Budget = 1
  AttemptFactor = 2
  CapacityPoints = 1
  MaxBoots = 3
  MaxTroubles = 2
CONSTANTS
  Methods <- MCMethods
  Outcomes <- MCOutcomes
  Values <- MCValues
SPECIFICATION Spec
CHECK_DEADLOCK FALSE
INVARIANT SelectableHasTelemetry
