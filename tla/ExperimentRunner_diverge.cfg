CONSTANTS
  CollectNvml = TRUE
  TopCount = 1
  RepeatCount = 1
  HoldoutEnabled = TRUE
  RatioPercent = 80
  Budget = 2
  AttemptFactor = 2
  CapacityPoints = 0
  MaxBoots = 3
  MaxTroubles = 2
CONSTANTS
  Methods <- MCTpe
  Outcomes <- MCOutcomes
  Values <- MCValues
SPECIFICATION Spec
CHECK_DEADLOCK FALSE
INVARIANT ValidTrialIsReplayed
