SPECIFICATION Spec
CONSTANTS
  Missing = Missing
  Bounds = {1}
  Inf = 2
  Ranks = {1, 2}
  Setups <- MCSetups
  Warm <- MCWarm
  Prompts <- MCPrompts
  Watts = 1
  MaxRequests = 2
  MaxFrames = 3
  MaxFaults = 2
CHECK_DEADLOCK FALSE
INVARIANT CountersAreHonest
INVARIANT HistogramIsHonest
INVARIANT QuantilesOrdered
INVARIANT EnergyIsDrawn
INVARIANT HealthyTrialHasEvidence
