SPECIFICATION Spec
CONSTANTS
  Missing = Missing
  Bounds = {1}
  Inf = 2
  Ranks = {1, 2}
  Setups <- MCOnePowered
  Warm <- MCWarm
  Prompts <- MCPrompts
  Watts = 1
  MaxRequests = 1
  MaxFrames = 3
  MaxFaults = 1
CHECK_DEADLOCK FALSE
INVARIANT EnergyCoversDevices
