SPECIFICATION Spec
CONSTANTS
  Leader = leader
  Workers = {w1}
  Foreign = foreign
  Stoppers = {s1}
  LateForks = FALSE
  NvmlFaults = TRUE
  Procfs = TRUE
  MaxCancels = 0
INVARIANTS
  CleanIsReleased
PROPERTIES
  CleanSawGpuFree
