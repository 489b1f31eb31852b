SPECIFICATION Spec
CONSTANTS
  Leader = leader
  Workers = {w1}
  Foreign = foreign
  Stoppers = {s1}
  LateForks = TRUE
  NvmlFaults = FALSE
  Procfs = TRUE
  MaxCancels = 0
INVARIANTS
  CleanIsReleased
