SPECIFICATION Spec
CONSTANTS
  Leader = leader
  Workers = {}
  Foreign = foreign
  Stoppers = {s1, s2}
  LateForks = FALSE
  NvmlFaults = TRUE
  Procfs = TRUE
  MaxCancels = 1
PROPERTIES
  CleanIsFinal
  StopsEnd
