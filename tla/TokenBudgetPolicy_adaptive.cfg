SPECIFICATION PolicySpec
CONSTANTS
  Adaptive = TRUE
  MinBudget = 2
  MaxBudget = 8
  InitialBudget = 6
  BudgetStep = 2
  HysteresisSteps = 3
  DecodeBacklogHigh = 3
  PrefillBacklogHigh = 2
  KvCapacity = 4
  KvHigh = 3
  KvLow = 1
  MaxWait = 2
  MinimumPrefill = 2
  ShareUnits = 4
  PrefillShare = 2
  PressureDecodeShare = 3
  MaxWaitPrefillShare = 2
  MinAdmitted = 1
  MaxAdmitted = 2
  AdmissionStep = 1
  Backlogs = {0, 1, 9}
  Ages = {0, 2}
  KvLevels = {0, 3}
  PreemptionCounts = {0}
  Caps = {0, 1, 3}
INVARIANTS
  StagesShareStep
  ReservationHonoured
PROPERTIES
  BudgetMovesDeliberately
