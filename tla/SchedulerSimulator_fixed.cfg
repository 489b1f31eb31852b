SPECIFICATION Spec
CONSTANTS
  Adaptive = FALSE
  MinBudget = 2
  MaxBudget = 3
  InitialBudget = 3
  BudgetStep = 1
  HysteresisSteps = 1
  DecodeBacklogHigh = 2
  PrefillBacklogHigh = 2
  KvCapacity = 4
  KvHigh = 3
  KvLow = 1
  MaxWait = 4
  MinimumPrefill = 1
  ShareUnits = 4
  PrefillShare = 2
  PressureDecodeShare = 3
  MaxWaitPrefillShare = 2
  MinAdmitted = 1
  MaxAdmitted = 1
  AdmissionStep = 1
  AdmissionMaxWait = 2
  AgingWeight = 1
  AllowPreemption = TRUE
  MaxPreemptions = 1
  Trace = 3
  Arrivals = {0, 1}
  Prompts = {1, 5}
  Outputs = {2, 4}
  Priorities = {0, 3}
  StepDuration = 2
  PrefillQuantum = 2
  AvailableBudget = 0
  SignalWindow = 2
  MaxSteps = 14
CHECK_DEADLOCK FALSE
INVARIANTS
  NoStarvation
