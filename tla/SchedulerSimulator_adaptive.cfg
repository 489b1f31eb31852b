SPECIFICATION Spec
CONSTANTS
  Adaptive = TRUE
  MinBudget = 2
  MaxBudget = 4
  InitialBudget = 3
  BudgetStep = 1
  HysteresisSteps = 2
  DecodeBacklogHigh = 2
  PrefillBacklogHigh = 3
  KvCapacity = 12
  KvHigh = 6
  KvLow = 2
  MaxWait = 4
  MinimumPrefill = 1
  ShareUnits = 4
  PrefillShare = 2
  PressureDecodeShare = 3
  MaxWaitPrefillShare = 2
  MinAdmitted = 1
  MaxAdmitted = 3
  AdmissionStep = 1
  AdmissionMaxWait = 4
  AgingWeight = 1
  AllowPreemption = TRUE
  MaxPreemptions = 1
  Trace = 4
  Arrivals = {0, 7}
  Prompts = {1, 5}
  Outputs = {3}
  Priorities = {0}
  StepDuration = 2
  PrefillQuantum = 2
  AvailableBudget = 0
  SignalWindow = 2
  MaxSteps = 40
CHECK_DEADLOCK FALSE
INVARIANTS
  PreemptionsBounded
  StepsPay
PROPERTIES
  RunCompletes
