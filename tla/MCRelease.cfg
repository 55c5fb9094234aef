CONSTANTS
  None = None
  m1 = m1
  m2 = m2
  Options <- MCOptions
  Outcomes <- MCOutcomes
  Durations = {3}
  TicksPerMs = 2
  MaxCount = 4
  MaxConcurrency = 2
  MaxTokens = 2
  MaxRequested = 7
  MaxTimeout = 2
  MaxPlanned = 3
  MaxMemory = 20
  AttemptBytes = 2
  Blurred <- MCBlurred
  Thresholds <- MCThresholds
  MinimumSamples = 2
SPECIFICATION MCSpec
INVARIANTS
  StatusIsEarned RolloutVerdictExact GateComposes LoadedWasWritten AnalysisIsPrefix
CHECK_DEADLOCK FALSE
