CONSTANTS
  None = None
  a = a
  b = b
  blank = blank
  Options <- MCOptions
  Outcomes <- MCOutcomes
  Timeout = 2
  MaxConcurrency = 3
  MaxAttempts = 9
  MaxWallTime = 12
  MinimumSamples = 2
  Blurred <- MCBlurred
  Policies <- MCPolicies
  ComparisonSamples = 2
SPECIFICATION MCSpec
INVARIANTS
  TrafficBounded VerdictEarned 
  ReconstructionExact ComparisonEarned AttemptIsSound
  ProbesExact
PROPERTIES AbortStopsTraffic
CHECK_DEADLOCK FALSE
