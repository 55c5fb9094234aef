CONSTANTS
  p1 = p1
  p2 = p2
  a = a
  b = b
  t1 = t1
  t2 = t2
  NaN = NaN
  None = None
  Keys = {p1, p2}
  MaxMemory = 2
  Threshold = 2
  Steps <- MCSteps
  MaxCycles = 3
  MaxTime = 3
SPECIFICATION MCSpec
INVARIANTS BaselineIsLastSample FindingsExact AllClearIsEarned IntervalIsDistribution
PROPERTIES RateNeverFabricated
CHECK_DEADLOCK FALSE
