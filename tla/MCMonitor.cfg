CONSTANTS
  g0 = g0
  g1 = g1
  Host = Host
  None = None
  Garbage = Garbage
  Errors = {e1, e2}
  Arguments <- MCArguments
  Reports <- MCReports
  Slices = 1
  Cap = 3
  MaxCycles = 3
  MaxStarts = 2
SPECIFICATION FairSpec
INVARIANTS SinksAgree ExitFollowsPolicy FailureTold
PROPERTIES ContinuousKeepsGoing SignalEnds
CHECK_DEADLOCK FALSE
