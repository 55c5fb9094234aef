CONSTANTS
  g0 = g0
  g1 = g1
  Host = Host
  None = None
  Garbage = Garbage
  Errors = {e1, e2}
  Arguments <- OneService
  Reports <- MCReports
  Slices = 1
  Cap = 3
  MaxCycles = 2
  MaxStarts = 2
SPECIFICATION Spec
INVARIANTS OneRecordPerLine
CHECK_DEADLOCK FALSE
