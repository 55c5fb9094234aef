CONSTANTS
  a = a
  b = b
  bad = bad
  meta = meta
  x = x
  y = y
  idx = idx
  Clear = Clear
  BuiltIn = BuiltIn
  None = None
  Names = {a, b}
  Metadata = meta
  Shards = {x, y}
  Layouts <- MCLayouts
  Index = idx
  Rewrites <- MCRewrites
  IndexRewrites <- MCIndexRewrites
  MaxTensors = 2
  MaxShards = 2
  MaxRank = 2
  MaxWord = 60
  MaxWrites = 1
SPECIFICATION MCSpec
INVARIANTS ReportIsEvidence PlanExact FingerprintSound SettingsSound
CHECK_DEADLOCK FALSE
