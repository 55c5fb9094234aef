CONSTANTS
  t1 = t1
  None = None
  Targets <- OneTarget
  Redacted <- OwnKey
  Scrapes = {"partial", "full"}
  MaxCount = 2
  Steps = {1}
  MaxTime = 3
SPECIFICATION Spec
PROPERTIES RateNeverFabricated
CHECK_DEADLOCK FALSE
