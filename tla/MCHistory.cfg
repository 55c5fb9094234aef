CONSTANTS
  None = None
  Monitors = {m}
  Collected <- MCCollected
  Foreign = {}
  Schema = 3
  MaxTokens = 2
SPECIFICATION Spec
INVARIANTS OwnHistoryIsRead
CHECK_DEADLOCK FALSE
