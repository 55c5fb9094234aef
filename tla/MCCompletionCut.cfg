CONSTANTS
  a = a
  b = b
  blank = blank
  None = None
  Letters = {a, b, blank}
  Blank = blank
  Needles <- MCNeedles
  Pieces <- MCPieces
  MaxTokens = 2
  MaxContent = 4
  MaxTime = 1
SPECIFICATION Spec
INVARIANTS AttemptsCoherent
CHECK_DEADLOCK FALSE
