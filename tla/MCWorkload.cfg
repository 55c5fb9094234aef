CONSTANTS
  MaxCount = 4
  MaxConcurrency = 3
  CR = CR
  LF = LF
  Filler = Filler
  NoValue = NoValue
SPECIFICATION MCSpec
INVARIANTS MeasuredBatch CommandResultIsSound AnswerExact
PROPERTIES ImplementsBatch CommandNeverStuck ConnectionEnds
