SPECIFICATION AggSpec
CONSTANTS
  NULL = NULL
  Chars <- mcChars
  Texts <- mcTexts
  Decimal <- mcDecimal
  Inputs <- mcInputs
  Half = 2
INVARIANTS AggTypeOK KeyClasses AnswersQuery MeanIsBetween AggInv
PROPERTIES GroupsByKey RunsDown Returns
CHECK_DEADLOCK FALSE
