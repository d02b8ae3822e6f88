CONSTANTS
  Rule = {r}
  NoRule = NoRule
  Value = {t, f}
  Condition = {x}
  MaxBlock = 6
  EqualSiblings = FALSE
  ExpressionFirst = TRUE
SPECIFICATION FairPassSpec
INVARIANTS MeaningPreserved EliminationExact StaysConsistent
PROPERTY PassTerminates
CHECK_DEADLOCK FALSE
