CONSTANTS
  Rule = {r}
  NoRule = NoRule
  Value = {t, f}
  Condition = {x}
  MaxBlock = 5
  EqualSiblings = FALSE
  ExpressionFirst = TRUE
SPECIFICATION TreeSpec
INVARIANTS Anchored ListedOnce ContextsBound
CHECK_DEADLOCK FALSE
