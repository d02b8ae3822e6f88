CONSTANTS
  Rule = {r}
  NoRule = NoRule
  Value = {t}
  Condition = {x}
  MaxBlock = 7
  EqualSiblings = TRUE
  ExpressionFirst = TRUE
SPECIFICATION PassSpec
INVARIANT OnlyConstantRemoved
CHECK_DEADLOCK FALSE
