CONSTANTS
  Location <- MCLocation
  Unsupported <- MCUnsupported
  Literal <- MCLiteral
  Logic = {c}
  Operator = {add}
  FunctionName = {f}
  MaxFormula = 5
  MaxTime = 3
  MaxScope = 1
SPECIFICATION Spec
INVARIANTS TypeOK ScopesMatch ReadsAnchored NamesUnique DeclaredBeforeUse
PROPERTY ReadTimesMonotone
CHECK_DEADLOCK FALSE
