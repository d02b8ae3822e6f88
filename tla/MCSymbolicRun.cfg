CONSTANTS
  Location <- MCLocation
  Unsupported = {}
  Literal <- MCLiteral
  Value <- MCValue
  Meaning <- MCMeaning
  Logic = {c}
  Operator = {add}
  FunctionName = {}
  MaxFormula = 4
  MaxTime = 3
  MaxScope = 1
SPECIFICATION RunSpec
INVARIANTS TraceSound FinalStateTied RunInvariant
PROPERTY ImplementsStore
CHECK_DEADLOCK FALSE
