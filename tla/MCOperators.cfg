CONSTANTS
  Register = {r1, r2}
  Instruction = {"add", "sub", "mul", "mod", "div", "inv", "equ", "neq", "lth", "leq", "gth", "geq", "and", "or", "xor", "imp", "not"}
  ValuesOnly = {"mod", "div", "not"}
  Symbolic = TRUE
  MaxInteger = 1
SPECIFICATION RegSpec
INVARIANTS SymbolicExecutionSound LogicIsKleene ComparisonsAgree
CHECK_DEADLOCK FALSE
