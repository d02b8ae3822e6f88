CONSTANTS
  Register = {r1, r2}
  Instruction = {"pow"}
  ValuesOnly = {}
  Symbolic = FALSE
  MaxInteger = 2
SPECIFICATION RegSpec
INVARIANT PowTable
CHECK_DEADLOCK FALSE
