CONSTANTS
  Bitsize = {8}
  Interval = {r1, r2}
  From <- MCFrom
  To <- MCTo
  EnumName = {e1}
  EnumValue = {v1, v2}
  None = None
  Careful = TRUE
  MaxTypes = 3
  MaxContents = 2
  MaxConstants = 2
SPECIFICATION RegistrySpec
INVARIANTS RegistryConsistent EqualTypesShareID ReadBack EqualValuesEqualConstants UniversesAgree
PROPERTIES IDsStay ChooseReturns
CHECK_DEADLOCK FALSE
