CONSTANTS
  Register = {k1, k2}
  Type <- MCType
  Bitsize = {1, 2}
  SizeMax = 2
  Careful = TRUE
SYMMETRY MCSymmetry
SPECIFICATION CallSpec
INVARIANTS ResultsTyped InferenceAccepted ResolutionConfluent UndefinedDecides SymbolsKept CallsImplemented
CHECK_DEADLOCK FALSE
