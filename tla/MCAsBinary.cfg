SPECIFICATION BinSpec
CONSTANTS
  Register = {k1, k2}
  k1 = k1
  k2 = k2
  Width = {1, 2, 3}
  Word = 6
  Careful = FALSE
  MaxInteger = 3
INVARIANTS
  AsBinaryTruncates

