SPECIFICATION BinSpec
CONSTANTS
  Register = {k1, k2}
  k1 = k1
  k2 = k2
  Width = {1, 2, 3, 4}
  Word = 6
  Careful = TRUE
  MaxInteger = 9
INVARIANTS
  FitsWidth
  TwosComplement
  CastsInverse
  TruncUndoesExtensions

