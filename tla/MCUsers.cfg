CONSTANTS
  Kind = {k1, k2}
  Unary = {k1}
  Constant = {c}
  Empty = Empty
  Dangling = Dangling
  MaxMade = 4
  MaxUses = 1
SPECIFICATION UsersSpec
INVARIANTS UsesComplete
PROPERTIES AllReplaced ReturnsIfUniform
CHECK_DEADLOCK FALSE
