SPECIFICATION Spec
CONSTANTS
  Objects = {o1, o2, o3}
  Blocks = {b1, b2}
  MaxStack = 2
  MaxCalls = 1
  MaxNested = 2
  MaxFailures = 0
  AbsoluteIndex = FALSE
  Inherit = TRUE
  PushAgain = FALSE
  None = None
SYMMETRY SymmetricNames
PROPERTIES
  CollectionDestroysOwnValue
