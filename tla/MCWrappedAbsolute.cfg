SPECIFICATION Spec
CONSTANTS
  Objects = {o1, o2, o3}
  Blocks = {b1, b2}
  MaxStack = 3
  MaxCalls = 1
  MaxNested = 2
  MaxFailures = 0
  AbsoluteIndex = TRUE
  Inherit = FALSE
  PushAgain = FALSE
  None = None
SYMMETRY SymmetricNames
INVARIANTS
  AccessSound
