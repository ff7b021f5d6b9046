SPECIFICATION Spec
CONSTANTS
  Objects = {o1, o2}
  Blocks = {b1, b2}
  MaxStack = 2
  MaxCalls = 1
  MaxNested = 2
  MaxFailures = 1
  AbsoluteIndex = FALSE
  Inherit = FALSE
  PushAgain = FALSE
  None = None
SYMMETRY SymmetricNames
INVARIANTS
  TypeOK
  NoDoubleFree
  AccessSound
  LeakBounded
  TeardownDestroysValues
PROPERTIES
  BorrowedAlive
  DestroyedWithObject
