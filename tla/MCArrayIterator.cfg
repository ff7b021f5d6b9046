SPECIFICATION ElementsSpec
CONSTANTS
  Modulus = 8
  Length = 7
  Signed = FALSE
  IntSize = 16
  Sizes = {4, 16, 64}
  Floating = Floating
  Elements <- MCElements
  None = None
INVARIANTS
  TypeOK
  PositionsExact
  DistanceExact
  DereferencesFaithful
