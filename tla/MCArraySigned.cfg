SPECIFICATION Spec
CONSTANTS
  Modulus = 8
  Length = 7
  Signed = TRUE
INVARIANTS
  DistanceExact
