SPECIFICATION FairBoundSpec
CONSTANTS
  num = num
  der = der
  ptr = ptr
  B = B
  D = D
  PB = PB
  PD = PD
  Number = Number
  None = None
  Name = Name
  Function = Function
  Error = Error
  Values = {num, der, ptr}
  Params = {B, PB, Number}
  Classes = {B, D}
  Pointers = {PB, PD}
  Base <- MCBase
  Pointee <- MCPointee
  Wraps <- MCWraps
  Accepts <- MCAccepts
  Pushed = {Function, Error}
  Sent = {num, der}
  Expected = {B, Number}
  MaxArgs = 1
  MaxParams = 2
  MaxOverloads = 2
  MaxSent = 1
  Files = {File}
  NoFile = NoFile
  Lines = {1, 2}
  MaxDepth = 2
  Fresh = FALSE
INVARIANTS
  BoundTypeOK
  ArgumentsIntact
  FirstMatch
  MatchedByType
  StackRestored
  LocatesCaller
PROPERTIES
  ImplementsCall
  CallAnswered
