SPECIFICATION FairSpec
CONSTANTS
  l1 = l1
  l2 = l2
  m1 = m1
  m2 = m2
  a1 = a1
  a2 = a2
  a3 = a3
  Slots = {l1, l2, m1, m2}
  Addr = {a1, a2, a3}
  Owner <- MCOwner
  SelfOwnedSource = FALSE
  Empty = Empty
  Dead = Dead
  None = None
INVARIANTS
  IInv
  TypeOK
  RefCountExact
  OwnedLive
  NoFatal
  TeardownClean
PROPERTIES
  FreshAddress
  ImplementsOwnedHeap
  OperationReturns
  ChainReclaimed
