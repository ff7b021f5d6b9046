SPECIFICATION Spec
CONSTANTS
  Header = 1
  Memory = 6
  MaxSize = 2
  Byte <- SomeByte
  Null = Null
INVARIANTS
  TypeOK
  DeallocatedAsAllocated
  HeadersExact
PROPERTIES
  ImplementsCHeap
