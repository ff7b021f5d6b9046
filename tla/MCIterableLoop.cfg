SPECIFICATION LoopSpec
CONSTANTS
  MaxLength = 3
  MaxResults = 2
  MaxIterators = 1
  MaxSize = 2
  MaxChanges = 1
  Main = Main
  Contexts = {Main, Coroutine}
  None = None
CHECK_DEADLOCK FALSE
INVARIANTS
  LoopTypeOK
  NoDangling
  StopsWhenDone
  VisitsAll
  
  IterationSound
PROPERTY
  LoopEnds
