SPECIFICATION FairSpec
CONSTANTS
  c1 = c1
  c2 = c2
  a = a
  b = b
  Torn = Torn
  Consumers <- MCConsumers
  Items <- MCItems
  NumItems = 2
  CounterMod = 2
  MaxOvertake = 2
  MaxLaps = 3
INVARIANTS
  TypeOK
  RingShape
  NoUnreadOverwritten
  CasValidatesCopy
  ReportsAreTrue
PROPERTIES
  ImplementsFifo
  SomeoneDequeues
