SPECIFICATION FairSpec
CONSTANTS
  t1 = t1
  t2 = t2
  UserData = UserData
  Threads <- MCThreads
  NumItems = 2
  CounterMod = 3
  MaxOvertake = 3
INVARIANTS
  TypeOK
  ExclusiveSlots
  NoSlotLost
PROPERTIES
  SomeoneSucceeds
