SPECIFICATION Spec
CONSTANTS
  t1 = t1
  t2 = t2
  t3 = t3
  k1 = k1
  k2 = k2
  k3 = k3
  Empty = Empty
  Removed = Removed
  Placeholder = Placeholder
  Torn = Torn
  Threads <- MCThreads
  Keys <- MCKeys
  PtrKeys <- MCPtrKeys
  Inserter <- MCInserter
  Home <- MCHome
  NumEntries = 3
  MaxTries = 2
  AllowReinsert = FALSE
INVARIANTS
  TypeOK
  MissesAreTrue
  ValueWhole
  CountMatches
PROPERTIES
  RemoveRemoves
  EntriesStay
