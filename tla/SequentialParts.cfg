SPECIFICATION PartsSpec
CONSTANTS
  Keys = {4, 7, 8, 11}
  Data = {A, B}
  NumEntries = 4
  MaxTries = 3
  Items = {0, 2}
  NumItems = 4
  Owners = {1, 2, 3, 4}
  TotalSize = 3
  Base = 3
  BufferSize = 13
  Sizes = {1, 4}
  Alignments = {2, 4}
  MaxPads = 2
  MaxDataLoads = 3
  TableSize = 2
  ShaderLoadSize = 2
  Variants = {1, 2, 3}
  Pointers = {p, q}
  Objects = {x, y}
  CountMod = 256
  ReadHandles = {r1, r2}
  WriteHandles = {w1, w2}
  ReadWriteHandles = {b1, b2}
  Empty = Empty
  Removed = Removed
  Unset = Unset
  Nobody = Nobody
  Null = Null
  Points <- MCPoints
  Size <- MCSize
  KindSets <- MCKindSets
  Kind <- MCKind
  Uses <- MCUses
  Usages <- MCUsages
  ResourceSets <- MCResourceSets
  Declarations <- MCDeclarations
  SamplerOf <- MCSamplerOf
  SamplerHash <- MCSamplerHash
  States <- MCStates
  Payloads = {A, B}
  DrawPoints = {1}
  Mips = 2
  Total = 1
  MemorySize = 4
  Unfilled = Unfilled
  BackBuffer = BackBuffer
  Unused = Unused
  None = None
  A = A
  B = B
  TargetsAligned = TRUE
  Parts = {"HashTable", "MemPool", "UnorderedArray", "MemBuffer", "DataLoader",
           "RefPointer", "RenderDevice", "FrameResources"}
INVARIANTS
  TypeOK
  HashTableIsMap
  PoolSlotsAccounted
  ArrayIndexesTrack
  AllocationsDisjoint
  RefCountsMatch
  DeviceSlots
  LatestDataBound
CHECK_DEADLOCK FALSE
