------------------------------ MODULE Containers ------------------------------
(***************************************************************************)
(* The sequential containers of the engine, which do not share state: a        *)
(* behaviour is one of one of them, named by part, and leaves the variables of  *)
(* the others alone.                                                           *)
(***************************************************************************)
EXTENDS Integers, FiniteSets

CONSTANTS
  None,                                            \* of the parts that are not run
  Keys, Data, NumEntries, MaxTries, Empty, Removed, \* HashTable
  Items, NumItems, Unset,                          \* MemPool
  Owners, TotalSize, Nobody,                       \* UnorderedArray
  Base, BufferSize, Sizes, Alignments, MaxPads,    \* MemBuffer, and DataLoader:
  MaxDataLoads, TableSize, ShaderLoadSize, Variants,
  Pointers, Objects, Null, CountMod,               \* RefPointer
  ReadHandles, WriteHandles, ReadWriteHandles

VARIABLE part

VARIABLES keyAt, dataAt, currentEntries, held
HT == INSTANCE HashTable

VARIABLES memory, usedIndexes, nextFreeIndex, taken
MP == INSTANCE MemPool

VARIABLES itemAt, itemCount, swapCallback, indexOf
UA == INSTANCE UnorderedArray

VARIABLES usedBufferSize, usedScratchPadSize, pads, blocks, loads
DL == INSTANCE DataLoader

VARIABLES target, refs, handle
RP == INSTANCE RefPointer

------------------------------------------------------------------------------
(* The table has at least as many slots as there are tries (hash_table.cpp:43), *)
(* and a key's hash is neither of the marks.                                   *)
ASSUME TableAssumption ==
  /\ NumEntries \in Nat \ {0} /\ MaxTries \in 0 .. NumEntries
  /\ Keys \subseteq Nat /\ Empty # Removed /\ Empty \notin Keys /\ Removed \notin Keys

ASSUME PoolAssumption == NumItems \in Nat

ASSUME ArrayAssumption == TotalSize \in Nat

\* Alignments are not 0, and Initialize's tables fit the loader's buffer.
ASSUME BufferAssumption ==
  /\ Base \in Nat /\ BufferSize \in Nat /\ Sizes \subseteq Nat /\ MaxPads \in Nat
  /\ Alignments \subseteq Nat \ {0}
  /\ TableSize \in 0 .. BufferSize
  /\ MaxDataLoads \in Nat /\ ShaderLoadSize \in Nat /\ Variants \subseteq Nat

\* A handle has one class, and a count can tell as many handles as there are.
ASSUME RefAssumption ==
  /\ Null \notin Pointers
  /\ IsFiniteSet(RP!Handles) /\ CountMod \in Nat /\ Cardinality(RP!Handles) < CountMod
  /\ ReadHandles \cap WriteHandles = {} /\ ReadHandles \cap ReadWriteHandles = {}
  /\ WriteHandles \cap ReadWriteHandles = {}

------------------------------------------------------------------------------
tableVars == <<keyAt, dataAt, currentEntries, held>>
poolVars == <<memory, usedIndexes, nextFreeIndex, taken>>
arrayVars == <<itemAt, itemCount, swapCallback, indexOf>>
bufferVars == <<usedBufferSize, usedScratchPadSize, pads, blocks>>
loaderVars == <<bufferVars, loads>>
refVars == <<target, refs, handle>>
containersVars == <<part, tableVars, poolVars, arrayVars, loaderVars, refVars>>

NoTable == keyAt = None /\ dataAt = None /\ currentEntries = None /\ held = None
NoPool == memory = None /\ usedIndexes = None /\ nextFreeIndex = None /\ taken = None
NoArray == itemAt = None /\ itemCount = None /\ swapCallback = None /\ indexOf = None
NoBuffer ==
  usedBufferSize = None /\ usedScratchPadSize = None /\ pads = None /\ blocks = None
NoRef == target = None /\ refs = None /\ handle = None

ContainersInit ==
  /\ IF part = "HashTable" THEN HT!Init ELSE NoTable
  /\ IF part = "MemPool" THEN MP!Init ELSE NoPool
  /\ IF part = "UnorderedArray" THEN UA!Init ELSE NoArray
  /\ CASE part = "MemBuffer" -> DL!Init /\ loads = None
       [] part = "DataLoader" -> DL!LoaderInit
       [] OTHER -> NoBuffer /\ loads = None
  /\ IF part = "RefPointer" THEN RP!Init ELSE NoRef

ContainersNext ==
  /\ UNCHANGED part
  /\ IF part = "HashTable" THEN HT!Next ELSE UNCHANGED tableVars
  /\ IF part = "MemPool" THEN MP!Next ELSE UNCHANGED poolVars
  /\ IF part = "UnorderedArray" THEN UA!Next ELSE UNCHANGED arrayVars
  /\ CASE part = "MemBuffer" -> DL!Next /\ UNCHANGED loads
       [] part = "DataLoader" -> DL!LoaderNext
       [] OTHER -> UNCHANGED loaderVars
  /\ IF part = "RefPointer" THEN RP!Next ELSE UNCHANGED refVars

ContainersSpec == ContainersInit /\ [][ContainersNext]_containersVars

------------------------------------------------------------------------------
(* Properties, each of the part that it is about                             *)

\* The variables of the part keep within their types and bounds.
ContainersTypeOK ==
  /\ part = "HashTable" => HT!HashTypeOK
  /\ part = "MemPool" => MP!PoolTypeOK
  /\ part = "UnorderedArray" => UA!ArrayTypeOK
  /\ part = "MemBuffer" => DL!BufferTypeOK
  /\ part = "DataLoader" => DL!LoaderTypeOK
  /\ part = "RefPointer" => RP!RefTypeOK

\* A lookup in a HashTable finds exactly what was inserted and not removed
\* (hash_table.cpp:81-205).
HashTableIsMap == part = "HashTable" => HT!HashTableIsMap

\* MemPool: every slot is free or held by one caller, and links never overwrite
\* what a caller wrote (mem_pool.cpp:68-112).
PoolSlotsAccounted == part = "MemPool" => MP!PoolSlotsAccounted

\* UnorderedArray: owners that are told of moves know where their items are.
ArrayIndexesTrack == part = "UnorderedArray" => UA!ArrayIndexesTrack

\* MemBuffer and the data loader on it: what is allocated never overlaps.
AllocationsDisjoint == part \in {"MemBuffer", "DataLoader"} => DL!AllocationsDisjoint

\* RefPointer: the counts are those of the live handles.
RefCountsMatch == part = "RefPointer" => RP!RefCountsMatch

==============================================================================
