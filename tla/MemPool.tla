------------------------------ MODULE MemPool ------------------------------
(***************************************************************************)
(* ycommon/containers/mem_pool.cpp: a pool of slots whose free ones are linked *)
(* through their own memory.                                                   *)
(***************************************************************************)
EXTENDS Integers

CONSTANTS
  Items,            \* what callers write to a slot
  NumItems,
  Unset             \* memory that was never written

VARIABLES
  memory,           \* of each slot: an item, or the link of a free slot
  usedIndexes, nextFreeIndex,
  taken             \* the slots callers hold, and what they wrote last

poolVars == <<memory, usedIndexes, nextFreeIndex, taken>>

Indexes == 0 .. NumItems - 1
Nil == -1

Init ==
  /\ memory = [i \in Indexes |-> Unset]
  /\ usedIndexes = 0 /\ nextFreeIndex = Nil
  /\ taken = [i \in {} |-> Unset]

Clear ==
  /\ usedIndexes' = 0 /\ nextFreeIndex' = Nil
  /\ taken' = [i \in {} |-> Unset] /\ UNCHANGED memory

\* Mutant: one slot too many.
AllocatedPast ==
  IF nextFreeIndex # Nil THEN nextFreeIndex
  ELSE IF usedIndexes <= NumItems THEN usedIndexes ELSE Nil

\* The slot Allocate returns, or Nil.
Allocated ==
  IF nextFreeIndex # Nil THEN nextFreeIndex
  ELSE IF usedIndexes < NumItems THEN usedIndexes ELSE Nil

\* Allocate, of a slot whose memory will hold x.
Allocate(x) ==
  LET i == Allocated
  IN
  /\ i # Nil
  /\ IF nextFreeIndex # Nil
     THEN nextFreeIndex' = memory[i] /\ UNCHANGED usedIndexes
     ELSE usedIndexes' = usedIndexes + 1 /\ UNCHANGED nextFreeIndex
  /\ memory' = [memory EXCEPT ![i] = x]
  /\ taken' = [j \in (DOMAIN taken) \cup {i} |-> IF j = i THEN x ELSE taken[j]]

\* Insert copies the item once the slot has been allocated.
Insert(x) == Allocate(x)

AllocateOnly == Allocated # Nil /\ Allocate(memory[Allocated])

Write(i, x) ==
  /\ i \in DOMAIN taken
  /\ memory' = [memory EXCEPT ![i] = x] /\ taken' = [taken EXCEPT ![i] = x]
  /\ UNCHANGED <<usedIndexes, nextFreeIndex>>

\* Mutant: the head is moved before the link is written from it.
RemoveHeadFirst(i) ==
  /\ i \in DOMAIN taken /\ i < usedIndexes
  /\ nextFreeIndex' = i
  /\ memory' = [memory EXCEPT ![i] = nextFreeIndex']
  /\ taken' = [j \in (DOMAIN taken) \ {i} |-> taken[j]]
  /\ UNCHANGED usedIndexes

\* Callers give back what they hold.
Remove(i) ==
  /\ i \in DOMAIN taken /\ i < usedIndexes
  /\ memory' = [memory EXCEPT ![i] = nextFreeIndex]
  /\ nextFreeIndex' = i
  /\ taken' = [j \in (DOMAIN taken) \ {i} |-> taken[j]]
  /\ UNCHANGED usedIndexes

Next ==
  \/ \E x \in Items : Insert(x)
  \/ AllocateOnly
  \/ \E i \in Indexes : Remove(i) \/ \E x \in Items : Write(i, x)
  \/ Clear

PoolTypeOK ==
  /\ memory \in [Indexes -> Items \cup Indexes \cup {Nil, Unset}]
  /\ usedIndexes \in 0 .. NumItems /\ nextFreeIndex \in Indexes \cup {Nil}
  /\ DOMAIN taken \subseteq Indexes

\* The n-th slot of the free list.
Free[n \in 0 .. NumItems] ==
  LET i == IF n = 0 THEN nextFreeIndex ELSE Free[n - 1]
  IN IF n = 0 THEN i ELSE IF i \in Indexes THEN memory[i] ELSE Nil

\* The free list is finite and every slot below mUsedIndexes is either on it or
\* held by one caller, never both: Allocate hands no slot out twice, fails only
\* when every slot is held, and links never overwrite what a caller wrote.
PoolSlotsAccounted ==
  LET free == {Free[n] : n \in 0 .. NumItems} \ {Nil}
  IN
  /\ Free[NumItems] = Nil
  /\ free \cup DOMAIN taken = 0 .. usedIndexes - 1
  /\ free \cap DOMAIN taken = {}
  /\ \A i \in DOMAIN taken : memory[i] = taken[i]

==============================================================================
