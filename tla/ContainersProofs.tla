---------------------------- MODULE ContainersProofs ----------------------------
(***************************************************************************)
(* The sequential containers, for every value of their constants: each part  *)
(* has an inductive invariant that its operations keep, from which the       *)
(* properties of Containers follow.                                          *)
(***************************************************************************)
EXTENDS Containers, Sequences, FiniteSetTheorems, WellFoundedInduction, TLAPS

(* The smallest number with a property, from the library's theorem that the
   subsets of a finite set are well founded.                                 *)
LEMMA Smallest ==
  ASSUME NEW N \in Nat, NEW B \in SUBSET (0 .. N), B # {}
  PROVE  \E m \in B : \A k \in B : m <= k
<1> DEFINE S == 0 .. N
           T == {0 .. k : k \in B}
<1>1. IsWellFoundedOn(StrictSubsetOrdering(S), FiniteSubsetsOf(S))
  BY FS_StrictSubsetOrderingWellFounded, Zenon
<1>2. T \subseteq FiniteSubsetsOf(S)
  <2>1. \A k \in B : k \in Nat /\ 0 .. k \subseteq S /\ IsFiniteSet(0 .. k)
    BY FS_Interval
  <2> QED
    BY <2>1 DEF FiniteSubsetsOf
<1>3. T # {}
  OBVIOUS
<1>4. PICK x \in T : \A y \in T : ~(<<y, x>> \in StrictSubsetOrdering(S))
  <2> HIDE DEF S, T
  <2> QED
    BY <1>1, <1>2, <1>3, WFMin, Zenon
<1>5. PICK m \in B : x = 0 .. m
  BY <1>4
<1>6. ASSUME NEW k \in B, ~(m <= k) PROVE FALSE
  <2>1. k \in S /\ m \in S /\ k < m
    BY <1>6
  <2>2. 0 .. k \in SUBSET S /\ 0 .. m \in SUBSET S /\ 0 .. k \subseteq 0 .. m /\ 0 .. k # 0 .. m
    BY <2>1
  <2>3. <<0 .. k, 0 .. m>> \in StrictSubsetOrdering(S)
    BY <2>2 DEF StrictSubsetOrdering
  <2> QED
    BY <1>4, <1>5, <2>3
<1> QED
  BY <1>6

------------------------------------------------------------------------------
(* HashTable                                                                 *)

(* The i-th place of k's probe sequence.                                     *)
Place(k, i) == (k + i) % NumEntries

(* A key that is held is where callers believe, and no place before that stops a
   search for it.                                                            *)
Found(k) ==
  LET s == held[k].slot
  IN
  /\ k \in Keys /\ s \in HT!Slots /\ keyAt[s] = k /\ dataAt[s] = held[k].data
  /\ \E i \in 0 .. MaxTries - 1 :
       s = Place(k, i) /\ \A j \in 0 .. i - 1 : keyAt[Place(k, j)] # Empty

(* Every word is that of a key that is held at its slot, or a mark.          *)
TableInv ==
  /\ keyAt \in [HT!Slots -> Keys \cup {Empty, Removed}]
  /\ dataAt \in [HT!Slots -> Data]
  /\ IsFiniteSet(DOMAIN held) /\ currentEntries = Cardinality(DOMAIN held)
  /\ \A k \in DOMAIN held : Found(k)
  /\ \A s \in HT!Slots :
       keyAt[s] \notin {Empty, Removed} =>
         keyAt[s] \in DOMAIN held /\ held[keyAt[s]].slot = s

(* Probing never leaves the table.                                           *)
LEMMA PlaceIsSlot ==
  \A k \in Keys : \A i \in 0 .. MaxTries - 1 :
    Place(k, i) \in HT!Slots /\ \A j \in 0 .. i - 1 : Place(k, j) \in HT!Slots
<1>1. ASSUME NEW k \in Keys, NEW i \in Nat PROVE Place(k, i) \in HT!Slots
  <2>1. k + i \in Nat /\ NumEntries \in Nat \ {0}
    BY TableAssumption
  <2>2. (k + i) % NumEntries \in 0 .. NumEntries - 1
    BY <2>1
  <2> QED
    BY <2>2 DEF Place, HT!Slots
<1>2. ASSUME NEW i \in 0 .. MaxTries - 1 PROVE i \in Nat /\ 0 .. i - 1 \subseteq Nat
  BY TableAssumption
<1> QED
  BY <1>1, <1>2

(* What FirstTry finds is the first place whose word is wanted.              *)
LEMMA FirstTryFinds ==
  ASSUME NEW k \in Keys, NEW W
  PROVE  LET s == HT!FirstTry(k, W)
         IN  \/ /\ s = HT!Absent
                /\ \A i \in 0 .. MaxTries - 1 : keyAt[Place(k, i)] \notin W \cup {k}
             \/ \E i \in 0 .. MaxTries - 1 :
                  /\ s = Place(k, i) /\ keyAt[s] \in W \cup {k}
                  /\ \A j \in 0 .. i - 1 : keyAt[Place(k, j)] \notin W \cup {k}
<1> DEFINE hits == {i \in 0 .. MaxTries - 1 : keyAt[Place(k, i)] \in W \cup {k}}
<1>1. HT!FirstTry(k, W) = IF hits = {} THEN HT!Absent ELSE Place(k, HT!Min(hits))
  BY DEF HT!FirstTry, Place
<1>2. CASE hits = {}
  BY <1>1, <1>2
<1>3. CASE hits # {}
  <2>1. \E m \in hits : \A i \in hits : m <= i
    <3>1. hits \in SUBSET (0 .. MaxTries) /\ MaxTries \in Nat
      BY TableAssumption
    <3> HIDE DEF hits
    <3> QED
      BY <1>3, <3>1, Smallest
  <2>2. HT!Min(hits) \in hits /\ \A i \in hits : HT!Min(hits) <= i
    <3> HIDE DEF hits
    <3> QED
      BY <2>1 DEF HT!Min
  <2>3. \A j \in 0 .. HT!Min(hits) - 1 : j \in 0 .. MaxTries - 1 /\ j \notin hits
    BY <2>2, TableAssumption
  <2> QED
    BY <1>1, <1>3, <2>2, <2>3
<1> QED
  BY <1>2, <1>3

(* The map that the invariant describes.                                     *)
LEMMA TableInvImplies ==
  ASSUME TableInv
  PROVE  HT!HashTypeOK /\ HT!HashTableIsMap
<1> USE TableAssumption
<1>1. ASSUME NEW k \in DOMAIN held
      PROVE  HT!GetValue(k) = held[k].slot /\ dataAt[held[k].slot] = held[k].data
  <2> DEFINE s == HT!FirstTry(k, {Empty})
  <2>1. k \in Keys /\ Found(k)
    BY DEF TableInv, Found
  <2>2. PICK i \in 0 .. MaxTries - 1 :
          held[k].slot = Place(k, i) /\ \A j \in 0 .. i - 1 : keyAt[Place(k, j)] # Empty
    BY <2>1 DEF Found
  <2>3. keyAt[Place(k, i)] = k
    BY <2>1, <2>2 DEF Found
  <2>4. PICK m \in 0 .. MaxTries - 1 :
          /\ s = Place(k, m) /\ keyAt[s] \in {Empty} \cup {k}
          /\ \A j \in 0 .. m - 1 : keyAt[Place(k, j)] \notin {Empty} \cup {k}
    BY <2>1, <2>3, FirstTryFinds
  <2>5. m <= i
    BY <2>3, <2>4
  <2>6. keyAt[s] = k
    BY <2>1, <2>2, <2>3, <2>4, <2>5
  <2>7. s \in HT!Slots
    BY <2>1, <2>4, PlaceIsSlot
  <2>8. held[k].slot = s /\ s # HT!Absent
    BY <2>1, <2>6, <2>7 DEF TableInv, HT!Slots, HT!Absent
  <2>9. HT!GetValue(k) = s
    BY <2>1, <2>6, <2>8 DEF HT!GetValue
  <2> QED
    BY <2>1, <2>8, <2>9 DEF Found
<1>2. ASSUME NEW k \in Keys, k \notin DOMAIN held PROVE HT!GetValue(k) = HT!Absent
  <2> DEFINE s == HT!FirstTry(k, {Empty})
  <2>1. CASE s = HT!Absent
    BY <2>1 DEF HT!GetValue
  <2>2. CASE s # HT!Absent
    <3>1. PICK m \in 0 .. MaxTries - 1 : s = Place(k, m) /\ keyAt[s] \in {Empty} \cup {k}
      BY <2>2, FirstTryFinds
    <3>2. s \in HT!Slots
      BY <3>1, PlaceIsSlot
    <3>3. keyAt[s] = Empty
      BY <3>1, <3>2, <1>2 DEF TableInv
    <3> QED
      BY <3>3 DEF HT!GetValue
  <2> QED
    BY <2>1, <2>2
<1>3. currentEntries \in 0 .. NumEntries
  <2> DEFINE f == [k \in DOMAIN held |-> held[k].slot]
  <2>1. \A k \in DOMAIN held : f[k] \in HT!Slots /\ keyAt[f[k]] = k
    BY DEF TableInv, Found
  <2>2. f \in [DOMAIN held -> HT!Slots] /\ \A a, b \in DOMAIN held : a # b => f[a] # f[b]
    BY <2>1
  <2>3. IsFiniteSet(HT!Slots) /\ Cardinality(HT!Slots) = NumEntries
    BY FS_Interval DEF HT!Slots
  <2> HIDE DEF f
  <2>4. ~(NumEntries < Cardinality(DOMAIN held))
    BY <2>2, <2>3, FS_PigeonHole DEF TableInv
  <2>5. Cardinality(DOMAIN held) \in Nat
    BY FS_CardinalityType DEF TableInv
  <2> QED
    BY <2>4, <2>5 DEF TableInv
<1>4. HT!HashTypeOK
  BY <1>3 DEF TableInv, HT!HashTypeOK
<1>5. currentEntries = HT!Cardinality(DOMAIN held)
  BY DEF TableInv, Cardinality, HT!Cardinality
<1> QED
  BY <1>1, <1>2, <1>4, <1>5 DEF HT!HashTableIsMap

(* A table whose words are all Empty holds nothing (Init, Clear).            *)
LEMMA TableEmpty ==
  ASSUME keyAt' = [s \in HT!Slots |-> Empty], currentEntries' = 0,
         held' = [k \in {} |-> {}], dataAt' \in [HT!Slots -> Data]
  PROVE  TableInv'
<1>1. DOMAIN held' = {}
  OBVIOUS
<1> QED
  BY <1>1, FS_EmptySet DEF TableInv, Found

(* Init makes every word Empty.                                              *)
LEMMA TableInit == HT!Init => TableInv
<1> SUFFICES ASSUME HT!Init PROVE TableInv
  OBVIOUS
<1>1. DOMAIN held = {}
  BY DEF HT!Init
<1>2. dataAt \in [HT!Slots -> Data] /\ keyAt = [s \in HT!Slots |-> Empty] /\ currentEntries = 0
  BY DEF HT!Init
<1> QED
  BY <1>1, <1>2, FS_EmptySet DEF TableInv, Found

(* Insert takes the first place that is free: no place before it stops a search. *)
LEMMA TableInsert ==
  ASSUME TableInv, NEW k \in Keys, NEW d \in Data, HT!Insert(k, d)
  PROVE  TableInv'
<1> USE TableAssumption
<1> DEFINE s == HT!FirstTry(k, {Empty, Removed})
<1>1. PICK i \in 0 .. MaxTries - 1 :
        /\ s = Place(k, i) /\ keyAt[s] \in {Empty, Removed} \cup {k}
        /\ \A j \in 0 .. i - 1 : keyAt[Place(k, j)] \notin {Empty, Removed} \cup {k}
  BY FirstTryFinds DEF HT!Insert
<1>2. s \in HT!Slots
  BY <1>1, PlaceIsSlot
<1>3. /\ keyAt' = [keyAt EXCEPT ![s] = k] /\ dataAt' = [dataAt EXCEPT ![s] = d]
      /\ currentEntries' = currentEntries + 1 /\ k \notin DOMAIN held
      /\ held' = [x \in (DOMAIN held) \cup {k} |->
                    IF x = k THEN [slot |-> s, data |-> d] ELSE held[x]]
  BY DEF HT!Insert
<1>4. keyAt[s] \in {Empty, Removed}
  BY <1>1, <1>2, <1>3 DEF TableInv
<1> HIDE DEF s
<1>5. DOMAIN held' = (DOMAIN held) \cup {k} /\ held'[k].slot = s /\ held'[k].data = d
  BY <1>3
<1>6. \A x \in DOMAIN held : held'[x] = held[x] /\ x # k
  BY <1>3
<1>7. \A t \in HT!Slots : /\ keyAt'[t] = IF t = s THEN k ELSE keyAt[t]
                          /\ dataAt'[t] = IF t = s THEN d ELSE dataAt[t]
  BY <1>3 DEF TableInv
<1>8. keyAt' \in [HT!Slots -> Keys \cup {Empty, Removed}] /\ dataAt' \in [HT!Slots -> Data]
  BY <1>3 DEF TableInv
<1>9. IsFiniteSet(DOMAIN held') /\ currentEntries' = Cardinality(DOMAIN held')
  BY <1>3, <1>5, FS_AddElement DEF TableInv
<1>10. ASSUME NEW x \in DOMAIN held' PROVE Found(x)'
  <2>1. CASE x = k
    <3>1. \A j \in 0 .. i - 1 : Place(k, j) \in HT!Slots /\ keyAt'[Place(k, j)] # Empty
      BY <1>1, <1>7, PlaceIsSlot
    <3> QED
      BY <2>1, <3>1, <1>1, <1>2, <1>5, <1>7 DEF Found, HT!Slots, Place
  <2>2. CASE x # k
    <3>1. x \in DOMAIN held /\ Found(x) /\ held'[x] = held[x]
      BY <2>2, <1>5, <1>6 DEF TableInv
    <3>2. held[x].slot # s
      BY <3>1, <1>4 DEF Found
    <3>3. PICK m \in 0 .. MaxTries - 1 :
            held[x].slot = Place(x, m) /\ \A j \in 0 .. m - 1 : keyAt[Place(x, j)] # Empty
      BY <3>1 DEF Found
    <3>4. \A j \in 0 .. m - 1 : keyAt'[Place(x, j)] # Empty
      BY <3>1, <3>3, <1>7, PlaceIsSlot DEF Found
    <3> QED
      BY <3>1, <3>2, <3>3, <3>4, <1>7 DEF Found, HT!Slots, Place
  <2> QED
    BY <2>1, <2>2
<1>11. ASSUME NEW t \in HT!Slots, keyAt'[t] \notin {Empty, Removed}
       PROVE  keyAt'[t] \in DOMAIN held' /\ held'[keyAt'[t]].slot = t
  BY <1>11, <1>5, <1>6, <1>7 DEF TableInv
<1> QED
  BY <1>8, <1>9, <1>10, <1>11 DEF TableInv, HT!Slots

(* Bury leaves a word that stops no search.                                  *)
LEMMA TableBury ==
  ASSUME TableInv, NEW s \in HT!Slots, keyAt[s] \notin {Empty, Removed}, HT!Bury(s)
  PROVE  TableInv'
<1> USE TableAssumption
<1> DEFINE k == keyAt[s]
<1>1. k \in DOMAIN held /\ held[k].slot = s
  BY DEF TableInv
<1>2. /\ keyAt' = [keyAt EXCEPT ![s] = Removed] /\ dataAt' = dataAt
      /\ currentEntries' = currentEntries - 1
      /\ held' = [x \in (DOMAIN held) \ {k} |-> held[x]]
  BY DEF HT!Bury
<1> HIDE DEF k
<1>3. DOMAIN held' = (DOMAIN held) \ {k} /\ \A x \in DOMAIN held' : held'[x] = held[x]
  BY <1>2
<1>4. \A t \in HT!Slots : keyAt'[t] = IF t = s THEN Removed ELSE keyAt[t]
  BY <1>2 DEF TableInv
<1>5. keyAt' \in [HT!Slots -> Keys \cup {Empty, Removed}] /\ dataAt' \in [HT!Slots -> Data]
  BY <1>2 DEF TableInv
<1>6. IsFiniteSet(DOMAIN held') /\ currentEntries' = Cardinality(DOMAIN held')
  BY <1>1, <1>2, <1>3, FS_RemoveElement DEF TableInv
<1>7. ASSUME NEW x \in DOMAIN held' PROVE Found(x)'
  <2>1. x \in DOMAIN held /\ Found(x) /\ held'[x] = held[x] /\ x # k
    BY <1>3 DEF TableInv
  <2>2. held[x].slot # s
    BY <2>1 DEF Found, k
  <2>3. PICK m \in 0 .. MaxTries - 1 :
          held[x].slot = Place(x, m) /\ \A j \in 0 .. m - 1 : keyAt[Place(x, j)] # Empty
    BY <2>1 DEF Found
  <2>4. \A j \in 0 .. m - 1 : keyAt'[Place(x, j)] # Empty
    BY <2>1, <2>3, <1>4, PlaceIsSlot DEF Found
  <2> QED
    BY <2>1, <2>2, <2>3, <2>4, <1>2, <1>4 DEF Found, HT!Slots, Place
<1>8. ASSUME NEW t \in HT!Slots, keyAt'[t] \notin {Empty, Removed}
      PROVE  keyAt'[t] \in DOMAIN held' /\ held'[keyAt'[t]].slot = t
  <2>1. t # s /\ keyAt'[t] = keyAt[t]
    BY <1>4, <1>8
  <2>2. keyAt[t] \in DOMAIN held /\ held[keyAt[t]].slot = t
    BY <1>8, <2>1 DEF TableInv
  <2>3. keyAt[t] # k
    BY <1>1, <2>1, <2>2
  <2> QED
    BY <1>3, <2>1, <2>2, <2>3
<1> QED
  BY <1>5, <1>6, <1>7, <1>8 DEF TableInv, HT!Slots

(* Every operation of the table keeps its invariant.                         *)
LEMMA TableNext == TableInv /\ HT!Next => TableInv'
<1> SUFFICES ASSUME TableInv, HT!Next PROVE TableInv'
  OBVIOUS
<1>1. CASE \E k \in Keys : \E d \in Data : HT!Insert(k, d)
  BY <1>1, TableInsert
<1>2. CASE \E k \in Keys : HT!Remove(k)
  <2>1. PICK k \in Keys : HT!Remove(k)
    BY <1>2
  <2> DEFINE s == HT!GetValue(k)
  <2>2. s # HT!Absent /\ HT!Bury(s)
    BY <2>1 DEF HT!Remove
  <2>3. k \in DOMAIN held
    BY <2>2, TableInvImplies DEF HT!HashTableIsMap
  <2>4. s = held[k].slot
    BY <2>3, TableInvImplies DEF HT!HashTableIsMap, TableInv, Found
  <2>5. s \in HT!Slots /\ keyAt[s] = k
    BY <2>3, <2>4 DEF TableInv, Found
  <2> HIDE DEF s
  <2> QED
    BY <2>2, <2>5, TableBury, TableAssumption
<1>3. CASE \E s \in HT!Slots : HT!RemoveValue(s)
  BY <1>3, TableBury DEF HT!RemoveValue
<1>4. CASE HT!Clear
  BY <1>4, TableEmpty DEF HT!Clear, HT!Cleared, TableInv
<1> QED
  BY <1>1, <1>2, <1>3, <1>4 DEF HT!Next

------------------------------------------------------------------------------
(* MemPool                                                                   *)

(* The free list of MemPool is the n slots of F, in order; every other slot below
   usedIndexes is taken.                                                     *)
IsList(F, n) ==
  /\ \A i, j \in 1 .. n : F[i] = F[j] => i = j
  /\ nextFreeIndex = IF n = 0 THEN MP!Nil ELSE F[1]
  /\ \A i \in 1 .. n : memory[F[i]] = IF i = n THEN MP!Nil ELSE F[i + 1]
  /\ \A s \in MP!Indexes :
       (\E i \in 1 .. n : F[i] = s) <=> s < usedIndexes /\ s \notin DOMAIN taken

(* PoolSlotsAccounted counts what the links reach; the invariant has the list.   *)
PoolInv ==
  /\ MP!PoolTypeOK /\ DOMAIN taken \subseteq 0 .. usedIndexes - 1
  /\ \A i \in DOMAIN taken : memory[i] = taken[i]
  /\ \E n \in 0 .. NumItems : \E F \in [1 .. n -> MP!Indexes] : IsList(F, n)

(* Different slots are no more than the pool has.                            *)
LEMMA ListFits ==
  ASSUME NEW n \in Nat, NEW F \in [1 .. n -> MP!Indexes],
         \A i, j \in 1 .. n : F[i] = F[j] => i = j
  PROVE  n \in 0 .. NumItems
<1>1. IsFiniteSet(MP!Indexes) /\ Cardinality(MP!Indexes) = NumItems
  BY FS_Interval, PoolAssumption DEF MP!Indexes
<1>2. IsFiniteSet(1 .. n) /\ Cardinality(1 .. n) = n
  BY FS_Interval
<1>3. ~(NumItems < n)
  BY <1>1, <1>2, FS_PigeonHole
<1> QED
  BY <1>3, PoolAssumption

(* Following the links from nextFreeIndex meets the slots of the list, and Nil.  *)
LEMMA FreeIsList ==
  ASSUME NEW n \in 0 .. NumItems, NEW F \in [1 .. n -> MP!Indexes], IsList(F, n)
  PROVE  \A k \in 0 .. NumItems : MP!Free[k] = IF k < n THEN F[k + 1] ELSE MP!Nil
<1> USE PoolAssumption DEF MP!Nil, MP!Indexes
<1> DEFINE H == [k \in 0 .. NumItems |-> IF k < n THEN F[k + 1] ELSE MP!Nil]
           Before(g, k) == IF k = 0 THEN nextFreeIndex ELSE g[k - 1]
           Follows(g) ==
             [k \in 0 .. NumItems |->
                IF k = 0 THEN Before(g, k)
                ELSE IF Before(g, k) \in MP!Indexes THEN memory[Before(g, k)] ELSE MP!Nil]
<1>1. H = Follows(H)
  <2> SUFFICES ASSUME NEW k \in 0 .. NumItems PROVE H[k] = Follows(H)[k]
    OBVIOUS
  <2>1. CASE k = 0
    BY <2>1 DEF IsList
  <2>2. CASE k # 0 /\ k <= n
    <3>1. H[k - 1] = F[k] /\ F[k] \in MP!Indexes
      BY <2>2
    <3>2. memory[F[k]] = H[k]
      BY <2>2 DEF IsList
    <3> QED
      BY <2>2, <3>1, <3>2
  <2>3. CASE k > n
    <3>1. H[k - 1] = MP!Nil /\ H[k] = MP!Nil /\ k # 0
      BY <2>3
    <3> QED
      BY <3>1
  <2> QED
    BY <2>1, <2>2, <2>3
<1>2. MP!Free = Follows(MP!Free)
  <2>1. MP!Free = CHOOSE g : g = Follows(g)
    BY DEF MP!Free
  <2> HIDE DEF H, Follows
  <2> QED
    BY <1>1, <2>1
<1>3. \A k \in 0 .. NumItems :
        /\ k = 0 => MP!Free[k] = H[k]
        /\ k # 0 /\ MP!Free[k - 1] = H[k - 1] => MP!Free[k] = H[k]
  <2> TAKE k \in 0 .. NumItems
  <2>1. MP!Free[k] = Follows(MP!Free)[k] /\ H[k] = Follows(H)[k]
    <3> HIDE DEF H, Follows
    <3> QED
      BY <1>1, <1>2
  <2> HIDE DEF H
  <2> QED
    BY <2>1
<1> DEFINE Wrong == {k \in 0 .. NumItems : MP!Free[k] # H[k]}
<1>4. CASE Wrong = {}
  BY <1>4
<1>5. CASE Wrong # {}
  <2>1. PICK m \in Wrong : \A k \in Wrong : m <= k
    BY <1>5, Smallest
  <2>2. m \in 0 .. NumItems /\ MP!Free[m] # H[m] /\ m # 0
    BY <1>3
  <2>3. m - 1 \in 0 .. NumItems /\ m - 1 \notin Wrong
    BY <2>1, <2>2
  <2> HIDE DEF H
  <2> QED
    BY <1>3, <2>2, <2>3
<1> QED
  BY <1>4, <1>5

(* What the links reach is what nobody has taken.                            *)
LEMMA PoolInvImplies == PoolInv => MP!PoolTypeOK /\ MP!PoolSlotsAccounted
<1> SUFFICES ASSUME PoolInv PROVE MP!PoolSlotsAccounted
  BY DEF PoolInv
<1> USE PoolAssumption DEF MP!Nil, MP!Indexes
<1> PICK n \in 0 .. NumItems : \E F \in [1 .. n -> MP!Indexes] : IsList(F, n)
  BY DEF PoolInv
<1>1. PICK F \in [1 .. n -> MP!Indexes] : IsList(F, n)
  OBVIOUS
<1>2. \A k \in 0 .. NumItems : MP!Free[k] = IF k < n THEN F[k + 1] ELSE MP!Nil
  BY <1>1, FreeIsList
<1> DEFINE free == {MP!Free[k] : k \in 0 .. NumItems} \ {MP!Nil}
<1>3. \A s : s \in free <=> \E i \in 1 .. n : F[i] = s
  <2>1. ASSUME NEW s \in free PROVE \E i \in 1 .. n : F[i] = s
    <3>1. PICK k \in 0 .. NumItems : s = MP!Free[k] /\ s # MP!Nil
      OBVIOUS
    <3>2. k < n /\ s = F[k + 1] /\ k + 1 \in 1 .. n
      BY <1>2, <3>1
    <3> QED
      BY <3>2
  <2>2. ASSUME NEW i \in 1 .. n PROVE F[i] \in free
    <3>1. i - 1 \in 0 .. NumItems /\ i - 1 < n /\ (i - 1) + 1 = i
      OBVIOUS
    <3>2. MP!Free[i - 1] = F[i] /\ F[i] # MP!Nil
      BY <1>2, <3>1
    <3> QED
      BY <3>1, <3>2
  <2> QED
    BY <2>1, <2>2
<1>4. MP!Free[NumItems] = MP!Nil
  BY <1>2
<1>5. usedIndexes \in 0 .. NumItems /\ DOMAIN taken \subseteq 0 .. usedIndexes - 1
  BY DEF PoolInv, MP!PoolTypeOK
<1> HIDE DEF free
<1>6. \A s \in MP!Indexes : s \in free <=> s < usedIndexes /\ s \notin DOMAIN taken
  BY <1>1, <1>3 DEF IsList
<1>7. free \subseteq MP!Indexes
  BY <1>3
<1>8. free \cup DOMAIN taken = 0 .. usedIndexes - 1 /\ free \cap DOMAIN taken = {}
  <2>1. \A s \in MP!Indexes : s < usedIndexes <=> s \in 0 .. usedIndexes - 1
    BY <1>5
  <2>2. 0 .. usedIndexes - 1 \subseteq MP!Indexes
    BY <1>5
  <2> HIDE DEF MP!Indexes
  <2> QED
    BY <1>5, <1>6, <1>7, <2>1, <2>2
<1>9. \A i \in DOMAIN taken : memory[i] = taken[i]
  BY DEF PoolInv
<1> QED
  BY <1>4, <1>8, <1>9 DEF MP!PoolSlotsAccounted, free

(* A pool that starts anew has an empty list (Clear).                        *)
LEMMA PoolEmpty ==
  ASSUME usedIndexes' = 0, nextFreeIndex' = MP!Nil, taken' = [i \in {} |-> Unset],
         memory' \in [MP!Indexes -> Items \cup MP!Indexes \cup {MP!Nil, Unset}]
  PROVE  PoolInv'
<1> DEFINE F == [i \in 1 .. 0 |-> 0]
<1>1. DOMAIN taken' = {} /\ 0 \in 0 .. NumItems /\ F \in [1 .. 0 -> MP!Indexes]
  BY PoolAssumption
<1>2. IsList(F, 0)'
  BY <1>1 DEF IsList, MP!Indexes, MP!Nil
<1>3. MP!PoolTypeOK'
  BY <1>1 DEF MP!PoolTypeOK, MP!Indexes, MP!Nil
<1> HIDE DEF F
<1> QED
  BY <1>1, <1>2, <1>3 DEF PoolInv, MP!Indexes

(* Init leaves an empty list.                                                *)
LEMMA PoolInit == MP!Init => PoolInv
<1> SUFFICES ASSUME MP!Init PROVE PoolInv
  OBVIOUS
<1> DEFINE F == [i \in 1 .. 0 |-> 0]
<1>1. DOMAIN taken = {} /\ 0 \in 0 .. NumItems /\ F \in [1 .. 0 -> MP!Indexes]
  BY PoolAssumption DEF MP!Init
<1>2. IsList(F, 0)
  BY <1>1 DEF IsList, MP!Indexes, MP!Init
<1>3. MP!PoolTypeOK
  BY <1>1 DEF MP!PoolTypeOK, MP!Init
<1> HIDE DEF F
<1> QED
  BY <1>1, <1>2, <1>3 DEF PoolInv, MP!Init

(* Allocate takes the first slot of the list, or a slot that was never used. *)
LEMMA PoolAllocate ==
  ASSUME PoolInv, NEW x \in Items \cup MP!Indexes \cup {MP!Nil, Unset}, MP!Allocate(x)
  PROVE  PoolInv'
<1> USE PoolAssumption DEF MP!Nil, MP!Indexes
<1> PICK n \in 0 .. NumItems : \E F \in [1 .. n -> MP!Indexes] : IsList(F, n)
  BY DEF PoolInv
<1>1. PICK F \in [1 .. n -> MP!Indexes] : IsList(F, n)
  OBVIOUS
<1> DEFINE a == MP!Allocated
<1>2. /\ a # MP!Nil /\ memory' = [memory EXCEPT ![a] = x]
      /\ taken' = [j \in (DOMAIN taken) \cup {a} |-> IF j = a THEN x ELSE taken[j]]
      /\ IF nextFreeIndex # MP!Nil
         THEN nextFreeIndex' = memory[a] /\ usedIndexes' = usedIndexes
         ELSE usedIndexes' = usedIndexes + 1 /\ nextFreeIndex' = nextFreeIndex
  BY DEF MP!Allocate, MP!Allocated
<1>3. /\ memory \in [MP!Indexes -> Items \cup MP!Indexes \cup {MP!Nil, Unset}]
      /\ usedIndexes \in 0 .. NumItems /\ DOMAIN taken \subseteq 0 .. usedIndexes - 1
      /\ \A i \in DOMAIN taken : memory[i] = taken[i]
  BY DEF PoolInv, MP!PoolTypeOK
<1>4. n # 0 => nextFreeIndex = F[1] /\ F[1] \in MP!Indexes
  BY <1>1 DEF IsList
<1>5. n = 0 => nextFreeIndex = MP!Nil
  BY <1>1 DEF IsList
<1>6. CASE n = 0
  <2>1. a = usedIndexes /\ usedIndexes < NumItems
    BY <1>2, <1>5, <1>6 DEF MP!Allocated
  <2>2. usedIndexes' = usedIndexes + 1 /\ nextFreeIndex' = MP!Nil
    BY <1>2, <1>5, <1>6
  <2> HIDE DEF a
  <2>3. a \in MP!Indexes /\ a \notin DOMAIN taken
    BY <1>3, <2>1
  <2>4. /\ DOMAIN taken' = (DOMAIN taken) \cup {a}
        /\ \A i \in DOMAIN taken' : taken'[i] = IF i = a THEN x ELSE taken[i]
    BY <1>2
  <2>5. \A s \in MP!Indexes : memory'[s] = IF s = a THEN x ELSE memory[s]
    BY <1>2, <1>3
  <2>6. \A i \in DOMAIN taken' : memory'[i] = taken'[i]
    BY <1>3, <2>3, <2>4, <2>5
  <2>7. \A s \in MP!Indexes : s \in DOMAIN taken <=> s < usedIndexes
    BY <1>1, <1>3, <1>6 DEF IsList
  <2>8. \A s \in MP!Indexes : s \in DOMAIN taken' <=> s < usedIndexes'
    BY <1>3, <2>1, <2>2, <2>4, <2>7
  <2>9. IsList(F, n)'
    BY <1>6, <2>2, <2>8 DEF IsList
  <2>10. MP!PoolTypeOK' /\ DOMAIN taken' \subseteq 0 .. usedIndexes' - 1
    <3>1. memory' \in [MP!Indexes -> Items \cup MP!Indexes \cup {MP!Nil, Unset}]
      BY <1>2, <1>3
    <3>2. usedIndexes' \in 0 .. NumItems /\ DOMAIN taken' \subseteq 0 .. usedIndexes' - 1
      BY <1>3, <2>1, <2>2, <2>4
    <3>3. DOMAIN taken' \subseteq MP!Indexes
      BY <2>3, <2>4 DEF PoolInv, MP!PoolTypeOK
    <3> QED
      BY <2>2, <3>1, <3>2, <3>3 DEF MP!PoolTypeOK
  <2> QED
    BY <2>6, <2>9, <2>10 DEF PoolInv
<1>7. CASE n # 0
  <2>1. nextFreeIndex # MP!Nil /\ a = F[1] /\ 1 \in 1 .. n
    BY <1>4, <1>7 DEF MP!Allocated
  <2>2. nextFreeIndex' = memory[a] /\ usedIndexes' = usedIndexes
    BY <1>2, <2>1
  <2> HIDE DEF a
  <2>3. a \in MP!Indexes /\ a \notin DOMAIN taken /\ a < usedIndexes
    BY <1>1, <1>4, <1>7, <2>1 DEF IsList
  <2>4. /\ DOMAIN taken' = (DOMAIN taken) \cup {a}
        /\ \A i \in DOMAIN taken' : taken'[i] = IF i = a THEN x ELSE taken[i]
    BY <1>2
  <2>5. \A s \in MP!Indexes : memory'[s] = IF s = a THEN x ELSE memory[s]
    BY <1>2, <1>3
  <2>6. \A i \in DOMAIN taken' : memory'[i] = taken'[i]
    BY <1>3, <2>3, <2>4, <2>5
  <2> DEFINE G == [i \in 1 .. n - 1 |-> F[i + 1]]
  <2>7. n - 1 \in 0 .. NumItems /\ G \in [1 .. n - 1 -> MP!Indexes]
    BY <1>7
  <2>8. \A i \in 1 .. n - 1 : i + 1 \in 1 .. n /\ G[i] = F[i + 1]
    OBVIOUS
  <2>9. \A i \in 1 .. n : i # 1 => i - 1 \in 1 .. n - 1 /\ G[i - 1] = F[i]
    OBVIOUS
  <2> HIDE DEF G
  <2>10. \A i, j \in 1 .. n - 1 : G[i] = G[j] => i = j
    BY <1>1, <2>8 DEF IsList
  <2>11. \A i \in 1 .. n - 1 : G[i] # a
    BY <1>1, <2>1, <2>8 DEF IsList
  <2>12. nextFreeIndex' = IF n - 1 = 0 THEN MP!Nil ELSE G[1]
    <3>1. memory[F[1]] = IF 1 = n THEN MP!Nil ELSE F[1 + 1]
      BY <1>1, <2>1 DEF IsList
    <3>2. CASE n = 1
      BY <2>1, <2>2, <3>1, <3>2
    <3>3. CASE n # 1
      <4>1. 1 \in 1 .. n - 1
        BY <1>7, <3>3
      <4> QED
        BY <2>1, <2>2, <2>8, <3>1, <3>3, <4>1
    <3> QED
      BY <3>2, <3>3
  <2>13. \A i \in 1 .. n - 1 : memory'[G[i]] = IF i = n - 1 THEN MP!Nil ELSE G[i + 1]
    <3> TAKE i \in 1 .. n - 1
    <3>1. memory'[G[i]] = memory[F[i + 1]]
      BY <2>5, <2>7, <2>8, <2>11
    <3>2. memory[F[i + 1]] = IF i + 1 = n THEN MP!Nil ELSE F[(i + 1) + 1]
      BY <1>1, <2>8 DEF IsList
    <3>3. i # n - 1 => G[i + 1] = F[(i + 1) + 1]
      BY <2>8
    <3> QED
      BY <3>1, <3>2, <3>3
  <2>14. ASSUME NEW s \in MP!Indexes
        PROVE  (\E i \in 1 .. n - 1 : G[i] = s) <=> s < usedIndexes' /\ s \notin DOMAIN taken'
    <3>1. (\E i \in 1 .. n - 1 : G[i] = s) <=> (\E i \in 1 .. n : F[i] = s) /\ s # a
      <4>1. ASSUME NEW i \in 1 .. n - 1, G[i] = s PROVE (\E j \in 1 .. n : F[j] = s) /\ s # a
        BY <2>8, <2>11, <4>1
      <4>2. ASSUME NEW j \in 1 .. n, F[j] = s, s # a PROVE \E i \in 1 .. n - 1 : G[i] = s
        BY <2>1, <2>9, <4>2
      <4> QED
        BY <4>1, <4>2
    <3>2. (\E i \in 1 .. n : F[i] = s) <=> s < usedIndexes /\ s \notin DOMAIN taken
      BY <1>1 DEF IsList
    <3> QED
      BY <2>2, <2>4, <3>1, <3>2
  <2>15. IsList(G, n - 1)'
    BY <2>10, <2>12, <2>13, <2>14 DEF IsList
  <2>16. nextFreeIndex' \in MP!Indexes \cup {MP!Nil}
    <3>1. n # 1 => 1 \in 1 .. n - 1
      BY <1>7
    <3> QED
      BY <2>7, <2>12, <3>1
  <2>17. MP!PoolTypeOK' /\ DOMAIN taken' \subseteq 0 .. usedIndexes' - 1
    <3>1. memory' \in [MP!Indexes -> Items \cup MP!Indexes \cup {MP!Nil, Unset}]
      BY <1>2, <1>3
    <3>2. DOMAIN taken' \subseteq 0 .. usedIndexes' - 1 /\ DOMAIN taken' \subseteq MP!Indexes
      BY <1>3, <2>2, <2>3, <2>4
    <3> QED
      BY <1>3, <2>2, <2>16, <3>1, <3>2 DEF MP!PoolTypeOK
  <2> QED
    BY <2>6, <2>7, <2>15, <2>17 DEF PoolInv
<1> QED
  BY <1>6, <1>7

(* Remove puts the slot in front of the list, through its own memory.        *)
LEMMA PoolRemove ==
  ASSUME PoolInv, NEW a \in MP!Indexes, MP!Remove(a)
  PROVE  PoolInv'
<1> USE PoolAssumption DEF MP!Nil, MP!Indexes
<1> PICK n \in 0 .. NumItems : \E F \in [1 .. n -> MP!Indexes] : IsList(F, n)
  BY DEF PoolInv
<1>1. PICK F \in [1 .. n -> MP!Indexes] : IsList(F, n)
  OBVIOUS
<1>2. /\ a \in DOMAIN taken /\ memory' = [memory EXCEPT ![a] = nextFreeIndex]
      /\ nextFreeIndex' = a /\ usedIndexes' = usedIndexes
      /\ taken' = [j \in (DOMAIN taken) \ {a} |-> taken[j]]
  BY DEF MP!Remove
<1>3. /\ memory \in [MP!Indexes -> Items \cup MP!Indexes \cup {MP!Nil, Unset}]
      /\ usedIndexes \in 0 .. NumItems /\ DOMAIN taken \subseteq 0 .. usedIndexes - 1
      /\ nextFreeIndex \in MP!Indexes \cup {MP!Nil}
      /\ \A i \in DOMAIN taken : memory[i] = taken[i]
  BY DEF PoolInv, MP!PoolTypeOK
<1>4. DOMAIN taken' = (DOMAIN taken) \ {a} /\ \A i \in DOMAIN taken' : taken'[i] = taken[i]
  BY <1>2
<1>5. \A s \in MP!Indexes : memory'[s] = IF s = a THEN nextFreeIndex ELSE memory[s]
  BY <1>2, <1>3
<1>6. \A i \in 1 .. n : F[i] # a
  BY <1>1, <1>2 DEF IsList
<1> DEFINE G == [i \in 1 .. n + 1 |-> IF i = 1 THEN a ELSE F[i - 1]]
<1>7. G[1] = a /\ 1 \in 1 .. n + 1 /\ \A i \in 1 .. n : i + 1 \in 1 .. n + 1 /\ G[i + 1] = F[i]
  OBVIOUS
<1>8. \A i \in 1 .. n + 1 : i = 1 \/ (i - 1 \in 1 .. n /\ G[i] = F[i - 1] /\ (i - 1) + 1 = i)
  OBVIOUS
<1>9. G \in [1 .. n + 1 -> MP!Indexes]
  OBVIOUS
<1> HIDE DEF G
<1>10. \A i, j \in 1 .. n + 1 : G[i] = G[j] => i = j
  <2> TAKE i, j \in 1 .. n + 1
  <2>1. CASE i = 1 \/ j = 1
    BY <1>6, <1>7, <1>8, <2>1
  <2>2. CASE i # 1 /\ j # 1
    BY <1>1, <1>8, <2>2 DEF IsList
  <2> QED
    BY <2>1, <2>2
<1>11. n + 1 \in 0 .. NumItems
  <2>1. n + 1 \in Nat
    OBVIOUS
  <2> QED
    BY <1>9, <1>10, <2>1, ListFits
<1>12. \A i \in 1 .. n + 1 : memory'[G[i]] = IF i = n + 1 THEN MP!Nil ELSE G[i + 1]
  <2> TAKE i \in 1 .. n + 1
  <2>1. CASE i = 1
    <3>1. memory'[G[i]] = nextFreeIndex
      BY <1>5, <1>7, <2>1
    <3>2. nextFreeIndex = IF n = 0 THEN MP!Nil ELSE F[1]
      BY <1>1 DEF IsList
    <3> QED
      BY <1>7, <2>1, <3>1, <3>2
  <2>2. CASE i # 1
    <3>1. memory'[G[i]] = memory[F[i - 1]]
      BY <1>5, <1>6, <1>8, <2>2
    <3>2. memory[F[i - 1]] = IF i - 1 = n THEN MP!Nil ELSE F[(i - 1) + 1]
      BY <1>1, <1>8, <2>2 DEF IsList
    <3>3. CASE i = n + 1
      <4>1. i - 1 = n
        BY <3>3
      <4> QED
        BY <3>1, <3>2, <3>3, <4>1
    <3>4. CASE i # n + 1
      <4>1. i \in 1 .. n /\ i - 1 # n /\ (i - 1) + 1 = i
        BY <2>2, <3>4
      <4>2. memory[F[i - 1]] = F[i] /\ G[i + 1] = F[i]
        BY <1>7, <3>2, <4>1
      <4> QED
        BY <3>1, <3>4, <4>2
    <3> QED
      BY <3>3, <3>4
  <2> QED
    BY <2>1, <2>2
<1>13. ASSUME NEW s \in MP!Indexes
       PROVE  (\E i \in 1 .. n + 1 : G[i] = s) <=> s < usedIndexes' /\ s \notin DOMAIN taken'
  <2>1. (\E i \in 1 .. n + 1 : G[i] = s) <=> (\E i \in 1 .. n : F[i] = s) \/ s = a
    <3>1. ASSUME NEW i \in 1 .. n + 1, G[i] = s PROVE (\E j \in 1 .. n : F[j] = s) \/ s = a
      BY <1>7, <1>8, <3>1
    <3>2. ASSUME NEW j \in 1 .. n, F[j] = s PROVE \E i \in 1 .. n + 1 : G[i] = s
      BY <1>7, <3>2
    <3>3. ASSUME s = a PROVE \E i \in 1 .. n + 1 : G[i] = s
      BY <1>7, <3>3
    <3> QED
      BY <3>1, <3>2, <3>3
  <2>2. (\E i \in 1 .. n : F[i] = s) <=> s < usedIndexes /\ s \notin DOMAIN taken
    BY <1>1 DEF IsList
  <2> QED
    BY <1>2, <1>3, <1>4, <2>1, <2>2
<1>14. nextFreeIndex' = IF n + 1 = 0 THEN MP!Nil ELSE G[1]
  BY <1>2, <1>7
<1>15. IsList(G, n + 1)'
  BY <1>10, <1>12, <1>13, <1>14 DEF IsList
<1>16. MP!PoolTypeOK' /\ DOMAIN taken' \subseteq 0 .. usedIndexes' - 1
  BY <1>2, <1>3, <1>4 DEF MP!PoolTypeOK
<1>17. \A i \in DOMAIN taken' : memory'[i] = taken'[i]
  BY <1>3, <1>4, <1>5
<1> QED
  BY <1>9, <1>11, <1>15, <1>16, <1>17 DEF PoolInv

(* A caller writes to a slot that it has taken, where no link is.            *)
LEMMA PoolWrite ==
  ASSUME PoolInv, NEW a \in MP!Indexes, NEW x \in Items, MP!Write(a, x)
  PROVE  PoolInv'
<1> USE PoolAssumption DEF MP!Nil, MP!Indexes
<1> PICK n \in 0 .. NumItems : \E F \in [1 .. n -> MP!Indexes] : IsList(F, n)
  BY DEF PoolInv
<1>1. PICK F \in [1 .. n -> MP!Indexes] : IsList(F, n)
  OBVIOUS
<1>2. /\ a \in DOMAIN taken /\ memory' = [memory EXCEPT ![a] = x]
      /\ nextFreeIndex' = nextFreeIndex /\ usedIndexes' = usedIndexes
      /\ taken' = [taken EXCEPT ![a] = x]
  BY DEF MP!Write
<1>3. /\ memory \in [MP!Indexes -> Items \cup MP!Indexes \cup {MP!Nil, Unset}]
      /\ DOMAIN taken \subseteq MP!Indexes
      /\ \A i \in DOMAIN taken : memory[i] = taken[i]
  BY DEF PoolInv, MP!PoolTypeOK
<1>4. DOMAIN taken' = DOMAIN taken /\ \A i \in DOMAIN taken' : memory'[i] = taken'[i]
  BY <1>2, <1>3
<1>5. \A i \in 1 .. n : memory'[F[i]] = memory[F[i]]
  BY <1>1, <1>2, <1>3 DEF IsList
<1>6. IsList(F, n)'
  BY <1>1, <1>2, <1>4, <1>5 DEF IsList
<1>7. MP!PoolTypeOK' /\ DOMAIN taken' \subseteq 0 .. usedIndexes' - 1
  BY <1>2, <1>3, <1>4 DEF PoolInv, MP!PoolTypeOK
<1> QED
  BY <1>4, <1>6, <1>7 DEF PoolInv

(* Every operation of the pool keeps its invariant.                          *)
LEMMA PoolNext == PoolInv /\ MP!Next => PoolInv'
<1> SUFFICES ASSUME PoolInv, MP!Next PROVE PoolInv'
  OBVIOUS
<1>1. CASE \E x \in Items : MP!Insert(x)
  BY <1>1, PoolAllocate DEF MP!Insert
<1>2. CASE MP!AllocateOnly
  <2>1. MP!Allocated # MP!Nil /\ MP!Allocate(memory[MP!Allocated])
    BY <1>2 DEF MP!AllocateOnly
  <2>2. MP!Allocated \in MP!Indexes
    <3>1. nextFreeIndex \in MP!Indexes \cup {MP!Nil} /\ usedIndexes \in 0 .. NumItems
      BY DEF PoolInv, MP!PoolTypeOK
    <3>2. usedIndexes < NumItems => usedIndexes \in MP!Indexes
      BY <3>1, PoolAssumption DEF MP!Indexes
    <3> QED
      BY <2>1, <3>1, <3>2 DEF MP!Allocated
  <2>3. memory[MP!Allocated] \in Items \cup MP!Indexes \cup {MP!Nil, Unset}
    BY <2>2 DEF PoolInv, MP!PoolTypeOK
  <2> QED
    BY <2>1, <2>3, PoolAllocate
<1>3. CASE \E i \in MP!Indexes : MP!Remove(i)
  BY <1>3, PoolRemove
<1>4. CASE \E i \in MP!Indexes : \E x \in Items : MP!Write(i, x)
  BY <1>4, PoolWrite
<1>5. CASE MP!Clear
  BY <1>5, PoolEmpty DEF MP!Clear, PoolInv, MP!PoolTypeOK
<1> QED
  BY <1>1, <1>2, <1>3, <1>4, <1>5 DEF MP!Next

------------------------------------------------------------------------------
(* UnorderedArray                                                            *)

(* The instance's Cardinality is that of the library's theorems.             *)
LEMMA SameCardinality ==
  \A S : UA!Cardinality(S) = Cardinality(S)
BY DEF Cardinality, UA!Cardinality

(* Where the items are.                                                      *)
Places == 0 .. itemCount - 1

(* ArrayIndexesTrack is not inductive by itself: an owner with two items would
   be lost from the array when one of them is overwritten.                   *)
OneItemEach == \A i, j \in Places : itemAt[i] = itemAt[j] => i = j

(* Indexes can be compared, and owners counted.                              *)
IndexesInt ==
  /\ IsFiniteSet(DOMAIN indexOf)
  /\ \A o \in DOMAIN indexOf : indexOf[o] \in Nat

(* The inductive invariant of the array.                                     *)
ArrayInv == UA!ArrayTypeOK /\ UA!ArrayIndexesTrack /\ OneItemEach /\ IndexesInt

(* An empty array has no owners.                                             *)
LEMMA ArrayInit ==
  ASSUME UA!Init
  PROVE  ArrayInv
<1> USE ArrayAssumption DEF UA!Init, UA!Nowhere
<1>1. DOMAIN indexOf = {}
  OBVIOUS
<1>2. Places = {}
  BY DEF Places
<1>3. UA!ArrayTypeOK
  <2>1. itemAt \in [0 .. TotalSize - 1 -> Owners \cup {Nobody}] /\ itemCount \in 0 .. TotalSize
    OBVIOUS
  <2>2. swapCallback \in BOOLEAN
    BY Zenon
  <2> QED
    BY <1>1, <2>1, <2>2 DEF UA!ArrayTypeOK
<1>4. UA!ArrayIndexesTrack
  BY <1>1, <1>2, FS_EmptySet, SameCardinality DEF UA!ArrayIndexesTrack, Places
<1> QED
  BY <1>1, <1>2, <1>3, <1>4, FS_EmptySet DEF ArrayInv, OneItemEach, IndexesInt

(* PushBack writes one owner's item to the first free place.                 *)
LEMMA ArrayPushBack ==
  ASSUME ArrayInv, NEW o \in Owners, UA!PushBack(o)
  PROVE  ArrayInv'
<1> USE ArrayAssumption DEF ArrayInv, UA!ArrayTypeOK
<1>1. DOMAIN indexOf' = (DOMAIN indexOf) \cup {o} /\ o \notin DOMAIN indexOf
  BY DEF UA!PushBack
<1>2. itemCount' = itemCount + 1 /\ itemCount \in Nat /\ itemCount < TotalSize
  BY DEF UA!PushBack
<1>3. itemAt'[itemCount] = o /\ \A i \in Places : itemAt'[i] = itemAt[i]
  BY <1>2 DEF UA!PushBack, Places
<1>4. Places' = Places \cup {itemCount} /\ itemCount \notin Places
  BY <1>2 DEF Places
<1>5. {itemAt[i] : i \in Places} = DOMAIN indexOf
  BY DEF UA!ArrayIndexesTrack, Places
<1>6. \A i \in Places : itemAt[i] # o
  BY <1>1, <1>5
<1>7. UA!ArrayTypeOK'
  BY <1>1, <1>2 DEF UA!PushBack
<1>8. OneItemEach'
  BY <1>3, <1>4, <1>6 DEF OneItemEach
<1>9. \A p \in DOMAIN indexOf : indexOf'[p] = indexOf[p]
  BY <1>1 DEF UA!PushBack
<1>10. indexOf'[o] = itemCount
  BY <1>1 DEF UA!PushBack
<1>11. IndexesInt' /\ Cardinality(DOMAIN indexOf') = Cardinality(DOMAIN indexOf) + 1
  BY <1>1, <1>2, <1>9, <1>10, FS_AddElement DEF IndexesInt
<1>12. UA!ArrayIndexesTrack'
  <2>1. {itemAt'[i] : i \in Places'} = DOMAIN indexOf'
    BY <1>1, <1>3, <1>4, <1>5
  <2>2. itemCount' = Cardinality(DOMAIN indexOf')
    BY <1>2, <1>11, SameCardinality DEF UA!ArrayIndexesTrack
  <2>3. ASSUME swapCallback', NEW p \in DOMAIN indexOf'
        PROVE  indexOf'[p] < itemCount' /\ itemAt'[indexOf'[p]] = p
    <3>1. CASE p = o
      BY <3>1, <1>2, <1>3, <1>10
    <3>2. CASE p # o
      <4>1. p \in DOMAIN indexOf /\ swapCallback
        BY <3>2, <2>3, <1>1 DEF UA!PushBack
      <4>2. indexOf[p] \in Places /\ itemAt[indexOf[p]] = p
        BY <4>1, <1>2 DEF UA!ArrayIndexesTrack, IndexesInt, Places
      <4> QED
        BY <4>1, <4>2, <1>2, <1>3, <1>9 DEF Places
    <3> QED
      BY <3>1, <3>2
  <2> QED
    BY <2>1, <2>2, <2>3, SameCardinality DEF UA!ArrayIndexesTrack, Places
<1> QED
  BY <1>7, <1>8, <1>11, <1>12

(* Remove overwrites the leaving owner's item with the last one.             *)
LEMMA ArrayRemove ==
  ASSUME ArrayInv,
         NEW o \in Owners, NEW i \in 0 .. TotalSize - 1, UA!Remove(o, i)
  PROVE  ArrayInv'
<1> USE ArrayAssumption DEF ArrayInv, UA!ArrayTypeOK
<1> DEFINE last == itemCount - 1
<1>1. /\ o \in DOMAIN indexOf /\ i \in Places /\ itemCount' = last /\ last \in Nat
      /\ last \in Places /\ last < TotalSize
  BY DEF UA!Remove, Places
<1>2. {itemAt[j] : j \in Places} = DOMAIN indexOf
  BY DEF UA!ArrayIndexesTrack, Places
<1>3. itemAt[i] = o
  BY <1>1 DEF UA!Remove, UA!IndexKnown, UA!ArrayIndexesTrack
<1>4. itemAt' = [itemAt EXCEPT ![i] = itemAt[last]]
  BY DEF UA!Remove
<1>5. \A j \in 0 .. TotalSize - 1 : itemAt'[j] = IF j = i THEN itemAt[last] ELSE itemAt[j]
  BY <1>4
<1>6. Places' = Places \ {last} /\ Places \subseteq 0 .. TotalSize - 1
  BY <1>1 DEF Places
<1>7. indexOf' = UA!Told(o, last, i) /\ DOMAIN indexOf' = (DOMAIN indexOf) \ {o}
  BY DEF UA!Remove, UA!Told
<1>8. swapCallback' = swapCallback
  BY DEF UA!Remove
<1> HIDE DEF last
<1>9. UA!ArrayTypeOK'
  <2>1. itemAt' \in [0 .. TotalSize - 1 -> Owners \cup {Nobody}]
    BY <1>1, <1>4, <1>6
  <2> QED
    BY <2>1, <1>1, <1>7, <1>8
<1>10. OneItemEach'
  BY <1>1, <1>5, <1>6 DEF OneItemEach
<1>11. {itemAt'[j] : j \in Places'} = DOMAIN indexOf'
  <2>1. ASSUME NEW j \in Places' PROVE itemAt'[j] \in DOMAIN indexOf'
    BY <1>1, <1>2, <1>3, <1>5, <1>6, <1>7 DEF OneItemEach
  <2>2. ASSUME NEW p \in DOMAIN indexOf' PROVE \E j \in Places' : itemAt'[j] = p
    <3>1. PICK j \in Places : itemAt[j] = p
      BY <1>2, <1>7
    <3>2. j # i
      BY <3>1, <1>3, <1>7
    <3>3. CASE j = last
      BY <3>1, <3>2, <3>3, <1>1, <1>5, <1>6
    <3>4. CASE j # last
      BY <3>1, <3>2, <3>4, <1>5, <1>6
    <3> QED
      BY <3>3, <3>4
  <2> QED
    BY <2>1, <2>2
<1>12. itemCount' = Cardinality(DOMAIN indexOf')
  <2>1. Cardinality(DOMAIN indexOf') = Cardinality(DOMAIN indexOf) - 1
    BY <1>1, <1>7, FS_RemoveElement DEF IndexesInt
  <2> QED
    BY <2>1, <1>1, SameCardinality DEF UA!ArrayIndexesTrack, last
<1>13. ASSUME NEW p \in DOMAIN indexOf'
       PROVE  /\ indexOf'[p] \in Nat
              /\ swapCallback' => indexOf'[p] \in Places' /\ itemAt'[indexOf'[p]] = p
  <2>1. p \in DOMAIN indexOf /\ p # o /\ indexOf[p] \in Nat
    BY <1>7 DEF IndexesInt
  <2>2. indexOf'[p] = IF swapCallback /\ last # i /\ p = itemAt[last]
                      THEN i ELSE indexOf[p]
    BY <1>7 DEF UA!Told
  <2>3. indexOf'[p] \in Nat
    BY <2>1, <2>2, <1>1 DEF Places
  <2>4. ASSUME swapCallback
        PROVE  indexOf[p] \in Places /\ itemAt[indexOf[p]] = p
    <3>1. indexOf[p] < itemCount /\ itemAt[indexOf[p]] = p
      BY <2>1, <2>4 DEF UA!ArrayIndexesTrack
    <3> QED
      BY <2>1, <3>1 DEF Places
  <2>5. CASE swapCallback /\ p = itemAt[last]
    <3>1. last # i
      BY <2>5, <2>1, <1>3
    <3> QED
      BY <3>1, <2>2, <2>3, <2>5, <1>1, <1>5, <1>6
  <2>6. CASE swapCallback /\ p # itemAt[last]
    <3>1. indexOf'[p] = indexOf[p] /\ indexOf[p] # last /\ indexOf[p] # i
      BY <2>1, <2>2, <2>4, <2>6, <1>3
    <3> QED
      BY <3>1, <2>3, <2>4, <2>6, <1>5, <1>6
  <2> QED
    BY <2>3, <2>5, <2>6, <1>8
<1>14. IndexesInt'
  BY <1>1, <1>7, <1>13, FS_RemoveElement DEF IndexesInt
<1>15. UA!ArrayIndexesTrack'
  BY <1>1, <1>11, <1>12, <1>13, SameCardinality DEF UA!ArrayIndexesTrack, Places
<1> QED
  BY <1>9, <1>10, <1>14, <1>15

(* The other operations leave an empty array empty, or make it so.           *)
LEMMA ArrayEmpty ==
  ASSUME ArrayInv, UA!SetItemSwappedCallBack \/ UA!Clear
  PROVE  ArrayInv'
<1> USE ArrayAssumption DEF ArrayInv, UA!ArrayTypeOK
<1>1. itemCount' = 0 /\ Places' = {}
  BY DEF UA!SetItemSwappedCallBack, UA!Clear, Places
<1>2. DOMAIN indexOf' = {}
  <2>1. CASE UA!SetItemSwappedCallBack
    <3>1. {itemAt[i] : i \in Places} = {} /\ indexOf' = indexOf
      BY <2>1 DEF UA!SetItemSwappedCallBack, Places
    <3> QED
      BY <3>1 DEF UA!ArrayIndexesTrack, Places
  <2>2. CASE UA!Clear
    BY <2>2 DEF UA!Clear, UA!Nowhere
  <2> QED
    BY <2>1, <2>2
<1>3. UA!ArrayTypeOK'
  <2>1. itemAt' \in [0 .. TotalSize - 1 -> Owners \cup {Nobody}]
    BY DEF UA!SetItemSwappedCallBack, UA!Clear
  <2>2. swapCallback' \in BOOLEAN
    BY Zenon DEF UA!SetItemSwappedCallBack, UA!Clear
  <2> QED
    BY <1>1, <1>2, <2>1, <2>2
<1>4. UA!ArrayIndexesTrack'
  BY <1>1, <1>2, FS_EmptySet, SameCardinality DEF UA!ArrayIndexesTrack, Places
<1> QED
  BY <1>1, <1>2, <1>3, <1>4, FS_EmptySet DEF OneItemEach, IndexesInt

(* Every operation of the array keeps the invariant.                         *)
LEMMA ArrayNext == ArrayInv /\ UA!Next => ArrayInv'
BY ArrayPushBack, ArrayRemove, ArrayEmpty DEF UA!Next

------------------------------------------------------------------------------
(* Sums of sizes                                                             *)

(* P[i] is the sum of the first i of the n sizes.                            *)
Sums(P, sizes, n) ==
  /\ P \in [0 .. n -> Nat] /\ P[0] = 0
  /\ \A i \in 1 .. n : sizes[i] \in Nat /\ P[i] = P[i - 1] + sizes[i]
  /\ \A i, j \in 0 .. n : i <= j => P[i] <= P[j]

(* more is sizes with x after the first n of them.                           *)
Extends(more, sizes, n, x) == more[n + 1] = x /\ \A i \in 1 .. n : more[i] = sizes[i]

(* The first m of fewer are those of sizes.                                  *)
SamePrefix(fewer, sizes, m) == \A i \in 1 .. m : fewer[i] = sizes[i]

(* rest is what follows the first m of the n sizes.                          *)
Follow(rest, sizes, m, n) == \A i \in 1 .. n - m : rest[i] = sizes[m + i]

(* Nothing adds up to 0.                                                     *)
LEMMA SumsOfNone == \A sizes : \E P : Sums(P, sizes, 0) /\ P[0] = 0
<1> TAKE sizes
<1> DEFINE P == [i \in 0 .. 0 |-> 0]
<1>1. Sums(P, sizes, 0) /\ P[0] = 0
  BY DEF Sums
<1> QED
  BY <1>1

(* One more size adds one sum and leaves the others.                         *)
LEMMA SumsExtend ==
  ASSUME NEW n \in Nat, NEW P, NEW sizes, Sums(P, sizes, n), NEW x \in Nat, NEW more,
         Extends(more, sizes, n, x)
  PROVE  \E Q : /\ Sums(Q, more, n + 1) /\ Q[n + 1] = P[n] + x
                /\ \A i \in 0 .. n : Q[i] = P[i]
<1> DEFINE Q == [i \in 0 .. n + 1 |-> IF i = n + 1 THEN P[n] + x ELSE P[i]]
<1>1. P \in [0 .. n -> Nat] /\ \A i, j \in 0 .. n : i <= j => P[i] <= P[j]
  BY DEF Sums
<1>2. /\ Q \in [0 .. n + 1 -> Nat] /\ Q[n + 1] = P[n] + x
      /\ \A i \in 0 .. n : Q[i] = P[i]
  BY <1>1
<1> HIDE DEF Q
<1>3. \A i \in 1 .. n + 1 : more[i] \in Nat /\ Q[i] = Q[i - 1] + more[i]
  <2> TAKE i \in 1 .. n + 1
  <2>1. CASE i = n + 1
    <3>1. i - 1 = n /\ n \in 0 .. n
      BY <2>1
    <3> QED
      BY <1>2, <2>1, <3>1 DEF Extends
  <2>2. CASE i # n + 1
    <3>1. i \in 1 .. n /\ i \in 0 .. n /\ i - 1 \in 0 .. n
      BY <2>2
    <3> QED
      BY <1>2, <3>1 DEF Sums, Extends
  <2> QED
    BY <2>1, <2>2
<1>4. \A i, j \in 0 .. n + 1 : i <= j => Q[i] <= Q[j]
  <2> TAKE i, j \in 0 .. n + 1
  <2> SUFFICES ASSUME i <= j PROVE Q[i] <= Q[j]
    OBVIOUS
  <2>1. CASE j = n + 1 /\ i = n + 1
    BY <1>2, <2>1
  <2>2. CASE j = n + 1 /\ i # n + 1
    <3>1. i \in 0 .. n /\ n \in 0 .. n /\ i <= n
      BY <2>2
    <3>2. P[i] <= P[n] /\ P[i] \in Nat /\ P[n] \in Nat
      BY <1>1, <3>1
    <3> QED
      BY <1>2, <2>2, <3>1, <3>2
  <2>3. CASE j # n + 1
    <3>1. i \in 0 .. n /\ j \in 0 .. n
      BY <2>3
    <3> QED
      BY <1>1, <1>2, <3>1
  <2> QED
    BY <2>1, <2>2, <2>3
<1>5. Q[0] = 0
  BY <1>2 DEF Sums
<1> QED
  BY <1>2, <1>3, <1>4, <1>5 DEF Sums

(* The sums of a prefix are a prefix of the sums.                            *)
LEMMA SumsShrink ==
  ASSUME NEW n \in Nat, NEW P, NEW sizes, Sums(P, sizes, n), NEW m \in 0 .. n, NEW fewer,
         SamePrefix(fewer, sizes, m)
  PROVE  \E Q : Sums(Q, fewer, m) /\ \A i \in 0 .. m : Q[i] = P[i]
<1> DEFINE Q == [i \in 0 .. m |-> P[i]]
<1>1. Q \in [0 .. m -> Nat] /\ \A i \in 0 .. m : Q[i] = P[i] /\ i \in 0 .. n
  BY DEF Sums
<1> HIDE DEF Q
<1>2. \A i \in 1 .. m : i \in 0 .. m /\ i - 1 \in 0 .. m /\ i \in 1 .. n
  OBVIOUS
<1>3. \A i \in 1 .. m : fewer[i] \in Nat /\ Q[i] = Q[i - 1] + fewer[i]
  BY <1>1, <1>2 DEF Sums, SamePrefix
<1>4. \A i, j \in 0 .. m : i <= j => Q[i] <= Q[j]
  BY <1>1 DEF Sums
<1>5. Q[0] = 0
  BY <1>1 DEF Sums
<1> QED
  BY <1>1, <1>3, <1>4, <1>5 DEF Sums

(* What follows a prefix adds up to the difference.                          *)
LEMMA SumsDrop ==
  ASSUME NEW n \in Nat, NEW P, NEW sizes, Sums(P, sizes, n), NEW m \in 0 .. n, NEW rest,
         Follow(rest, sizes, m, n)
  PROVE  \E Q : Sums(Q, rest, n - m) /\ Q[n - m] = P[n] - P[m]
<1> DEFINE Q == [i \in 0 .. n - m |-> P[m + i] - P[m]]
<1>1. P \in [0 .. n -> Nat] /\ \A i, j \in 0 .. n : i <= j => P[i] <= P[j]
  BY DEF Sums
<1>2. n - m \in Nat /\ \A i \in 0 .. n - m : m + i \in 0 .. n /\ Q[i] = P[m + i] - P[m]
  OBVIOUS
<1>3. \A i \in 0 .. n - m : P[m + i] \in Nat /\ P[m] \in Nat /\ P[m] <= P[m + i]
  BY <1>1, <1>2
<1>4. \A i \in 0 .. n - m : Q[i] \in Nat
  BY <1>2, <1>3
<1>5. Q \in [0 .. n - m -> Nat]
  BY <1>4
<1> HIDE DEF Q
<1>6. \A i \in 1 .. n - m : rest[i] \in Nat /\ Q[i] = Q[i - 1] + rest[i]
  <2> TAKE i \in 1 .. n - m
  <2>1. i \in 0 .. n - m /\ i - 1 \in 0 .. n - m /\ m + i \in 1 .. n
        /\ (m + i) - 1 = m + (i - 1)
    OBVIOUS
  <2>2. sizes[m + i] \in Nat /\ P[m + i] = P[m + (i - 1)] + sizes[m + i]
    BY <2>1 DEF Sums
  <2>3. rest[i] = sizes[m + i] /\ Q[i] = P[m + i] - P[m] /\ Q[i - 1] = P[m + (i - 1)] - P[m]
    BY <1>2, <2>1 DEF Follow
  <2>4. P[m + i] \in Nat /\ P[m + (i - 1)] \in Nat /\ P[m] \in Nat
    BY <1>3, <2>1
  <2> QED
    BY <2>2, <2>3, <2>4
<1>7. \A i, j \in 0 .. n - m : i <= j => Q[i] <= Q[j]
  <2> TAKE i, j \in 0 .. n - m
  <2>1. i <= j => P[m + i] <= P[m + j]
    BY <1>1, <1>2
  <2> QED
    BY <1>2, <1>3, <2>1
<1>8. Q[0] = 0 /\ Q[n - m] = P[n] - P[m]
  <2>1. 0 \in 0 .. n - m /\ n - m \in 0 .. n - m /\ m + 0 = m /\ m + (n - m) = n
    OBVIOUS
  <2> QED
    BY <1>2, <1>3, <2>1
<1> QED
  BY <1>5, <1>6, <1>7, <1>8 DEF Sums

(* TotalOf's recursion computes the last sum.                                *)
LEMMA TotalIs ==
  ASSUME NEW sizes, NEW n \in Nat, Len(sizes) = n, NEW P, Sums(P, sizes, n)
  PROVE  DL!TotalOf(sizes) = P[n]
<1> DEFINE Follows(g) ==
             [k \in 0 .. n |-> IF k = 0 THEN 0 ELSE g[k - 1] + sizes[k]]
           upTo == CHOOSE g : g = Follows(g)
<1>1. P = Follows(P)
  <2>1. P \in [0 .. n -> Nat] /\ P[0] = 0
    BY DEF Sums
  <2>2. \A k \in 0 .. n : P[k] = Follows(P)[k]
    <3> TAKE k \in 0 .. n
    <3>1. k # 0 => k \in 1 .. n
      OBVIOUS
    <3> QED
      BY <2>1, <3>1 DEF Sums
  <2> QED
    BY <2>1, <2>2
<1>2. upTo = Follows(upTo)
  <2> HIDE DEF Follows
  <2> QED
    BY <1>1
<1>3. DL!TotalOf(sizes) = upTo[n]
  BY DEF DL!TotalOf
<1>4. \A k \in 0 .. n : /\ k = 0 => upTo[k] = P[k]
                        /\ k # 0 /\ upTo[k - 1] = P[k - 1] => upTo[k] = P[k]
  <2> TAKE k \in 0 .. n
  <2>1. upTo[k] = Follows(upTo)[k] /\ P[k] = Follows(P)[k]
    <3> HIDE DEF Follows, upTo
    <3> QED
      BY <1>1, <1>2
  <2> HIDE DEF upTo
  <2> QED
    BY <2>1
<1> HIDE DEF upTo
<1> DEFINE Wrong == {k \in 0 .. n : upTo[k] # P[k]}
<1>5. CASE Wrong = {}
  <2>1. upTo[n] = P[n]
    BY <1>5
  <2> QED
    BY <1>3, <2>1
<1>6. CASE Wrong # {}
  <2>1. PICK m \in Wrong : \A k \in Wrong : m <= k
    BY <1>6, Smallest
  <2>2. m \in 0 .. n /\ upTo[m] # P[m] /\ m # 0
    BY <1>4
  <2>3. m - 1 \in 0 .. n /\ m - 1 \notin Wrong
    BY <2>1, <2>2
  <2> QED
    BY <1>4, <2>2, <2>3
<1> QED
  BY <1>5, <1>6

(* The address that an aligned allocation gets is less than a past the first.   *)
LEMMA RoundUpBounds ==
  ASSUME NEW n \in Nat, NEW a \in Nat \ {0}
  PROVE  DL!RoundUp(n, a) \in n .. n + a
<1> DEFINE x == n + a - 1
           q == x \div a
           r == x % a
<1>1. x \in Nat
  OBVIOUS
<1> HIDE DEF x
<1>2. q \in Int /\ r \in 0 .. a - 1
  BY <1>1, Z3
<1>3. x = a * q + r
  BY <1>1, Z3
<1> HIDE DEF q, r
<1>4. a * q = q * a
  BY <1>2, Z3
<1> DEFINE y == q * a
<1>5. y \in Int
  BY <1>2, Z3
<1>6. x = y + r
  BY <1>3, <1>4
<1>7. DL!RoundUp(n, a) = y
  BY DEF DL!RoundUp, q, x
<1> HIDE DEF y
<1>8. x = n + a - 1
  BY DEF x
<1> QED
  BY <1>2, <1>5, <1>6, <1>7, <1>8

(* Max of a set of indexes is in it, and above the others.                   *)
LEMMA Largest ==
  ASSUME NEW N \in Nat, NEW B \in SUBSET (0 .. N), B # {}
  PROVE  DL!Max(B) \in B /\ \A k \in B : k <= DL!Max(B)
<1> DEFINE C == {N - b : b \in B}
<1>1. C \in SUBSET (0 .. N) /\ C # {}
  <2>1. \A b \in B : N - b \in 0 .. N
    OBVIOUS
  <2>2. PICK b \in B : TRUE
    OBVIOUS
  <2>3. N - b \in C
    OBVIOUS
  <2> QED
    BY <2>1, <2>3
<1>2. PICK c \in C : \A k \in C : c <= k
  <2> HIDE DEF C
  <2> QED
    BY <1>1, Smallest
<1>3. PICK m \in B : c = N - m
  OBVIOUS
<1>4. \A k \in B : k <= m
  <2> TAKE k \in B
  <2>1. N - m <= N - k
    BY <1>2, <1>3
  <2> QED
    BY <2>1
<1>5. DL!Max(B) = CHOOSE b \in B : \A k \in B : b >= k
  BY DEF DL!Max
<1>6. \E b \in B : \A k \in B : b >= k
  BY <1>4
<1> QED
  BY <1>5, <1>6

------------------------------------------------------------------------------
(* MemBuffer                                                                 *)

(* What each allocation took of the buffer, its alignment included.          *)
Taken(bs) == [i \in DOMAIN bs |-> bs[i].taken]

(* The sizes of pads add up to used.                                         *)
AddUp(sizes, used) ==
  /\ sizes \in Seq(0 .. BufferSize)
  /\ \E P : Sums(P, sizes, Len(sizes)) /\ P[Len(sizes)] = used

(* What a caller holds.                                                      *)
Allocation == [at : Int, size : Nat, taken : Nat]

(* The allocations lie one after another, each within what was taken for it, and
   what was taken adds up to used.                                           *)
LaidOut(bs, used) ==
  /\ bs \in Seq(Allocation)
  /\ \E E : /\ Sums(E, Taken(bs), Len(bs)) /\ E[Len(bs)] = used
            /\ \A i \in 1 .. Len(bs) :
                 /\ Base + E[i - 1] <= bs[i].at
                 /\ bs[i].at + bs[i].size <= Base + E[i]

(* An open scratch pad.                                                      *)
Pad == [at : Nat, size : 0 .. BufferSize]

(* Sums of what was taken and of the pads stand behind the two sizes in use. *)
BufInv ==
  /\ usedBufferSize \in Nat /\ usedScratchPadSize \in Nat
  /\ usedBufferSize + usedScratchPadSize <= BufferSize
  /\ pads \in Seq(Pad)
  /\ AddUp(DL!SizesOf(pads), usedScratchPadSize) /\ LaidOut(blocks, usedBufferSize)

(* The fields of an allocation.                                              *)
LEMMA AllocationFields ==
  \A b \in Allocation : b.at \in Int /\ b.size \in Nat /\ b.taken \in Nat
BY DEF Allocation

(* A sequence without its last element.                                      *)
LEMMA ButLast ==
  ASSUME NEW S, NEW s \in Seq(S), Len(s) # 0
  PROVE  LET t == SubSeq(s, 1, Len(s) - 1)
         IN  /\ t \in Seq(S) /\ Len(t) = Len(s) - 1 /\ DOMAIN t = 1 .. Len(s) - 1
             /\ \A i \in 1 .. Len(s) - 1 : t[i] = s[i]
<1> DEFINE m == Len(s) - 1
           t == SubSeq(s, 1, m)
<1>1. m \in Nat /\ m <= Len(s) /\ Len(s) \in Nat
  OBVIOUS
<1>2. t \in Seq(S) /\ Len(t) = m /\ \A i \in 1 .. m : t[i] = s[i]
  <2> HIDE DEF m
  <2> QED
    BY <1>1
<1>3. DOMAIN t = 1 .. m
  BY <1>2
<1> QED
  BY <1>2, <1>3

(* An empty buffer.                                                          *)
LEMMA NoneAddUp == AddUp(<<>>, 0) /\ LaidOut(<<>>, 0)
<1>1. /\ Len(<<>>) = 0 /\ <<>> \in Seq(0 .. BufferSize) /\ <<>> \in Seq(Allocation)
      /\ \A i \in 1 .. 0 : FALSE
  OBVIOUS
<1>2. PICK P : Sums(P, <<>>, 0) /\ P[0] = 0
  BY SumsOfNone
<1>3. PICK E : Sums(E, Taken(<<>>), 0) /\ E[0] = 0
  BY SumsOfNone
<1>4. AddUp(<<>>, 0)
  BY <1>1, <1>2 DEF AddUp
<1>5. LaidOut(<<>>, 0)
  BY <1>1, <1>3 DEF LaidOut
<1> QED
  BY <1>4, <1>5

(* One more pad.                                                             *)
LEMMA AddUpAppend ==
  ASSUME NEW sizes, NEW used \in Nat, AddUp(sizes, used), NEW x \in 0 .. BufferSize
  PROVE  AddUp(Append(sizes, x), used + x)
<1> DEFINE m == Len(sizes)
           more == Append(sizes, x)
           R == 0 .. BufferSize
<1>1. sizes \in Seq(R) /\ x \in R /\ x \in Nat /\ m \in Nat
  BY BufferAssumption DEF AddUp
<1>2. PICK P : Sums(P, sizes, m) /\ P[m] = used
  BY DEF AddUp
<1> HIDE DEF R
<1>3. /\ more \in Seq(R) /\ Len(more) = m + 1 /\ more[m + 1] = x
      /\ \A i \in 1 .. m : more[i] = sizes[i]
  BY <1>1
<1> HIDE DEF m, more
<1>4. Extends(more, sizes, m, x)
  BY <1>3 DEF Extends
<1>5. PICK Q : Sums(Q, more, m + 1) /\ Q[m + 1] = P[m] + x
  BY <1>1, <1>2, <1>4, SumsExtend
<1> QED
  BY <1>2, <1>3, <1>5 DEF AddUp, more, R

(* The last pad goes: it is not more than is used.                           *)
LEMMA AddUpRemove ==
  ASSUME NEW sizes, NEW used \in Nat, AddUp(sizes, used), sizes # <<>>
  PROVE  LET x == sizes[Len(sizes)]
         IN  x \in 0 .. used /\ AddUp(SubSeq(sizes, 1, Len(sizes) - 1), used - x)
<1> DEFINE m == Len(sizes)
           x == sizes[m]
           fewer == SubSeq(sizes, 1, m - 1)
           R == 0 .. BufferSize
<1>1. sizes \in Seq(R) /\ m \in Nat
  BY DEF AddUp
<1>2. PICK P : Sums(P, sizes, m) /\ P[m] = used
  BY DEF AddUp
<1> HIDE DEF R
<1>3. m # 0
  BY <1>1
<1>4. /\ fewer \in Seq(R) /\ Len(fewer) = m - 1
      /\ \A i \in 1 .. m - 1 : fewer[i] = sizes[i]
  BY <1>1, <1>3, ButLast
<1> HIDE DEF m, fewer
<1>5. m - 1 \in 0 .. m /\ m - 1 \in 0 .. m - 1 /\ m \in 1 .. m
  BY <1>1, <1>3
<1>6. PICK Q : Sums(Q, fewer, m - 1) /\ \A i \in 0 .. m - 1 : Q[i] = P[i]
  <2>1. SamePrefix(fewer, sizes, m - 1)
    BY <1>4 DEF SamePrefix
  <2> QED
    BY <1>1, <1>2, <1>5, <2>1, SumsShrink
<1>7. P[m] = P[m - 1] + x /\ x \in Nat /\ P[m - 1] \in Nat
  BY <1>2, <1>5 DEF Sums
<1>8. x \in 0 .. used /\ Q[m - 1] = used - x
  BY <1>2, <1>5, <1>6, <1>7
<1>9. AddUp(fewer, used - x)
  BY <1>4, <1>6, <1>8 DEF AddUp, R
<1> QED
  BY <1>8, <1>9 DEF fewer, m

(* The sizes of no pads.                                                     *)
LEMMA NoSizes == DL!SizesOf(<<>>) = <<>>
BY DEF DL!SizesOf

(* The sizes of a sequence of pads are a sequence of its length.             *)
LEMMA SizesAre ==
  ASSUME NEW ps \in Seq(Pad)
  PROVE  LET sizes == DL!SizesOf(ps)
         IN  /\ sizes \in Seq(0 .. BufferSize) /\ Len(sizes) = Len(ps)
             /\ \A i \in 1 .. Len(ps) : sizes[i] = ps[i].size
<1> DEFINE n == Len(ps)
           R == 0 .. BufferSize
           sizes == [i \in 1 .. n |-> ps[i].size]
<1>1. n \in Nat /\ DOMAIN ps = 1 .. n /\ \A i \in 1 .. n : ps[i] \in Pad
  OBVIOUS
<1>2. \A i \in 1 .. n : ps[i].size \in R
  BY <1>1 DEF Pad
<1>3. DL!SizesOf(ps) = sizes
  BY <1>1 DEF DL!SizesOf
<1> HIDE DEF R, n
<1>4. sizes \in [1 .. n -> R]
  BY <1>2
<1>5. sizes \in Seq(R) /\ Len(sizes) = n
  <2> HIDE DEF sizes
  <2> QED
    BY <1>1, <1>4
<1> QED
  BY <1>3, <1>5 DEF R, n

(* The sizes when one more pad is opened.                                    *)
LEMMA SizesAppend ==
  ASSUME NEW ps \in Seq(Pad), NEW p \in Pad
  PROVE  DL!SizesOf(Append(ps, p)) = Append(DL!SizesOf(ps), p.size)
<1> DEFINE n == Len(ps)
           more == Append(ps, p)
           sizes == DL!SizesOf(ps)
<1>1. n \in Nat /\ DOMAIN ps = 1 .. n
  OBVIOUS
<1>2. \A i \in 1 .. n : sizes[i] = ps[i].size
  BY SizesAre
<1>3. sizes \in Seq(0 .. BufferSize) /\ Len(sizes) = n /\ p.size \in 0 .. BufferSize
  BY SizesAre DEF Pad
<1>4. /\ DOMAIN more = 1 .. n + 1 /\ more[n + 1] = p
      /\ \A i \in 1 .. n : more[i] = ps[i]
  BY <1>1
<1> HIDE DEF n, more, sizes
<1>5. DL!SizesOf(more) = [i \in 1 .. n + 1 |-> more[i].size]
  BY <1>4 DEF DL!SizesOf
<1>6. /\ Append(sizes, p.size) \in Seq(0 .. BufferSize)
      /\ DOMAIN Append(sizes, p.size) = 1 .. n + 1
      /\ Append(sizes, p.size)[n + 1] = p.size
      /\ \A i \in 1 .. n : Append(sizes, p.size)[i] = sizes[i]
  BY <1>1, <1>3
<1>7. \A i \in 1 .. n + 1 : i \in 1 .. n \/ i = n + 1
  BY <1>1
<1>8. \A i \in 1 .. n + 1 : DL!SizesOf(more)[i] = Append(sizes, p.size)[i]
  <2> TAKE i \in 1 .. n + 1
  <2>1. DL!SizesOf(more)[i] = more[i].size
    BY <1>5
  <2>2. CASE i \in 1 .. n
    BY <1>2, <1>4, <1>6, <2>1, <2>2
  <2>3. CASE i = n + 1
    BY <1>4, <1>6, <2>1, <2>3
  <2> QED
    BY <1>7, <2>2, <2>3
<1>9. DOMAIN DL!SizesOf(more) = 1 .. n + 1
  BY <1>5
<1>10. DL!SizesOf(more) = Append(sizes, p.size)
  <2>1. Append(sizes, p.size) = [i \in 1 .. n + 1 |-> Append(sizes, p.size)[i]]
    BY <1>3, <1>6
  <2> QED
    BY <1>5, <1>8, <2>1
<1> QED
  BY <1>10 DEF more, sizes

(* The sizes when the last pad is closed.                                    *)
LEMMA SizesRemove ==
  ASSUME NEW ps \in Seq(Pad), Len(ps) # 0
  PROVE  LET sizes == DL!SizesOf(ps)
             fewer == SubSeq(ps, 1, Len(ps) - 1)
         IN  /\ fewer \in Seq(Pad) /\ sizes # <<>>
             /\ sizes[Len(sizes)] = ps[Len(ps)].size
             /\ DL!SizesOf(fewer) = SubSeq(sizes, 1, Len(sizes) - 1)
<1> DEFINE n == Len(ps)
           fewer == SubSeq(ps, 1, n - 1)
           sizes == DL!SizesOf(ps)
           less == SubSeq(sizes, 1, n - 1)
<1>1. n \in Nat /\ n # 0 /\ DOMAIN ps = 1 .. n
  OBVIOUS
<1>2. \A i \in 1 .. n : sizes[i] = ps[i].size
  BY SizesAre
<1>3. sizes \in Seq(0 .. BufferSize) /\ Len(sizes) = n
  BY SizesAre
<1>4. /\ fewer \in Seq(Pad) /\ DOMAIN fewer = 1 .. n - 1
      /\ \A i \in 1 .. n - 1 : fewer[i] = ps[i]
  BY <1>1, ButLast
<1> HIDE DEF sizes
<1>5. /\ less \in Seq(0 .. BufferSize) /\ DOMAIN less = 1 .. n - 1
      /\ \A i \in 1 .. n - 1 : less[i] = sizes[i]
  <2> HIDE DEF n
  <2>1. Len(sizes) # 0
    BY <1>1, <1>3
  <2> QED
    BY <1>3, <2>1, ButLast
<1> HIDE DEF n, fewer, less
<1>6. DL!SizesOf(fewer) = [i \in 1 .. n - 1 |-> fewer[i].size]
  BY <1>4 DEF DL!SizesOf
<1>7. \A i \in 1 .. n - 1 : i \in 1 .. n
  BY <1>1
<1>8. \A i \in 1 .. n - 1 : fewer[i].size = less[i]
  BY <1>2, <1>4, <1>5, <1>7
<1>9. less = [i \in 1 .. n - 1 |-> less[i]]
  BY <1>5
<1>10. DL!SizesOf(fewer) = less
  BY <1>6, <1>8, <1>9
<1>11. sizes # <<>> /\ sizes[n] = ps[n].size
  BY <1>1, <1>2, <1>3
<1> QED
  BY <1>3, <1>4, <1>10, <1>11 DEF n, fewer, sizes, less

(* One more allocation, past what is used and within what it takes.          *)
LEMMA LaidOutAppend ==
  ASSUME NEW bs, NEW used \in Nat, LaidOut(bs, used), NEW b \in Allocation,
         Base + used <= b.at, b.at + b.size <= Base + used + b.taken
  PROVE  LaidOut(Append(bs, b), used + b.taken)
<1> DEFINE n == Len(bs)
           cs == Append(bs, b)
           x == b.taken
<1>1. bs \in Seq(Allocation) /\ n \in Nat /\ DOMAIN bs = 1 .. n /\ Base \in Nat
  BY BufferAssumption DEF LaidOut
<1>2. b.at \in Int /\ b.size \in Nat /\ x \in Nat
  BY AllocationFields
<1>3. /\ cs \in Seq(Allocation) /\ Len(cs) = n + 1 /\ DOMAIN cs = 1 .. n + 1
      /\ cs[n + 1] = b /\ \A i \in 1 .. n : cs[i] = bs[i]
  BY <1>1
<1>4. PICK E : /\ Sums(E, Taken(bs), n) /\ E[n] = used
               /\ \A i \in 1 .. n : /\ Base + E[i - 1] <= bs[i].at
                                    /\ bs[i].at + bs[i].size <= Base + E[i]
  BY DEF LaidOut
<1> HIDE DEF n, cs
<1>5. Taken(cs)[n + 1] = x /\ \A i \in 1 .. n : Taken(cs)[i] = Taken(bs)[i]
  BY <1>1, <1>3 DEF Taken
<1> HIDE DEF x
<1>6. PICK Q : /\ Sums(Q, Taken(cs), n + 1) /\ Q[n + 1] = E[n] + x
               /\ \A i \in 0 .. n : Q[i] = E[i]
  <2>1. Extends(Taken(cs), Taken(bs), n, x)
    BY <1>5 DEF Extends
  <2>2. n \in Nat /\ x \in Nat /\ Sums(E, Taken(bs), n)
    BY <1>1, <1>2, <1>4 DEF x
  <2> QED
    BY <2>1, <2>2, SumsExtend
<1>7. ASSUME NEW i \in 1 .. n + 1
      PROVE  Base + Q[i - 1] <= cs[i].at /\ cs[i].at + cs[i].size <= Base + Q[i]
  <2>1. CASE i = n + 1
    <3>1. i - 1 = n /\ n \in 0 .. n
      BY <1>1, <2>1
    <3>2. Q[i - 1] = used /\ Q[i] = used + x
      BY <1>4, <1>6, <2>1, <3>1
    <3> QED
      BY <1>1, <1>2, <1>3, <2>1, <3>2 DEF x
  <2>2. CASE i # n + 1
    <3>1. i \in 1 .. n /\ i \in 0 .. n /\ i - 1 \in 0 .. n
      BY <1>1, <2>2
    <3>2. Q[i - 1] = E[i - 1] /\ Q[i] = E[i] /\ cs[i] = bs[i]
      BY <1>3, <1>6, <3>1
    <3> QED
      BY <1>4, <3>1, <3>2
  <2> QED
    BY <2>1, <2>2
<1>8. LaidOut(cs, used + x)
  BY <1>3, <1>4, <1>6, <1>7 DEF LaidOut
<1> QED
  BY <1>8 DEF cs, x

(* The last allocation goes, with what it took.                              *)
LEMMA LaidOutRemove ==
  ASSUME NEW bs, NEW used \in Nat, LaidOut(bs, used), bs # <<>>
  PROVE  LET x == bs[Len(bs)].taken
         IN  x \in 0 .. used /\ LaidOut(SubSeq(bs, 1, Len(bs) - 1), used - x)
<1> DEFINE n == Len(bs)
           x == bs[n].taken
           cs == SubSeq(bs, 1, n - 1)
<1>1. bs \in Seq(Allocation) /\ n \in Nat /\ DOMAIN bs = 1 .. n
  BY DEF LaidOut
<1>2. n # 0
  BY <1>1
<1>3. /\ cs \in Seq(Allocation) /\ Len(cs) = n - 1 /\ DOMAIN cs = 1 .. n - 1
      /\ \A i \in 1 .. n - 1 : cs[i] = bs[i]
  BY <1>1, <1>2, ButLast
<1>4. PICK E : /\ Sums(E, Taken(bs), n) /\ E[n] = used
               /\ \A i \in 1 .. n : /\ Base + E[i - 1] <= bs[i].at
                                    /\ bs[i].at + bs[i].size <= Base + E[i]
  BY DEF LaidOut
<1> HIDE DEF n, cs
<1>5. /\ n - 1 \in 0 .. n /\ n - 1 \in 0 .. n - 1 /\ n \in 1 .. n
      /\ \A i \in 1 .. n - 1 : i \in 1 .. n /\ i \in 0 .. n - 1 /\ i - 1 \in 0 .. n - 1
  BY <1>1, <1>2
<1>6. \A i \in 1 .. n - 1 : Taken(cs)[i] = Taken(bs)[i]
  BY <1>1, <1>3, <1>5 DEF Taken
<1>7. PICK Q : Sums(Q, Taken(cs), n - 1) /\ \A i \in 0 .. n - 1 : Q[i] = E[i]
  <2>1. SamePrefix(Taken(cs), Taken(bs), n - 1)
    BY <1>6 DEF SamePrefix
  <2> QED
    BY <1>1, <1>4, <1>5, <2>1, SumsShrink
<1>8. ASSUME NEW i \in 1 .. n - 1
      PROVE  Base + Q[i - 1] <= cs[i].at /\ cs[i].at + cs[i].size <= Base + Q[i]
  <2>1. Q[i - 1] = E[i - 1] /\ Q[i] = E[i] /\ cs[i] = bs[i] /\ i \in 1 .. n
    BY <1>3, <1>5, <1>7
  <2> QED
    BY <1>4, <2>1
<1>9. x \in 0 .. used /\ Q[n - 1] = used - x
  <2>1. Taken(bs)[n] = x
    BY <1>1, <1>5 DEF Taken
  <2>2. E[n] = E[n - 1] + x /\ E[n - 1] \in Nat /\ x \in Nat
    BY <1>4, <1>5, <2>1 DEF Sums
  <2> QED
    BY <1>4, <1>5, <1>7, <2>2
<1>10. LaidOut(cs, used - x)
  BY <1>3, <1>7, <1>8, <1>9 DEF LaidOut
<1> QED
  BY <1>9, <1>10 DEF cs, n

(* Allocations that are laid out do not overlap.                             *)
LEMMA LaidOutDisjoint ==
  ASSUME NEW bs, NEW used \in Nat, LaidOut(bs, used), NEW i \in DOMAIN bs
  PROVE  /\ bs[i].at >= Base /\ bs[i].at + bs[i].size <= Base + used
         /\ \A j \in DOMAIN bs : j < i => bs[j].at + bs[j].size <= bs[i].at
<1> DEFINE n == Len(bs)
<1>1. bs \in Seq(Allocation) /\ n \in Nat /\ DOMAIN bs = 1 .. n /\ Base \in Nat
  BY BufferAssumption DEF LaidOut
<1>2. \A k \in 1 .. n : bs[k].at \in Int /\ bs[k].size \in Nat
  BY <1>1, AllocationFields
<1>3. PICK E : /\ Sums(E, Taken(bs), n) /\ E[n] = used
               /\ \A k \in 1 .. n : /\ Base + E[k - 1] <= bs[k].at
                                    /\ bs[k].at + bs[k].size <= Base + E[k]
  BY DEF LaidOut
<1> HIDE DEF n
<1>4. E \in [0 .. n -> Nat] /\ \A k, l \in 0 .. n : k <= l => E[k] <= E[l]
  BY <1>3 DEF Sums
<1>5. i \in 1 .. n /\ i \in 0 .. n /\ i - 1 \in 0 .. n /\ n \in 0 .. n /\ i <= n
  BY <1>1
<1>6. /\ E[i] \in Nat /\ E[i - 1] \in Nat /\ E[i] <= used
      /\ Base + E[i - 1] <= bs[i].at /\ bs[i].at + bs[i].size <= Base + E[i]
  BY <1>3, <1>4, <1>5
<1>7. bs[i].at \in Int /\ bs[i].size \in Nat
  BY <1>2, <1>5
<1>8. bs[i].at >= Base /\ bs[i].at + bs[i].size <= Base + used
  BY <1>1, <1>6, <1>7
<1>9. ASSUME NEW j \in 1 .. n, j < i PROVE bs[j].at + bs[j].size <= bs[i].at
  <2>1. bs[j].at + bs[j].size <= Base + E[j] /\ bs[j].at \in Int /\ bs[j].size \in Nat
    BY <1>2, <1>3
  <2>2. j \in 0 .. n /\ j <= i - 1
    BY <1>1, <1>5, <1>9
  <2>3. E[j] \in Nat /\ E[j] <= E[i - 1]
    BY <1>4, <1>5, <2>2
  <2> DEFINE x == bs[j].at + bs[j].size
             y == bs[i].at
  <2>4. x \in Int /\ y \in Int /\ x <= Base + E[j] /\ Base + E[i - 1] <= y
    BY <1>6, <1>7, <2>1
  <2>5. E[i - 1] \in Nat
    BY <1>6
  <2> HIDE DEF x, y
  <2>6. x <= y
    BY <1>1, <2>3, <2>4, <2>5
  <2> QED
    BY <2>6 DEF x, y
<1> QED
  BY <1>1, <1>8, <1>9

(* The invariant has the types and the property.                             *)
LEMMA BufInvImplies == BufInv => DL!BufferTypeOK /\ DL!AllocationsDisjoint
<1> SUFFICES ASSUME BufInv PROVE DL!BufferTypeOK /\ DL!AllocationsDisjoint
  OBVIOUS
<1>1. /\ usedBufferSize \in Nat /\ usedScratchPadSize \in Nat /\ BufferSize \in Nat
      /\ usedBufferSize + usedScratchPadSize <= BufferSize
      /\ pads \in Seq(Pad)
      /\ AddUp(DL!SizesOf(pads), usedScratchPadSize) /\ LaidOut(blocks, usedBufferSize)
  BY BufferAssumption DEF BufInv
<1>2. DL!BufferTypeOK
  <2>1. \A i \in DOMAIN pads : pads[i] \in Pad
    BY <1>1
  <2>2. usedBufferSize \in 0 .. BufferSize /\ usedScratchPadSize \in 0 .. BufferSize
    BY <1>1
  <2> QED
    BY <2>1, <2>2 DEF DL!BufferTypeOK, Pad
<1>3. usedScratchPadSize = DL!TotalOf(DL!SizesOf(pads))
  <2>1. Len(DL!SizesOf(pads)) \in Nat
    BY <1>1 DEF AddUp
  <2> QED
    BY <1>1, <2>1, TotalIs DEF AddUp
<1>4. DL!FreeSpace >= 0
  BY <1>1 DEF DL!FreeSpace
<1> QED
  BY <1>1, <1>2, <1>3, <1>4, LaidOutDisjoint DEF DL!AllocationsDisjoint

(* Init leaves the buffer empty.                                             *)
LEMMA BufInit == DL!Init => BufInv
BY NoneAddUp, NoSizes, BufferAssumption DEF DL!Init, BufInv

(* An allocation of any kind appends a block that lies within what it takes. *)
LEMMA BufAppend ==
  ASSUME BufInv, NEW b \in Allocation, b.taken <= DL!FreeSpace,
         Base + usedBufferSize <= b.at,
         b.at + b.size <= Base + usedBufferSize + b.taken,
         usedBufferSize' = usedBufferSize + b.taken, blocks' = Append(blocks, b),
         usedScratchPadSize' = usedScratchPadSize, pads' = pads
  PROVE  BufInv'
<1>1. LaidOut(blocks', usedBufferSize')
  BY LaidOutAppend DEF BufInv
<1>2. b.taken \in Nat
  BY AllocationFields
<1> QED
  BY <1>1, <1>2, BufferAssumption DEF BufInv, DL!FreeSpace

(* Every operation of the buffer keeps the invariant: Free and CloseScratchPad
   take away what the last Allocate and OpenScratchPad added.                *)
LEMMA BufNext == BufInv /\ DL!Next => BufInv'
<1> SUFFICES ASSUME BufInv, DL!Next PROVE BufInv'
  OBVIOUS
<1>1. /\ usedBufferSize \in Nat /\ usedScratchPadSize \in Nat
      /\ usedBufferSize + usedScratchPadSize <= BufferSize
      /\ pads \in Seq(Pad)
      /\ AddUp(DL!SizesOf(pads), usedScratchPadSize) /\ LaidOut(blocks, usedBufferSize)
  BY DEF BufInv
<1>2. Base \in Nat /\ BufferSize \in Nat
  BY BufferAssumption
<1>3. ASSUME NEW n \in Sizes, DL!Allocate(n) PROVE BufInv'
  <2> DEFINE b == [at |-> Base + usedBufferSize, size |-> n, taken |-> n]
  <2>1. n \in Nat
    BY BufferAssumption
  <2>2. /\ b \in Allocation
        /\ b.at = Base + usedBufferSize /\ b.size = n /\ b.taken = n
    BY <1>1, <1>2, <2>1 DEF Allocation
  <2>3. /\ n <= DL!FreeSpace /\ usedBufferSize' = usedBufferSize + n
        /\ blocks' = Append(blocks, b)
        /\ usedScratchPadSize' = usedScratchPadSize /\ pads' = pads
    BY <1>3 DEF DL!Allocate
  <2> HIDE DEF b
  <2>4. Base + usedBufferSize <= b.at /\ b.at + b.size <= Base + usedBufferSize + b.taken
    BY <1>1, <1>2, <2>1, <2>2
  <2> QED
    BY <2>2, <2>3, <2>4, BufAppend
<1>4. ASSUME NEW n \in Sizes, NEW a \in Alignments, DL!AllocateAligned(n, a) PROVE BufInv'
  <2> DEFINE c == DL!RoundUp(Base + usedBufferSize, a)
             b == [at |-> c, size |-> n, taken |-> n + a]
  <2>1. n \in Nat /\ a \in Nat \ {0}
    BY BufferAssumption
  <2>2. c \in Base + usedBufferSize .. (Base + usedBufferSize) + a
    <3>1. Base + usedBufferSize \in Nat
      BY <1>1, <1>2
    <3> QED
      BY <2>1, <3>1, RoundUpBounds, Zenon
  <2>3. /\ n + a <= DL!FreeSpace /\ usedBufferSize' = usedBufferSize + (n + a)
        /\ blocks' = Append(blocks, b)
        /\ usedScratchPadSize' = usedScratchPadSize /\ pads' = pads
    BY <1>4 DEF DL!AllocateAligned, DL!Aligned
  <2> HIDE DEF c
  <2>4. b \in Allocation /\ b.at = c /\ b.size = n /\ b.taken = n + a
    BY <1>1, <1>2, <2>1, <2>2 DEF Allocation
  <2> HIDE DEF b
  <2>5. Base + usedBufferSize <= b.at /\ b.at + b.size <= Base + usedBufferSize + b.taken
    BY <1>1, <1>2, <2>1, <2>2, <2>4
  <2> QED
    BY <2>3, <2>4, <2>5, BufAppend
<1>5. CASE DL!Free
  <2> DEFINE x == blocks[Len(blocks)].taken
  <2>1. /\ blocks # <<>> /\ usedBufferSize' = usedBufferSize - x
        /\ blocks' = SubSeq(blocks, 1, Len(blocks) - 1)
        /\ usedScratchPadSize' = usedScratchPadSize /\ pads' = pads
    BY <1>5 DEF DL!Free
  <2>2. x \in 0 .. usedBufferSize /\ LaidOut(blocks', usedBufferSize')
    BY <1>1, <2>1, LaidOutRemove
  <2> HIDE DEF x
  <2> QED
    BY <1>1, <1>2, <2>1, <2>2 DEF BufInv
<1>6. ASSUME NEW n \in Sizes, DL!OpenScratchPad(n) PROVE BufInv'
  <2> DEFINE x == IF n <= DL!FreeSpace THEN n ELSE 0
             p == [at |-> IF n <= DL!FreeSpace THEN Base + (usedScratchPadSize + x) ELSE 0,
                   size |-> x]
  <2>1. /\ usedScratchPadSize' = usedScratchPadSize + x /\ pads' = Append(pads, p)
        /\ usedBufferSize' = usedBufferSize /\ blocks' = blocks
    BY <1>6 DEF DL!OpenScratchPad
  <2>2. x \in Nat /\ usedBufferSize + usedScratchPadSize + x <= BufferSize
    BY <1>1, <1>2, BufferAssumption DEF DL!FreeSpace
  <2> HIDE DEF x
  <2>3. x \in 0 .. BufferSize
    BY <1>1, <1>2, <2>2
  <2>4. p \in Pad /\ p.size = x
    BY <1>1, <1>2, <2>2, <2>3 DEF Pad
  <2> HIDE DEF p
  <2>5. pads' \in Seq(Pad) /\ DL!SizesOf(pads') = Append(DL!SizesOf(pads), x)
    BY <1>1, <2>1, <2>4, SizesAppend
  <2>6. AddUp(DL!SizesOf(pads'), usedScratchPadSize')
    BY <1>1, <2>1, <2>3, <2>5, AddUpAppend
  <2> QED
    BY <1>1, <1>2, <2>1, <2>2, <2>5, <2>6 DEF BufInv
<1>7. CASE DL!CloseScratchPad
  <2> DEFINE x == pads[Len(pads)].size
             sizes == DL!SizesOf(pads)
  <2>1. /\ pads # <<>> /\ usedScratchPadSize' = usedScratchPadSize - x
        /\ pads' = SubSeq(pads, 1, Len(pads) - 1)
        /\ usedBufferSize' = usedBufferSize /\ blocks' = blocks
    BY <1>7 DEF DL!CloseScratchPad
  <2>2. Len(pads) # 0
    BY <1>1, <2>1
  <2>3. /\ pads' \in Seq(Pad) /\ sizes # <<>> /\ sizes[Len(sizes)] = x
        /\ DL!SizesOf(pads') = SubSeq(sizes, 1, Len(sizes) - 1)
    BY <1>1, <2>1, <2>2, SizesRemove
  <2>4. x \in 0 .. usedScratchPadSize /\ AddUp(DL!SizesOf(pads'), usedScratchPadSize')
    <3> HIDE DEF x
    <3>1. AddUp(sizes, usedScratchPadSize)
      BY <1>1
    <3> HIDE DEF sizes
    <3> QED
      BY <1>1, <2>1, <2>3, <3>1, AddUpRemove
  <2> HIDE DEF x
  <2> QED
    BY <1>1, <1>2, <2>1, <2>3, <2>4 DEF BufInv
<1>8. CASE DL!Clear
  BY <1>2, <1>8, NoneAddUp, NoSizes DEF DL!Clear, BufInv
<1> QED
  BY <1>3, <1>4, <1>5, <1>6, <1>7, <1>8 DEF DL!Next

------------------------------------------------------------------------------
(* DataLoader                                                                *)

(* An entry of gLoadedData with its gUsedIndexes.                            *)
Load == [used : BOOLEAN, size : Nat]

(* How much of the buffer each load took.                                    *)
LoadSizes(ls) == [i \in DOMAIN ls |-> ls[i].size]

(* Every block is one of a load that is used, within the space of that load. *)
OfLoad(i, n, P) ==
  /\ i \in DL!BlocksOf(n) /\ loads[n].used
  /\ blocks[i].at \in Int /\ blocks[i].size \in Nat
  /\ Base + TableSize + P[n - 1] <= blocks[i].at
  /\ blocks[i].at + blocks[i].size <= Base + TableSize + P[n]

(* The sums of the loads' sizes stand behind the buffer's, and blocks are in the
   order of their indexes.                                                   *)
LoaderInv ==
  /\ usedScratchPadSize = 0 /\ pads = <<>>
  /\ loads \in Seq(Load) /\ Len(loads) <= MaxDataLoads
  /\ loads # <<>> => loads[Len(loads)].used
  /\ usedBufferSize \in Nat /\ usedBufferSize <= BufferSize
  /\ \E P : /\ Sums(P, LoadSizes(loads), Len(loads))
            /\ usedBufferSize = TableSize + P[Len(loads)]
            /\ \A i \in DOMAIN blocks : \E n \in 1 .. Len(loads) : OfLoad(i, n, P)
  /\ \A i, j \in DOMAIN blocks :
       j < i => blocks[j].at + blocks[j].size <= blocks[i].at

(* The assumptions on the constants, as the steps use them.                  *)
LEMMA LoaderConstants ==
  /\ Base \in Nat /\ BufferSize \in Nat /\ TableSize \in Nat /\ TableSize <= BufferSize
  /\ MaxDataLoads \in Nat /\ ShaderLoadSize \in Nat /\ \A v \in Variants : v \in Nat
BY BufferAssumption

(* The invariant has the types and the property.                             *)
LEMMA LoaderInvImplies == LoaderInv => DL!LoaderTypeOK /\ DL!AllocationsDisjoint
<1> SUFFICES ASSUME LoaderInv PROVE DL!LoaderTypeOK /\ DL!AllocationsDisjoint
  OBVIOUS
<1>1. /\ usedScratchPadSize = 0 /\ pads = <<>> /\ DOMAIN pads = {}
      /\ usedBufferSize \in Nat /\ usedBufferSize <= BufferSize
      /\ Len(loads) \in Nat
  BY DEF LoaderInv
<1>2. DL!LoaderTypeOK
  <2>1. usedBufferSize \in 0 .. BufferSize /\ usedScratchPadSize \in 0 .. BufferSize
    BY <1>1, LoaderConstants
  <2> QED
    BY <1>1, <2>1 DEF DL!LoaderTypeOK, DL!BufferTypeOK, LoaderInv
<1>3. usedScratchPadSize = DL!TotalOf(DL!SizesOf(pads))
  <2>1. PICK P : Sums(P, <<>>, 0) /\ P[0] = 0
    BY SumsOfNone
  <2>2. Len(<<>>) = 0 /\ 0 \in Nat
    OBVIOUS
  <2>3. DL!SizesOf(pads) = <<>>
    BY <1>1, NoSizes
  <2> QED
    BY <1>1, <2>1, <2>2, <2>3, TotalIs
<1>4. DL!FreeSpace >= 0
  BY <1>1, LoaderConstants DEF DL!FreeSpace
<1>5. ASSUME NEW i \in DOMAIN blocks
      PROVE  blocks[i].at >= Base /\ blocks[i].at + blocks[i].size <= Base + usedBufferSize
  <2> DEFINE m == Len(loads)
  <2>1. PICK P : /\ Sums(P, LoadSizes(loads), m) /\ usedBufferSize = TableSize + P[m]
                 /\ \A k \in DOMAIN blocks : \E n \in 1 .. m : OfLoad(k, n, P)
    BY DEF LoaderInv
  <2>2. PICK n \in 1 .. m : OfLoad(i, n, P)
    BY <2>1
  <2> HIDE DEF m
  <2>3. n \in 0 .. m /\ n - 1 \in 0 .. m /\ m \in 0 .. m /\ n <= m
    BY <1>1 DEF m
  <2>4. P[n - 1] \in Nat /\ P[n] \in Nat /\ P[m] \in Nat /\ P[n] <= P[m]
    BY <2>1, <2>3 DEF Sums
  <2> DEFINE x == blocks[i].at
             y == x + blocks[i].size
  <2>5. /\ x \in Int /\ y \in Int /\ Base + TableSize + P[n - 1] <= x
        /\ y <= Base + TableSize + P[n]
    BY <2>2 DEF OfLoad
  <2> HIDE DEF x, y
  <2>6. x >= Base /\ y <= Base + usedBufferSize
    BY <2>1, <2>4, <2>5, LoaderConstants
  <2> QED
    BY <2>6 DEF x, y
<1> QED
  BY <1>2, <1>3, <1>4, <1>5 DEF DL!AllocationsDisjoint, LoaderInv

(* Initialize's tables are all that is used at first.                        *)
LEMMA LoaderInit == DL!LoaderInit => LoaderInv
<1> SUFFICES ASSUME DL!LoaderInit PROVE LoaderInv
  OBVIOUS
<1>1. /\ usedBufferSize = TableSize /\ usedScratchPadSize = 0
      /\ pads = <<>> /\ blocks = <<>> /\ loads = <<>>
      /\ Len(loads) = 0 /\ DOMAIN blocks = {} /\ loads \in Seq(Load)
  BY DEF DL!LoaderInit
<1>2. PICK P : Sums(P, LoadSizes(loads), 0) /\ P[0] = 0
  BY SumsOfNone
<1>3. usedBufferSize = TableSize + P[Len(loads)]
  BY <1>1, <1>2, LoaderConstants
<1>4. \A i \in DOMAIN blocks : FALSE
  BY <1>1
<1>5. Sums(P, LoadSizes(loads), Len(loads))
  BY <1>1, <1>2
<1> QED
  BY <1>1, <1>3, <1>4, <1>5, LoaderConstants DEF LoaderInv

(* A shader's two blocks follow all that are there.                          *)
LEMMA LoaderLoad ==
  ASSUME LoaderInv, NEW v \in Variants, DL!LoadShader(v)
  PROVE  LoaderInv'
<1> PICK m \in Nat : m = Len(loads)
  BY DEF LoaderInv
<1> DEFINE at == Base + usedBufferSize
           size == ShaderLoadSize + v
           l == [used |-> TRUE, size |-> size]
           id == m + 1
<1>1. /\ usedScratchPadSize = 0 /\ pads = <<>> /\ loads \in Seq(Load) /\ m \in Nat
      /\ usedBufferSize \in Nat /\ DOMAIN loads = 1 .. m
  BY DEF LoaderInv
<1>2. v \in Nat /\ size \in Nat /\ l \in Load /\ l.used /\ l.size = size
  BY LoaderConstants DEF Load
<1>3. /\ m < MaxDataLoads /\ size <= DL!FreeSpace
      /\ usedBufferSize' = usedBufferSize + size /\ loads' = Append(loads, l)
      /\ DOMAIN blocks' = (DOMAIN blocks) \cup DL!BlocksOf(id)
      /\ \A i \in DOMAIN blocks' :
           blocks'[i] =
             IF i \notin DL!BlocksOf(id) THEN blocks[i]
             ELSE IF i = 2 * id THEN [at |-> at + ShaderLoadSize, size |-> v]
             ELSE [at |-> at, size |-> ShaderLoadSize]
      /\ usedScratchPadSize' = usedScratchPadSize /\ pads' = pads
  BY DEF DL!LoadShader
<1>4. PICK P : /\ Sums(P, LoadSizes(loads), m) /\ usedBufferSize = TableSize + P[m]
               /\ \A i \in DOMAIN blocks : \E n \in 1 .. m : OfLoad(i, n, P)
  BY DEF LoaderInv
<1> HIDE DEF l
<1>5. /\ loads' \in Seq(Load) /\ Len(loads') = id /\ DOMAIN loads' = 1 .. id
      /\ loads'[id] = l /\ \A n \in 1 .. m : loads'[n] = loads[n]
  BY <1>1, <1>2, <1>3
<1>6. LoadSizes(loads') = LoadSizes(loads)' /\ Extends(LoadSizes(loads'), LoadSizes(loads), m, size)
  <2>1. \A n \in 1 .. m : n \in DOMAIN loads /\ n \in DOMAIN loads'
    BY <1>1, <1>5
  <2>2. id \in DOMAIN loads'
    BY <1>1, <1>5
  <2> QED
    BY <1>2, <1>5, <2>1, <2>2 DEF LoadSizes, Extends
<1>7. PICK Q : /\ Sums(Q, LoadSizes(loads'), id) /\ Q[id] = P[m] + size
               /\ \A n \in 0 .. m : Q[n] = P[n]
  <2>1. m \in Nat /\ size \in Nat /\ Sums(P, LoadSizes(loads), m)
    BY <1>1, <1>2, <1>4
  <2> HIDE DEF size
  <2> QED
    BY <1>6, <2>1, SumsExtend
<1>8. /\ id \in 1 .. id /\ id - 1 = m /\ m \in 0 .. m
      /\ \A n \in 1 .. m : n \in 1 .. id /\ n \in 0 .. m /\ n - 1 \in 0 .. m
  BY <1>1
<1>9. P[m] \in Nat
  BY <1>4, <1>8 DEF Sums
<1>10. usedBufferSize' = TableSize + Q[id] /\ usedBufferSize' \in Nat
       /\ usedBufferSize' <= BufferSize
  <2>1. size <= BufferSize - (usedBufferSize + 0)
    BY <1>1, <1>3 DEF DL!FreeSpace
  <2> DEFINE p == P[m]
             q == Q[id]
  <2>2. /\ p \in Nat /\ q = p + size /\ usedBufferSize = TableSize + p
        /\ usedBufferSize' = usedBufferSize + size /\ size \in Nat
    BY <1>2, <1>3, <1>4, <1>7, <1>9
  <2> HIDE DEF size, p, q, id
  <2>3. /\ usedBufferSize' = TableSize + q /\ usedBufferSize' \in Nat
        /\ usedBufferSize' <= BufferSize
    BY <1>1, <2>1, <2>2, LoaderConstants
  <2> QED
    BY <2>3 DEF q
<1>11. \A i \in DOMAIN blocks : i \in Int /\ i < 2 * id - 1 /\ i \notin DL!BlocksOf(id)
  <2> TAKE i \in DOMAIN blocks
  <2>1. PICK n \in 1 .. m : OfLoad(i, n, P)
    BY <1>4
  <2>2. (i = 2 * n - 1 \/ i = 2 * n) /\ n \in Int /\ n <= m
    BY <1>1, <2>1 DEF OfLoad, DL!BlocksOf
  <2> QED
    BY <1>1, <2>2 DEF DL!BlocksOf
<1>12. \A i \in DOMAIN blocks : i \in DOMAIN blocks' /\ blocks'[i] = blocks[i]
  BY <1>3, <1>11
<1> DEFINE a == 2 * id - 1
           b == 2 * id
<1>13. /\ a \in DOMAIN blocks' /\ b \in DOMAIN blocks' /\ a # b
       /\ blocks'[a] = [at |-> at, size |-> ShaderLoadSize]
       /\ blocks'[b] = [at |-> at + ShaderLoadSize, size |-> v]
       /\ \A i \in DOMAIN blocks' : i \in DOMAIN blocks \/ i = a \/ i = b
       /\ a \in DL!BlocksOf(id) /\ b \in DL!BlocksOf(id) /\ a < b /\ a \in Int /\ b \in Int
  <2>1. a \in Int /\ b \in Int /\ a < b
    BY <1>1
  <2>2. DL!BlocksOf(id) = {a, b}
    BY DEF DL!BlocksOf
  <2> HIDE DEF a, id
  <2> QED
    BY <1>3, <2>1, <2>2
<1> HIDE DEF a, b
<1>14. /\ blocks'[a].at = at /\ blocks'[a].size = ShaderLoadSize
       /\ blocks'[b].at = at + ShaderLoadSize /\ blocks'[b].size = v
  BY <1>13
<1>15. at \in Int /\ at = Base + TableSize + P[m] /\ at + size = Base + TableSize + Q[id]
  BY <1>1, <1>2, <1>4, <1>7, <1>9, LoaderConstants
<1>16. \A i \in DOMAIN blocks' : \E n \in 1 .. Len(loads') : OfLoad(i, n, Q)'
  <2> TAKE i \in DOMAIN blocks'
  <2>1. CASE i \in DOMAIN blocks
    <3>1. PICK n \in 1 .. m : OfLoad(i, n, P)
      BY <1>4, <2>1
    <3>2. Q[n] = P[n] /\ Q[n - 1] = P[n - 1] /\ n \in 1 .. id
      BY <1>7, <1>8
    <3>3. OfLoad(i, n, Q)'
      BY <1>5, <1>12, <2>1, <3>1, <3>2 DEF OfLoad
    <3> QED
      BY <1>5, <3>2, <3>3
  <2>2. CASE i = a \/ i = b
    <3>1. loads'[id].used /\ i \in DL!BlocksOf(id) /\ Q[id - 1] = P[m]
      BY <1>2, <1>5, <1>7, <1>8, <1>13, <2>2
    <3>2. /\ blocks'[i].at \in Int /\ blocks'[i].size \in Nat
          /\ Base + TableSize + Q[id - 1] <= blocks'[i].at
          /\ blocks'[i].at + blocks'[i].size <= Base + TableSize + Q[id]
      <4> DEFINE x == blocks'[i].at
                 y == blocks'[i].size
                 z == Base + TableSize + Q[id]
                 w == Base + TableSize + Q[id - 1]
      <4>1. w = at /\ z = at + (ShaderLoadSize + v)
        BY <1>15, <3>1
      <4>2. \/ x = at /\ y = ShaderLoadSize
            \/ x = at + ShaderLoadSize /\ y = v
        BY <1>14, <2>2
      <4> HIDE DEF x, y, z, w, at
      <4>3. x \in Int /\ y \in Nat /\ w <= x /\ x + y <= z
        BY <1>2, <1>15, <4>1, <4>2, LoaderConstants
      <4> QED
        BY <4>3 DEF x, y, z, w
    <3>3. OfLoad(i, id, Q)'
      BY <3>1, <3>2 DEF OfLoad
    <3> QED
      BY <1>5, <1>8, <3>3
  <2> QED
    BY <1>13, <2>1, <2>2
<1>17. \A i \in DOMAIN blocks :
         blocks[i].at + blocks[i].size \in Int /\ blocks[i].at + blocks[i].size <= at
  <2> TAKE i \in DOMAIN blocks
  <2>1. PICK n \in 1 .. m : OfLoad(i, n, P)
    BY <1>4
  <2>2. P[n] \in Nat /\ P[n] <= P[m]
    <3>1. n \in 0 .. m /\ n <= m
      BY <1>1
    <3> QED
      BY <1>4, <1>8, <3>1 DEF Sums
  <2> DEFINE x == blocks[i].at + blocks[i].size
  <2>3. x \in Int /\ x <= Base + TableSize + P[n]
    BY <2>1 DEF OfLoad
  <2> HIDE DEF x, at
  <2>4. x <= at
    BY <1>9, <1>15, <2>2, <2>3, LoaderConstants
  <2> QED
    BY <2>3, <2>4 DEF x
<1>18. ASSUME NEW i \in DOMAIN blocks', NEW j \in DOMAIN blocks', j < i
       PROVE  blocks'[j].at + blocks'[j].size <= blocks'[i].at
  <2>1. CASE i \in DOMAIN blocks
    <3>1. j \in DOMAIN blocks
      BY <1>11, <1>13, <1>18, <2>1 DEF a, b
    <3> QED
      BY <1>12, <1>18, <2>1, <3>1 DEF LoaderInv
  <2>2. CASE i \notin DOMAIN blocks /\ j \in DOMAIN blocks
    <3> DEFINE x == blocks[j].at + blocks[j].size
    <3>1. x \in Int /\ x <= at /\ blocks'[j] = blocks[j]
      BY <1>12, <1>17, <2>2
    <3>2. blocks'[i].at = at \/ blocks'[i].at = at + ShaderLoadSize
      BY <1>13, <1>14, <2>2
    <3> HIDE DEF x, at
    <3>3. x <= blocks'[i].at
      BY <1>15, <3>1, <3>2, LoaderConstants
    <3> QED
      BY <3>1, <3>3 DEF x
  <2>3. CASE i \notin DOMAIN blocks /\ j \notin DOMAIN blocks
    <3>1. j = a /\ i = b
      BY <1>13, <1>18, <2>3
    <3> HIDE DEF at
    <3> QED
      BY <1>14, <1>15, <3>1, LoaderConstants
  <2> QED
    BY <2>1, <2>2, <2>3
<1>19. loads' # <<>> => loads'[Len(loads')].used
  BY <1>2, <1>5
<1>20. Len(loads') <= MaxDataLoads
  BY <1>1, <1>3, <1>5, LoaderConstants
<1>21. Sums(Q, LoadSizes(loads)', Len(loads')) /\ usedBufferSize' = TableSize + Q[Len(loads')]
  BY <1>5, <1>6, <1>7, <1>10
<1>22. usedScratchPadSize' = 0 /\ pads' = <<>>
  BY <1>1, <1>3
<1> QED
  BY <1>5, <1>10, <1>16, <1>18, <1>19, <1>20, <1>21, <1>22 DEF LoaderInv

(* What is released at the top goes with its space, and no block that stays is
   of a load that goes.                                                      *)
LEMMA LoaderRelease ==
  ASSUME LoaderInv, NEW id \in DOMAIN loads, DL!ReleaseLoadedData(id)
  PROVE  LoaderInv'
<1> DEFINE m == Len(loads)
           released == [loads EXCEPT ![id].used = FALSE]
           kept == DL!Kept(released)
           freed == [i \in 1 .. m - kept |-> loads[kept + i].size]
<1>1. /\ usedScratchPadSize = 0 /\ pads = <<>> /\ loads \in Seq(Load) /\ m \in Nat
      /\ usedBufferSize \in Nat /\ usedBufferSize <= BufferSize
      /\ DOMAIN loads = 1 .. m /\ m <= MaxDataLoads
      /\ \A n \in 1 .. m : loads[n] \in Load
  BY DEF LoaderInv
<1>2. /\ loads' = SubSeq(released, 1, kept)
      /\ usedBufferSize' = usedBufferSize - DL!TotalOf(freed)
      /\ DOMAIN blocks' = (DOMAIN blocks) \ DL!BlocksOf(id)
      /\ \A i \in DOMAIN blocks' : blocks'[i] = blocks[i]
      /\ usedScratchPadSize' = usedScratchPadSize /\ pads' = pads
  BY DEF DL!ReleaseLoadedData
<1>3. PICK P : /\ Sums(P, LoadSizes(loads), m) /\ usedBufferSize = TableSize + P[m]
               /\ \A i \in DOMAIN blocks : \E n \in 1 .. m : OfLoad(i, n, P)
  BY DEF LoaderInv
<1>4. /\ released \in Seq(Load) /\ Len(released) = m /\ DOMAIN released = 1 .. m
      /\ \A n \in 1 .. m : /\ released[n].size = loads[n].size
                           /\ n # id => released[n] = loads[n]
                           /\ released[n] \in Load
  <2>1. DOMAIN released = 1 .. m
    BY <1>1
  <2>2. \A n \in 1 .. m : /\ released[n].size = loads[n].size
                          /\ n # id => released[n] = loads[n]
                          /\ released[n] \in Load
    <3> TAKE n \in 1 .. m
    <3>1. loads[n] \in Load
      BY <1>1
    <3>2. CASE n = id
      <4>1. released[n] = [loads[n] EXCEPT !.used = FALSE]
        BY <1>1, <3>2
      <4> QED
        BY <3>1, <3>2, <4>1 DEF Load
    <3>3. CASE n # id
      BY <1>1, <3>1, <3>3
    <3> QED
      BY <3>2, <3>3
  <2> HIDE DEF released
  <2>3. released \in Seq(Load) /\ Len(released) = m
    <3>1. released \in [1 .. m -> Load]
      <4>1. released = [n \in 1 .. m |-> released[n]]
        BY <2>1 DEF released
      <4> QED
        BY <2>2, <4>1
    <3> HIDE DEF m
    <3> QED
      BY <1>1, <3>1
  <2> QED
    BY <2>1, <2>2, <2>3
<1> HIDE DEF released, m
<1>5. /\ kept \in 0 .. m
      /\ kept # 0 => released[kept].used
      /\ \A n \in 1 .. m : released[n].used => n <= kept
  <2> DEFINE B == {0} \cup {n \in DOMAIN released : released[n].used}
  <2>1. B \in SUBSET (0 .. m) /\ B # {}
    BY <1>1, <1>4
  <2>2. kept = DL!Max(B)
    BY DEF DL!Kept
  <2>3. kept \in B /\ \A k \in B : k <= kept
    <3> HIDE DEF B, kept
    <3> QED
      BY <1>1, <2>1, <2>2, Largest
  <2> HIDE DEF kept
  <2> QED
    BY <1>4, <2>1, <2>3
<1> HIDE DEF kept
<1>6. /\ loads' \in Seq(Load) /\ Len(loads') = kept /\ DOMAIN loads' = 1 .. kept
      /\ \A n \in 1 .. kept : loads'[n] = released[n] /\ n \in 1 .. m
  <2>1. kept \in Nat /\ kept <= m
    BY <1>1, <1>5
  <2> QED
    BY <1>2, <1>4, <2>1
<1>7. /\ LoadSizes(loads') = LoadSizes(loads)'
      /\ SamePrefix(LoadSizes(loads'), LoadSizes(loads), kept)
  BY <1>1, <1>4, <1>6 DEF LoadSizes, SamePrefix
<1>8. PICK Q : Sums(Q, LoadSizes(loads'), kept) /\ \A n \in 0 .. kept : Q[n] = P[n]
  BY <1>1, <1>3, <1>5, <1>7, SumsShrink
<1>9. DL!TotalOf(freed) = P[m] - P[kept] /\ P[m] \in Nat /\ P[kept] \in Nat /\ P[kept] <= P[m]
  <2>1. m - kept \in Nat /\ m \in 0 .. m /\ kept <= m
    BY <1>1, <1>5
  <2>2. Follow(freed, LoadSizes(loads), kept, m)
    <3> SUFFICES \A i \in 1 .. m - kept : freed[i] = LoadSizes(loads)[kept + i]
      BY DEF Follow
    <3> TAKE i \in 1 .. m - kept
    <3>1. kept + i \in DOMAIN loads
      BY <1>1, <1>5
    <3> QED
      BY <3>1 DEF LoadSizes
  <2>3. DOMAIN freed = 1 .. m - kept
    OBVIOUS
  <2> HIDE DEF freed
  <2>4. PICK R : Sums(R, freed, m - kept) /\ R[m - kept] = P[m] - P[kept]
    BY <1>1, <1>3, <1>5, <2>2, SumsDrop
  <2>5. Len(freed) = m - kept
    BY <2>1, <2>3
  <2>6. DL!TotalOf(freed) = R[m - kept]
    BY <2>1, <2>4, <2>5, TotalIs
  <2> QED
    BY <1>3, <1>5, <2>1, <2>4, <2>6 DEF Sums
<1>10. /\ usedBufferSize' = TableSize + Q[kept] /\ usedBufferSize' \in Nat
       /\ usedBufferSize' <= BufferSize
  <2>1. Q[kept] = P[kept]
    BY <1>5, <1>8
  <2> DEFINE p == P[m]
             q == P[kept]
             t == DL!TotalOf(freed)
  <2>2. /\ p \in Nat /\ q \in Nat /\ q <= p /\ t = p - q
        /\ usedBufferSize = TableSize + p /\ usedBufferSize' = usedBufferSize - t
    BY <1>2, <1>3, <1>9
  <2> HIDE DEF p, q, t
  <2>3. /\ usedBufferSize' = TableSize + q /\ usedBufferSize' \in Nat
        /\ usedBufferSize' <= BufferSize
    BY <1>1, <2>2, LoaderConstants
  <2> QED
    BY <2>1, <2>3 DEF q
<1>11. ASSUME NEW i \in DOMAIN blocks' PROVE \E n \in 1 .. Len(loads') : OfLoad(i, n, Q)'
  <2>1. i \in DOMAIN blocks /\ i \notin DL!BlocksOf(id) /\ blocks'[i] = blocks[i]
    BY <1>2
  <2>2. PICK n \in 1 .. m : OfLoad(i, n, P)
    BY <1>3, <2>1
  <2>3. n # id /\ released[n].used
    BY <1>4, <2>1, <2>2 DEF OfLoad
  <2>4. n \in 1 .. kept /\ n \in 0 .. kept /\ n - 1 \in 0 .. kept
    BY <1>1, <1>5, <2>3
  <2>5. loads'[n].used /\ Q[n] = P[n] /\ Q[n - 1] = P[n - 1]
    BY <1>6, <1>8, <2>3, <2>4
  <2>6. OfLoad(i, n, Q)'
    BY <2>1, <2>2, <2>5 DEF OfLoad
  <2> QED
    BY <1>6, <2>4, <2>6
<1>12. \A i, j \in DOMAIN blocks' :
         j < i => blocks'[j].at + blocks'[j].size <= blocks'[i].at
  BY <1>2 DEF LoaderInv
<1>13. loads' # <<>> => loads'[Len(loads')].used
  <2> SUFFICES ASSUME loads' # <<>> PROVE loads'[Len(loads')].used
    OBVIOUS
  <2>1. kept # 0
    BY <1>6
  <2>2. kept \in 1 .. kept
    BY <1>5, <2>1
  <2> QED
    BY <1>5, <1>6, <2>1, <2>2
<1>14. Len(loads') <= MaxDataLoads
  BY <1>1, <1>5, <1>6, LoaderConstants
<1>15. Sums(Q, LoadSizes(loads)', Len(loads')) /\ usedBufferSize' = TableSize + Q[Len(loads')]
  BY <1>6, <1>7, <1>8, <1>10
<1>16. usedScratchPadSize' = 0 /\ pads' = <<>>
  BY <1>1, <1>2
<1> QED
  BY <1>6, <1>10, <1>11, <1>12, <1>13, <1>14, <1>15, <1>16 DEF LoaderInv

(* Loads and releases keep the invariant.                                    *)
LEMMA LoaderNext == LoaderInv /\ DL!LoaderNext => LoaderInv'
BY LoaderLoad, LoaderRelease DEF DL!LoaderNext

------------------------------------------------------------------------------
(* RefPointer                                                                *)

(* What the counts would be without h.                                       *)
Others(h, p, k) == RP!Open(p, k) \ {h}

(* The counts are inductive with the types.                                  *)
RefInv == RP!RefTypeOK /\ RP!RefCountsMatch

(* Sets of handles are finite and can be counted.                            *)
LEMMA HandlesFinite ==
  \A S \in SUBSET RP!Handles :
    /\ IsFiniteSet(S) /\ Cardinality(S) \in 0 .. CountMod - 1
    /\ (Cardinality(S) = 0 <=> S = {})
    /\ \A h \in RP!Handles \ S : Cardinality(S \cup {h}) = Cardinality(S) + 1
<1> TAKE S \in SUBSET RP!Handles
<1>1. IsFiniteSet(S) /\ Cardinality(S) <= Cardinality(RP!Handles) /\ Cardinality(S) \in Nat
  BY FS_Subset, FS_CardinalityType, RefAssumption
<1>2. Cardinality(RP!Handles) \in Nat
  BY FS_CardinalityType, RefAssumption
<1>3. Cardinality(S) \in 0 .. CountMod - 1
  BY <1>1, <1>2, RefAssumption
<1> QED
  BY <1>1, <1>3, FS_EmptySet, FS_AddElement

(* Every handle has a kind, and ReadWriteHandles are all of one.             *)
LEMMA KindType ==
  /\ \A h \in RP!Handles : RP!HandleKind(h) \in RP!Kinds
  /\ \A h \in ReadWriteHandles : h \in RP!Handles /\ RP!HandleKind(h) = "readWrite"
  /\ \A p, k : RP!Open(p, k) \subseteq RP!Handles
BY RefAssumption DEF RP!Handles, RP!HandleKind, RP!Kinds, RP!Open

(* RefCountsMatch for one pointer and kind, where the count has not wrapped. *)
LEMMA CountsByHandles ==
  ASSUME RefInv, NEW p \in Pointers, NEW k \in RP!Kinds
  PROVE  refs[p][k] = Cardinality(RP!Open(p, k)) /\ p # Null
BY RefAssumption DEF RefInv, RP!RefCountsMatch, Cardinality, RP!Cardinality

(* Released takes h away from the counts.                                    *)
LEMMA ReleasedCounts ==
  ASSUME RefInv, NEW h \in RP!Handles
  PROVE  /\ RP!Released(h) \in [Pointers -> [RP!Kinds -> 0 .. CountMod - 1]]
         /\ \A p \in Pointers, k \in RP!Kinds :
              RP!Released(h)[p][k] = Cardinality(Others(h, p, k))
<1> DEFINE q == handle[h].to
           K == RP!HandleKind(h)
<1>1. K \in RP!Kinds /\ q \in Pointers \cup {Null} /\ CountMod \in Nat
  BY KindType, RefAssumption DEF RefInv, RP!RefTypeOK
<1>2. refs \in [Pointers -> [RP!Kinds -> 0 .. CountMod - 1]]
  BY DEF RefInv, RP!RefTypeOK
<1>3. \A p, k : h \in RP!Open(p, k) <=> p = q /\ k = K
  BY DEF RP!Open
<1>4. \A p, k : ~(p = q /\ k = K) => Others(h, p, k) = RP!Open(p, k)
  BY <1>3 DEF Others
<1>5. CASE q = Null
  <2>1. RP!Released(h) = refs
    BY <1>5 DEF RP!Released, RP!Dec
  <2>2. \A p \in Pointers, k \in RP!Kinds : Others(h, p, k) = RP!Open(p, k)
    BY <1>4, <1>5, RefAssumption
  <2> QED
    BY <2>1, <2>2, <1>2, CountsByHandles
<1>6. CASE q # Null
  <2> DEFINE c == refs[q][K]
  <2>1. q \in Pointers /\ RP!Released(h) = [refs EXCEPT ![q][K] = (c - 1) % CountMod]
    BY <1>1, <1>6 DEF RP!Released, RP!Dec
  <2>2. Others(h, q, K) \subseteq RP!Handles /\ h \in RP!Handles \ Others(h, q, K)
    BY KindType DEF Others
  <2>3. RP!Open(q, K) = Others(h, q, K) \cup {h}
    BY <1>3 DEF Others
  <2>4. c = Cardinality(Others(h, q, K)) + 1
    BY <2>1, <2>2, <2>3, <1>1, HandlesFinite, CountsByHandles
  <2>5. Cardinality(Others(h, q, K)) \in 0 .. CountMod - 1
    BY <2>2, HandlesFinite
  <2> HIDE DEF q, K, c
  <2>6. (c - 1) % CountMod = Cardinality(Others(h, q, K))
    <3> DEFINE n == Cardinality(Others(h, q, K))
    <3>1. n \in 0 .. CountMod - 1 /\ c - 1 = n
      BY <2>4, <2>5
    <3> HIDE DEF n
    <3>2. n % CountMod = n
      BY <3>1, <1>1
    <3> QED
      BY <3>1, <3>2 DEF n
  <2>7. RP!Released(h) \in [Pointers -> [RP!Kinds -> 0 .. CountMod - 1]]
    BY <2>1, <2>5, <2>6, <1>1, <1>2
  <2>8. ASSUME NEW p \in Pointers, NEW k \in RP!Kinds
        PROVE  RP!Released(h)[p][k] = Cardinality(Others(h, p, k))
    <3>1. CASE p = q /\ k = K
      BY <3>1, <2>1, <2>6, <1>2
    <3>2. CASE ~(p = q /\ k = K)
      <4>1. RP!Released(h)[p][k] = refs[p][k]
        BY <3>2, <2>1, <1>1, <1>2
      <4> QED
        BY <3>2, <4>1, <1>4, CountsByHandles
    <3> QED
      BY <3>1, <3>2
  <2> QED
    BY <2>7, <2>8
<1> QED
  BY <1>5, <1>6

(* One handle is given another value and counted again.                      *)
LEMMA Rehandle ==
  ASSUME RefInv, NEW h \in RP!Handles,
         NEW v \in [to : Pointers \cup {Null}, at : Objects \cup {Null}],
         v.at = IF v.to = Null THEN Null ELSE target[v.to],
         v.to # Null =>
           \A j \in RP!Excludes(RP!HandleKind(h)) : RP!Released(h)[v.to][j] = 0,
         refs' = RP!Inc(RP!Released(h), v.to, RP!HandleKind(h)),
         handle' = [handle EXCEPT ![h] = v], target' = target
  PROVE  RefInv'
<1> DEFINE K == RP!HandleKind(h)
           R == RP!Released(h)
<1>1. K \in RP!Kinds /\ CountMod \in Nat
  BY KindType, RefAssumption
<1>2. R \in [Pointers -> [RP!Kinds -> 0 .. CountMod - 1]]
  BY ReleasedCounts
<1>3. \A p \in Pointers, k \in RP!Kinds : R[p][k] = Cardinality(Others(h, p, k))
  BY ReleasedCounts
<1>4. handle' \in [RP!Handles -> [to : Pointers \cup {Null}, at : Objects \cup {Null}]]
  BY DEF RefInv, RP!RefTypeOK
<1>5. \A g \in RP!Handles : handle'[g] = IF g = h THEN v ELSE handle[g]
  BY DEF RefInv, RP!RefTypeOK
<1>6. \A p, k : RP!Open(p, k)' = IF p = v.to /\ k = K THEN Others(h, p, k) \cup {h}
                                 ELSE Others(h, p, k)
  BY <1>5 DEF RP!Open, Others, RP!HandleKind
<1>7. \A p, k : Others(h, p, k) \subseteq RP!Handles /\ h \notin Others(h, p, k)
  BY KindType DEF Others
<1> HIDE DEF K, R
<1>8. ASSUME NEW p \in Pointers, NEW k \in RP!Kinds
      PROVE  /\ refs'[p][k] = Cardinality(RP!Open(p, k)')
             /\ refs'[p][k] \in 0 .. CountMod - 1
  <2>1. CASE p = v.to /\ k = K
    <3>1. v.to # Null /\ refs' = [R EXCEPT ![p][k] = (R[p][k] + 1) % CountMod]
      BY <2>1, RefAssumption DEF RP!Inc, R, K
    <3>2. refs'[p][k] = (R[p][k] + 1) % CountMod
      BY <3>1, <1>2
    <3>3. Cardinality(RP!Open(p, k)') = R[p][k] + 1
      BY <2>1, <1>3, <1>6, <1>7, HandlesFinite
    <3>4. RP!Open(p, k)' \subseteq RP!Handles
      BY <1>6, <1>7
    <3>5. R[p][k] + 1 \in 0 .. CountMod - 1
      BY <3>3, <3>4, HandlesFinite
    <3>6. (R[p][k] + 1) % CountMod = R[p][k] + 1
      <4> DEFINE n == R[p][k] + 1
      <4>1. n \in 0 .. CountMod - 1
        BY <3>5
      <4> HIDE DEF n
      <4>2. n % CountMod = n
        BY <4>1, <1>1
      <4> QED
        BY <4>2 DEF n
    <3> QED
      BY <3>2, <3>3, <3>5, <3>6
  <2>2. CASE ~(p = v.to /\ k = K)
    <3>1. refs'[p][k] = R[p][k]
      BY <2>2, <1>1, <1>2 DEF RP!Inc, R, K
    <3> QED
      BY <2>2, <3>1, <1>2, <1>3, <1>6
  <2> QED
    BY <2>1, <2>2
<1>9. refs' \in [Pointers -> [RP!Kinds -> 0 .. CountMod - 1]]
  <2>1. CASE v.to = Null
    BY <2>1, <1>2 DEF RP!Inc, R
  <2>2. CASE v.to # Null
    <3>1. v.to \in Pointers /\ refs' = [R EXCEPT ![v.to][K] = (R[v.to][K] + 1) % CountMod]
      BY <2>2 DEF RP!Inc, R, K
    <3>2. refs'[v.to][K] = (R[v.to][K] + 1) % CountMod
      BY <3>1, <1>1, <1>2
    <3>3. (R[v.to][K] + 1) % CountMod \in 0 .. CountMod - 1
      BY <3>1, <3>2, <1>1, <1>8
    <3> QED
      BY <3>1, <3>3, <1>1, <1>2
  <2> QED
    BY <2>1, <2>2
<1>10. RP!RefTypeOK'
  BY <1>4, <1>9 DEF RefInv, RP!RefTypeOK, RP!Handles, RP!Kinds
<1>11. v.to # Null => \A j \in RP!Excludes(K) \cap RP!Kinds : Others(h, v.to, j) = {}
  BY <1>3, <1>7, HandlesFinite DEF K, R
<1>12. ASSUME NEW p \in Pointers, NEW k \in RP!Kinds, RP!Open(p, k)' # {},
              NEW j \in RP!Kinds \ {k}
       PROVE  RP!Open(p, j)' = {}
  <2>1. CASE p = v.to
    <3>1. p # Null /\ \A i \in RP!Kinds \ {K} : Others(h, p, i) = {}
      BY <2>1, <1>11, RefAssumption DEF RP!Excludes
    <3>2. \A i \in RP!Kinds \ {K} : RP!Open(p, i)' = {}
      BY <3>1, <1>6
    <3>3. k = K /\ j \in RP!Kinds \ {K}
      BY <3>2, <1>12
    <3> QED
      BY <3>2, <3>3
  <2>2. CASE p # v.to
    <3>1. Others(h, p, k) # {} /\ RP!Open(p, j)' = Others(h, p, j)
      BY <2>2, <1>6, <1>12
    <3>2. RP!Open(p, k) # {}
      BY <3>1 DEF Others
    <3>3. RP!Open(p, j) = {}
      BY <3>2 DEF RefInv, RP!RefCountsMatch
    <3> QED
      BY <3>1, <3>3 DEF Others
  <2> QED
    BY <2>1, <2>2
<1>13. ASSUME NEW p \in Pointers PROVE Cardinality(RP!Open(p, "readWrite")') <= 1
  <2>1. CASE p = v.to /\ "readWrite" = K
    <3>1. Others(h, p, "readWrite") = {}
      BY <2>1, <1>1, <1>11, RefAssumption DEF RP!Excludes
    <3>2. RP!Open(p, "readWrite")' = {h}
      BY <2>1, <3>1, <1>6
    <3>3. Cardinality({h}) = 1
      BY FS_Singleton
    <3> QED
      BY <3>2, <3>3
  <2>2. CASE ~(p = v.to /\ "readWrite" = K)
    <3>1. RP!Open(p, "readWrite")' = Others(h, p, "readWrite")
      BY <2>2, <1>6
    <3>2. /\ IsFiniteSet(RP!Open(p, "readWrite"))
          /\ Others(h, p, "readWrite") \subseteq RP!Open(p, "readWrite")
      BY KindType, HandlesFinite DEF Others
    <3>3. Cardinality(RP!Open(p, "readWrite")) <= 1
      BY DEF RefInv, RP!RefCountsMatch, Cardinality, RP!Cardinality
    <3>4. /\ Cardinality(Others(h, p, "readWrite")) <= Cardinality(RP!Open(p, "readWrite"))
          /\ Cardinality(Others(h, p, "readWrite")) \in Nat
          /\ Cardinality(RP!Open(p, "readWrite")) \in Nat
      BY <3>2, FS_Subset, FS_CardinalityType
    <3> QED
      BY <3>1, <3>3, <3>4
  <2> QED
    BY <2>1, <2>2
<1>14. ASSUME NEW g \in RP!Handles
       PROVE  handle'[g].at = IF handle'[g].to = Null THEN Null ELSE target'[handle'[g].to]
  BY <1>5 DEF RefInv, RP!RefCountsMatch
<1>15. RP!RefCountsMatch'
  <2>1. \A p \in Pointers, k \in RP!Kinds : refs'[p][k] = RP!Cardinality(RP!Open(p, k)')
    BY <1>8 DEF Cardinality, RP!Cardinality
  <2>2. \A p \in Pointers : RP!Cardinality(RP!Open(p, "readWrite")') <= 1
    BY <1>13 DEF Cardinality, RP!Cardinality
  <2> QED
    BY <2>1, <2>2, <1>12, <1>14 DEF RP!RefCountsMatch, RP!Handles, RP!Kinds
<1> QED
  BY <1>10, <1>15 DEF RefInv

(* A handle that reads and writes is moved: it takes the other's place.      *)
LEMMA RefMove ==
  ASSUME RefInv, NEW h \in RP!Handles, NEW other \in RP!Handles, RP!Move(h, other)
  PROVE  RefInv'
<1>1. /\ h \in ReadWriteHandles /\ other \in ReadWriteHandles /\ target' = target
      /\ RP!HandleKind(h) = "readWrite" /\ RP!HandleKind(other) = "readWrite"
  BY KindType DEF RP!Move
<1>2. CASE h = other
  <2>1. handle' = [handle EXCEPT ![h] = RP!Closed] /\ refs' = RP!Released(h)
    BY <1>2 DEF RP!Move, RefInv, RP!RefTypeOK
  <2>2. RP!Closed \in [to : Pointers \cup {Null}, at : Objects \cup {Null}] /\ RP!Closed.to = Null
    BY DEF RP!Closed
  <2>3. refs' = RP!Inc(RP!Released(h), RP!Closed.to, RP!HandleKind(h)) /\ RP!Closed.at = Null
    BY <2>1 DEF RP!Inc, RP!Closed
  <2> QED
    BY <1>1, <2>1, <2>2, <2>3, Rehandle
<1>3. CASE h # other
  <2>1. /\ refs' = RP!Released(h)
        /\ handle' = [handle EXCEPT ![h] = handle[other], ![other] = RP!Closed]
    BY <1>3 DEF RP!Move
  <2>2. \A g \in RP!Handles : handle'[g] = IF g = other THEN RP!Closed
                                           ELSE IF g = h THEN handle[other] ELSE handle[g]
    BY <1>3, <2>1 DEF RefInv, RP!RefTypeOK
  <2>3. \A p \in Pointers : \A k \in RP!Kinds :
          /\ k # "readWrite" => RP!Open(p, k)' = RP!Open(p, k) /\ Others(h, p, k) = RP!Open(p, k)
          /\ other \notin RP!Open(p, k) => RP!Open(p, k)' = Others(h, p, k)
          /\ other \in RP!Open(p, k) =>
               RP!Open(p, k)' = (Others(h, p, k) \ {other}) \cup {h}
    BY <1>1, <1>3, <2>2, RefAssumption DEF RP!Open, RP!HandleKind, RP!Closed, Others
  <2>4. ASSUME NEW p \in Pointers, NEW k \in RP!Kinds
        PROVE  refs'[p][k] = Cardinality(RP!Open(p, k)')
    <3>1. refs'[p][k] = Cardinality(Others(h, p, k))
      BY <2>1, ReleasedCounts
    <3>2. CASE other \notin RP!Open(p, k)
      BY <3>1, <3>2, <2>3
    <3>3. CASE other \in RP!Open(p, k)
      <4> DEFINE S == Others(h, p, k) \ {other}
      <4>1. S \subseteq RP!Handles /\ h \in RP!Handles \ S /\ other \in RP!Handles \ S
        BY KindType DEF Others
      <4>2. Others(h, p, k) = S \cup {other} /\ RP!Open(p, k)' = S \cup {h}
        BY <1>3, <2>3, <3>3 DEF Others
      <4> HIDE DEF S
      <4>3. /\ Cardinality(S \cup {other}) = Cardinality(S) + 1
            /\ Cardinality(S \cup {h}) = Cardinality(S) + 1
        BY <4>1, HandlesFinite
      <4> QED
        BY <3>1, <4>2, <4>3
    <3> QED
      BY <3>2, <3>3
  <2>5. RP!RefTypeOK'
    <3>1. refs' \in [Pointers -> [RP!Kinds -> 0 .. CountMod - 1]]
      BY <2>1, ReleasedCounts
    <3>2. handle' \in [RP!Handles -> [to : Pointers \cup {Null}, at : Objects \cup {Null}]]
      BY <2>1 DEF RefInv, RP!RefTypeOK, RP!Closed
    <3> QED
      BY <1>1, <3>1, <3>2 DEF RefInv, RP!RefTypeOK, RP!Handles, RP!Kinds
  <2>6. ASSUME NEW p \in Pointers, NEW k \in RP!Kinds, RP!Open(p, k)' # {},
               NEW j \in RP!Kinds \ {k}
        PROVE  RP!Open(p, j)' = {}
    <3>1. \A i \in RP!Kinds : RP!Open(p, i) = {} => RP!Open(p, i)' = {}
      BY <2>3 DEF Others
    <3>2. RP!Open(p, k) # {}
      BY <2>6, <3>1
    <3>3. RP!Open(p, j) = {}
      BY <3>2 DEF RefInv, RP!RefCountsMatch
    <3> QED
      BY <3>1, <3>3
  <2>7. ASSUME NEW p \in Pointers PROVE Cardinality(RP!Open(p, "readWrite")') <= 1
    <3>1. "readWrite" \in RP!Kinds
      BY DEF RP!Kinds
    <3>2. /\ refs'[p]["readWrite"] = Cardinality(Others(h, p, "readWrite"))
          /\ refs[p]["readWrite"] = Cardinality(RP!Open(p, "readWrite"))
      BY <2>1, <3>1, ReleasedCounts, CountsByHandles
    <3>3. Cardinality(RP!Open(p, "readWrite")) <= 1
      BY DEF RefInv, RP!RefCountsMatch, Cardinality, RP!Cardinality
    <3>4. /\ IsFiniteSet(RP!Open(p, "readWrite"))
          /\ Others(h, p, "readWrite") \subseteq RP!Open(p, "readWrite")
      BY KindType, HandlesFinite DEF Others
    <3>5. /\ Cardinality(Others(h, p, "readWrite")) <= Cardinality(RP!Open(p, "readWrite"))
          /\ Cardinality(Others(h, p, "readWrite")) \in Nat
          /\ Cardinality(RP!Open(p, "readWrite")) \in Nat
      BY <3>4, FS_Subset, FS_CardinalityType
    <3> QED
      BY <2>4, <3>1, <3>2, <3>3, <3>5
  <2>8. ASSUME NEW g \in RP!Handles
        PROVE  handle'[g].at = IF handle'[g].to = Null THEN Null ELSE target'[handle'[g].to]
    <3>1. /\ RP!Closed.to = Null /\ RP!Closed.at = Null
      BY DEF RP!Closed
    <3> QED
      BY <1>1, <2>2, <3>1 DEF RefInv, RP!RefCountsMatch
  <2>9. RP!RefCountsMatch'
    <3>1. \A p \in Pointers, k \in RP!Kinds : refs'[p][k] = RP!Cardinality(RP!Open(p, k)')
      BY <2>4 DEF Cardinality, RP!Cardinality
    <3>2. \A p \in Pointers : RP!Cardinality(RP!Open(p, "readWrite")') <= 1
      BY <2>7 DEF Cardinality, RP!Cardinality
    <3> QED
      BY <3>1, <3>2, <2>6, <2>8 DEF RP!RefCountsMatch, RP!Handles, RP!Kinds
  <2> QED
    BY <2>5, <2>9 DEF RefInv
<1> QED
  BY <1>2, <1>3

(* The pointers themselves move only when they have no handle.               *)
LEMMA RefPointers ==
  ASSUME RefInv, target' \in [Pointers -> Objects \cup {Null}], refs' = refs, handle' = handle,
         \A p \in Pointers : target'[p] = target[p] \/ RP!Unreferenced(p)
  PROVE  RefInv'
<1>1. \A p, k : RP!Open(p, k)' = RP!Open(p, k)
  BY DEF RP!Open, RP!HandleKind
<1>2. ASSUME NEW h \in RP!Handles, handle[h].to # Null
      PROVE  target'[handle[h].to] = target[handle[h].to]
  <2> DEFINE p == handle[h].to
             k == RP!HandleKind(h)
  <2>1. p \in Pointers /\ k \in RP!Kinds /\ h \in RP!Open(p, k)
    BY <1>2, KindType DEF RefInv, RP!RefTypeOK, RP!Open
  <2>2. refs[p][k] # 0
    BY <2>1, KindType, HandlesFinite, CountsByHandles
  <2> QED
    BY <2>1, <2>2 DEF RP!Unreferenced
<1>3. RP!RefTypeOK'
  BY DEF RefInv, RP!RefTypeOK, RP!Handles, RP!Kinds
<1>4. ASSUME NEW h \in RP!Handles
      PROVE  handle'[h].at = IF handle'[h].to = Null THEN Null ELSE target'[handle'[h].to]
  BY <1>2 DEF RefInv, RP!RefCountsMatch
<1> QED
  BY <1>1, <1>3, <1>4 DEF RefInv, RP!RefCountsMatch, RP!Handles, RP!Kinds

(* No handle is open at first, and every count is 0.                         *)
LEMMA RefInit == RP!Init => RefInv
<1> SUFFICES ASSUME RP!Init PROVE RefInv
  OBVIOUS
<1>1. \A h \in RP!Handles : handle[h].to = Null /\ handle[h].at = Null
  BY DEF RP!Init, RP!Closed
<1>2. \A p \in Pointers, k \in RP!Kinds : RP!Open(p, k) = {} /\ refs[p][k] = 0
  BY <1>1, RefAssumption DEF RP!Init, RP!Open
<1>3. RP!RefTypeOK
  <2>1. 0 \in 0 .. CountMod - 1
    BY HandlesFinite
  <2> QED
    BY <2>1 DEF RP!RefTypeOK, RP!Init, RP!Closed
<1>4. RP!Cardinality({}) = 0
  BY FS_EmptySet DEF Cardinality, RP!Cardinality
<1>5. "readWrite" \in RP!Kinds
  BY DEF RP!Kinds
<1>6. \A p \in Pointers, k \in RP!Kinds :
        /\ refs[p][k] = RP!Cardinality(RP!Open(p, k))
        /\ RP!Open(p, k) # {} => \A j \in RP!Kinds \ {k} : RP!Open(p, j) = {}
  BY <1>2, <1>4
<1>7. \A p \in Pointers : RP!Cardinality(RP!Open(p, "readWrite")) <= 1
  BY <1>2, <1>4, <1>5
<1> QED
  BY <1>1, <1>3, <1>6, <1>7 DEF RefInv, RP!RefCountsMatch

(* Every operation on pointers and handles keeps the invariant.              *)
LEMMA RefNext == RefInv /\ RP!Next => RefInv'
<1> SUFFICES ASSUME RefInv, RP!Next PROVE RefInv'
  OBVIOUS
<1> DEFINE Values == [to : Pointers \cup {Null}, at : Objects \cup {Null}]
<1>0. /\ RP!Closed \in Values /\ RP!Closed.to = Null /\ RP!Closed.at = Null
      /\ \A g \in RP!Handles : handle[g] \in Values
  BY DEF RP!Closed, RefInv, RP!RefTypeOK
<1>1. CASE \E p \in Pointers, h \in RP!Handles : RP!GetRef(p, h)
  <2>1. PICK p \in Pointers, h \in RP!Handles : RP!GetRef(p, h)
    BY <1>1
  <2> DEFINE v == [to |-> p, at |-> target[p]]
  <2>2. v \in Values /\ v.to = p /\ v.at = target[p] /\ p # Null
    BY RefAssumption DEF RefInv, RP!RefTypeOK
  <2>3. RP!Released(h) = refs
    BY <2>1, <1>0 DEF RP!GetRef, RP!Released, RP!Dec
  <2> HIDE DEF v
  <2>4. /\ \A j \in RP!Excludes(RP!HandleKind(h)) : RP!Released(h)[v.to][j] = 0
        /\ refs' = RP!Inc(RP!Released(h), v.to, RP!HandleKind(h))
        /\ handle' = [handle EXCEPT ![h] = v] /\ target' = target
    BY <2>1, <2>2, <2>3 DEF RP!GetRef, v
  <2> QED
    BY <2>2, <2>4, Rehandle
<1>2. CASE \E h \in RP!Handles : RP!ResetHandle(h)
  <2>1. PICK h \in RP!Handles : RP!ResetHandle(h)
    BY <1>2
  <2>2. refs' = RP!Inc(RP!Released(h), RP!Closed.to, RP!HandleKind(h))
    BY <2>1, <1>0 DEF RP!ResetHandle, RP!Inc, RP!Released
  <2>3. handle' = [handle EXCEPT ![h] = RP!Closed] /\ target' = target
    BY <2>1 DEF RP!ResetHandle
  <2> QED
    BY <2>2, <2>3, <1>0, Rehandle
<1>3. CASE \E h, other \in RP!Handles : RP!Copy(h, other)
  <2>1. PICK h \in RP!Handles, other \in RP!Handles : RP!Copy(h, other)
    BY <1>3
  <2> DEFINE v == IF h = other THEN RP!Closed ELSE handle[other]
  <2>2. v \in Values /\ v.at = IF v.to = Null THEN Null ELSE target[v.to]
    BY <1>0 DEF RefInv, RP!RefCountsMatch
  <2>3. /\ v.to # Null => \A j \in RP!Excludes(RP!HandleKind(h)) : RP!Released(h)[v.to][j] = 0
        /\ refs' = RP!Inc(RP!Released(h), v.to, RP!HandleKind(h))
        /\ handle' = [handle EXCEPT ![h] = v] /\ target' = target
    BY <2>1 DEF RP!Copy
  <2> HIDE DEF v
  <2> QED
    BY <2>2, <2>3, Rehandle
<1>4. CASE \E h, other \in RP!Handles : RP!Move(h, other)
  BY <1>4, RefMove
<1>5. CASE \E p \in Pointers, o \in Objects \cup {Null} : RP!SetPointer(p, o)
  <2>1. PICK p \in Pointers, o \in Objects \cup {Null} : RP!SetPointer(p, o)
    BY <1>5
  <2>2. /\ target' = [target EXCEPT ![p] = o] /\ refs' = refs /\ handle' = handle
        /\ RP!Unreferenced(p)
    BY <2>1 DEF RP!SetPointer
  <2>3. target \in [Pointers -> Objects \cup {Null}]
    BY DEF RefInv, RP!RefTypeOK
  <2> QED
    BY <2>2, <2>3, RefPointers
<1>6. CASE \E p, other \in Pointers : RP!MovePointer(p, other)
  <2>1. PICK p \in Pointers, other \in Pointers : RP!MovePointer(p, other)
    BY <1>6
  <2>2. /\ target' = [target EXCEPT ![p] = IF p = other THEN Null ELSE target[other],
                                    ![other] = Null]
        /\ refs' = refs /\ handle' = handle
        /\ RP!Unreferenced(p) /\ RP!Unreferenced(other)
    BY <2>1 DEF RP!MovePointer
  <2>3. target \in [Pointers -> Objects \cup {Null}]
    BY DEF RefInv, RP!RefTypeOK
  <2>4. target' \in [Pointers -> Objects \cup {Null}]
    BY <2>2, <2>3
  <2>5. \A q \in Pointers \ {p, other} : target'[q] = target[q]
    BY <2>2, <2>3
  <2> QED
    BY <2>2, <2>4, <2>5, RefPointers
<1> QED
  BY <1>1, <1>2, <1>3, <1>4, <1>5, <1>6 DEF RP!Next

------------------------------------------------------------------------------
(* All of them                                                               *)

(* The inductive invariant: that of the part that runs.                      *)
ContainersInv ==
  /\ part = "HashTable" => TableInv
  /\ part = "MemPool" => PoolInv
  /\ part = "UnorderedArray" => ArrayInv
  /\ part = "MemBuffer" => BufInv
  /\ part = "DataLoader" => LoaderInv
  /\ part = "RefPointer" => RefInv

(* Every part starts in its invariant.                                       *)
LEMMA ContainersInvInit == ContainersInit => ContainersInv
<1> SUFFICES ASSUME ContainersInit PROVE ContainersInv
  OBVIOUS
<1>1. part = "HashTable" => TableInv
  BY TableInit DEF ContainersInit
<1>2. part = "MemPool" => PoolInv
  BY PoolInit DEF ContainersInit
<1>3. part = "UnorderedArray" => ArrayInv
  BY ArrayInit DEF ContainersInit
<1>4. part = "MemBuffer" => BufInv
  BY BufInit DEF ContainersInit
<1>5. part = "DataLoader" => LoaderInv
  BY LoaderInit DEF ContainersInit
<1>6. part = "RefPointer" => RefInv
  BY RefInit DEF ContainersInit
<1> QED
  BY <1>1, <1>2, <1>3, <1>4, <1>5, <1>6 DEF ContainersInv

(* A step that changes nothing keeps every part's invariant.                 *)
LEMMA ContainersInvStutter ==
  ASSUME ContainersInv, UNCHANGED containersVars
  PROVE  ContainersInv'
<1> USE DEF containersVars, tableVars, poolVars, arrayVars, loaderVars, bufferVars, refVars
<1>1. TableInv => TableInv'
  BY DEF TableInv, Found, Place, HT!Slots
<1>2. PoolInv => PoolInv'
  <2>1. \A F, n : IsList(F, n) => IsList(F, n)'
    BY DEF IsList
  <2>2. MP!PoolTypeOK => MP!PoolTypeOK'
    BY DEF MP!PoolTypeOK
  <2> QED
    BY <2>1, <2>2 DEF PoolInv
<1>3. ArrayInv => ArrayInv'
  <2>1. UA!ArrayTypeOK => UA!ArrayTypeOK'
    BY Zenon DEF UA!ArrayTypeOK
  <2>2. Places' = Places
    BY DEF Places
  <2>3. UA!ArrayIndexesTrack => UA!ArrayIndexesTrack'
    BY Zenon DEF UA!ArrayIndexesTrack
  <2>4. OneItemEach /\ IndexesInt => (OneItemEach /\ IndexesInt)'
    BY <2>2 DEF OneItemEach, IndexesInt
  <2> QED
    BY <2>1, <2>3, <2>4, Zenon DEF ArrayInv
<1>4. BufInv => BufInv'
  BY DEF BufInv
<1>5. LoaderInv => LoaderInv'
  BY DEF LoaderInv, OfLoad
<1>6. RefInv => RefInv'
  BY DEF RefInv, RP!RefTypeOK, RP!RefCountsMatch, RP!Open
<1>7. part' = part
  OBVIOUS
<1> QED
  BY <1>1, <1>2, <1>3, <1>4, <1>5, <1>6, <1>7 DEF ContainersInv

(* Every operation keeps the invariant of the part it belongs to.            *)
LEMMA ContainersInvNext ==
  ASSUME ContainersInv, ContainersNext
  PROVE  ContainersInv'
<1>1. part' = part
  BY DEF ContainersNext
<1>2. part = "HashTable" => TableInv'
  BY TableNext DEF ContainersNext, ContainersInv
<1>3. part = "MemPool" => PoolInv'
  BY PoolNext DEF ContainersNext, ContainersInv
<1>4. part = "UnorderedArray" => ArrayInv'
  BY ArrayNext DEF ContainersNext, ContainersInv
<1>5. part = "MemBuffer" => BufInv'
  BY BufNext DEF ContainersNext, ContainersInv
<1>6. part = "DataLoader" => LoaderInv'
  BY LoaderNext DEF ContainersNext, ContainersInv
<1>7. part = "RefPointer" => RefInv'
  BY RefNext DEF ContainersNext, ContainersInv
<1> QED
  BY <1>1, <1>2, <1>3, <1>4, <1>5, <1>6, <1>7 DEF ContainersInv

(* Each container keeps its invariant over every sequence of its operations. *)
THEOREM InductiveInvariant == ContainersSpec => []ContainersInv
<1>1. ContainersInit => ContainersInv
  BY ContainersInvInit
<1>2. ContainersInv /\ [ContainersNext]_containersVars => ContainersInv'
  BY ContainersInvStutter, ContainersInvNext
<1> QED
  BY <1>1, <1>2, PTL DEF ContainersSpec

(* The variables of every container keep within their types and bounds.      *)
THEOREM TypesKept == ContainersSpec => []ContainersTypeOK
<1>1. ContainersInv => ContainersTypeOK
  BY TableInvImplies, PoolInvImplies, BufInvImplies, LoaderInvImplies
     DEF ContainersInv, ContainersTypeOK, ArrayInv, RefInv
<1> QED
  BY <1>1, InductiveInvariant, PTL

(* HashTable: through insertions of keys that are not held and removals, lookups
   find what was inserted and not removed (hash_table.cpp:81-205).           *)
THEOREM LookupsFindInserted == ContainersSpec => []HashTableIsMap
<1>1. ContainersInv => HashTableIsMap
  BY TableInvImplies DEF ContainersInv, HashTableIsMap
<1> QED
  BY <1>1, InductiveInvariant, PTL

(* MemPool: no slot is lost or given to two callers, and a link is never where a
   caller wrote (mem_pool.cpp:68-112).                                       *)
THEOREM SlotsAccounted == ContainersSpec => []PoolSlotsAccounted
<1>1. ContainersInv => PoolSlotsAccounted
  BY PoolInvImplies DEF ContainersInv, PoolSlotsAccounted
<1> QED
  BY <1>1, InductiveInvariant, PTL

(* UnorderedArray: Remove never makes an owner lose its item, and with a callback
   every owner knows where its item is (unordered_array.cpp:66-85).          *)
THEOREM OwnersKeepTrack == ContainersSpec => []ArrayIndexesTrack
<1>1. ContainersInv => ArrayIndexesTrack
  BY DEF ContainersInv, ArrayIndexesTrack, ArrayInv
<1> QED
  BY <1>1, InductiveInvariant, PTL

(* MemBuffer and DataLoader: what Allocate returned and was not freed never
   overlaps and lies in the part in use, whatever the order in which loads are
   released (mem_buffer.cpp:38-65, data_loader.cpp:80-92).  Of scratch pads it
   says that their space is counted right; not where they lie, which is over the
   allocations (mem_buffer.cpp:76-77).                                      *)
THEOREM NothingOverlaps == ContainersSpec => []AllocationsDisjoint
<1>1. ContainersInv => AllocationsDisjoint
  BY BufInvImplies, LoaderInvImplies DEF ContainersInv, AllocationsDisjoint
<1> QED
  BY <1>1, InductiveInvariant, PTL

(* RefPointer: the counts are those of the open handles, whatever is copied,
   assigned, moved or released (ref_pointer.h).                              *)
THEOREM CountsAreOfHandles == ContainersSpec => []RefCountsMatch
<1>1. ContainersInv => RefCountsMatch
  BY DEF ContainersInv, RefCountsMatch, RefInv
<1> QED
  BY <1>1, InductiveInvariant, PTL

==============================================================================
