------------------------- MODULE AtomicMemPoolProofs -------------------------
(***************************************************************************)
(* The safety of AtomicMemPool for any number of threads and slots and any    *)
(* counter, as long as no thread is overtaken by a full round of it.          *)
(***************************************************************************)
EXTENDS AtomicMemPool, FiniteSetTheorems, WellFoundedInduction, TLAPS

PoolStates == {"idle", "readTop", "readLink", "allocCas", "useFresh", "writeLink",
               "removeCas", "retry"}

GivingBack == {"writeLink", "removeCas", "retry"}

(* The slots a thread has: those its callers hold and the one it gives back.    *)
HeldBy(t) == own[t] \cup Returning(t)

Rooms == {t \in Threads : room[t]}

(* Each thread that saw room may still count mUsedIndexes up once; one did when
   it went past the last slot.                                                *)
RoomInv ==
  mUsedIndexes >= NumItems =>
    mUsedIndexes + Cardinality(Rooms) <= NumItems + Cardinality(Threads) - 1

OwnInv ==
  /\ \A t, u \in Threads : t # u => HeldBy(t) \cap HeldBy(u) = {}
  /\ \A t \in Threads : pc[t] \in GivingBack => arg[t] \in Slots \ own[t]
  /\ \A t \in Threads : HeldBy(t) \cap FreshSlots = {}

(* What thread u still knows of the top it read: how far its counter has moved,
   and, if nobody has changed it since, the top and the links itself.           *)
Knows(u) ==
  /\ pc[u] \in {"readLink", "allocCas"} => top[u].num \in Slots
  /\ pc[u] \in Comparing =>
       /\ age[u] < MaxOvertake
       /\ mNextFreeIndex.cnt = (top[u].cnt + age[u]) % CounterMod
       /\ age[u] = 0 => mNextFreeIndex = top[u]
  /\ pc[u] = "allocCas" /\ age[u] = 0 => link[u] = mBuffer[top[u].num]
  /\ pc[u] = "removeCas" => mBuffer[arg[u]] = top[u].num

TopInv == \A u \in Threads : Knows(u)

(* The n slots of F, in order, are the free stack; nobody has them, and nobody
   has any other slot that was used.                                          *)
IsStack(F, n) ==
  /\ \A i, j \in 1 .. n : F[i] = F[j] => i = j
  /\ mNextFreeIndex.num = IF n = 0 THEN Nil ELSE F[1]
  /\ \A i \in 1 .. n : mBuffer[F[i]] = IF i = n THEN Nil ELSE F[i + 1]
  /\ \A s \in Slots :
       (\E i \in 1 .. n : F[i] = s)
         <=> s \notin FreshSlots /\ \A t \in Threads : s \notin HeldBy(t)

StackInv == \E n \in 0 .. NumItems : \E F \in [1 .. n -> Slots] : IsStack(F, n)

IInv == TypeOK /\ RoomInv /\ OwnInv /\ TopInv /\ StackInv

------------------------------------------------------------------------------
(* A counter that moved less than a full round is back where it was only if it
   did not move.                                                              *)
LEMMA ModReturn ==
  ASSUME NEW M \in Nat \ {0}, NEW a \in 0 .. M - 1, NEW k \in 0 .. M - 1, (a + k) % M = a
  PROVE  k = 0
<1> DEFINE q == (a + k) \div M
           r == (a + k) % M
<1>1. q \in Int /\ r \in Int /\ a + k = M * q + r
  BY Z3
<1> HIDE DEF q, r
<1>2. k = M * q
  <2>1. r = a
    BY DEF r
  <2> QED
    BY <1>1, <2>1
<1>3. q <= 0
  BY <1>1, <1>2, Z3
<1>4. q >= 0
  BY <1>1, <1>2, Z3
<1> QED
  BY <1>1, <1>2, <1>3, <1>4

(* Counting one more on the remainder.                                        *)
LEMMA ModNext ==
  ASSUME NEW M \in Nat \ {0}, NEW b \in Nat
  PROVE  /\ (b % M) \in 0 .. M - 1
         /\ ((b % M) + 1) % M = (b + 1) % M
<1> DEFINE r == b % M
           q == b \div M
<1>1. r \in 0 .. M - 1 /\ q \in Int /\ b = M * q + r
  BY Z3
<1> HIDE DEF q, r
<1>2. (M * q + (r + 1)) % M = (r + 1) % M
  BY <1>1, Z3
<1>3. b + 1 = M * q + (r + 1)
  BY <1>1
<1> QED
  BY <1>1, <1>2, <1>3 DEF r

LEMMA ModSmall ==
  ASSUME NEW M \in Nat \ {0}, NEW a \in 0 .. M - 1
  PROVE  a % M = a
  BY Z3

------------------------------------------------------------------------------
(* The smallest number with a property, from the library's theorem that the
   subsets of a finite set are well founded: there is no induction rule to
   instantiate.                                                               *)
LEMMA Smallest ==
  ASSUME NEW N \in Nat, NEW B \in SUBSET (0 .. N), B # {}
  PROVE  \E m \in B : \A k \in B : m <= k
<1> DEFINE S == 0 .. N
           T == {0 .. k : k \in B}
<1>1. IsWellFoundedOn(StrictSubsetOrdering(S), FiniteSubsetsOf(S))
  BY FS_StrictSubsetOrderingWellFounded, Zenon
<1>2. T \subseteq FiniteSubsetsOf(S)
  <2>1. \A k \in B : k \in Nat /\ 0 .. k \subseteq S /\ IsFiniteSet(0 .. k)
    BY FS_Interval
  <2> QED
    BY <2>1 DEF FiniteSubsetsOf
<1>3. T # {}
  OBVIOUS
<1>4. PICK x \in T : \A y \in T : ~(<<y, x>> \in StrictSubsetOrdering(S))
  <2> HIDE DEF S, T
  <2> QED
    BY <1>1, <1>2, <1>3, WFMin, Zenon
<1>5. PICK m \in B : x = 0 .. m
  BY <1>4
<1>6. ASSUME NEW k \in B, ~(m <= k) PROVE FALSE
  <2>1. k \in S /\ m \in S /\ k < m
    BY <1>6
  <2>2. 0 .. k \in SUBSET S /\ 0 .. m \in SUBSET S /\ 0 .. k \subseteq 0 .. m /\ 0 .. k # 0 .. m
    BY <2>1
  <2>3. <<0 .. k, 0 .. m>> \in StrictSubsetOrdering(S)
    BY <2>2 DEF StrictSubsetOrdering
  <2> QED
    BY <1>4, <1>5, <2>3
<1> QED
  BY <1>6

(* Following the links from the top meets the slots of the stack, and then Nil. *)
LEMMA ChainIsStack ==
  ASSUME NEW n \in 0 .. NumItems, NEW F \in [1 .. n -> Slots], IsStack(F, n)
  PROVE  \A k \in 0 .. NumItems : chain[k] = IF k < n THEN F[k + 1] ELSE Nil
<1> USE PoolAssumption DEF Nil, Slots
<1> DEFINE H == [k \in 0 .. NumItems |-> IF k < n THEN F[k + 1] ELSE Nil]
           Follows(g) ==
             [k \in 0 .. NumItems |->
                IF k = 0 THEN mNextFreeIndex.num
                ELSE IF g[k - 1] \in Slots THEN mBuffer[g[k - 1]] ELSE g[k - 1]]
<1>1. H = Follows(H)
  <2> SUFFICES ASSUME NEW k \in 0 .. NumItems PROVE H[k] = Follows(H)[k]
    OBVIOUS
  <2>1. CASE k = 0
    BY <2>1 DEF IsStack
  <2>2. CASE k # 0 /\ k <= n
    <3>1. H[k - 1] = F[k] /\ F[k] \in Slots
      BY <2>2
    <3>2. mBuffer[F[k]] = H[k]
      BY <2>2 DEF IsStack
    <3> QED
      BY <2>2, <3>1, <3>2
  <2>3. CASE k > n
    BY <2>3
  <2> QED
    BY <2>1, <2>2, <2>3
<1>2. chain = Follows(chain)
  <2>1. chain = CHOOSE g : g = Follows(g)
    BY DEF chain
  <2> HIDE DEF H, Follows
  <2> QED
    BY <1>1, <2>1
<1>3. \A k \in 0 .. NumItems :
        /\ k = 0 => chain[k] = H[k]
        /\ k # 0 /\ chain[k - 1] = H[k - 1] => chain[k] = H[k]
  <2> TAKE k \in 0 .. NumItems
  <2>1. chain[k] = Follows(chain)[k] /\ H[k] = Follows(H)[k]
    <3> HIDE DEF H, Follows
    <3> QED
      BY <1>1, <1>2
  <2> HIDE DEF H
  <2> QED
    BY <2>1
<1> DEFINE Wrong == {k \in 0 .. NumItems : chain[k] # H[k]}
<1>4. CASE Wrong = {}
  BY <1>4
<1>5. CASE Wrong # {}
  <2>1. PICK m \in Wrong : \A k \in Wrong : m <= k
    BY <1>5, Smallest
  <2>2. m \in 0 .. NumItems /\ chain[m] # H[m] /\ m # 0
    BY <1>3
  <2>3. m - 1 \in 0 .. NumItems /\ m - 1 \notin Wrong
    BY <2>1, <2>2
  <2> HIDE DEF H
  <2> QED
    BY <1>3, <2>2, <2>3
<1> QED
  BY <1>4, <1>5

(* The invariant has both properties.                                         *)
LEMMA IInvImplies == IInv => ExclusiveSlots /\ NoSlotLost
<1> SUFFICES ASSUME IInv PROVE ExclusiveSlots /\ NoSlotLost
  OBVIOUS
<1> USE PoolAssumption DEF IInv
<1>1. ExclusiveSlots
  BY DEF OwnInv, ExclusiveSlots, HeldBy
<1> PICK n \in 0 .. NumItems : \E F \in [1 .. n -> Slots] : IsStack(F, n)
  BY DEF StackInv
<1>2. PICK F \in [1 .. n -> Slots] : IsStack(F, n)
  OBVIOUS
<1>3. \A k \in 0 .. NumItems : chain[k] = IF k < n THEN F[k + 1] ELSE Nil
  BY <1>2, ChainIsStack
<1>4. FreeSlots = {F[i] : i \in 1 .. n}
  <2>1. ASSUME NEW s \in FreeSlots PROVE \E i \in 1 .. n : F[i] = s
    <3>1. PICK k \in 0 .. NumItems : s = chain[k] /\ s # Nil
      BY <2>1 DEF FreeSlots
    <3>2. k < n /\ s = F[k + 1] /\ k + 1 \in 1 .. n
      BY <1>3, <3>1
    <3> QED
      BY <3>2
  <2>2. ASSUME NEW i \in 1 .. n PROVE F[i] \in FreeSlots
    <3>1. i - 1 \in 0 .. NumItems /\ i - 1 < n /\ (i - 1) + 1 = i
      OBVIOUS
    <3>2. chain[i - 1] = F[i] /\ F[i] # Nil
      BY <1>3, <3>1 DEF Slots, Nil
    <3> QED
      BY <3>1, <3>2 DEF FreeSlots
  <2> QED
    BY <2>1, <2>2
<1>5. \A s : s \in Held <=> \E t \in Threads : s \in HeldBy(t)
  BY DEF Held, HeldBy
<1>6. Held \subseteq Slots
  BY <1>5 DEF HeldBy, Returning, OwnInv, GivingBack, TypeOK
<1>7. chain[NumItems] = Nil
  BY <1>3
<1>8. Held \cap FreshSlots = {}
  BY <1>5 DEF OwnInv
<1>9. \A s \in Slots : s \in FreeSlots <=> s \notin FreshSlots /\ s \notin Held
  BY <1>2, <1>4, <1>5 DEF IsStack
<1>10. FreeSlots \subseteq Slots /\ FreshSlots \subseteq Slots
  BY <1>4 DEF FreshSlots
<1> QED
  BY <1>1, <1>6, <1>7, <1>8, <1>9, <1>10 DEF NoSlotLost

------------------------------------------------------------------------------
LEMMA IInvInit == Init => IInv
<1> SUFFICES ASSUME Init PROVE IInv
  OBVIOUS
<1> USE PoolAssumption DEF Init
<1>1. Cardinality(Threads) \in Nat
  BY FS_CardinalityType
<1>2. TypeOK
  BY <1>1 DEF TypeOK, Tops, NoTop, Links, Nil, Slots
<1>3. RoomInv
  BY DEF RoomInv
<1>4. \A t \in Threads : HeldBy(t) = {}
  BY DEF HeldBy, Returning
<1>5. OwnInv
  BY <1>4 DEF OwnInv, GivingBack
<1>6. TopInv
  BY DEF TopInv, Knows, Comparing
<1>7. StackInv
  <2>1. \A s \in Slots : s \in FreshSlots
    BY DEF FreshSlots, Slots
  <2>2. mNextFreeIndex.num = Nil
    BY DEF NoTop
  <2> DEFINE F == [i \in 1 .. 0 |-> 0]
  <2>3. IsStack(F, 0)
    BY <2>1, <2>2 DEF IsStack
  <2>4. F \in [1 .. 0 -> Slots] /\ 0 \in 0 .. NumItems
    OBVIOUS
  <2> QED
    BY <2>3, <2>4 DEF StackInv
<1> QED
  BY <1>2, <1>3, <1>5, <1>6, <1>7 DEF IInv

------------------------------------------------------------------------------
(* A step that moves no slot from one place to another and writes only in slots
   that somebody has leaves the stack and the ownership as they were.           *)
LEMMA NoSlotMoves ==
  ASSUME OwnInv, StackInv,
         \A t \in Threads : HeldBy(t)' = HeldBy(t),
         \A t \in Threads : pc'[t] \in GivingBack => arg'[t] \in Slots \ own'[t],
         FreshSlots' = FreshSlots, mNextFreeIndex' = mNextFreeIndex,
         \A s \in Slots : (\A t \in Threads : s \notin HeldBy(t)) => mBuffer'[s] = mBuffer[s]
  PROVE  OwnInv' /\ StackInv'
<1>1. OwnInv'
  BY DEF OwnInv
<1> PICK n \in 0 .. NumItems : \E F \in [1 .. n -> Slots] : IsStack(F, n)
  BY DEF StackInv
<1>2. PICK F \in [1 .. n -> Slots] : IsStack(F, n)
  OBVIOUS
<1>3. \A i \in 1 .. n : F[i] \in Slots /\ \A t \in Threads : F[i] \notin HeldBy(t)
  BY <1>2 DEF IsStack
<1>4. IsStack(F, n)'
  BY <1>2, <1>3 DEF IsStack
<1> QED
  BY <1>1, <1>4 DEF StackInv

(* A compare-and-set that finds the counter it read has not been overtaken.     *)
LEMMA CasIsFresh ==
  ASSUME MaxOvertake <= CounterMod, TypeOK, TopInv, NEW t \in Threads,
         pc[t] \in Comparing, mNextFreeIndex = top[t]
  PROVE  age[t] = 0
<1>1. top[t].cnt \in 0 .. CounterMod - 1 /\ age[t] \in 0 .. CounterMod - 1
  BY PoolAssumption DEF TypeOK, Tops, TopInv, Knows
<1>2. (top[t].cnt + age[t]) % CounterMod = top[t].cnt
  BY DEF TopInv, Knows
<1> QED
  BY <1>1, <1>2, ModReturn, PoolAssumption

(* The link a successful Allocate installs is the one of the top slot, and leads
   to the next of the stack.                                                  *)
LEMMA PopLink ==
  ASSUME MaxOvertake <= CounterMod, TypeOK, TopInv, StackInv, NEW t \in Threads,
         pc[t] = "allocCas", mNextFreeIndex = top[t]
  PROVE  /\ top[t].num \in Slots
         /\ link[t] = mBuffer[top[t].num]
         /\ link[t] \in Slots \cup {Nil}
<1>1. age[t] = 0
  BY CasIsFresh DEF Comparing
<1>2. top[t].num \in Slots /\ link[t] = mBuffer[top[t].num]
  BY <1>1 DEF TopInv, Knows
<1> PICK n \in 0 .. NumItems : \E F \in [1 .. n -> Slots] : IsStack(F, n)
  BY DEF StackInv
<1>3. PICK F \in [1 .. n -> Slots] : IsStack(F, n)
  OBVIOUS
<1>4. n # 0 /\ top[t].num = F[1]
  BY <1>2, <1>3 DEF IsStack, Slots, Nil
<1>5. mBuffer[F[1]] \in Slots \cup {Nil}
  BY <1>3, <1>4 DEF IsStack
<1> QED
  BY <1>2, <1>4, <1>5

(* A step of t leaves what belongs to the other threads alone.                  *)
LEMMA OnlyOne ==
  ASSUME TypeOK, NEW t \in Threads, Call(t) \/ Step(t), NEW u \in Threads, u # t
  PROVE  /\ pc'[u] = pc[u] /\ own'[u] = own[u] /\ arg'[u] = arg[u]
         /\ top'[u] = top[u] /\ link'[u] = link[u] /\ room'[u] = room[u]
         /\ HeldBy(u)' = HeldBy(u)
<1>1. pc'[u] = pc[u] /\ own'[u] = own[u] /\ arg'[u] = arg[u]
  BY DEF TypeOK, Call, Step, AllocReadUsed, AllocReadTop, AllocReadLink, AllocCas,
     AllocFresh, WriteItem, RemoveReadTop, RemoveReadTopAgain, RemoveWriteLink, RemoveCas,
     GoTo, Return, ReadTop, locals
<1>2. top'[u] = top[u] /\ link'[u] = link[u]
  BY DEF TypeOK, Call, Step, AllocReadUsed, AllocReadTop, AllocReadLink, AllocCas,
     AllocFresh, WriteItem, RemoveReadTop, RemoveReadTopAgain, RemoveWriteLink, RemoveCas,
     GoTo, Return, ReadTop, locals
<1>3. room'[u] = room[u]
  <2>1. \/ room' = room
        \/ room' = [room EXCEPT ![t] = FALSE]
        \/ room' = [room EXCEPT ![t] = mUsedIndexes < NumItems]
    BY Zenon DEF Call, Step, AllocReadUsed, AllocReadTop, AllocReadLink, AllocCas,
       AllocFresh, WriteItem, RemoveReadTop, RemoveReadTopAgain, RemoveWriteLink, RemoveCas,
       Return, locals
  <2> QED
    BY <2>1, Zenon DEF TypeOK
<1> QED
  BY <1>1, <1>2, <1>3, Zenon DEF HeldBy, Returning

------------------------------------------------------------------------------
LEMMA TypeStep ==
  ASSUME MaxOvertake <= CounterMod, IInv, [Next]_vars
  PROVE  TypeOK'
<1> USE PoolAssumption DEF IInv, TypeOK
<1>1. CASE UNCHANGED vars
  BY <1>1, Zenon DEF vars, locals
<1>2. ASSUME NEW t \in Threads, Call(t) \/ Step(t) PROVE TypeOK'
  <2>1. room' \in [Threads -> BOOLEAN]
    <3>1. \/ room' = room
          \/ room' = [room EXCEPT ![t] = FALSE]
          \/ room' = [room EXCEPT ![t] = mUsedIndexes < NumItems]
      BY <1>2, Zenon DEF Call, Step, AllocReadUsed, AllocReadTop, AllocReadLink, AllocCas,
         AllocFresh, WriteItem, RemoveReadTop, RemoveReadTopAgain, RemoveWriteLink, RemoveCas,
         Return, locals
    <3>2. (mUsedIndexes < NumItems) \in BOOLEAN
      OBVIOUS
    <3> QED
      BY <3>1, <3>2, Zenon
  <2>2. NoTop \in Tops /\ Nil \in Links /\ UserData \in Links
    BY DEF NoTop, Tops, Links
  <2>3. pc' \in [Threads -> PoolStates]
    BY <1>2 DEF PoolStates, Call, Step, AllocReadUsed, AllocReadTop, AllocReadLink, AllocCas,
       AllocFresh, WriteItem, RemoveReadTop, RemoveReadTopAgain, RemoveWriteLink, RemoveCas,
       GoTo, Return
  <2>4. own' \in [Threads -> SUBSET Slots]
    <3>1. CASE AllocCas(t)
      BY <3>1, PopLink DEF AllocCas
    <3> QED
      BY <1>2, <3>1 DEF Call, Step, AllocReadUsed, AllocReadTop, AllocReadLink,
         AllocFresh, WriteItem, RemoveReadTop, RemoveReadTopAgain, RemoveWriteLink, RemoveCas
  <2>5. top' \in [Threads -> Tops] /\ arg' \in [Threads -> Slots \cup {Nil}]
    BY <1>2, <2>2 DEF Call, Step, AllocReadUsed, AllocReadTop, AllocReadLink, AllocCas,
       AllocFresh, WriteItem, RemoveReadTop, RemoveReadTopAgain, RemoveWriteLink, RemoveCas,
       Return, ReadTop, locals
  <2>6. link' \in [Threads -> Links] /\ mBuffer' \in [Slots -> Links]
    <3>1. CASE AllocReadLink(t)
      BY <3>1 DEF AllocReadLink, TopInv, Knows
    <3>2. CASE RemoveWriteLink(t)
      BY <3>2 DEF RemoveWriteLink, locals, Tops, Links
    <3> QED
      BY <1>2, <2>2, <3>1, <3>2 DEF Call, Step, AllocReadUsed, AllocReadTop, AllocCas,
         AllocFresh, WriteItem, RemoveReadTop, RemoveReadTopAgain, RemoveCas, Return, locals
  <2>7. mNextFreeIndex' \in Tops /\ age' \in [Threads -> Nat]
    <3>1. ASSUME NEW num \in Slots \cup {Nil}, SetTop(t, num)
          PROVE  mNextFreeIndex' \in Tops /\ age' \in [Threads -> Nat]
      <4>1. top[t].cnt + 1 \in Nat
        BY DEF Tops
      <4>2. (top[t].cnt + 1) % CounterMod \in 0 .. CounterMod - 1
        BY <4>1, ModNext
      <4> QED
        BY <3>1, <4>2 DEF SetTop, Age, Tops
    <3>2. CASE AllocCas(t)
      BY <3>1, <3>2, PopLink DEF AllocCas
    <3>3. CASE RemoveCas(t)
      BY <3>1, <3>3 DEF RemoveCas
    <3> QED
      BY <1>2, <3>2, <3>3 DEF Call, Step, AllocReadUsed, AllocReadTop, AllocReadLink,
         AllocFresh, WriteItem, RemoveReadTop, RemoveReadTopAgain, RemoveWriteLink, ReadTop
  <2>8. mUsedIndexes' \in 0 .. NumItems + Cardinality(Threads) - 1
    <3>1. CASE AllocFresh(t) /\ room[t]
      <4>1. mUsedIndexes' = mUsedIndexes + 1
        BY <3>1 DEF AllocFresh
      <4>2. t \in Rooms /\ Rooms \subseteq Threads
        BY <3>1 DEF Rooms
      <4>3. Cardinality(Rooms) >= 1 /\ Cardinality(Threads) >= 1
            /\ Cardinality(Rooms) \in Nat /\ Cardinality(Threads) \in Nat
        <5>1. IsFiniteSet(Rooms) /\ Rooms # {} /\ Threads # {}
          BY <4>2, FS_Subset
        <5>2. Cardinality(Rooms) # 0 /\ Cardinality(Threads) # 0
          BY <5>1, FS_EmptySet
        <5>3. Cardinality(Rooms) \in Nat /\ Cardinality(Threads) \in Nat
          BY <5>1, FS_CardinalityType
        <5> QED
          BY <5>2, <5>3
      <4> QED
        BY <4>1, <4>3 DEF RoomInv
    <3> QED
      BY <1>2, <3>1 DEF Call, Step, AllocReadUsed, AllocReadTop, AllocReadLink, AllocCas,
         AllocFresh, WriteItem, RemoveReadTop, RemoveReadTopAgain, RemoveWriteLink, RemoveCas
  <2> QED
    BY <2>1, <2>3, <2>4, <2>5, <2>6, <2>7, <2>8, Zenon DEF PoolStates
<1> QED
  BY <1>1, <1>2 DEF Next

LEMMA RoomStep ==
  ASSUME IInv, [Next]_vars
  PROVE  RoomInv'
<1> USE PoolAssumption DEF IInv, TypeOK
<1>0. /\ \A S \in SUBSET Threads : IsFiniteSet(S) /\ Cardinality(S) \in Nat
      /\ \A S, T \in SUBSET Threads : S \subseteq T => Cardinality(S) <= Cardinality(T)
  BY FS_Subset, FS_CardinalityType
<1>1. Rooms \in SUBSET Threads /\ Rooms' \in SUBSET Threads
  BY DEF Rooms
<1>2. CASE UNCHANGED vars
  BY <1>2, Zenon DEF vars, locals, RoomInv, Rooms
<1>3. ASSUME NEW t \in Threads, Call(t) \/ Step(t) PROVE RoomInv'
  <2>1. CASE AllocFresh(t) /\ room[t]
    <3>1. mUsedIndexes' = mUsedIndexes + 1
      BY <2>1 DEF AllocFresh
    <3>2. room' = [room EXCEPT ![t] = FALSE]
      BY <2>1, Zenon DEF AllocFresh, Return
    <3>3. Rooms' = Rooms \ {t} /\ t \in Rooms
      BY <2>1, <3>2, Zenon DEF Rooms
    <3>4. Cardinality(Rooms') = Cardinality(Rooms) - 1
      <4>1. IsFiniteSet(Rooms)
        BY <1>0, <1>1
      <4> QED
        BY <3>3, <4>1, FS_RemoveElement
    <3>5. CASE mUsedIndexes >= NumItems
      BY <1>0, <1>1, <3>1, <3>4, <3>5 DEF RoomInv
    <3>6. CASE mUsedIndexes < NumItems
      <4>1. Cardinality(Rooms) <= Cardinality(Threads)
        BY <1>0, <1>1
      <4> QED
        BY <1>0, <1>1, <3>1, <3>4, <3>6, <4>1 DEF RoomInv
    <3> QED
      BY <3>5, <3>6
  <2>2. CASE ~(AllocFresh(t) /\ room[t])
    <3>1. mUsedIndexes' = mUsedIndexes
      BY <1>3, <2>2 DEF Call, Step, AllocReadUsed, AllocReadTop, AllocReadLink, AllocCas,
         AllocFresh, WriteItem, RemoveReadTop, RemoveReadTopAgain, RemoveWriteLink, RemoveCas
    <3>2. ASSUME mUsedIndexes >= NumItems PROVE Rooms' \subseteq Rooms
      <4>1. \/ room' = room
            \/ room' = [room EXCEPT ![t] = FALSE]
            \/ room' = [room EXCEPT ![t] = mUsedIndexes < NumItems]
        BY <1>3, Zenon DEF Call, Step, AllocReadUsed, AllocReadTop, AllocReadLink, AllocCas,
           AllocFresh, WriteItem, RemoveReadTop, RemoveReadTopAgain, RemoveWriteLink, RemoveCas,
           Return, locals
      <4>2. (mUsedIndexes < NumItems) = FALSE
        BY <3>2
      <4>3. room' = room \/ room' = [room EXCEPT ![t] = FALSE]
        BY <4>1, <4>2, Zenon
      <4> QED
        BY <4>3, Zenon DEF Rooms
    <3>3. CASE mUsedIndexes >= NumItems
      <4>1. Cardinality(Rooms') <= Cardinality(Rooms)
        BY <1>0, <1>1, <3>2, <3>3
      <4> QED
        BY <1>0, <1>1, <3>1, <3>3, <4>1 DEF RoomInv
    <3>4. CASE ~(mUsedIndexes >= NumItems)
      BY <3>1, <3>4 DEF RoomInv
    <3> QED
      BY <3>3, <3>4
  <2> QED
    BY <2>1, <2>2
<1> QED
  BY <1>2, <1>3 DEF Next

(* Taking the top slot off the stack.                                         *)
LEMMA PopStep ==
  ASSUME TypeOK, OwnInv, StackInv, NEW t \in Threads, NEW s \in Slots,
         mNextFreeIndex.num = s,
         mNextFreeIndex'.num = mBuffer[s], mBuffer' = mBuffer, FreshSlots' = FreshSlots,
         HeldBy(t)' = HeldBy(t) \cup {s},
         \A u \in Threads \ {t} : HeldBy(u)' = HeldBy(u),
         \A u \in Threads : pc'[u] \in GivingBack => arg'[u] \in Slots \ own'[u]
  PROVE  OwnInv' /\ StackInv'
<1> USE PoolAssumption DEF Slots, Nil
<1> PICK n \in 0 .. NumItems : \E F \in [1 .. n -> Slots] : IsStack(F, n)
  BY DEF StackInv
<1>1. PICK F \in [1 .. n -> Slots] : IsStack(F, n)
  OBVIOUS
<1>2. n # 0 /\ s = F[1]
  BY <1>1 DEF IsStack
<1>3. s \notin FreshSlots /\ \A u \in Threads : s \notin HeldBy(u)
  BY <1>1, <1>2 DEF IsStack
<1>4. OwnInv'
  BY <1>3 DEF OwnInv
<1> DEFINE G == [i \in 1 .. n - 1 |-> F[i + 1]]
<1>5. \A i \in 1 .. n - 1 : i + 1 \in 1 .. n /\ G[i] = F[i + 1] /\ G[i] \in Slots
  BY <1>2
<1>6. \A i, j \in 1 .. n - 1 : G[i] = G[j] => i = j
  BY <1>1, <1>5 DEF IsStack
<1>7. mNextFreeIndex'.num = IF n - 1 = 0 THEN Nil ELSE G[1]
  <2>1. mBuffer[F[1]] = IF 1 = n THEN Nil ELSE F[2]
    BY <1>1, <1>2 DEF IsStack
  <2> QED
    BY <1>2, <1>5, <2>1
<1>8. \A i \in 1 .. n - 1 : mBuffer'[G[i]] = IF i = n - 1 THEN Nil ELSE G[i + 1]
  <2> TAKE i \in 1 .. n - 1
  <2>1. mBuffer[F[i + 1]] = IF i + 1 = n THEN Nil ELSE F[(i + 1) + 1]
    BY <1>1, <1>5 DEF IsStack
  <2> QED
    BY <1>2, <1>5, <2>1
<1>9. \A r \in Slots :
        (\E i \in 1 .. n - 1 : G[i] = r)
          <=> r \notin FreshSlots' /\ \A u \in Threads : r \notin HeldBy(u)'
  <2> TAKE r \in Slots
  <2>1. (\E i \in 1 .. n - 1 : G[i] = r) <=> (\E i \in 1 .. n : F[i] = r) /\ r # s
    <3>1. ASSUME NEW i \in 1 .. n - 1, G[i] = r PROVE (\E j \in 1 .. n : F[j] = r) /\ r # s
      BY <1>1, <1>2, <1>5, <3>1 DEF IsStack
    <3>2. ASSUME NEW j \in 1 .. n, F[j] = r, r # s PROVE \E i \in 1 .. n - 1 : G[i] = r
      <4>1. j - 1 \in 1 .. n - 1 /\ (j - 1) + 1 = j
        BY <1>2, <3>2
      <4> QED
        BY <1>5, <3>2, <4>1
    <3> QED
      BY <3>1, <3>2
  <2>2. (\A u \in Threads : r \notin HeldBy(u)') <=> (\A u \in Threads : r \notin HeldBy(u)) /\ r # s
    BY DEF OwnInv
  <2>3. (\E i \in 1 .. n : F[i] = r) <=> r \notin FreshSlots /\ \A u \in Threads : r \notin HeldBy(u)
    BY <1>1 DEF IsStack
  <2> HIDE DEF G
  <2> QED
    BY <2>1, <2>2, <2>3
<1>10. G \in [1 .. n - 1 -> Slots] /\ n - 1 \in 0 .. NumItems
  BY <1>2, <1>5
<1>11. IsStack(G, n - 1)'
  <2> HIDE DEF G
  <2> QED
    BY <1>6, <1>7, <1>8, <1>9 DEF IsStack
<1> QED
  BY <1>4, <1>10, <1>11 DEF StackInv

(* There are no more slots on the stack than there are.                        *)
LEMMA StackFits ==
  ASSUME NEW n \in Nat, NEW F \in [1 .. n -> Slots], \A i, j \in 1 .. n : F[i] = F[j] => i = j
  PROVE  n <= NumItems
<1>1. F \in Injection(1 .. n, Slots)
  BY DEF Injection, IsInjective
<1>2. IsFiniteSet(Slots) /\ Cardinality(Slots) = NumItems
  BY FS_Interval, PoolAssumption DEF Slots
<1>3. Cardinality(1 .. n) = n
  BY FS_Interval
<1>4. Cardinality(1 .. n) <= Cardinality(Slots)
  BY <1>1, <1>2, FS_Injection
<1> QED
  BY <1>2, <1>3, <1>4

(* Putting the slot thread t gives back on the stack.                          *)
LEMMA PushStep ==
  ASSUME TypeOK, OwnInv, StackInv, NEW t \in Threads, NEW s \in Slots,
         s \in HeldBy(t), mBuffer[s] = mNextFreeIndex.num,
         mNextFreeIndex'.num = s, mBuffer' = mBuffer, FreshSlots' = FreshSlots,
         HeldBy(t)' = HeldBy(t) \ {s},
         \A u \in Threads \ {t} : HeldBy(u)' = HeldBy(u),
         \A u \in Threads : pc'[u] \in GivingBack => arg'[u] \in Slots \ own'[u]
  PROVE  OwnInv' /\ StackInv'
<1> USE PoolAssumption DEF Slots, Nil
<1> PICK n \in 0 .. NumItems : \E F \in [1 .. n -> Slots] : IsStack(F, n)
  BY DEF StackInv
<1>1. PICK F \in [1 .. n -> Slots] : IsStack(F, n)
  OBVIOUS
<1>2. s \notin FreshSlots /\ \A u \in Threads \ {t} : s \notin HeldBy(u)
  BY DEF OwnInv
<1>3. \A i \in 1 .. n : F[i] # s
  BY <1>1 DEF IsStack
<1>4. OwnInv'
  BY DEF OwnInv
<1> DEFINE G == [i \in 1 .. n + 1 |-> IF i = 1 THEN s ELSE F[i - 1]]
<1>5. G[1] = s /\ \A i \in 1 .. n : i + 1 \in 1 .. n + 1 /\ G[i + 1] = F[i]
  OBVIOUS
<1>6. \A i \in 1 .. n + 1 : i = 1 \/ (i - 1 \in 1 .. n /\ G[i] = F[i - 1] /\ (i - 1) + 1 = i)
  OBVIOUS
<1>7. G \in [1 .. n + 1 -> Slots]
  OBVIOUS
<1> HIDE DEF G
<1>8. \A i, j \in 1 .. n + 1 : G[i] = G[j] => i = j
  <2> TAKE i, j \in 1 .. n + 1
  <2>1. CASE i = 1 \/ j = 1
    BY <1>3, <1>5, <1>6, <2>1
  <2>2. CASE i # 1 /\ j # 1
    BY <1>1, <1>6, <2>2 DEF IsStack
  <2> QED
    BY <2>1, <2>2
<1>9. n + 1 \in 0 .. NumItems
  <2>1. n + 1 \in Nat
    OBVIOUS
  <2>2. n + 1 <= NumItems
    BY <1>7, <1>8, <2>1, StackFits
  <2> QED
    BY <2>1, <2>2
<1>10. \A i \in 1 .. n + 1 : mBuffer'[G[i]] = IF i = n + 1 THEN Nil ELSE G[i + 1]
  <2> TAKE i \in 1 .. n + 1
  <2>1. CASE i = 1
    <3>1. mBuffer'[G[i]] = IF n = 0 THEN Nil ELSE F[1]
      BY <1>1, <1>5, <2>1 DEF IsStack
    <3> QED
      BY <1>5, <2>1, <3>1
  <2>2. CASE i # 1
    <3>1. mBuffer'[G[i]] = IF i - 1 = n THEN Nil ELSE F[(i - 1) + 1]
      BY <1>1, <1>6, <2>2 DEF IsStack
    <3> QED
      BY <1>5, <2>2, <3>1
  <2> QED
    BY <2>1, <2>2
<1>11. \A r \in Slots :
         (\E i \in 1 .. n + 1 : G[i] = r)
           <=> r \notin FreshSlots' /\ \A u \in Threads : r \notin HeldBy(u)'
  <2> TAKE r \in Slots
  <2>1. (\E i \in 1 .. n + 1 : G[i] = r) <=> (\E i \in 1 .. n : F[i] = r) \/ r = s
    <3>1. ASSUME NEW i \in 1 .. n + 1, G[i] = r PROVE (\E j \in 1 .. n : F[j] = r) \/ r = s
      BY <1>5, <1>6, <3>1
    <3>2. ASSUME NEW j \in 1 .. n, F[j] = r PROVE \E i \in 1 .. n + 1 : G[i] = r
      BY <1>5, <3>2
    <3>3. ASSUME r = s PROVE \E i \in 1 .. n + 1 : G[i] = r
      <4>1. 1 \in 1 .. n + 1
        OBVIOUS
      <4> QED
        BY <1>5, <3>3, <4>1
    <3> QED
      BY <3>1, <3>2, <3>3
  <2>2. (\A u \in Threads : r \notin HeldBy(u)') <=> (\A u \in Threads : r \notin HeldBy(u)) \/ r = s
    BY <1>2
  <2>3. (\E i \in 1 .. n : F[i] = r) <=> r \notin FreshSlots /\ \A u \in Threads : r \notin HeldBy(u)
    BY <1>1 DEF IsStack
  <2> QED
    BY <1>2, <2>1, <2>2, <2>3
<1>12. mNextFreeIndex'.num = IF n + 1 = 0 THEN Nil ELSE G[1]
  BY <1>5
<1>13. IsStack(G, n + 1)'
  BY <1>8, <1>10, <1>11, <1>12 DEF IsStack
<1> QED
  BY <1>4, <1>7, <1>9, <1>13 DEF StackInv

(* Handing out the first slot never used, if there is one.                     *)
LEMMA FreshStep ==
  ASSUME TypeOK, OwnInv, StackInv, NEW t \in Threads,
         mUsedIndexes' = mUsedIndexes + 1,
         mNextFreeIndex' = mNextFreeIndex, mBuffer' = mBuffer,
         HeldBy(t)' = HeldBy(t) \cup ({mUsedIndexes} \cap Slots),
         \A u \in Threads \ {t} : HeldBy(u)' = HeldBy(u),
         \A u \in Threads : pc'[u] \in GivingBack => arg'[u] \in Slots \ own'[u]
  PROVE  OwnInv' /\ StackInv'
<1> DEFINE x == mUsedIndexes
           X == {x} \cap Slots
<1>1. FreshSlots' = FreshSlots \ {x} /\ X \subseteq FreshSlots
  BY PoolAssumption DEF FreshSlots, Slots, TypeOK
<1>2. OwnInv'
  <2> HIDE DEF x, X
  <2>1. /\ \A u \in Threads : HeldBy(u) \cap X = {} /\ HeldBy(u)' \subseteq HeldBy(u) \cup X
        /\ \A u \in Threads \ {t} : HeldBy(u)' = HeldBy(u)
        /\ X \cap FreshSlots' = {}
    BY <1>1 DEF OwnInv, x, X
  <2>2. \A u, v \in Threads : u # v => HeldBy(u)' \cap HeldBy(v)' = {}
    <3> TAKE u, v \in Threads
    <3>1. u = t \/ v = t \/ (u \in Threads \ {t} /\ v \in Threads \ {t})
      OBVIOUS
    <3> QED
      BY <2>1, <3>1 DEF OwnInv
  <2>3. \A u \in Threads : HeldBy(u)' \cap FreshSlots' = {}
    BY <1>1, <2>1 DEF OwnInv
  <2> QED
    BY <2>2, <2>3 DEF OwnInv
<1> PICK n \in 0 .. NumItems : \E F \in [1 .. n -> Slots] : IsStack(F, n)
  BY DEF StackInv
<1>3. PICK F \in [1 .. n -> Slots] : IsStack(F, n)
  OBVIOUS
<1>4. \A r \in Slots :
        r \notin FreshSlots /\ (\A u \in Threads : r \notin HeldBy(u))
          <=> r \notin FreshSlots' /\ (\A u \in Threads : r \notin HeldBy(u)')
  <2> TAKE r \in Slots
  <2>1. CASE r = x
    <3>1. r \in FreshSlots /\ r \in HeldBy(t)'
      BY <1>1, <2>1
    <3> QED
      BY <3>1
  <2>2. CASE r # x
    <3>1. \A u \in Threads : r \in HeldBy(u)' <=> r \in HeldBy(u)
      BY <2>2
    <3> QED
      BY <1>1, <2>2, <3>1
  <2> QED
    BY <2>1, <2>2
<1>5. IsStack(F, n)'
  BY <1>3, <1>4 DEF IsStack
<1> QED
  BY <1>2, <1>5 DEF StackInv

LEMMA OwnStackStep ==
  ASSUME MaxOvertake <= CounterMod, IInv, [Next]_vars
  PROVE  OwnInv' /\ StackInv'
<1> USE DEF IInv
<1>1. CASE UNCHANGED vars
  <2>1. /\ FreshSlots' = FreshSlots /\ mNextFreeIndex' = mNextFreeIndex /\ mBuffer' = mBuffer
        /\ \A t \in Threads : HeldBy(t)' = HeldBy(t)
        /\ pc' = pc /\ arg' = arg /\ own' = own
    BY <1>1, Zenon DEF vars, locals, HeldBy, Returning, FreshSlots
  <2> QED
    BY <2>1, NoSlotMoves DEF OwnInv
<1>2. ASSUME NEW t \in Threads, Call(t) \/ Step(t) PROVE OwnInv' /\ StackInv'
  <2>0. \A u \in Threads \ {t} :
          /\ HeldBy(u)' = HeldBy(u)
          /\ pc'[u] \in GivingBack => arg'[u] \in Slots \ own'[u]
    BY <1>2, OnlyOne DEF OwnInv
  <2>1. CASE AllocCas(t) /\ mNextFreeIndex = top[t]
    <3>1. top[t].num \in Slots /\ link[t] = mBuffer[top[t].num]
      BY <2>1, PopLink DEF AllocCas
    <3>2. /\ mNextFreeIndex'.num = link[t] /\ mBuffer' = mBuffer /\ FreshSlots' = FreshSlots
          /\ own'[t] = own[t] \cup {top[t].num} /\ pc[t] = "allocCas" /\ pc'[t] = "idle"
      BY <2>1 DEF AllocCas, SetTop, Return, GoTo, FreshSlots, TypeOK
    <3>3. HeldBy(t)' = HeldBy(t) \cup {top[t].num}
      BY <3>2 DEF HeldBy, Returning
    <3>4. \A u \in Threads : pc'[u] \in GivingBack => arg'[u] \in Slots \ own'[u]
      BY <2>0, <3>2 DEF GivingBack
    <3> QED
      BY <2>0, <2>1, <3>1, <3>2, <3>3, <3>4, PopStep
  <2>2. CASE RemoveCas(t) /\ mNextFreeIndex = top[t]
    <3>1. /\ pc[t] = "removeCas" /\ pc'[t] = "idle" /\ own' = own
          /\ mNextFreeIndex'.num = arg[t] /\ mBuffer' = mBuffer /\ FreshSlots' = FreshSlots
      BY <2>2 DEF RemoveCas, SetTop, Return, GoTo, FreshSlots, TypeOK
    <3>2. arg[t] \in Slots /\ arg[t] \notin own[t] /\ mBuffer[arg[t]] = mNextFreeIndex.num
      BY <2>2, <3>1 DEF OwnInv, TopInv, Knows, GivingBack
    <3>3. arg[t] \in HeldBy(t) /\ HeldBy(t)' = HeldBy(t) \ {arg[t]}
      BY <3>1, <3>2 DEF HeldBy, Returning
    <3>4. \A u \in Threads : pc'[u] \in GivingBack => arg'[u] \in Slots \ own'[u]
      BY <2>0, <3>1 DEF GivingBack
    <3> QED
      BY <2>0, <3>1, <3>2, <3>3, <3>4, PushStep
  <2>3. CASE AllocFresh(t) /\ room[t]
    <3>1. /\ mUsedIndexes' = mUsedIndexes + 1 /\ mNextFreeIndex' = mNextFreeIndex
          /\ mBuffer' = mBuffer /\ own'[t] = own[t] \cup ({mUsedIndexes} \cap Slots)
          /\ pc[t] = "useFresh" /\ pc'[t] = "idle"
      BY <2>3 DEF AllocFresh, Return, GoTo, TypeOK
    <3>2. HeldBy(t)' = HeldBy(t) \cup ({mUsedIndexes} \cap Slots)
      BY <3>1 DEF HeldBy, Returning
    <3>3. \A u \in Threads : pc'[u] \in GivingBack => arg'[u] \in Slots \ own'[u]
      BY <2>0, <3>1 DEF GivingBack
    <3> QED
      BY <2>0, <3>1, <3>2, <3>3, FreshStep
  <2>4. ASSUME HeldBy(t)' = HeldBy(t),
               pc'[t] \in GivingBack => arg'[t] \in Slots \ own'[t],
               mUsedIndexes' = mUsedIndexes, mNextFreeIndex' = mNextFreeIndex,
               \A s \in Slots : s \notin HeldBy(t) => mBuffer'[s] = mBuffer[s]
        PROVE  OwnInv' /\ StackInv'
    <3>1. FreshSlots' = FreshSlots
      BY <2>4 DEF FreshSlots
    <3>2. \A u \in Threads : HeldBy(u)' = HeldBy(u)
      BY <2>0, <2>4
    <3>3. \A u \in Threads : pc'[u] \in GivingBack => arg'[u] \in Slots \ own'[u]
      BY <2>0, <2>4
    <3>4. \A s \in Slots : (\A u \in Threads : s \notin HeldBy(u)) => mBuffer'[s] = mBuffer[s]
      BY <2>4
    <3> QED
      BY <2>4, <3>1, <3>2, <3>3, <3>4, NoSlotMoves
  <2>5. CASE \/ AllocReadUsed(t) \/ AllocReadTop(t) \/ AllocReadLink(t)
             \/ AllocCas(t) /\ mNextFreeIndex # top[t]
             \/ AllocFresh(t) /\ ~room[t]
    <3>1. /\ pc[t] \notin GivingBack /\ pc'[t] \notin GivingBack /\ own' = own
          /\ mUsedIndexes' = mUsedIndexes /\ mNextFreeIndex' = mNextFreeIndex /\ mBuffer' = mBuffer
      BY <2>5 DEF AllocReadUsed, AllocReadTop, AllocReadLink, AllocCas, AllocFresh,
         Return, GoTo, TypeOK, GivingBack
    <3>2. HeldBy(t)' = HeldBy(t)
      BY <3>1 DEF HeldBy, Returning, GivingBack
    <3> QED
      BY <2>4, <3>1, <3>2
  <2>6. ASSUME NEW s \in Slots, WriteItem(t, s) PROVE OwnInv' /\ StackInv'
    <3>1. HeldBy(t)' = HeldBy(t) /\ s \in HeldBy(t)
      BY <2>6, Zenon DEF WriteItem, HeldBy, Returning, locals
    <3>2. \A r \in Slots : r \notin HeldBy(t) => mBuffer'[r] = mBuffer[r]
      BY <2>6, <3>1 DEF WriteItem, TypeOK
    <3>3. pc'[t] \in GivingBack => arg'[t] \in Slots \ own'[t]
      BY <2>6 DEF WriteItem, OwnInv, locals
    <3> QED
      BY <2>4, <2>6, <3>1, <3>2, <3>3 DEF WriteItem
  <2>7. ASSUME NEW s \in Slots, RemoveReadTop(t, s) PROVE OwnInv' /\ StackInv'
    <3>1. /\ pc[t] = "idle" /\ pc'[t] = "writeLink" /\ s \in own[t] /\ arg'[t] = s
          /\ own'[t] = own[t] \ {s}
          /\ mUsedIndexes' = mUsedIndexes /\ mNextFreeIndex' = mNextFreeIndex /\ mBuffer' = mBuffer
      BY <2>7 DEF RemoveReadTop, GoTo, TypeOK
    <3>2. HeldBy(t)' = HeldBy(t)
      BY <3>1 DEF HeldBy, Returning
    <3> QED
      BY <2>4, <3>1, <3>2
  <2>8. CASE \/ RemoveReadTopAgain(t) \/ RemoveWriteLink(t)
             \/ RemoveCas(t) /\ mNextFreeIndex # top[t]
    <3>1. /\ pc[t] \in GivingBack /\ pc'[t] \in GivingBack /\ own' = own /\ arg' = arg
          /\ mUsedIndexes' = mUsedIndexes /\ mNextFreeIndex' = mNextFreeIndex
          /\ \A r \in Slots : r # arg[t] => mBuffer'[r] = mBuffer[r]
      BY <2>8 DEF RemoveReadTopAgain, RemoveWriteLink, RemoveCas, GoTo, TypeOK, GivingBack, locals
    <3>2. HeldBy(t)' = HeldBy(t) /\ arg[t] \in HeldBy(t)
      BY <3>1 DEF HeldBy, Returning, GivingBack
    <3> QED
      BY <2>4, <3>1, <3>2 DEF OwnInv
  <2> QED
    BY <1>2, <2>1, <2>2, <2>3, <2>5, <2>6, <2>7, <2>8, Zenon DEF Call, Step
<1> QED
  BY <1>1, <1>2 DEF Next

(* What a thread knows survives a step that leaves the top alone and writes only
   in a slot that another thread has, or its own callers.                      *)
LEMMA StillKnows ==
  ASSUME OwnInv, StackInv, TopInv, NEW u \in Threads, NEW t \in Threads,
         mNextFreeIndex' = mNextFreeIndex,
         pc'[u] = pc[u], top'[u] = top[u], link'[u] = link[u], arg'[u] = arg[u],
         age'[u] = age[u],
         \A s \in Slots : mBuffer'[s] # mBuffer[s] =>
                            s \in HeldBy(t) /\ (u = t => s \in own[t])
  PROVE  Knows(u)'
<1>1. ASSUME pc[u] = "allocCas", age[u] = 0 PROVE mBuffer'[top[u].num] = mBuffer[top[u].num]
  <2>1. top[u].num \in Slots /\ mNextFreeIndex = top[u]
    BY <1>1 DEF TopInv, Knows, Comparing
  <2> PICK n \in 0 .. NumItems : \E F \in [1 .. n -> Slots] : IsStack(F, n)
    BY DEF StackInv
  <2>2. PICK F \in [1 .. n -> Slots] : IsStack(F, n)
    OBVIOUS
  <2>3. 1 \in 1 .. n /\ top[u].num = F[1]
    BY <2>1, <2>2 DEF IsStack, Slots, Nil
  <2>4. top[u].num \notin HeldBy(t)
    BY <2>1, <2>2, <2>3 DEF IsStack
  <2> QED
    BY <2>1, <2>4
<1>2. ASSUME pc[u] = "removeCas" PROVE mBuffer'[arg[u]] = mBuffer[arg[u]]
  <2>1. arg[u] \in HeldBy(u) /\ arg[u] \in Slots \ own[u]
    BY <1>2 DEF HeldBy, Returning, OwnInv, GivingBack
  <2>2. u # t => arg[u] \notin HeldBy(t)
    BY <2>1 DEF OwnInv
  <2> QED
    BY <2>1, <2>2
<1> QED
  BY <1>1, <1>2 DEF TopInv, Knows

(* A thread that was going to compare the top is one more change behind.        *)
LEMMA KnowsOlder ==
  ASSUME IInv, NEW t \in Threads, NEW num, pc[t] \in Comparing, mNextFreeIndex = top[t],
         SetTop(t, num), mBuffer' = mBuffer, NEW u \in Threads, u # t,
         pc'[u] = pc[u], top'[u] = top[u], link'[u] = link[u], arg'[u] = arg[u]
  PROVE  Knows(u)'
<1> USE DEF IInv
<1>1. CASE pc[u] \notin Comparing
  BY <1>1 DEF Knows, TopInv, Comparing
<1>2. CASE pc[u] \in Comparing
  <2>1. age'[u] = age[u] + 1 /\ age[u] + 1 < MaxOvertake /\ age[u] \in Nat
    BY <1>2 DEF SetTop, Age, TypeOK
  <2>2. top[u].cnt \in Nat /\ top[u].cnt + age[u] \in Nat
    BY <2>1 DEF TypeOK, Tops
  <2>3. mNextFreeIndex.cnt = (top[u].cnt + age[u]) % CounterMod
    BY <1>2 DEF TopInv, Knows
  <2>4. mNextFreeIndex'.cnt = (((top[u].cnt + age[u]) % CounterMod) + 1) % CounterMod
    BY <2>3 DEF SetTop
  <2>5. mNextFreeIndex'.cnt = ((top[u].cnt + age[u]) + 1) % CounterMod
    BY <2>2, <2>4, ModNext, PoolAssumption
  <2>6. (top[u].cnt + age[u]) + 1 = top'[u].cnt + age'[u]
    BY <2>1, <2>2
  <2>7. mNextFreeIndex'.cnt = (top'[u].cnt + age'[u]) % CounterMod
    BY <2>5, <2>6
  <2>8. age'[u] # 0 /\ age'[u] < MaxOvertake
    BY <2>1, PoolAssumption
  <2> QED
    BY <2>7, <2>8 DEF TopInv, Knows
<1> QED
  BY <1>1, <1>2

LEMMA TopStep ==
  ASSUME MaxOvertake <= CounterMod, IInv, [Next]_vars
  PROVE  TopInv'
<1> USE DEF IInv
<1>1. CASE UNCHANGED vars
  BY <1>1 DEF vars, locals, TopInv, Knows
<1>2. ASSUME NEW t \in Threads, Call(t) \/ Step(t), NEW u \in Threads PROVE Knows(u)'
  <2>0. u # t => pc'[u] = pc[u] /\ top'[u] = top[u] /\ link'[u] = link[u] /\ arg'[u] = arg[u]
    BY <1>2, OnlyOne
  <2>1. CASE AllocCas(t) /\ mNextFreeIndex = top[t]
    <3>1. SetTop(t, link[t]) /\ pc[t] \in Comparing /\ pc'[t] = "idle" /\ mBuffer' = mBuffer
      BY <2>1 DEF AllocCas, Return, GoTo, TypeOK, Comparing
    <3>2. CASE u = t
      BY <3>1, <3>2 DEF Knows, Comparing
    <3>3. CASE u # t
      BY <2>0, <2>1, <3>1, <3>3, KnowsOlder
    <3> QED
      BY <3>2, <3>3
  <2>2. CASE RemoveCas(t) /\ mNextFreeIndex = top[t]
    <3>1. SetTop(t, arg[t]) /\ pc[t] \in Comparing /\ pc'[t] = "idle" /\ mBuffer' = mBuffer
      BY <2>2 DEF RemoveCas, Return, GoTo, TypeOK, Comparing
    <3>2. CASE u = t
      BY <3>1, <3>2 DEF Knows, Comparing
    <3>3. CASE u # t
      BY <2>0, <2>2, <3>1, <3>3, KnowsOlder
    <3> QED
      BY <3>2, <3>3
  <2>3. ASSUME u # t, mNextFreeIndex' = mNextFreeIndex, age'[u] = age[u],
               \A s \in Slots : mBuffer'[s] # mBuffer[s] => s \in HeldBy(t)
        PROVE  Knows(u)'
    BY <2>0, <2>3, StillKnows
  <2>4. ASSUME ReadTop(t), mNextFreeIndex' = mNextFreeIndex, mBuffer' = mBuffer,
               pc'[t] \in {"readLink", "writeLink", "useFresh"},
               pc'[t] = "readLink" => mNextFreeIndex.num # Nil
        PROVE  Knows(u)'
    <3>1. CASE u # t
      <4>1. age'[u] = age[u]
        BY <2>4, <3>1 DEF ReadTop, TypeOK
      <4> QED
        BY <2>3, <2>4, <3>1, <4>1
    <3>2. CASE u = t
      <4>1. top'[t] = mNextFreeIndex /\ age'[t] = 0
        BY <2>4 DEF ReadTop, TypeOK
      <4>2. mNextFreeIndex.cnt \in 0 .. CounterMod - 1
        BY DEF TypeOK, Tops
      <4>3. (mNextFreeIndex.cnt + 0) % CounterMod = mNextFreeIndex.cnt
        <5>1. mNextFreeIndex.cnt + 0 = mNextFreeIndex.cnt
          BY <4>2
        <5> QED
          BY <4>2, <5>1, ModSmall, PoolAssumption
      <4>4. mNextFreeIndex.num # Nil => mNextFreeIndex.num \in Slots
        BY DEF TypeOK, Tops
      <4>5. 0 < MaxOvertake
        BY PoolAssumption
      <4> QED
        BY <2>4, <3>2, <4>1, <4>3, <4>4, <4>5 DEF Knows, Comparing
    <3> QED
      BY <3>1, <3>2
  <2>5. CASE AllocReadTop(t)
    BY <2>4, <2>5 DEF AllocReadTop, GoTo, TypeOK
  <2>6. ASSUME NEW s \in Slots, RemoveReadTop(t, s) PROVE Knows(u)'
    BY <2>4, <2>6 DEF RemoveReadTop, GoTo, TypeOK
  <2>7. CASE RemoveReadTopAgain(t)
    BY <2>4, <2>7 DEF RemoveReadTopAgain, GoTo, TypeOK
  <2>8. CASE \/ AllocReadUsed(t) \/ AllocFresh(t)
             \/ AllocCas(t) /\ mNextFreeIndex # top[t]
             \/ RemoveCas(t) /\ mNextFreeIndex # top[t]
    <3>1. /\ mNextFreeIndex' = mNextFreeIndex /\ mBuffer' = mBuffer /\ age' = age
          /\ pc'[t] \in {"idle", "readTop", "retry"}
      BY <2>8 DEF AllocReadUsed, AllocFresh, AllocCas, RemoveCas, Return, GoTo, TypeOK
    <3>2. CASE u = t
      BY <3>1, <3>2 DEF Knows, Comparing
    <3> QED
      BY <2>3, <3>1, <3>2
  <2>9. CASE AllocReadLink(t)
    <3>1. /\ mNextFreeIndex' = mNextFreeIndex /\ mBuffer' = mBuffer /\ age' = age /\ top' = top
          /\ pc[t] = "readLink" /\ pc'[t] = "allocCas" /\ link'[t] = mBuffer[top[t].num]
      BY <2>9 DEF AllocReadLink, GoTo, TypeOK
    <3>2. CASE u = t
      BY <3>1, <3>2 DEF TopInv, Knows, Comparing
    <3> QED
      BY <2>3, <3>1, <3>2
  <2>10. CASE RemoveWriteLink(t)
    <3>1. /\ pc[t] = "writeLink" /\ arg[t] \in Slots
          /\ arg[t] \in HeldBy(t)
      BY <2>10 DEF RemoveWriteLink, OwnInv, GivingBack, HeldBy, Returning
    <3>2. /\ mNextFreeIndex' = mNextFreeIndex /\ age' = age /\ top' = top /\ arg' = arg
          /\ pc'[t] = "removeCas" /\ mBuffer'[arg[t]] = top[t].num
          /\ \A s \in Slots : s # arg[t] => mBuffer'[s] = mBuffer[s]
      BY <2>10, <3>1 DEF RemoveWriteLink, GoTo, TypeOK, locals
    <3>3. CASE u = t
      BY <3>1, <3>2, <3>3 DEF TopInv, Knows, Comparing
    <3>4. CASE u # t
      BY <2>3, <3>1, <3>2, <3>4
    <3> QED
      BY <3>3, <3>4
  <2>11. ASSUME NEW s \in Slots, WriteItem(t, s) PROVE Knows(u)'
    <3>1. \A r \in Slots : mBuffer'[r] # mBuffer[r] => r \in HeldBy(t) /\ r \in own[t]
      BY <2>11 DEF WriteItem, TypeOK, HeldBy
    <3>2. /\ mNextFreeIndex' = mNextFreeIndex /\ pc' = pc /\ top' = top /\ link' = link
          /\ arg' = arg /\ age' = age
      BY <2>11 DEF WriteItem, locals
    <3> QED
      BY <3>1, <3>2, StillKnows
  <2> QED
    BY <1>2, <2>1, <2>2, <2>5, <2>6, <2>7, <2>8, <2>9, <2>10, <2>11, Zenon DEF Call, Step
<1> QED
  BY <1>1, <1>2 DEF Next, TopInv

------------------------------------------------------------------------------
(* The strengthening holds always: the stack of free slots, who has the others,
   and what each thread still knows of the top it read.                        *)
THEOREM InductiveInvariant ==
  ASSUME MaxOvertake <= CounterMod
  PROVE  Spec => []IInv
<1>1. IInv /\ [Next]_vars => IInv'
  BY TypeStep, RoomStep, OwnStackStep, TopStep DEF IInv
<1> QED
  BY <1>1, IInvInit, PTL DEF Spec

(* Every variable keeps its type, and mUsedIndexes overshoots the slots by less
   than the number of threads, however many calls fail.                        *)
THEOREM TypeCorrect ==
  ASSUME MaxOvertake <= CounterMod
  PROVE  Spec => []TypeOK
<1>1. IInv => TypeOK
  BY DEF IInv
<1> QED
  BY <1>1, InductiveInvariant, PTL

(* No slot is handed out twice.                                               *)
THEOREM ExclusiveSlotsHolds ==
  ASSUME MaxOvertake <= CounterMod
  PROVE  Spec => []ExclusiveSlots
<1>1. IInv => ExclusiveSlots
  BY IInvImplies
<1> QED
  BY <1>1, InductiveInvariant, PTL

(* The links from the top lead through the free slots and end; no slot is lost.  *)
THEOREM NoSlotLostHolds ==
  ASSUME MaxOvertake <= CounterMod
  PROVE  Spec => []NoSlotLost
<1>1. IInv => NoSlotLost
  BY IInvImplies
<1> QED
  BY <1>1, InductiveInvariant, PTL

==============================================================================
