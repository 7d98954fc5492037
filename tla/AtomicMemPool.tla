---------------------------- MODULE AtomicMemPool ----------------------------
(***************************************************************************)
(* ycommon/containers/atomic_mem_pool.{h,cpp}: a pool of fixed-size slots    *)
(* shared by threads.  Slots never used yet are handed out by counting       *)
(* mUsedIndexes up; a slot given back goes on a stack threaded through the   *)
(* first four bytes of the free slots, whose top is the word mNextFreeIndex: *)
(* a slot number and an 8-bit counter bumped by every change.                *)
(*                                                                           *)
(* Each action is one access to shared memory.  age[t] counts the changes of *)
(* the top since thread t read it.  The counter tells the top from an old    *)
(* one only while age < CounterMod; MaxOvertake, the bound on age, is the    *)
(* assumption on the scheduler that makes the pool safe (256 in the code).   *)
(***************************************************************************)
EXTENDS Integers, FiniteSets

CONSTANTS
  Threads,
  NumItems,     (* mNumItems                                                *)
  CounterMod,   (* number of values of the counter, 2^NUM_MASK_BITS         *)
  MaxOvertake,  (* scheduling assumption, see above                         *)
  UserData      (* what the owner of a slot wrote over its link             *)

Nil == -1                      \* static_cast<uint32_t>(-1)
Slots == 0 .. NumItems - 1
Links == Slots \cup {Nil, UserData}

ASSUME PoolAssumption ==
  /\ NumItems \in Nat \ {0}
  /\ CounterMod \in Nat \ {0}
  /\ MaxOvertake \in Nat \ {0}
  /\ IsFiniteSet(Threads)
  /\ UserData \notin Int

VARIABLES
  mUsedIndexes,
  mNextFreeIndex, (* the top of the free stack, [cnt, num]                  *)
  mBuffer,        (* the link in each slot                                  *)
  own,            (* the slots the callers of each thread hold              *)
  pc,
  room,           (* Allocate: its local used_indexes < mNumItems           *)
  top,            (* local next_free_index_value                            *)
  link,           (* local new_next_free_index of Allocate                  *)
  arg,            (* the index Remove gives back                            *)
  age             (* see above                                              *)

locals == <<room, top, link, arg>>
vars == <<mUsedIndexes, mNextFreeIndex, mBuffer, own, pc, locals, age>>

Tops == [cnt : 0 .. CounterMod - 1, num : Slots \cup {Nil}]

NoTop == [cnt |-> 0, num |-> Nil]

Init ==
  /\ mUsedIndexes = 0
  /\ mNextFreeIndex = NoTop
  /\ mBuffer = [s \in Slots |-> UserData]
  /\ own = [t \in Threads |-> {}]
  /\ pc = [t \in Threads |-> "idle"]
  /\ room = [t \in Threads |-> FALSE]
  /\ top = [t \in Threads |-> NoTop]
  /\ link = [t \in Threads |-> Nil]
  /\ arg = [t \in Threads |-> Nil]
  /\ age = [t \in Threads |-> 0]

GoTo(t, to) == pc' = [pc EXCEPT ![t] = to]

\* The call ends and its locals with it.
Return(t) ==
  /\ GoTo(t, "idle")
  /\ room' = [room EXCEPT ![t] = FALSE]
  /\ top' = [top EXCEPT ![t] = NoTop]
  /\ link' = [link EXCEPT ![t] = Nil]
  /\ arg' = [arg EXCEPT ![t] = Nil]

\* The program counters at which a thread will still compare the top it read.
Comparing == {"readLink", "allocCas", "writeLink", "removeCas"}

\* Thread t reads the top.
ReadTop(t) ==
  /\ top' = [top EXCEPT ![t] = mNextFreeIndex]
  /\ age' = [age EXCEPT ![t] = 0]

\* One more change of the top for whoever is going to compare it; t is not.
Age(t) ==
  /\ \A u \in Threads \ {t} : pc[u] \in Comparing => age[u] + 1 < MaxOvertake
  /\ age' = [u \in Threads |->
               IF u # t /\ pc[u] \in Comparing THEN age[u] + 1 ELSE 0]

\* Mutant: the counter does not change.
SetTopSameCount(t, num) ==
  /\ mNextFreeIndex' = [cnt |-> top[t].cnt, num |-> num]
  /\ Age(t)

\* CONSTRUCT_NEXT_VALUE(GET_CNT(top), num) is stored by thread t.
SetTop(t, num) ==
  /\ mNextFreeIndex' = [cnt |-> (top[t].cnt + 1) % CounterMod, num |-> num]
  /\ Age(t)

------------------------------------------------------------------------------
(* Allocate                                                                  *)

AllocReadUsed(t) ==
  /\ pc[t] = "idle"
  /\ room' = [room EXCEPT ![t] = mUsedIndexes < NumItems]
  /\ GoTo(t, "readTop")
  /\ UNCHANGED <<mUsedIndexes, mNextFreeIndex, mBuffer, own, top, link, arg, age>>

\* The first read of the top, and the one after a lost compare-and-set.
AllocReadTop(t) ==
  /\ pc[t] = "readTop"
  /\ ReadTop(t)
  /\ GoTo(t, IF mNextFreeIndex.num # Nil THEN "readLink" ELSE "useFresh")
  /\ UNCHANGED <<mUsedIndexes, mNextFreeIndex, mBuffer, own, room, link, arg>>

AllocReadLink(t) ==
  /\ pc[t] = "readLink"
  /\ link' = [link EXCEPT ![t] = mBuffer[top[t].num]]
  /\ GoTo(t, "allocCas")
  /\ UNCHANGED <<mUsedIndexes, mNextFreeIndex, mBuffer, own, room, top, arg, age>>

\* Mutant: a lost compare-and-set is taken for a won one.
AllocCasUnchecked(t) ==
  /\ pc[t] = "allocCas"
  /\ SetTop(t, link[t])
  /\ own' = [own EXCEPT ![t] = @ \cup {top[t].num}]
  /\ Return(t)
  /\ UNCHANGED <<mUsedIndexes, mBuffer>>

AllocCas(t) ==
  /\ pc[t] = "allocCas"
  /\ IF mNextFreeIndex = top[t]
       THEN /\ SetTop(t, link[t])
            /\ own' = [own EXCEPT ![t] = @ \cup {top[t].num}]
            /\ Return(t)
       ELSE /\ GoTo(t, "readTop")
            /\ UNCHANGED <<mNextFreeIndex, own, locals, age>>
  /\ UNCHANGED <<mUsedIndexes, mBuffer>>

\* Mutant: the stale used_indexes of line 103 is not looked at.
AllocFreshUnguarded(t) ==
  /\ pc[t] = "useFresh"
  /\ mUsedIndexes <= NumItems + Cardinality(Threads)  \* bound
  /\ mUsedIndexes' = mUsedIndexes + 1
  /\ own' = [own EXCEPT ![t] = @ \cup ({mUsedIndexes} \cap Slots)]
  /\ Return(t)
  /\ UNCHANGED <<mNextFreeIndex, mBuffer, age>>

\* The free stack was empty: count up, unless the array looked used up when the
\* call began; returns -1 if it looked so, or is so by now.
AllocFresh(t) ==
  /\ pc[t] = "useFresh"
  /\ IF room[t]
       THEN /\ mUsedIndexes' = mUsedIndexes + 1
            /\ own' = [own EXCEPT ![t] = @ \cup ({mUsedIndexes} \cap Slots)]
       ELSE UNCHANGED <<mUsedIndexes, own>>
  /\ Return(t)
  /\ UNCHANGED <<mNextFreeIndex, mBuffer, age>>

\* The memcpy of Insert, and any later write of the slot by whoever holds it.
WriteItem(t, s) ==
  /\ s \in own[t]
  /\ mBuffer' = [mBuffer EXCEPT ![s] = UserData]
  /\ UNCHANGED <<mUsedIndexes, mNextFreeIndex, own, pc, locals, age>>

------------------------------------------------------------------------------
(* Remove                                                                    *)

RemoveReadTop(t, s) ==
  /\ pc[t] = "idle" /\ s \in own[t]
  /\ own' = [own EXCEPT ![t] = @ \ {s}]
  /\ arg' = [arg EXCEPT ![t] = s]
  /\ ReadTop(t)
  /\ GoTo(t, "writeLink")
  /\ UNCHANGED <<mUsedIndexes, mNextFreeIndex, mBuffer, room, link>>

\* Mutant: after a lost compare-and-set the link is not written again.
RemoveReadTopKeepLink(t) ==
  /\ pc[t] = "retry"
  /\ ReadTop(t)
  /\ GoTo(t, "removeCas")
  /\ UNCHANGED <<mUsedIndexes, mNextFreeIndex, mBuffer, own, room, link, arg>>

RemoveReadTopAgain(t) ==
  /\ pc[t] = "retry"
  /\ ReadTop(t)
  /\ GoTo(t, "writeLink")
  /\ UNCHANGED <<mUsedIndexes, mNextFreeIndex, mBuffer, own, room, link, arg>>

RemoveWriteLink(t) ==
  /\ pc[t] = "writeLink"
  /\ mBuffer' = [mBuffer EXCEPT ![arg[t]] = top[t].num]
  /\ GoTo(t, "removeCas")
  /\ UNCHANGED <<mUsedIndexes, mNextFreeIndex, own, locals, age>>

\* Mutant: a lost compare-and-set is tried again without reading the top.
RemoveCasSpin(t) ==
  /\ pc[t] = "removeCas"
  /\ IF mNextFreeIndex = top[t]
       THEN SetTop(t, arg[t]) /\ Return(t)
       ELSE UNCHANGED <<mNextFreeIndex, pc, locals, age>>
  /\ UNCHANGED <<mUsedIndexes, mBuffer, own>>

RemoveCas(t) ==
  /\ pc[t] = "removeCas"
  /\ IF mNextFreeIndex = top[t]
       THEN SetTop(t, arg[t]) /\ Return(t)
       ELSE GoTo(t, "retry") /\ UNCHANGED <<mNextFreeIndex, locals, age>>
  /\ UNCHANGED <<mUsedIndexes, mBuffer, own>>

------------------------------------------------------------------------------
Call(t) ==
  \/ AllocReadUsed(t)
  \/ \E s \in Slots : RemoveReadTop(t, s) \/ WriteItem(t, s)

Step(t) ==
  \/ AllocReadTop(t) \/ AllocReadLink(t) \/ AllocCas(t) \/ AllocFresh(t)
  \/ RemoveReadTopAgain(t) \/ RemoveWriteLink(t) \/ RemoveCas(t)

Next == \E t \in Threads : Call(t) \/ Step(t)

\* A thread inside a call keeps running; nobody is obliged to make a call.
Spec == Init /\ [][Next]_vars
FairSpec == Spec /\ \A t \in Threads : WF_vars(Step(t))

------------------------------------------------------------------------------
\* In particular mUsedIndexes overshoots NumItems by less than the number of
\* threads however often Allocate fails: the stale read of atomic_mem_pool.cpp:75
\* keeps the 32-bit counter from creeping up to its limit.
TypeOK ==
  /\ mUsedIndexes \in 0 .. NumItems + Cardinality(Threads) - 1
  /\ mNextFreeIndex \in Tops
  /\ mBuffer \in [Slots -> Links]
  /\ own \in [Threads -> SUBSET Slots]
  /\ pc \in [Threads -> {"idle", "readTop", "readLink", "allocCas", "useFresh",
                         "writeLink", "removeCas", "retry"}]
  /\ room \in [Threads -> BOOLEAN]
  /\ top \in [Threads -> Tops]
  /\ link \in [Threads -> Links]
  /\ arg \in [Threads -> Slots \cup {Nil}]
  /\ age \in [Threads -> Nat]

\* The slot thread t is giving back, not on the stack yet.
Returning(t) == IF pc[t] \in {"writeLink", "removeCas", "retry"} THEN {arg[t]} ELSE {}

\* The slots met from the top along the links, one more each time.
chain[n \in 0 .. NumItems] ==
  IF n = 0 THEN mNextFreeIndex.num
  ELSE IF chain[n - 1] \in Slots THEN mBuffer[chain[n - 1]] ELSE chain[n - 1]

FreeSlots == {chain[n] : n \in 0 .. NumItems} \ {Nil}

FreshSlots == {s \in Slots : s >= mUsedIndexes}

Held == UNION {own[t] \cup Returning(t) : t \in Threads}

(* Nobody else holds a slot one caller holds or is giving back: Allocate
   (atomic_mem_pool.cpp:84-108) never returns a slot twice, though the link it
   installs was read from a slot another thread may have taken and written.   *)
ExclusiveSlots ==
  \A t, u \in Threads : t # u =>
    (own[t] \cup Returning(t)) \cap (own[u] \cup Returning(u)) = {}

(* No slot is lost, and none is free and held: the free stack ends, after as
   many steps as it has slots, and the free, the held and the never used slots
   are all the slots there are.  So once all is given back NumItems allocations
   succeed again (atomic_mem_pool_test_atomic.cpp:101-106).                    *)
NoSlotLost ==
  /\ chain[NumItems] = Nil
  /\ FreeSlots \cap (Held \cup FreshSlots) = {}
  /\ Held \cap FreshSlots = {}
  /\ FreeSlots \cup Held \cup FreshSlots = Slots

(* Lock-freedom of both retry loops (84-99, 120-136): a thread that is going to
   compare the top either finishes or has been beaten by a thread that did.    *)
SomeoneSucceeds ==
  \A t \in Threads :
    (pc[t] \in Comparing /\ age[t] = 0) ~> (pc[t] = "idle" \/ age[t] > 0)

==============================================================================
