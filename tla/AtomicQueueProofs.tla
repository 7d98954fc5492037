-------------------------- MODULE AtomicQueueProofs --------------------------
(***************************************************************************)
(* The safety of AtomicQueue for any number of consumers, any ring size,    *)
(* any counter width and any number of laps, as long as no consumer is      *)
(* overtaken by more laps than the counter can tell apart.                  *)
(***************************************************************************)
EXTENDS AtomicQueue, TLAPS

(* The 8-bit counter tells apart any two laps that are closer than it is
   wide (CONSTRUCT_NEXT_VALUE in atomic_number_mask.h).                      *)
LEMMA ModWindow ==
  ASSUME NEW M \in Nat \ {0}, NEW a \in Nat, NEW b \in Nat,
         a <= b, b - a < M, a % M = b % M
  PROVE  a = b
<1> DEFINE qa == a \div M
           qb == b \div M
           r == a % M
<1>1. qa \in Int /\ qb \in Int /\ r \in Int
  BY Z3
<1>2. a = M * qa + r
  BY Z3
<1>3. b = M * qb + r
  BY Z3
<1> HIDE DEF qa, qb, r
<1>4. b - a = M * (qb - qa)
  BY <1>1, <1>2, <1>3, Z3
<1>5. qb - qa < 1
  BY <1>1, <1>4, Z3
<1>6. qb - qa > -1
  BY <1>1, <1>4, Z3
<1> QED
  BY <1>1, <1>4, <1>5, <1>6, Z3

(* Two positions with the same word, less than CounterMod laps apart, are the
   same position.                                                            *)
LEMMA WordDistinguishes ==
  ASSUME NEW p \in Position, NEW q \in Position,
         p.lap <= q.lap, q.lap - p.lap < CounterMod, Word(p) = Word(q)
  PROVE  p = q
<1>1. p.num = q.num /\ p.lap % CounterMod = q.lap % CounterMod
  BY DEF Word
<1>2. p.lap = q.lap
  BY <1>1, ModWindow, QueueAssumption DEF Position
<1> QED
  BY <1>1, <1>2 DEF Position

(* For positions at most a ring apart, the test of atomic_queue.cpp:56 is true
   exactly when they are a whole ring apart.                                 *)
LEMMA LooksFullExact ==
  ASSUME NEW p \in Position, NEW q \in Position,
         q.lap = p.lap \/ q.lap = p.lap + 1
  PROVE  LooksFull(p, q) <=> RingApart(p, q)
<1>1. CASE q.lap = p.lap
  BY <1>1 DEF LooksFull, RingApart, Word, Position
<1>2. CASE q.lap = p.lap + 1
  <2>1. Word(p) # Word(q)
    <3> SUFFICES ASSUME Word(p) = Word(q) PROVE FALSE
      OBVIOUS
    <3>1. p = q
      BY <1>2, WordDistinguishes, QueueAssumption DEF Position
    <3> QED
      BY <1>2, <3>1 DEF Position
  <2> QED
    BY <1>2, <2>1 DEF LooksFull, RingApart, Word
<1> QED
  BY <1>1, <1>2

(* The position after a position is a position.                              *)
LEMMA AdvanceType ==
  ASSUME NEW p \in Position
  PROVE  Advance(p) \in Position
BY QueueAssumption DEF Advance, Position, Slots

(* The type invariant holds at first and is inductive by itself.              *)
LEMMA TypeInit == Init => TypeOK
BY QueueAssumption DEF Init, TypeOK, Position, Start, Slots

(* No step of Enqueue or Dequeue breaks a type.                              *)
LEMMA TypeStep == TypeOK /\ [Next]_vars => TypeOK'
<1> SUFFICES ASSUME TypeOK, [Next]_vars
             PROVE  TypeOK'
  OBVIOUS
<1> USE DEF TypeOK
<1>1. CASE \E v \in Items : EnqueueReadHead(v)
  BY <1>1 DEF EnqueueReadHead, consVars
<1>2. CASE EnqueueReadTail
  BY <1>2 DEF EnqueueReadTail, consVars
<1>3. CASE EnqueueCopyBegin
  BY <1>3 DEF EnqueueCopyBegin, consVars
<1>4. CASE EnqueueCopyEnd
  BY <1>4 DEF EnqueueCopyEnd, consVars
<1>5. CASE EnqueuePublish
  BY <1>5, AdvanceType DEF EnqueuePublish, consVars
<1>6. ASSUME NEW c \in Consumers, DequeueReadHead(c) PROVE TypeOK'
  BY <1>6 DEF DequeueReadHead, prodVars
<1>7. ASSUME NEW c \in Consumers, DequeueReadTail(c) PROVE TypeOK'
  BY <1>7 DEF DequeueReadTail, prodVars
<1>8. ASSUME NEW c \in Consumers, DequeueCopy(c) PROVE TypeOK'
  BY <1>8 DEF DequeueCopy, prodVars, Position
<1>9. ASSUME NEW c \in Consumers, DequeueCas(c) PROVE TypeOK'
  BY <1>9, AdvanceType DEF DequeueCas, prodVars
<1>10. CASE UNCHANGED vars
  BY <1>10 DEF vars, prodVars, consVars
<1> QED
  BY <1>1, <1>2, <1>3, <1>4, <1>5, <1>6, <1>7, <1>8, <1>9, <1>10
  DEF Next, ProducerStep, ConsumerStep

(* Every variable of the queue keeps its type.                               *)
THEOREM TypeCorrect == Spec => []TypeOK
BY TypeInit, TypeStep, PTL DEF Spec

------------------------------------------------------------------------------
(* The inductive invariant.                                                  *)

(* The empty ring of Initialize satisfies it.                                *)
LEMMA IInvInit == Init => IInv
<1> SUFFICES ASSUME Init PROVE IInv
  OBVIOUS
<1>1. TypeOK
  BY TypeInit
<1>2. RingShape
  BY DEF Init, RingShape, Before, Start
<1>3. \A s \in Slots : ~Occupied(s)
  BY DEF Init, Occupied, Start, Slots
<1>4. ProducerInv /\ \A c \in Consumers : ConsumerInv(c)
  BY DEF Init, ProducerInv, ConsumerInv
<1> QED
  BY <1>1, <1>2, <1>3, <1>4 DEF IInv

(* A producer past its test of atomic_queue.cpp:56 faces a ring that is not
   full: consumers have only moved the head towards the tail since.          *)
LEMMA NotFullAnyMore ==
  ASSUME TypeOK, RingShape, ProducerInv, ppc \in {"copy", "copying", "publish"}
  PROVE  pTail = mTail /\ ~RingApart(mHead, mTail)
<1>1. /\ Before(pHead, mHead) /\ pTail = mTail /\ ~RingApart(pHead, mTail)
      /\ \/ mTail.lap = pHead.lap
         \/ mTail.lap = pHead.lap + 1 /\ mTail.num <= pHead.num
  BY DEF ProducerInv
<1> QED
  BY <1>1 DEF TypeOK, Position, Slots, RingShape, Before, RingApart

(* The tail's slot is free while the ring is not full.                       *)
LEMMA TailSlotFree ==
  ASSUME TypeOK, RingShape, ~RingApart(mHead, mTail)
  PROVE  ~Occupied(mTail.num)
BY DEF TypeOK, Position, Slots, RingShape, Before, RingApart, Occupied

(* The head's slot is occupied while the queue is not empty.                 *)
LEMMA HeadSlotOccupied ==
  ASSUME TypeOK, RingShape, mHead # mTail
  PROVE  mHead.num \in Slots /\ Occupied(mHead.num)
<1>1. mHead \in Position /\ mTail \in Position
  BY DEF TypeOK
<1>2. mHead.lap # mTail.lap \/ mHead.num # mTail.num
  BY <1>1 DEF Position
<1> QED
  BY <1>1, <1>2 DEF Position, Slots, RingShape, Before, Occupied

(* A consumer whose compare-and-set would succeed has the head itself.       *)
LEMMA CasMeansCurrent ==
  ASSUME MaxOvertake <= CounterMod, IInv, NEW c \in Consumers, cpc[c] # "idle",
         Word(mHead) = Word(cHead[c])
  PROVE  mHead = cHead[c]
<1>1. cHead[c] \in Position /\ mHead \in Position /\ mTail \in Position
  BY DEF IInv, TypeOK
<1>2. Before(cHead[c], mHead) /\ mTail.lap - cHead[c].lap < MaxOvertake
  BY DEF IInv, ConsumerInv
<1>3. cHead[c].lap <= mHead.lap /\ mHead.lap - cHead[c].lap < CounterMod
  BY <1>1, <1>2, QueueAssumption DEF Before, Position, Slots, IInv, RingShape
<1> QED
  BY <1>1, <1>3, WordDistinguishes

(* A consumer that finds the tail where its snapshot of the head is has found
   the queue empty.                                                          *)
LEMMA EmptyMeansEmpty ==
  ASSUME MaxOvertake <= CounterMod, IInv, NEW c \in Consumers, cpc[c] # "idle",
         LooksEmpty(cHead[c], mTail)
  PROVE  mHead = mTail /\ cHead[c] = mTail
<1>1. cHead[c] \in Position /\ mHead \in Position /\ mTail \in Position
  BY DEF IInv, TypeOK
<1>2. Before(cHead[c], mHead) /\ mTail.lap - cHead[c].lap < MaxOvertake
  BY DEF IInv, ConsumerInv
<1>3. Before(mHead, mTail)
  BY DEF IInv, RingShape
<1>4. cHead[c].lap <= mTail.lap /\ mTail.lap - cHead[c].lap < CounterMod
  BY <1>1, <1>2, <1>3, QueueAssumption DEF Before, Position, Slots
<1>5. cHead[c] = mTail
  BY <1>1, <1>4, WordDistinguishes DEF LooksEmpty
<1> QED
  BY <1>1, <1>2, <1>3, <1>5 DEF Before, Position, Slots

(* Every step preserves the inductive invariant, while no consumer may be
   overtaken by more laps than the counter tells apart.                      *)
LEMMA IInvStep ==
  ASSUME MaxOvertake <= CounterMod
  PROVE  IInv /\ [Next]_vars => IInv'
<1> SUFFICES ASSUME IInv, [Next]_vars
             PROVE  IInv'
  OBVIOUS
<1> USE QueueAssumption
<1>0. TypeOK /\ RingShape /\ ProducerInv /\ (\A s \in Slots : Occupied(s) => mBuffer[s] \in Items)
      /\ \A c \in Consumers : ConsumerInv(c)
  BY DEF IInv
<1>t. TypeOK'
  BY <1>0, TypeStep
<1>1. ASSUME NEW v \in Items, EnqueueReadHead(v)
      PROVE  IInv'
  <2> USE <1>0, <1>1 DEF EnqueueReadHead, consVars
  <2>1. RingShape' /\ \A s \in Slots : Occupied(s)' => mBuffer'[s] \in Items
    BY DEF RingShape, Before, Occupied
  <2>2. ProducerInv'
    BY DEF ProducerInv, RingShape, Before, TypeOK, Position, Slots
  <2>3. \A c \in Consumers : ConsumerInv(c)'
    BY DEF ConsumerInv, Before
  <2> QED
    BY <1>t, <2>1, <2>2, <2>3 DEF IInv
<1>2. CASE EnqueueReadTail
  <2> USE <1>0, <1>2 DEF EnqueueReadTail, consVars
  <2>1. RingShape' /\ \A s \in Slots : Occupied(s)' => mBuffer'[s] \in Items
    BY DEF RingShape, Before, Occupied
  <2>2. ProducerInv'
    <3>1. ~LooksFull(pHead, mTail) => ~RingApart(pHead, mTail)
      BY LooksFullExact DEF TypeOK, ProducerInv
    <3> QED
      BY <3>1 DEF ProducerInv, Before, RingApart
  <2>3. \A c \in Consumers : ConsumerInv(c)'
    BY DEF ConsumerInv, Before
  <2> QED
    BY <1>t, <2>1, <2>2, <2>3 DEF IInv
<1>3. CASE EnqueueCopyBegin
  <2> USE <1>0, <1>3 DEF EnqueueCopyBegin, consVars
  <2>1. pTail = mTail /\ ~Occupied(mTail.num) /\ mTail.num \in Slots
    BY NotFullAnyMore, TailSlotFree DEF TypeOK, Position
  <2>2. RingShape' /\ \A s \in Slots : Occupied(s)' => mBuffer'[s] \in Items
    BY <2>1 DEF RingShape, Before, Occupied, TypeOK
  <2>3. ProducerInv'
    BY DEF ProducerInv, Before, RingApart
  <2>4. ASSUME NEW c \in Consumers PROVE ConsumerInv(c)'
    <3>1. mHead # mTail => mBuffer'[mHead.num] = mBuffer[mHead.num]
      BY <2>1, HeadSlotOccupied DEF TypeOK
    <3> QED
      BY <3>1 DEF ConsumerInv, Before
  <2> QED
    BY <1>t, <2>2, <2>3, <2>4 DEF IInv
<1>4. CASE EnqueueCopyEnd
  <2> USE <1>0, <1>4 DEF EnqueueCopyEnd, consVars
  <2>1. pTail = mTail /\ ~Occupied(mTail.num) /\ mTail.num \in Slots
    BY NotFullAnyMore, TailSlotFree DEF TypeOK, Position
  <2>2. RingShape' /\ \A s \in Slots : Occupied(s)' => mBuffer'[s] \in Items
    BY <2>1 DEF RingShape, Before, Occupied, TypeOK
  <2>3. ProducerInv'
    BY <2>1 DEF ProducerInv, Before, RingApart, TypeOK
  <2>4. ASSUME NEW c \in Consumers PROVE ConsumerInv(c)'
    <3>1. mHead # mTail => mBuffer'[mHead.num] = mBuffer[mHead.num]
      BY <2>1, HeadSlotOccupied DEF TypeOK
    <3> QED
      BY <3>1 DEF ConsumerInv, Before
  <2> QED
    BY <1>t, <2>2, <2>3, <2>4 DEF IInv
<1>5. CASE EnqueuePublish
  <2> USE <1>0, <1>5 DEF EnqueuePublish, consVars
  <2>1. pTail = mTail /\ ~RingApart(mHead, mTail) /\ mTail' = Advance(mTail)
    BY NotFullAnyMore
  <2>2. mBuffer[mTail.num] \in Items
    BY <2>1 DEF ProducerInv
  <2>3. mHead \in Position /\ mTail \in Position
    BY DEF TypeOK
  <2>4. RingShape'
    BY <2>1, <2>3 DEF RingShape, Before, RingApart, Advance, Position, Slots
  <2>5. ASSUME NEW s \in Slots, Occupied(s)'
        PROVE  mBuffer'[s] \in Items
    <3>1. Occupied(s) \/ s = mTail.num
      BY <2>1, <2>3, <2>5 DEF Occupied, RingShape, Before, RingApart, Advance, Position, Slots
    <3> QED
      BY <2>2, <3>1
  <2>6. ProducerInv'
    BY DEF ProducerInv
  <2>7. ASSUME NEW c \in Consumers PROVE ConsumerInv(c)'
    <3>1. mHead # mTail'
      BY <2>1, <2>3 DEF RingShape, Before, RingApart, Advance, Position, Slots
    <3> QED
      BY <2>1, <3>1 DEF ConsumerInv, Before
  <2> QED
    BY <1>t, <2>4, <2>5, <2>6, <2>7 DEF IInv
<1>6. ASSUME NEW c \in Consumers, DequeueReadHead(c)
      PROVE  IInv'
  <2> USE <1>0, <1>6 DEF DequeueReadHead, prodVars
  <2>1. RingShape' /\ \A s \in Slots : Occupied(s)' => mBuffer'[s] \in Items
    BY DEF RingShape, Before, Occupied
  <2>2. ProducerInv'
    BY DEF ProducerInv, Before, RingApart
  <2>3. ASSUME NEW d \in Consumers PROVE ConsumerInv(d)'
    <3>1. CASE d = c
      BY <3>1 DEF ConsumerInv, Before, RingShape, TypeOK, Position, Slots
    <3>2. CASE d # c
      BY <3>2 DEF ConsumerInv, Before, TypeOK
    <3> QED
      BY <3>1, <3>2
  <2> QED
    BY <1>t, <2>1, <2>2, <2>3 DEF IInv
<1>7. ASSUME NEW c \in Consumers, DequeueReadTail(c)
      PROVE  IInv'
  <2> USE <1>0, <1>7 DEF DequeueReadTail, prodVars
  <2>1. RingShape' /\ \A s \in Slots : Occupied(s)' => mBuffer'[s] \in Items
    BY DEF RingShape, Before, Occupied
  <2>2. ProducerInv'
    BY DEF ProducerInv, Before, RingApart
  <2>3. ASSUME NEW d \in Consumers PROVE ConsumerInv(d)'
    <3>1. CASE d = c
      BY <3>1 DEF ConsumerInv, Before, TypeOK, LooksEmpty
    <3>2. CASE d # c
      BY <3>2 DEF ConsumerInv, Before, TypeOK
    <3> QED
      BY <3>1, <3>2
  <2> QED
    BY <1>t, <2>1, <2>2, <2>3 DEF IInv
<1>8. ASSUME NEW c \in Consumers, DequeueCopy(c)
      PROVE  IInv'
  <2> USE <1>0, <1>8 DEF DequeueCopy, prodVars
  <2>1. RingShape' /\ \A s \in Slots : Occupied(s)' => mBuffer'[s] \in Items
    BY DEF RingShape, Before, Occupied
  <2>2. ProducerInv'
    BY DEF ProducerInv, Before, RingApart
  <2>3. ASSUME NEW d \in Consumers PROVE ConsumerInv(d)'
    <3>1. CASE d = c
      BY <3>1 DEF ConsumerInv, Before, TypeOK
    <3>2. CASE d # c
      BY <3>2 DEF ConsumerInv, Before, TypeOK
    <3> QED
      BY <3>1, <3>2
  <2> QED
    BY <1>t, <2>1, <2>2, <2>3 DEF IInv
<1>9. ASSUME NEW c \in Consumers, DequeueCas(c), Word(mHead) # Word(cHead[c])
      PROVE  IInv'
  <2> USE <1>0, <1>9 DEF DequeueCas, prodVars
  <2>1. RingShape' /\ \A s \in Slots : Occupied(s)' => mBuffer'[s] \in Items
    BY DEF RingShape, Before, Occupied
  <2>2. ProducerInv'
    BY DEF ProducerInv, Before, RingApart
  <2>3. ASSUME NEW d \in Consumers PROVE ConsumerInv(d)'
    <3>1. CASE d = c
      BY <3>1 DEF ConsumerInv, Before, TypeOK
    <3>2. CASE d # c
      BY <3>2 DEF ConsumerInv, Before, TypeOK
    <3> QED
      BY <3>1, <3>2
  <2> QED
    BY <1>t, <2>1, <2>2, <2>3 DEF IInv
<1>10. ASSUME NEW c \in Consumers, DequeueCas(c), Word(mHead) = Word(cHead[c])
       PROVE  IInv'
  <2> USE <1>0, <1>10 DEF DequeueCas, prodVars
  <2>1. mHead = cHead[c] /\ mHead # mTail
    BY CasMeansCurrent DEF ConsumerInv
  <2>2. mHead \in Position /\ mTail \in Position /\ mHead' = Advance(mHead)
    BY DEF TypeOK
  <2>3. mHead.lap # mTail.lap \/ mHead.num # mTail.num
    BY <2>1, <2>2 DEF Position
  <2>4. RingShape'
    BY <2>2, <2>3 DEF RingShape, Before, Advance, Position, Slots
  <2>5. \A s \in Slots : Occupied(s)' => mBuffer'[s] \in Items
    <3>1. ASSUME NEW s \in Slots, Occupied(s)' PROVE Occupied(s)
      BY <2>2, <2>3, <3>1 DEF Occupied, RingShape, Before, Advance, Position, Slots
    <3> QED
      BY <3>1
  <2>6. ASSUME NEW p \in Position, Before(p, mHead)
        PROVE  Before(p, mHead') /\ p # mHead'
    BY <2>2, <2>6 DEF Before, Advance, Position, Slots
  <2>7. ProducerInv'
    BY <2>6 DEF ProducerInv, RingApart, TypeOK
  <2>8. ASSUME NEW d \in Consumers PROVE ConsumerInv(d)'
    <3>1. CASE d = c
      BY <3>1 DEF ConsumerInv, TypeOK
    <3>2. CASE d # c
      BY <2>6, <3>2 DEF ConsumerInv, TypeOK
    <3> QED
      BY <3>1, <3>2
  <2> QED
    BY <1>t, <2>4, <2>5, <2>7, <2>8 DEF IInv
<1>11. CASE UNCHANGED vars
  BY <1>0, <1>11 DEF IInv, vars, prodVars, consVars, TypeOK, RingShape, ProducerInv,
                     ConsumerInv, Occupied, Before, RingApart
<1> QED
  BY <1>1, <1>2, <1>3, <1>4, <1>5, <1>6, <1>7, <1>8, <1>9, <1>10, <1>11
  DEF Next, ProducerStep, ConsumerStep

(* The inductive invariant implies the properties the runs check.            *)
LEMMA IInvImplies ==
  ASSUME MaxOvertake <= CounterMod
  PROVE  IInv => NoUnreadOverwritten /\ CasValidatesCopy /\ ReportsAreTrue
<1> SUFFICES ASSUME IInv
             PROVE  NoUnreadOverwritten /\ CasValidatesCopy /\ ReportsAreTrue
  OBVIOUS
<1>0. TypeOK /\ RingShape /\ ProducerInv /\ (\A s \in Slots : Occupied(s) => mBuffer[s] \in Items)
      /\ \A c \in Consumers : ConsumerInv(c)
  BY DEF IInv
<1>1. NoUnreadOverwritten
  BY <1>0, NotFullAnyMore DEF NoUnreadOverwritten
<1>2. CasValidatesCopy
  <2> SUFFICES ASSUME NEW c \in Consumers, cpc[c] = "cas", Word(mHead) = Word(cHead[c])
               PROVE  /\ mHead = cHead[c]
                      /\ mHead # mTail
                      /\ cItem[c] = mBuffer[mHead.num]
                      /\ cItem[c] \in Items
    BY DEF CasValidatesCopy
  <2>1. mHead = cHead[c]
    BY CasMeansCurrent
  <2>2. mHead # mTail /\ cItem[c] = mBuffer[mHead.num]
    BY <1>0, <2>1 DEF ConsumerInv
  <2> QED
    BY <1>0, <2>1, <2>2, HeadSlotOccupied
<1>3. ReportsAreTrue
  <2>1. ppc = "readTail" /\ LooksFull(pHead, mTail) => RingApart(pHead, mTail)
    BY <1>0, LooksFullExact DEF ProducerInv, TypeOK
  <2>2. \A c \in Consumers :
          cpc[c] = "readTail" /\ LooksEmpty(cHead[c], mTail) => mHead = mTail
    BY EmptyMeansEmpty
  <2> QED
    BY <2>1, <2>2 DEF ReportsAreTrue
<1> QED
  BY <1>1, <1>2, <1>3

(* The strengthening holds always: what the producer and each consumer know   *)
(* of the ring while they are between two accesses to it.                    *)
THEOREM InductiveInvariant ==
  ASSUME MaxOvertake <= CounterMod
  PROVE  Spec => []IInv
BY IInvInit, IInvStep, PTL DEF Spec

(* The head never passes the tail and the tail never laps the head.          *)
THEOREM RingShapeHolds ==
  ASSUME MaxOvertake <= CounterMod
  PROVE  Spec => []RingShape
<1>1. IInv => RingShape
  BY DEF IInv
<1> QED
  BY <1>1, InductiveInvariant, PTL

(* No item is overwritten before it has been dequeued.                       *)
THEOREM NoUnreadOverwrittenHolds ==
  ASSUME MaxOvertake <= CounterMod
  PROVE  Spec => []NoUnreadOverwritten
BY InductiveInvariant, IInvImplies, PTL

(* A successful compare-and-set delivers the oldest item, whole.             *)
THEOREM CasValidatesCopyHolds ==
  ASSUME MaxOvertake <= CounterMod
  PROVE  Spec => []CasValidatesCopy
BY InductiveInvariant, IInvImplies, PTL

(* Enqueue and Dequeue return false only for a reason.                       *)
THEOREM ReportsAreTrueHolds ==
  ASSUME MaxOvertake <= CounterMod
  PROVE  Spec => []ReportsAreTrue
BY InductiveInvariant, IInvImplies, PTL

------------------------------------------------------------------------------
(***************************************************************************)
(* AtomicQueue implements FifoQueue, for any number of consumers, any ring     *)
(* size and any counter, under the same assumption: Enqueue takes effect when  *)
(* it publishes the tail, Dequeue at its compare-and-set.                      *)
(***************************************************************************)

(* The i-th slot from a head's.                                              *)
SlotAt(n, i) ==
  IF n + i - 1 < NumItems THEN n + i - 1 ELSE n + i - 1 - NumItems

(* Going on past the end of the ring, once at most.                                   *)
LEMMA WrapOnce ==
  ASSUME NEW N \in Nat \ {0}, NEW x \in Nat, x < 2 * N
  PROVE  x % N = IF x < N THEN x ELSE x - N
<1> DEFINE q == x \div N
           r == x % N
<1>1. q \in Int /\ r \in 0 .. N - 1 /\ x = N * q + r
  BY Z3
<1> HIDE DEF q, r
<1>2. q < 2
  BY <1>1, Z3
<1>3. q > -1
  BY <1>1, Z3
<1>4. q = 0 \/ q = 1
  BY <1>1, <1>2, <1>3
<1>5. r = IF x < N THEN x ELSE x - N
  BY <1>1, <1>4
<1> QED
  BY <1>5 DEF r

LEMMA SlotAtWraps ==
  ASSUME NEW n \in Slots, NEW i \in 1 .. NumItems
  PROVE  (n + i - 1) % NumItems = SlotAt(n, i)
<1>1. n + i - 1 \in Nat /\ n + i - 1 < 2 * NumItems
  BY QueueAssumption DEF Slots
<1>2. \A x \in Nat : x < 2 * NumItems =>
        x % NumItems = IF x < NumItems THEN x ELSE x - NumItems
  BY WrapOnce, QueueAssumption
<1> QED
  BY <1>1, <1>2, QueueAssumption DEF SlotAt, Slots

(* The number of slots between head and tail.                                *)
LEMMA SizeOfRing ==
  ASSUME IInv
  PROVE  /\ Size \in 0 .. NumItems
         /\ Size = NumItems => RingApart(mHead, mTail)
         /\ Size = 0 => mHead = mTail
<1>1. mHead \in Position /\ mTail \in Position /\ RingShape
  BY DEF IInv, TypeOK
<1>2. mHead.lap = mTail.lap /\ mHead.num = mTail.num => mHead = mTail
  BY <1>1 DEF Position
<1> QED
  BY <1>1, <1>2, QueueAssumption DEF Size, RingShape, Before, RingApart, Position, Slots

(* The abstract queue is a sequence of the items in the occupied slots.       *)
ContentsShape ==
  /\ Contents \in Seq(Items) /\ Len(Contents) = Size
  /\ \A i \in 1 .. Size : /\ SlotAt(mHead.num, i) \in Slots
                          /\ Occupied(SlotAt(mHead.num, i))
                          /\ Contents[i] = mBuffer[SlotAt(mHead.num, i)]

LEMMA ContentsSlots == IInv => ContentsShape
<1> SUFFICES ASSUME IInv PROVE ContentsShape
  OBVIOUS
<1>1. mHead \in Position /\ mTail \in Position /\ RingShape
  BY DEF IInv, TypeOK
<1>2. Size \in 0 .. NumItems
  BY SizeOfRing
<1>3. ASSUME NEW i \in 1 .. Size
      PROVE  /\ SlotAt(mHead.num, i) \in Slots
             /\ Occupied(SlotAt(mHead.num, i))
             /\ Contents[i] = mBuffer[SlotAt(mHead.num, i)]
  <2>1. SlotAt(mHead.num, i) \in Slots
    BY <1>1, <1>2, QueueAssumption DEF SlotAt, Position, Slots
  <2>2. Occupied(SlotAt(mHead.num, i))
    BY <1>1, <1>2, QueueAssumption DEF SlotAt, Occupied, Size, RingShape, Before, Position, Slots
  <2>3. mHead.num \in Slots /\ i \in 1 .. NumItems
    BY <1>1, <1>2, QueueAssumption DEF Position
  <2>4. (mHead.num + i - 1) % NumItems = SlotAt(mHead.num, i)
    BY <2>3, SlotAtWraps
  <2>5. Contents[i] = mBuffer[(mHead.num + i - 1) % NumItems]
    BY Zenon DEF Contents
  <2> QED
    BY <2>1, <2>2, <2>4, <2>5
<1>4. \A i \in 1 .. Size : Contents[i] \in Items
  BY <1>3 DEF IInv
<1>5. Contents \in [1 .. Size -> Items]
  BY <1>4 DEF Contents
<1> QED
  BY <1>2, <1>3, <1>5 DEF ContentsShape

(* A step that keeps head, tail and the occupied slots keeps the queue.       *)
LEMMA SameContents ==
  ASSUME IInv, IInv', mHead' = mHead, mTail' = mTail,
         \A s \in Slots : Occupied(s) => mBuffer'[s] = mBuffer[s]
  PROVE  Contents' = Contents
<1>1. Size' = Size
  BY DEF Size
<1>2. ContentsShape /\ ContentsShape'
  BY ContentsSlots, PTL
<1>3. \A i \in 1 .. Size : Contents'[i] = Contents[i]
  BY <1>1, <1>2 DEF ContentsShape
<1> QED
  BY <1>1, <1>2, <1>3, SizeOfRing DEF ContentsShape

(* EnqueuePublish appends the item that was copied.                          *)
LEMMA PublishPuts ==
  ASSUME IInv, IInv', EnqueuePublish
  PROVE  Fifo!Put(pItem) /\ pItem \in Items
<1>1. mHead \in Position /\ mTail \in Position /\ RingShape
  BY DEF IInv, TypeOK
<1>2. pTail = mTail /\ ~RingApart(mHead, mTail) /\ pItem \in Items /\ mBuffer[mTail.num] = pItem
  BY NotFullAnyMore DEF EnqueuePublish, IInv, ProducerInv
<1>3. mTail' = Advance(mTail) /\ mHead' = mHead /\ mBuffer' = mBuffer
  BY <1>2 DEF EnqueuePublish
<1>4. Size \in Nat /\ Size < NumItems
  BY <1>2, SizeOfRing, QueueAssumption
<1>5. Size' = Size + 1 /\ SlotAt(mHead.num, Size + 1) = mTail.num
  BY <1>1, <1>2, <1>3, <1>4, QueueAssumption
  DEF Size, SlotAt, Advance, RingShape, Before, RingApart, Position, Slots
<1>6. ContentsShape /\ ContentsShape'
  BY ContentsSlots, PTL
<1>7. Contents' = Append(Contents, pItem)
  <2>1. \A i \in 1 .. Size : Contents'[i] = Contents[i]
    BY <1>3, <1>4, <1>5, <1>6 DEF ContentsShape
  <2>2. Contents'[Size + 1] = pItem
    BY <1>2, <1>3, <1>4, <1>5, <1>6 DEF ContentsShape
  <2> QED
    BY <1>2, <1>4, <1>5, <1>6, <2>1, <2>2 DEF ContentsShape
<1>8. Delivered' = Delivered
  BY DEF EnqueuePublish, consVars, Delivered
<1> QED
  BY <1>2, <1>4, <1>6, <1>7, <1>8 DEF Fifo!Put, ContentsShape

(* A compare-and-set that succeeds delivers the oldest item.                  *)
LEMMA CasTakes ==
  ASSUME MaxOvertake <= CounterMod, IInv, IInv',
         NEW c \in Consumers, DequeueCas(c), Word(mHead) = Word(cHead[c])
  PROVE  Fifo!Take(c)
<1>1. mHead \in Position /\ mTail \in Position /\ RingShape
  BY DEF IInv, TypeOK
<1>2. mHead # mTail /\ cItem[c] = mBuffer[mHead.num]
  BY IInvImplies DEF DequeueCas, CasValidatesCopy
<1>3. mHead' = Advance(mHead) /\ mTail' = mTail /\ mBuffer' = mBuffer
  BY DEF DequeueCas
<1>4. mHead.lap # mTail.lap \/ mHead.num # mTail.num
  BY <1>1, <1>2 DEF Position
<1>5. Size \in 1 .. NumItems
  BY <1>2, SizeOfRing, QueueAssumption
<1>6. Size' = Size - 1 /\ SlotAt(mHead.num, 1) = mHead.num
  BY <1>1, <1>3, <1>4, QueueAssumption
  DEF Size, SlotAt, Advance, RingShape, Before, Position, Slots
<1>7. ContentsShape /\ ContentsShape'
  BY ContentsSlots, PTL
<1>8. \A i \in 1 .. Size - 1 : SlotAt(mHead'.num, i) = SlotAt(mHead.num, i + 1)
  BY <1>1, <1>3, <1>5, QueueAssumption DEF SlotAt, Advance, Position, Slots
<1>9. Contents' = Tail(Contents)
  <2>1. \A i \in 1 .. Size - 1 : Contents'[i] = Contents[i + 1]
    BY <1>3, <1>5, <1>6, <1>7, <1>8 DEF ContentsShape
  <2> QED
    BY <1>5, <1>6, <1>7, <2>1 DEF ContentsShape
<1>10. Contents # <<>> /\ Head(Contents) = cItem[c]
  BY <1>2, <1>5, <1>6, <1>7 DEF ContentsShape
<1>11. Delivered' = [Delivered EXCEPT ![c] = cItem[c]]
  BY DEF DequeueCas, Delivered, IInv, TypeOK
<1> QED
  BY <1>9, <1>10, <1>11 DEF Fifo!Take

(* During a call nothing is delivered.                                       *)
CallInv == \A c \in Consumers : cpc[c] # "idle" => cRet[c] = "none"

LEMMA CallInvStep == TypeOK /\ CallInv /\ [Next]_vars => CallInv'
<1> SUFFICES ASSUME TypeOK, CallInv, [Next]_vars PROVE CallInv'
  OBVIOUS
<1> USE DEF TypeOK, CallInv
<1>1. CASE (\E v \in Items : EnqueueReadHead(v)) \/ ProducerStep
  BY <1>1 DEF ProducerStep, EnqueueReadHead, EnqueueReadTail, EnqueueCopyBegin,
              EnqueueCopyEnd, EnqueuePublish, consVars
<1>2. ASSUME NEW c \in Consumers, ConsumerStep(c) PROVE CallInv'
  BY <1>2 DEF ConsumerStep, DequeueReadHead, DequeueReadTail, DequeueCopy, DequeueCas
<1>3. CASE UNCHANGED vars
  BY <1>3 DEF vars, consVars
<1> QED
  BY <1>1, <1>2, <1>3 DEF Next

(* Every step is a step of the abstract queue or leaves it alone.             *)
LEMMA StepRefines ==
  ASSUME MaxOvertake <= CounterMod
  PROVE  IInv /\ IInv' /\ CallInv /\ [Next]_vars => [Fifo!FifoNext]_(Fifo!fifoVars)
<1> SUFFICES ASSUME IInv, IInv', CallInv, [Next]_vars
             PROVE  Fifo!FifoNext \/ (Contents' = Contents /\ Delivered' = Delivered)
  BY DEF Fifo!fifoVars
<1>0. TypeOK
  BY DEF IInv
<1>1. ASSUME mHead' = mHead, mTail' = mTail, mBuffer' = mBuffer
      PROVE  Contents' = Contents
  BY <1>1, SameContents
<1>2. CASE \E v \in Items : EnqueueReadHead(v)
  BY <1>1, <1>2 DEF EnqueueReadHead, consVars, Delivered
<1>3. CASE EnqueueReadTail
  BY <1>1, <1>3 DEF EnqueueReadTail, consVars, Delivered
<1>4. CASE EnqueueCopyBegin \/ EnqueueCopyEnd
  <2>1. pTail = mTail /\ ~Occupied(mTail.num) /\ mTail.num \in Slots
    BY <1>4, NotFullAnyMore, TailSlotFree
    DEF EnqueueCopyBegin, EnqueueCopyEnd, IInv, TypeOK, Position
  <2>2. \A s \in Slots : Occupied(s) => mBuffer'[s] = mBuffer[s]
    BY <1>0, <1>4, <2>1 DEF EnqueueCopyBegin, EnqueueCopyEnd, TypeOK
  <2>3. Contents' = Contents
    BY <1>4, <2>2, SameContents DEF EnqueueCopyBegin, EnqueueCopyEnd
  <2> QED
    BY <1>4, <2>3 DEF EnqueueCopyBegin, EnqueueCopyEnd, consVars, Delivered
<1>5. CASE EnqueuePublish
  BY <1>5, PublishPuts DEF Fifo!FifoNext
<1>6. ASSUME NEW c \in Consumers, DequeueReadHead(c) PROVE Fifo!FifoNext
  <2>1. Delivered' = [Delivered EXCEPT ![c] = Torn]
    BY <1>0, <1>6 DEF DequeueReadHead, Delivered, TypeOK
  <2> QED
    BY <1>1, <1>6, <2>1 DEF DequeueReadHead, Fifo!FifoNext, Fifo!Drop
<1>7. ASSUME NEW c \in Consumers, DequeueReadTail(c)
      PROVE  Contents' = Contents /\ Delivered' = Delivered
  BY <1>0, <1>1, <1>7 DEF DequeueReadTail, Delivered, TypeOK, CallInv
<1>8. ASSUME NEW c \in Consumers, DequeueCopy(c)
      PROVE  Contents' = Contents /\ Delivered' = Delivered
  BY <1>0, <1>1, <1>8 DEF DequeueCopy, Delivered, TypeOK, CallInv
<1>9. ASSUME NEW c \in Consumers, DequeueCas(c), Word(mHead) # Word(cHead[c])
      PROVE  Contents' = Contents /\ Delivered' = Delivered
  BY <1>1, <1>9 DEF DequeueCas, Delivered
<1>10. ASSUME NEW c \in Consumers, DequeueCas(c), Word(mHead) = Word(cHead[c])
       PROVE  Fifo!FifoNext
  BY <1>10, CasTakes DEF Fifo!FifoNext
<1>11. CASE UNCHANGED vars
  BY <1>1, <1>11 DEF vars, consVars, Delivered
<1> QED
  BY <1>2, <1>3, <1>4, <1>5, <1>6, <1>7, <1>8, <1>9, <1>10, <1>11
  DEF Next, ProducerStep, ConsumerStep

(* The empty ring is the empty queue.                                        *)
LEMMA InitRefines == Init => Fifo!FifoInit
<1> SUFFICES ASSUME Init PROVE Contents = <<>> /\ Delivered = [c \in Consumers |-> Torn]
  BY DEF Fifo!FifoInit
<1>1. IInv
  BY IInvInit
<1>2. Size = 0
  BY DEF Init, Start, Size
<1>3. ContentsShape
  BY <1>1, ContentsSlots
<1>4. Contents = <<>>
  BY <1>2, <1>3 DEF ContentsShape
<1> QED
  BY <1>4 DEF Init, Delivered

(* The ring is a first-in first-out queue (atomic_queue.cpp:48-99), while no
   consumer is overtaken by a full round of the counter.                      *)
THEOREM RingImplementsFifo ==
  ASSUME MaxOvertake <= CounterMod
  PROVE  Spec => ImplementsFifo
<1>1. Spec => []IInv
  BY InductiveInvariant
<1>2. Spec => []TypeOK
  BY TypeCorrect
<1>3. Init => CallInv
  BY DEF Init, CallInv
<1>4. TypeOK /\ CallInv /\ [Next]_vars => CallInv'
  BY CallInvStep
<1>5. Init => Fifo!FifoInit
  BY InitRefines
<1>6. IInv /\ IInv' /\ CallInv /\ [Next]_vars => [Fifo!FifoNext]_(Fifo!fifoVars)
  BY StepRefines
<1> QED
  BY <1>1, <1>2, <1>3, <1>4, <1>5, <1>6, PTL DEF Spec, ImplementsFifo, Fifo!FifoSpec

==============================================================================
