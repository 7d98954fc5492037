----------------------------- MODULE AtomicQueue -----------------------------
(***************************************************************************)
(* ycommon/containers/atomic_queue.{h,cpp}: a lock-free ring, one producer, *)
(* any number of consumers.                                                 *)
(*                                                                          *)
(* mHead and mTail are 64-bit words: a slot number in the low 56 bits and   *)
(* an 8-bit counter, bumped each time the ring is walked round, in the high *)
(* 8 (atomic_number_mask.h).  A position here keeps the full lap instead    *)
(* of the counter; the program only ever sees Word(position), in which the  *)
(* lap is reduced modulo CounterMod (256 in the code).  A slot number is an *)
(* index where the code has a byte offset, a multiple of mItemSize.         *)
(*                                                                          *)
(* Each action is one access to shared memory.  memcpy is not atomic: while *)
(* the producer copies into a slot a reader of that slot gets Torn.         *)
(*                                                                          *)
(* The counter makes the compare-and-set safe only while no Dequeue sleeps  *)
(* through 256 laps.  MaxOvertake states that assumption on the scheduler:  *)
(* the tail never gets MaxOvertake laps ahead of the head some consumer has *)
(* read and not yet compared.  Everything below holds for                   *)
(* MaxOvertake <= CounterMod and fails for MaxOvertake = CounterMod + 1.    *)
(***************************************************************************)
EXTENDS Integers, Sequences

CONSTANTS
  Consumers,    (* threads that call Dequeue                                *)
  Items,        (* values that are enqueued                                 *)
  Torn,         (* a slot never written, or caught half way through memcpy  *)
  NumItems,     (* mNumItems                                                *)
  CounterMod,   (* number of values of the counter, 2^NUM_MASK_BITS         *)
  MaxOvertake,  (* scheduling assumption, see above                         *)
  MaxLaps       (* bound: the producer stops after this many laps           *)

ASSUME QueueAssumption ==
  /\ NumItems \in Nat \ {0}
  /\ CounterMod \in Nat \ {0, 1}
  /\ MaxOvertake \in Nat \ {0, 1}
  /\ MaxLaps \in Nat
  /\ Torn \notin Items

VARIABLES
  mBuffer,      (* the slots                                                *)
  mHead, mTail, (* positions                                                *)
  ppc,          (* program counter of the producer                          *)
  pHead, pTail, (* the producer's cur_head and cur_tail                     *)
  pItem,        (* its data_item                                            *)
  cpc,          (* program counter of each consumer                         *)
  cHead,        (* each consumer's cur_head                                 *)
  cItem,        (* each consumer's data_item                                *)
  cRet          (* each consumer's last return value; "none" during a call  *)

prodVars == <<ppc, pHead, pTail, pItem>>
consVars == <<cpc, cHead, cItem, cRet>>
vars == <<mBuffer, mHead, mTail, prodVars, consVars>>

Slots == 0 .. NumItems - 1
Position == [lap : Nat, num : Slots]
Start == [lap |-> 0, num |-> 0]

------------------------------------------------------------------------------
(* Positions and the words the program compares.                            *)

\* Mutant: the counter is left alone when the ring is walked round.
WordWithoutCounter(p) == [cnt |-> 0, num |-> p.num]

Word(p) == [cnt |-> p.lap % CounterMod, num |-> p.num]

\* Mutant: off by one, the end of the ring is noticed one slot late.
AdvanceLate(p) ==
  IF p.num = NumItems THEN [lap |-> p.lap + 1, num |-> 0]
                      ELSE [lap |-> p.lap, num |-> p.num + 1]

Advance(p) ==
  IF p.num + 1 = NumItems THEN [lap |-> p.lap + 1, num |-> 0]
                          ELSE [lap |-> p.lap, num |-> p.num + 1]

\* The numbers match but the counters do not.
LooksFull(h, t) == Word(h).num = Word(t).num /\ Word(h) # Word(t)

\* Mutant: the counters are not compared.
LooksEmptyByNumber(h, t) == Word(h).num = Word(t).num

LooksEmpty(h, t) == Word(h) = Word(t)

Init ==
  /\ mBuffer = [s \in Slots |-> Torn]
  /\ mHead = Start
  /\ mTail = Start
  /\ ppc = "idle" /\ pHead = Start /\ pTail = Start /\ pItem = Torn
  /\ cpc = [c \in Consumers |-> "idle"]
  /\ cHead = [c \in Consumers |-> Start]
  /\ cItem = [c \in Consumers |-> Torn]
  /\ cRet = [c \in Consumers |-> "none"]

------------------------------------------------------------------------------
(* Enqueue, by the only producer.                                           *)

EnqueueReadHead(v) ==
  /\ ppc = "idle" /\ mTail.lap < MaxLaps
  /\ pItem' = v
  /\ pHead' = mHead
  /\ ppc' = "readTail"
  /\ UNCHANGED <<mBuffer, mHead, mTail, pTail, consVars>>

\* Mutant: the test for a full ring is missing.
EnqueueReadTailUnchecked ==
  /\ ppc = "readTail"
  /\ pTail' = mTail
  /\ ppc' = "copy"
  /\ UNCHANGED <<mBuffer, mHead, mTail, pHead, pItem, consVars>>

\* Returns false when the ring looks full.
EnqueueReadTail ==
  /\ ppc = "readTail"
  /\ pTail' = mTail
  /\ ppc' = IF LooksFull(pHead, mTail) THEN "idle" ELSE "copy"
  /\ UNCHANGED <<mBuffer, mHead, mTail, pHead, pItem, consVars>>

EnqueueCopyBegin ==
  /\ ppc = "copy"
  /\ mBuffer' = [mBuffer EXCEPT ![pTail.num] = Torn]
  /\ ppc' = "copying"
  /\ UNCHANGED <<mHead, mTail, pHead, pTail, pItem, consVars>>

EnqueueCopyEnd ==
  /\ ppc = "copying"
  /\ mBuffer' = [mBuffer EXCEPT ![pTail.num] = pItem]
  /\ ppc' = "publish"
  /\ UNCHANGED <<mHead, mTail, pHead, pTail, pItem, consVars>>

EnqueuePublish ==
  /\ ppc = "publish"
  /\ \A c \in Consumers :
       cpc[c] # "idle" => Advance(pTail).lap - cHead[c].lap < MaxOvertake
  /\ mTail' = Advance(pTail)
  /\ ppc' = "idle"
  /\ UNCHANGED <<mBuffer, mHead, pHead, pTail, pItem, consVars>>

------------------------------------------------------------------------------
(* Dequeue, by consumer c.                                                  *)

\* A new call, or another turn of the loop after a lost compare-and-set.
DequeueReadHead(c) ==
  /\ cpc[c] \in {"idle", "retry"}
  /\ cHead' = [cHead EXCEPT ![c] = mHead]
  /\ cRet' = [cRet EXCEPT ![c] = "none"]
  /\ cpc' = [cpc EXCEPT ![c] = "readTail"]
  /\ UNCHANGED <<mBuffer, mHead, mTail, prodVars, cItem>>

\* Mutant: the test for an empty ring is missing.
DequeueReadTailUnchecked(c) ==
  /\ cpc[c] = "readTail"
  /\ cpc' = [cpc EXCEPT ![c] = "copy"]
  /\ UNCHANGED <<mBuffer, mHead, mTail, prodVars, cHead, cItem, cRet>>

\* Returns false when head and tail are the same word.
DequeueReadTail(c) ==
  /\ cpc[c] = "readTail"
  /\ IF LooksEmpty(cHead[c], mTail)
       THEN /\ cRet' = [cRet EXCEPT ![c] = "empty"]
            /\ cpc' = [cpc EXCEPT ![c] = "idle"]
       ELSE /\ cpc' = [cpc EXCEPT ![c] = "copy"]
            /\ UNCHANGED cRet
  /\ UNCHANGED <<mBuffer, mHead, mTail, prodVars, cHead, cItem>>

DequeueCopy(c) ==
  /\ cpc[c] = "copy"
  /\ cItem' = [cItem EXCEPT ![c] = mBuffer[cHead[c].num]]
  /\ cpc' = [cpc EXCEPT ![c] = "cas"]
  /\ UNCHANGED <<mBuffer, mHead, mTail, prodVars, cHead, cRet>>

\* Mutant: head is stored without comparing it with what was read.
DequeueStore(c) ==
  /\ cpc[c] = "cas"
  /\ mHead' = Advance(cHead[c])
  /\ cRet' = [cRet EXCEPT ![c] = "ok"]
  /\ cpc' = [cpc EXCEPT ![c] = "idle"]
  /\ UNCHANGED <<mBuffer, mTail, prodVars, cHead, cItem>>

\* Mutant: a lost compare-and-set sends the consumer back to it with the same
\* snapshot, where it loses for ever.
DequeueCasSpin(c) ==
  /\ cpc[c] = "cas"
  /\ IF Word(mHead) = Word(cHead[c])
       THEN /\ mHead' = Advance(mHead)
            /\ cRet' = [cRet EXCEPT ![c] = "ok"]
            /\ cpc' = [cpc EXCEPT ![c] = "idle"]
       ELSE UNCHANGED <<mHead, cRet, cpc>>
  /\ UNCHANGED <<mBuffer, mTail, prodVars, cHead, cItem>>

\* The compare-and-set compares words.  When it succeeds it stores the word
\* after the snapshot's, which is also the word after mHead's.
DequeueCas(c) ==
  /\ cpc[c] = "cas"
  /\ IF Word(mHead) = Word(cHead[c])
       THEN /\ mHead' = Advance(mHead)
            /\ cRet' = [cRet EXCEPT ![c] = "ok"]
            /\ cpc' = [cpc EXCEPT ![c] = "idle"]
       ELSE /\ cpc' = [cpc EXCEPT ![c] = "retry"]
            /\ UNCHANGED <<mHead, cRet>>
  /\ UNCHANGED <<mBuffer, mTail, prodVars, cHead, cItem>>

------------------------------------------------------------------------------
ProducerStep ==
  \/ EnqueueReadTail \/ EnqueueCopyBegin \/ EnqueueCopyEnd \/ EnqueuePublish

ConsumerStep(c) ==
  \/ DequeueReadHead(c) \/ DequeueReadTail(c) \/ DequeueCopy(c) \/ DequeueCas(c)

Next ==
  \/ \E v \in Items : EnqueueReadHead(v)
  \/ ProducerStep
  \/ \E c \in Consumers : ConsumerStep(c)

\* A thread inside a call keeps running; nobody is obliged to make a call.
Fairness ==
  /\ WF_vars(ProducerStep)
  /\ \A c \in Consumers : WF_vars(cpc[c] # "idle" /\ ConsumerStep(c))

Spec == Init /\ [][Next]_vars
FairSpec == Spec /\ Fairness

------------------------------------------------------------------------------
(* Properties.                                                              *)

TypeOK ==
  /\ mBuffer \in [Slots -> Items \cup {Torn}]
  /\ mHead \in Position /\ mTail \in Position
  /\ ppc \in {"idle", "readTail", "copy", "copying", "publish"}
  /\ pHead \in Position /\ pTail \in Position /\ pItem \in Items \cup {Torn}
  /\ cpc \in [Consumers -> {"idle", "readTail", "copy", "cas", "retry"}]
  /\ cHead \in [Consumers -> Position]
  /\ cItem \in [Consumers -> Items \cup {Torn}]
  /\ cRet \in [Consumers -> {"none", "ok", "empty"}]

\* p is at or before q, on the walk round and round the ring.
Before(p, q) == p.lap < q.lap \/ (p.lap = q.lap /\ p.num <= q.num)

\* q is exactly NumItems slots after p: the ring between them is full.
RingApart(p, q) == q.lap = p.lap + 1 /\ q.num = p.num

\* The tail is between 0 and NumItems slots after the head.
RingShape ==
  /\ Before(mHead, mTail)
  /\ \/ mTail.lap = mHead.lap
     \/ mTail.lap = mHead.lap + 1 /\ mTail.num <= mHead.num

(* The producer never copies over an item that is still to be dequeued
   (atomic_queue.cpp:56-59): it decided on a head read earlier, which
   consumers may since have moved, and on its own tail.                      *)
NoUnreadOverwritten ==
  ppc \in {"copy", "copying", "publish"} =>
    pTail = mTail /\ ~RingApart(mHead, mTail)

(* The compare-and-set at atomic_queue.cpp:95 validates the copy made before
   it: if it is about to succeed, the head never moved since the snapshot,
   the queue is not empty, and what was copied is the oldest item, whole.    *)
CasValidatesCopy ==
  \A c \in Consumers :
    cpc[c] = "cas" /\ Word(mHead) = Word(cHead[c]) =>
      /\ mHead = cHead[c]
      /\ mHead # mTail
      /\ cItem[c] = mBuffer[mHead.num]
      /\ cItem[c] \in Items

(* What a call reports was true: Enqueue returns false only if the ring was
   full when it read the head, however the consumers moved since
   (atomic_queue.cpp:56), and Dequeue returns false only if the queue is
   empty at that instant, however old its snapshot of the head
   (atomic_queue.cpp:80).                                                    *)
ReportsAreTrue ==
  /\ ppc = "readTail" /\ LooksFull(pHead, mTail) => RingApart(pHead, mTail)
  /\ \A c \in Consumers :
       cpc[c] = "readTail" /\ LooksEmpty(cHead[c], mTail) =>
         mHead = mTail

(* The strengthening of the invariants above that every step preserves.      *)

\* The slots between head and tail, which hold items to be dequeued.
Occupied(s) ==
  IF mTail.lap = mHead.lap THEN mHead.num <= s /\ s < mTail.num
                           ELSE mHead.num <= s \/ s < mTail.num

\* What the producer knows: its snapshot of the head is behind the head, and
\* past the test at atomic_queue.cpp:56 it is less than a ring behind the tail.
ProducerInv ==
  /\ ppc # "idle" =>
       /\ pItem \in Items
       /\ Before(pHead, mHead)
       /\ \/ mTail.lap = pHead.lap
          \/ mTail.lap = pHead.lap + 1 /\ mTail.num <= pHead.num
  /\ ppc \in {"copy", "copying", "publish"} =>
       pTail = mTail /\ ~RingApart(pHead, mTail)
  /\ ppc = "publish" => mBuffer[pTail.num] = pItem

\* What consumer c knows while its snapshot is still the head.
ConsumerInv(c) ==
  cpc[c] # "idle" =>
    /\ Before(cHead[c], mHead)
    /\ mTail.lap - cHead[c].lap < MaxOvertake
    /\ cpc[c] \in {"copy", "cas"} /\ cHead[c] = mHead => mHead # mTail
    /\ cpc[c] = "cas" /\ cHead[c] = mHead => cItem[c] = mBuffer[mHead.num]

IInv ==
  /\ TypeOK
  /\ RingShape
  /\ \A s \in Slots : Occupied(s) => mBuffer[s] \in Items
  /\ ProducerInv
  /\ \A c \in Consumers : ConsumerInv(c)

(* The refinement: the abstract queue is what lies between head and tail.    *)
Size ==
  IF mTail.lap = mHead.lap THEN mTail.num - mHead.num
                           ELSE NumItems - mHead.num + mTail.num

Contents == [i \in 1 .. Size |-> mBuffer[(mHead.num + i - 1) % NumItems]]

Delivered ==
  [c \in Consumers |-> IF cRet[c] = "ok" THEN cItem[c] ELSE Torn]

Fifo == INSTANCE FifoQueue WITH
  Capacity <- NumItems, NoItem <- Torn, queue <- Contents, got <- Delivered

(* The ring is a first-in first-out queue: items come out in the order they
   went in, each to one consumer, none lost, none made up, none half copied.  *)
ImplementsFifo == Fifo!FifoSpec

(* Lock-freedom of the retry loop (atomic_queue.cpp:74-97): while there is
   something to dequeue and a consumer is in the call, the head moves,
   even if that consumer loses every compare-and-set.                        *)
SomeoneDequeues ==
  \A lap \in 0 .. MaxLaps, num \in Slots :
    (/\ mHead = [lap |-> lap, num |-> num]
     /\ mHead # mTail
     /\ \E c \in Consumers : cpc[c] # "idle")
      ~> (mHead # [lap |-> lap, num |-> num])

==============================================================================
