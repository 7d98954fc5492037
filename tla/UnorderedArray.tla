--------------------------- MODULE UnorderedArray ---------------------------
(***************************************************************************)
(* ycommon/containers/unordered_array.cpp: an array whose removal moves the    *)
(* last item into the hole and first tells a callback, with which the items'    *)
(* owners keep track of their indexes.                                          *)
(***************************************************************************)
EXTENDS Integers, FiniteSets

CONSTANTS
  Owners,          \* each may have one item, which names its owner
  TotalSize,
  Nobody           \* memory that was never written

VARIABLES
  itemAt, itemCount,
  swapCallback,    \* is mPreSwapItemCallback set?
  indexOf          \* where each owner of an item believes it is

Nowhere == [o \in {} |-> 0]

Init ==
  /\ itemAt = [i \in 0 .. TotalSize - 1 |-> Nobody] /\ itemCount = 0
  /\ swapCallback = FALSE /\ indexOf = Nowhere

\* Set while the array is empty, so that no owner misses a move.
SetItemSwappedCallBack ==
  /\ itemCount = 0 /\ swapCallback' = TRUE
  /\ UNCHANGED <<itemAt, itemCount, indexOf>>

\* Allocate, and the copy of the owner's item.  A PushBack to a full array
\* copies to index -1 and is left to the callers to avoid, as is an item larger
\* than the pointer whose size PushBack copies.
PushBack(o) ==
  /\ o \notin DOMAIN indexOf /\ itemCount < TotalSize
  /\ itemAt' = [itemAt EXCEPT ![itemCount] = o]
  /\ itemCount' = itemCount + 1
  /\ indexOf' = [p \in (DOMAIN indexOf) \cup {o} |->
                   IF p = o THEN itemCount ELSE indexOf[p]]
  /\ UNCHANGED swapCallback

\* Without a callback the callers look their items up.
IndexKnown(o, i) == IF swapCallback THEN indexOf[o] = i ELSE itemAt[i] = o

\* Mutant: the callback is told the number of items for the last index.
ToldCount(o, old, new) ==
  [p \in (DOMAIN indexOf) \ {o} |->
     IF swapCallback /\ old # new /\ old + 1 < TotalSize /\ p = itemAt[old + 1]
     THEN new ELSE indexOf[p]]

\* What the callback makes of the owners' indexes, of whom o is leaving.
Told(o, old, new) ==
  [p \in (DOMAIN indexOf) \ {o} |->
     IF swapCallback /\ old # new /\ p = itemAt[old] THEN new ELSE indexOf[p]]

Remove(o, i) ==
  LET last == itemCount - 1
  IN
  /\ o \in DOMAIN indexOf /\ i < itemCount /\ IndexKnown(o, i)
  /\ indexOf' = Told(o, last, i)
  /\ itemAt' = [itemAt EXCEPT ![i] = itemAt[last]]
  /\ itemCount' = last
  /\ UNCHANGED swapCallback

Clear ==
  /\ itemCount' = 0 /\ indexOf' = Nowhere /\ UNCHANGED <<itemAt, swapCallback>>

Next ==
  \/ SetItemSwappedCallBack
  \/ \E o \in Owners : PushBack(o) \/ \E i \in 0 .. TotalSize - 1 : Remove(o, i)
  \/ Clear

ArrayTypeOK ==
  /\ itemAt \in [0 .. TotalSize - 1 -> Owners \cup {Nobody}]
  /\ itemCount \in 0 .. TotalSize /\ swapCallback \in BOOLEAN
  /\ DOMAIN indexOf \subseteq Owners

\* However items are moved about, the array holds one item of each owner that
\* has one, and with a callback every owner knows where its item is.
ArrayIndexesTrack ==
  /\ {itemAt[i] : i \in 0 .. itemCount - 1} = DOMAIN indexOf
  /\ itemCount = Cardinality(DOMAIN indexOf)
  /\ swapCallback => \A o \in DOMAIN indexOf :
                       indexOf[o] < itemCount /\ itemAt[indexOf[o]] = o

==============================================================================
