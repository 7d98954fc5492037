------------------------------ MODULE MemBuffer ------------------------------
(***************************************************************************)
(* ycommon/containers/mem_buffer.cpp: a buffer that is allocated from the      *)
(* front and freed from its end, and the scratch pads that share its space.     *)
(* mem_buffer.h:4 says that scratch pads lie at the end of the buffer.  The code *)
(* puts a pad behind the pads' space, its own included, counted from the start   *)
(* of the buffer: over the allocations, and past the end of the buffer if it has *)
(* more than half of it.  Only the space that pads take is right.                *)
(***************************************************************************)
EXTENDS Integers, Sequences

CONSTANTS
  Base, BufferSize,    \* the address and the size of the buffer
  Sizes, Alignments,   \* what callers ask for; alignments are powers of 2
  MaxPads              \* bound on the scratch pads open at a time

VARIABLES
  usedBufferSize, usedScratchPadSize,
  pads,                \* the open scratch pads: [at, size], in the order of scopes
  blocks               \* what callers hold: [at, size, taken], oldest first

bufferVars == <<usedBufferSize, usedScratchPadSize, pads, blocks>>

FreeSpace == BufferSize - (usedBufferSize + usedScratchPadSize)

\* Also Init, after which no caller uses what it had.
Clear ==
  usedBufferSize' = 0 /\ usedScratchPadSize' = 0 /\ pads' = <<>> /\ blocks' = <<>>
Init == usedBufferSize = 0 /\ usedScratchPadSize = 0 /\ pads = <<>> /\ blocks = <<>>

Allocate(size) ==
  /\ size <= FreeSpace
  /\ usedBufferSize' = usedBufferSize + size
  /\ blocks' = Append(blocks,
       [at |-> Base + usedBufferSize, size |-> size, taken |-> size])
  /\ UNCHANGED <<usedScratchPadSize, pads>>

RoundUp(n, a) == ((n + a - 1) \div a) * a
\* Mutant: nothing is set aside for the alignment.
AlignedNothing(size, a) == size

\* How much is set aside for an aligned allocation.
Aligned(size, a) == size + a

AllocateAligned(size, a) ==
  LET taken == Aligned(size, a)
  IN
  /\ taken <= FreeSpace
  /\ usedBufferSize' = usedBufferSize + taken
  /\ blocks' = Append(blocks,
       [at |-> RoundUp(Base + usedBufferSize, a), size |-> size, taken |-> taken])
  /\ UNCHANGED <<usedScratchPadSize, pads>>

\* Callers give back what they took last.
Free ==
  /\ blocks # <<>>
  /\ LET size == blocks[Len(blocks)].taken
     IN size <= usedBufferSize /\ usedBufferSize' = usedBufferSize - size
  /\ blocks' = SubSeq(blocks, 1, Len(blocks) - 1)
  /\ UNCHANGED <<usedScratchPadSize, pads>>

\* The pad is counted first and placed by the new count; one that does not fit
\* has neither memory (0 is nullptr) nor size.
OpenScratchPad(size) ==
  LET taken == IF size <= FreeSpace THEN size ELSE 0
      used == usedScratchPadSize + taken
  IN
  /\ Len(pads) < MaxPads
  /\ usedScratchPadSize' = used
  /\ pads' = Append(pads,
       [at |-> IF size <= FreeSpace THEN Base + used ELSE 0, size |-> taken])
  /\ UNCHANGED <<usedBufferSize, blocks>>

CloseScratchPad ==
  /\ pads # <<>>
  /\ usedScratchPadSize' = usedScratchPadSize - pads[Len(pads)].size
  /\ pads' = SubSeq(pads, 1, Len(pads) - 1)
  /\ UNCHANGED <<usedBufferSize, blocks>>

Next ==
  \/ \E n \in Sizes :
       Allocate(n) \/ OpenScratchPad(n) \/ \E a \in Alignments : AllocateAligned(n, a)
  \/ Free \/ CloseScratchPad \/ Clear

BufferTypeOK ==
  /\ usedBufferSize \in 0 .. BufferSize /\ usedScratchPadSize \in 0 .. BufferSize
  /\ \A i \in DOMAIN pads : pads[i].at \in Nat /\ pads[i].size \in 0 .. BufferSize

TotalOf(sizes) ==
  LET upTo[n \in 0 .. Len(sizes)] == IF n = 0 THEN 0 ELSE upTo[n - 1] + sizes[n]
  IN upTo[Len(sizes)]

SizesOf(ps) == [i \in DOMAIN ps |-> ps[i].size]

\* What Allocate returned and was not freed never overlaps and lies within the
\* part of the buffer that is in use; the space counted for scratch pads is that
\* of the open ones, and both parts together are no more than the buffer.  This
\* is about the allocations and the space: where a pad lies is not promised, and
\* the code's pads do overlap the allocations.
AllocationsDisjoint ==
  /\ usedScratchPadSize = TotalOf(SizesOf(pads))
  /\ FreeSpace >= 0
  /\ \A i \in DOMAIN blocks :
       /\ blocks[i].at >= Base
       /\ blocks[i].at + blocks[i].size <= Base + usedBufferSize
       /\ \A j \in DOMAIN blocks :
            j < i => blocks[j].at + blocks[j].size <= blocks[i].at

==============================================================================
