------------------------------ MODULE FifoQueue ------------------------------
(***************************************************************************)
(* What AtomicQueue promises: a bounded first-in first-out queue whose      *)
(* operations each take effect at one instant.  `got' is what every         *)
(* consumer's last Dequeue delivered (NoItem while there is nothing).       *)
(***************************************************************************)
EXTENDS Naturals, Sequences

CONSTANTS
  Items,        (* what can be enqueued                *)
  Consumers,    (* the threads that dequeue            *)
  Capacity,     (* mNumItems                           *)
  NoItem        (* not an item                         *)

VARIABLES queue, got

fifoVars == <<queue, got>>

FifoInit ==
  /\ queue = <<>>
  /\ got = [c \in Consumers |-> NoItem]

Put(v) ==
  /\ Len(queue) < Capacity
  /\ queue' = Append(queue, v)
  /\ UNCHANGED got

Take(c) ==
  /\ queue # <<>>
  /\ got' = [got EXCEPT ![c] = Head(queue)]
  /\ queue' = Tail(queue)

\* The consumer calls Dequeue again and gives up what it got before.
Drop(c) ==
  /\ got' = [got EXCEPT ![c] = NoItem]
  /\ UNCHANGED queue

FifoNext ==
  \/ \E v \in Items : Put(v)
  \/ \E c \in Consumers : Take(c) \/ Drop(c)

FifoSpec == FifoInit /\ [][FifoNext]_fifoVars

==============================================================================
