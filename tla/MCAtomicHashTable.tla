-------------------------- MODULE MCAtomicHashTable --------------------------
(* Three keys, three slots, two tries.  k1 and k2 have the same home slot and *)
(* are removed by key, by anyone; k3, whose home is the next slot, is removed  *)
(* by pointer by the thread that inserted it.  t3 only looks up and removes.   *)
EXTENDS AtomicHashTable

CONSTANTS t1, t2, t3, k1, k2, k3

MCThreads == {t1, t2, t3}
MCKeys == {k1, k2, k3}
MCPtrKeys == {k3}
MCInserter == [k \in MCKeys |-> IF k = k2 THEN t2 ELSE t1]
MCHome == [k \in MCKeys |-> IF k = k3 THEN 1 ELSE 0]

==============================================================================
