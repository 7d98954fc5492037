--------------------------- MODULE MCAtomicMemPool ---------------------------
(* Two slots and two threads: one thread can sleep between reading the link  *)
(* of the top slot and its compare-and-set while the other empties the pool   *)
(* and gives the same slot back.  Three values of the counter, which wraps.   *)
EXTENDS AtomicMemPool

CONSTANTS t1, t2

MCThreads == {t1, t2}

==============================================================================
