---------------------------- MODULE MCAtomicQueue ----------------------------
(* A ring of two slots, a counter of two values and three laps: the counter  *)
(* goes all the way round, and a consumer can be overtaken by that much.     *)
EXTENDS AtomicQueue

CONSTANTS c1, c2, a, b

MCConsumers == {c1, c2}
MCItems == {a, b}

==============================================================================
