------------------------ MODULE AtomicHashTableProofs ------------------------
(***************************************************************************)
(* The safety of AtomicHashTable for any threads, keys and hash functions,    *)
(* any size of the table and any number of tries, as long as no key is          *)
(* inserted while it is in the table.                                           *)
(***************************************************************************)
EXTENDS AtomicHashTable, FiniteSetTheorems, TLAPS

(* A thread in a call has the key of the call.                               *)
KeyInv == \A t \in Threads : pc[t] # "idle" => key[t] \in Keys

(* The slot a call probes is a slot.                                         *)
LEMMA ProbeType ==
  ASSUME TypeOK, KeyInv, NEW t \in Threads, pc[t] # "idle"
  PROVE  Probe(t) \in Slots
<1>1. Home[key[t]] \in Slots /\ try[t] \in Nat
  BY TableAssumption DEF TypeOK, KeyInv
<1>2. NumEntries \in Nat \ {0}
  BY TableAssumption
<1> QED
  BY <1>1, <1>2 DEF Probe, Slots

(* A step of one thread leaves the locals of the others alone, except missed.  *)
LEMMA OthersKeepLocals ==
  ASSUME TypeOK, NEW t \in Threads, Call(t) \/ Step(t), NEW u \in Threads, u # t
  PROVE  pc'[u] = pc[u] /\ key'[u] = key[u] /\ try'[u] = try[u] /\ seen'[u] = seen[u]
<1> USE DEF TypeOK, Begin, GoTo, Return, NextTry, TakenOut
<1>1. CASE Call(t)
  BY <1>1 DEF Call, InsertCall, RemoveCall, RemovePtrRead, GetCall, locals
<1>2. CASE InsertRead(t) \/ InsertClaim(t)
  BY <1>2 DEF InsertRead, InsertClaim
<1>3. CASE InsertCopyBegin(t) \/ InsertCopyEnd(t) \/ InsertCount(t) \/ InsertPublish(t)
  BY <1>3 DEF InsertCopyBegin, InsertCopyEnd, InsertCount, InsertPublish
<1>4. CASE RemoveRead(t) \/ RemoveCas(t) \/ GetRead(t)
  BY <1>4 DEF RemoveRead, RemoveCas, GetRead
<1>5. CASE RemovePtrCas(t) \/ RemoveCount(t)
  BY <1>5 DEF RemovePtrCas, RemoveCount
<1> QED
  BY <1>1, <1>2, <1>3, <1>4, <1>5 DEF Step

(* Every variable keeps its type.                                            *)
LEMMA TypeInit == Init => TypeOK /\ KeyInv
<1> SUFFICES ASSUME Init PROVE TypeOK /\ KeyInv
  OBVIOUS
<1>1. missed \in [Threads -> BOOLEAN]
  BY Zenon DEF Init
<1> QED
  BY <1>1, TableAssumption DEF Init, TypeOK, KeyInv, NoKey, Slots

LEMMA MissedType ==
  ASSUME TypeOK, NEW t \in Threads, Call(t) \/ Step(t)
  PROVE  missed' \in [Threads -> BOOLEAN]
<1> USE DEF TypeOK, Begin, GoTo, Return, NextTry, TakenOut
<1>1. CASE Call(t)
  BY <1>1, Zenon DEF Call, InsertCall, RemoveCall, RemovePtrRead, GetCall, locals
<1>2. CASE InsertRead(t)
  BY <1>2, Zenon DEF InsertRead
<1>3. CASE InsertClaim(t)
  BY <1>3, Zenon DEF InsertClaim
<1>4. CASE InsertCopyBegin(t) \/ InsertCopyEnd(t) \/ InsertCount(t) \/ InsertPublish(t)
  BY <1>4, Zenon DEF InsertCopyBegin, InsertCopyEnd, InsertCount, InsertPublish
<1>5. CASE RemoveRead(t)
  BY <1>5, Zenon DEF RemoveRead
<1>6. CASE RemoveCas(t)
  BY <1>6, Zenon DEF RemoveCas
<1>7. CASE GetRead(t)
  BY <1>7, Zenon DEF GetRead
<1>8. CASE RemovePtrCas(t) \/ RemoveCount(t)
  BY <1>8, Zenon DEF RemovePtrCas, RemoveCount
<1> QED
  BY <1>1, <1>2, <1>3, <1>4, <1>5, <1>6, <1>7, <1>8 DEF Step

LEMMA TypeStep == TypeOK /\ KeyInv /\ [Next]_vars => TypeOK' /\ KeyInv'
<1> SUFFICES ASSUME TypeOK, KeyInv, [Next]_vars PROVE TypeOK' /\ KeyInv'
  OBVIOUS
<1> USE TableAssumption
<1>1. ASSUME NEW t \in Threads, Call(t) \/ Step(t) PROVE TypeOK' /\ KeyInv'
  <2>0. missed' \in [Threads -> BOOLEAN]
    BY <1>1, MissedType
  <2>1. KeyInv'
    <3>1. pc'[t] # "idle" => key'[t] \in Keys
      BY <1>1 DEF Call, InsertCall, RemoveCall, RemovePtrRead, GetCall, locals, Step,
        InsertRead, InsertClaim, InsertCopyBegin, InsertCopyEnd, InsertCount, InsertPublish,
        RemoveRead, RemoveCas, GetRead, RemovePtrCas, RemoveCount, TypeOK, KeyInv,
        Begin, GoTo, Return, NextTry, TakenOut
    <3> QED
      BY <1>1, <3>1, OthersKeepLocals DEF KeyInv
  <2> USE <2>0, <2>1 DEF TypeOK, Begin, GoTo, Return, NextTry, TakenOut
  <2>2. CASE Call(t)
    BY <2>2 DEF Call, InsertCall, RemoveCall, RemovePtrRead, GetCall, locals
  <2>3. CASE InsertRead(t)
    BY <2>3 DEF InsertRead
  <2>4. CASE InsertClaim(t)
    BY <2>4, ProbeType DEF InsertClaim
  <2>5. CASE InsertCopyBegin(t) \/ InsertCopyEnd(t) \/ InsertCount(t)
    BY <2>5, ProbeType DEF InsertCopyBegin, InsertCopyEnd, InsertCount, KeyInv
  <2>6. CASE InsertPublish(t)
    BY <2>6, ProbeType DEF InsertPublish, KeyInv, Slots
  <2>7. CASE RemoveRead(t)
    BY <2>7 DEF RemoveRead
  <2>8. CASE RemoveCas(t)
    BY <2>8, ProbeType DEF RemoveCas
  <2>9. CASE GetRead(t)
    BY <2>9 DEF GetRead
  <2>10. CASE RemovePtrCas(t)
    <3>1. table' \in [Slots -> Keys \cup {Empty, Removed, Placeholder}]
      BY <2>10 DEF RemovePtrCas
    <3>2. ptr' \in [Keys -> Slots \cup {-1}]
      BY <2>10 DEF RemovePtrCas
    <3> QED
      BY <2>10, <3>1, <3>2 DEF RemovePtrCas
  <2>11. CASE RemoveCount(t)
    BY <2>11 DEF RemoveCount
  <2> QED
    BY <1>1, <2>2, <2>3, <2>4, <2>5, <2>6, <2>7, <2>8, <2>9, <2>10, <2>11 DEF Step
<1>2. CASE Clear
  BY <1>2 DEF Clear, TypeOK, KeyInv, locals
<1>3. CASE UNCHANGED vars
  BY <1>3 DEF vars, locals, TypeOK, KeyInv
<1> QED
  BY <1>1, <1>2, <1>3 DEF Next

(* Words, values, counters and locals keep their types, whatever callers do.    *)
THEOREM TypeCorrect == Spec => []TypeOK
<1>1. Init => TypeOK /\ KeyInv
  BY TypeInit
<1>2. TypeOK /\ KeyInv /\ [Next]_vars => TypeOK' /\ KeyInv'
  BY TypeStep
<1> QED
  BY <1>1, <1>2, PTL DEF Spec

------------------------------------------------------------------------------
(* The inductive invariant.                                                  *)

Inserting == {"insertRead", "insertClaim", "insertCopy", "insertCopying", "insertCount",
              "insertPublish"}
Claiming == {"insertCopy", "insertCopying", "insertCount", "insertPublish"}

(* What a thread knows in its call: that its key is not in the table while it
   inserts it, since nobody else does; that the slot it has claimed stays a
   placeholder; and that its pointer leads to its key.                        *)
ThreadInv(t) ==
  /\ pc[t] \in Inserting => Inserter[key[t]] = t /\ ~Present(key[t])
  /\ pc[t] = "insertClaim" => seen[t] \in {Empty, Removed}
  /\ pc[t] \in Claiming => table[Probe(t)] = Placeholder
  /\ pc[t] \in {"insertCount", "insertPublish"} => value[Probe(t)] = key[t]
  /\ pc[t] \in {"removeRead", "removeCas"} => key[t] \notin PtrKeys
  /\ pc[t] = "removePtrCas" =>
       Inserter[key[t]] = t /\ ptr[key[t]] \in Slots /\ seen[t] = key[t]

(* No two threads have claimed the same slot.                                *)
ClaimsApart ==
  \A t, u \in Threads :
    t # u /\ pc[t] \in Claiming /\ pc[u] \in Claiming => Probe(t) # Probe(u)

(* No key is in the table twice, and pointers lead to their keys.             *)
TableInv ==
  /\ \A s, r \in Slots : table[s] \in Keys /\ table[r] = table[s] => s = r
  /\ \A k \in Keys : ptr[k] \in Slots => k \in PtrKeys /\ table[ptr[k]] = k

IInv ==
  /\ TypeOK /\ KeyInv
  /\ \A t \in Threads : ThreadInv(t)
  /\ ClaimsApart
  /\ TableInv
  /\ ValueWhole

(* The marks are three, and no keys.                                         *)
LEMMA Marks ==
  /\ Empty # Removed /\ Empty # Placeholder /\ Removed # Placeholder
  /\ Empty \notin Keys /\ Removed \notin Keys /\ Placeholder \notin Keys /\ Torn \notin Keys
<1>0. Cardinality({Empty, Removed, Placeholder}) = 3
  BY TableAssumption
<1>1. ASSUME NEW a, NEW b PROVE Cardinality({a, b}) # 3
  <2>1. {a, b} = {a} \cup {b}
    OBVIOUS
  <2>2. IsFiniteSet({a}) /\ Cardinality({a}) = 1
    BY FS_Singleton
  <2> QED
    BY <2>1, <2>2, FS_AddElement
<1>2. Empty # Removed
  <2> SUFFICES ASSUME Empty = Removed PROVE FALSE
    OBVIOUS
  <2>1. {Empty, Removed, Placeholder} = {Removed, Placeholder}
    OBVIOUS
  <2>2. Cardinality({Removed, Placeholder}) # 3
    BY <1>1
  <2> QED
    BY <1>0, <2>1, <2>2
<1>3. Empty # Placeholder
  <2> SUFFICES ASSUME Empty = Placeholder PROVE FALSE
    OBVIOUS
  <2>1. {Empty, Removed, Placeholder} = {Removed, Placeholder}
    OBVIOUS
  <2>2. Cardinality({Removed, Placeholder}) # 3
    BY <1>1
  <2> QED
    BY <1>0, <2>1, <2>2
<1>4. Removed # Placeholder
  <2> SUFFICES ASSUME Removed = Placeholder PROVE FALSE
    OBVIOUS
  <2>1. {Empty, Removed, Placeholder} = {Empty, Placeholder}
    OBVIOUS
  <2>2. Cardinality({Empty, Placeholder}) # 3
    BY <1>1
  <2> QED
    BY <1>0, <2>1, <2>2
<1> QED
  BY <1>2, <1>3, <1>4, TableAssumption

(* The empty table satisfies it.                                             *)
LEMMA IInvInit == Init => IInv
<1> SUFFICES ASSUME Init PROVE IInv
  OBVIOUS
<1>1. TypeOK /\ KeyInv
  BY TypeInit
<1>2. \A t \in Threads : ThreadInv(t)
  BY DEF Init, ThreadInv, Inserting, Claiming
<1>3. ClaimsApart
  BY DEF Init, ClaimsApart, Claiming
<1>4. TableInv /\ ValueWhole
  BY Marks DEF Init, TableInv, ValueWhole, Slots
<1> QED
  BY <1>1, <1>2, <1>3, <1>4 DEF IInv

(* The steps that only change the locals of the thread that makes them.        *)
LEMMA LocalSteps ==
  ASSUME ~AllowReinsert, IInv, NEW t \in Threads, Call(t) \/ Step(t),
         table' = table, value' = value, ptr' = ptr,
         pc[t] \in {"idle", "insertRead", "insertClaim", "removeRead", "removeCas", "getRead"}
  PROVE  IInv'
<1> USE DEF IInv
<1>1. TypeOK' /\ KeyInv'
  BY TypeStep DEF Next
<1>2. \A u \in Threads \ {t} : pc'[u] = pc[u] /\ key'[u] = key[u] /\ try'[u] = try[u]
                               /\ seen'[u] = seen[u] /\ Probe(u)' = Probe(u)
  BY OthersKeepLocals DEF Probe
<1>3. \A u \in Threads \ {t} : ThreadInv(u)'
  BY <1>2 DEF ThreadInv, Present
<1>4. ThreadInv(t)' /\ pc'[t] \notin Claiming
  <2> USE DEF ThreadInv, TypeOK, Inserting, Claiming, Begin, GoTo, Return, NextTry, TakenOut
  <2>1. CASE Call(t)
    BY <2>1, Marks DEF Call, InsertCall, RemoveCall, RemovePtrRead, GetCall, locals, Present, TableInv
  <2>2. CASE InsertRead(t)
    <3>1. table[Probe(t)] # key[t]
      BY <2>2, ProbeType DEF InsertRead, Present
    <3> QED
      BY <2>2, <3>1 DEF InsertRead, Present
  <2>3. CASE InsertClaim(t)
    <3>1. table[Probe(t)] # seen[t]
      BY <2>3, ProbeType, Marks DEF InsertClaim
    <3> QED
      BY <2>3, <3>1 DEF InsertClaim, Present
  <2>4. CASE RemoveRead(t)
    BY <2>4 DEF RemoveRead
  <2>5. CASE RemoveCas(t)
    BY <2>5 DEF RemoveCas
  <2>6. CASE GetRead(t)
    BY <2>6 DEF GetRead
  <2> QED
    BY <2>1, <2>2, <2>3, <2>4, <2>5, <2>6
    DEF Step, InsertCopyBegin, InsertCopyEnd, InsertCount, InsertPublish, RemovePtrCas, RemoveCount
<1>5. ClaimsApart'
  BY <1>2, <1>4 DEF ClaimsApart
<1>6. TableInv' /\ ValueWhole'
  BY DEF TableInv, ValueWhole
<1> QED
  BY <1>1, <1>3, <1>4, <1>5, <1>6

(* The steps that write to the table or to a value, and those that only count. *)
LEMMA SharedSteps ==
  ASSUME ~AllowReinsert, IInv, NEW t \in Threads, Step(t),
         pc[t] \in Claiming \cup {"insertClaim", "removeCas", "removePtrCas", "removeCount"}
  PROVE  IInv'
<1> USE DEF IInv
<1>1. TypeOK' /\ KeyInv'
  BY TypeStep DEF Next
<1>2. \A u \in Threads \ {t} : pc'[u] = pc[u] /\ key'[u] = key[u] /\ try'[u] = try[u]
                               /\ seen'[u] = seen[u] /\ Probe(u)' = Probe(u)
  BY OthersKeepLocals DEF Probe
<1>p. pc[t] # "idle" /\ Probe(t) \in Slots /\ key[t] \in Keys
  BY ProbeType DEF KeyInv, Claiming
<1>i. \A u \in Threads \ {t} : pc[u] \in Inserting /\ Inserter[key[t]] = t => key[u] # key[t]
  BY DEF ThreadInv
<1>3. CASE InsertClaim(t) /\ table[Probe(t)] = seen[t]
  <2>1. /\ table' = [table EXCEPT ![Probe(t)] = Placeholder] /\ value' = value /\ ptr' = ptr
        /\ pc'[t] = "insertCopy" /\ key'[t] = key[t] /\ Probe(t)' = Probe(t)
        /\ pc[t] = "insertClaim"
    BY <1>3 DEF InsertClaim, GoTo, TypeOK, Probe
  <2>2. table[Probe(t)] \in {Empty, Removed}
    BY <1>3, <2>1 DEF ThreadInv
  <2>3. \A u \in Threads : pc[u] \in Claiming => Probe(u) # Probe(t)
    BY <2>2, Marks DEF ThreadInv
  <2>4. ASSUME NEW u \in Threads \ {t} PROVE ThreadInv(u)'
    BY <1>2, <1>p, <2>1, Marks DEF ThreadInv, Present, TypeOK, KeyInv, Inserting
  <2>5. ThreadInv(t)'
    BY <1>p, <2>1, Marks DEF ThreadInv, Present, TypeOK, Inserting, Claiming
  <2>6. ClaimsApart'
    BY <1>2, <2>1, <2>3 DEF ClaimsApart
  <2>7. TableInv' /\ ValueWhole'
    BY <1>p, <2>1, <2>2, Marks DEF TableInv, ValueWhole, TypeOK
  <2> QED
    BY <1>1, <2>4, <2>5, <2>6, <2>7
<1>4. CASE InsertClaim(t) /\ table[Probe(t)] # seen[t]
  BY <1>4, LocalSteps DEF InsertClaim
<1>5. CASE InsertCopyBegin(t) \/ InsertCopyEnd(t) \/ InsertCount(t)
  <2>1. /\ table' = table /\ ptr' = ptr /\ pc[t] \in Claiming \ {"insertPublish"}
        /\ pc'[t] \in Claiming /\ key'[t] = key[t] /\ Probe(t)' = Probe(t)
        /\ \A s \in Slots \ {Probe(t)} : value'[s] = value[s]
    BY <1>5 DEF InsertCopyBegin, InsertCopyEnd, InsertCount, GoTo, TypeOK, Probe, Claiming
  <2>2. \A u \in Threads \ {t} : pc[u] \in Claiming => Probe(u) \in Slots \ {Probe(t)}
    BY <2>1, ProbeType DEF ClaimsApart, Claiming
  <2>3. ASSUME NEW u \in Threads \ {t} PROVE ThreadInv(u)'
    BY <1>2, <2>1, <2>2 DEF ThreadInv, Present, Claiming
  <2>4. pc'[t] \in {"insertCount", "insertPublish"} => value'[Probe(t)] = key[t]
    BY <1>5, <1>p DEF InsertCopyBegin, InsertCopyEnd, InsertCount, GoTo, TypeOK, ThreadInv
  <2>5. ThreadInv(t)'
    BY <2>1, <2>4 DEF ThreadInv, Present, Inserting, Claiming
  <2>6. ClaimsApart'
    BY <1>2, <2>1 DEF ClaimsApart
  <2>7. table[Probe(t)] = Placeholder
    BY <2>1 DEF ThreadInv
  <2>8. TableInv' /\ ValueWhole'
    BY <2>1, <2>7, Marks DEF TableInv, ValueWhole
  <2> QED
    BY <1>1, <2>3, <2>5, <2>6, <2>8
<1>6. CASE InsertPublish(t)
  <2>1. /\ table' = [table EXCEPT ![Probe(t)] = key[t]] /\ value' = value
        /\ pc[t] = "insertPublish" /\ pc'[t] = "idle"
        /\ ptr' = [ptr EXCEPT ![key[t]] = IF key[t] \in PtrKeys THEN Probe(t) ELSE -1]
    BY <1>6 DEF InsertPublish, Return, TypeOK
  <2>2. /\ table[Probe(t)] = Placeholder /\ value[Probe(t)] = key[t] /\ Inserter[key[t]] = t
        /\ \A s \in Slots : table[s] # key[t]
    BY <2>1 DEF ThreadInv, Inserting, Claiming, Present
  <2>3. \A u \in Threads \ {t} : pc[u] \in Claiming => Probe(u) # Probe(t)
    BY <2>1 DEF ClaimsApart, Claiming
  <2>4. ASSUME NEW u \in Threads \ {t} PROVE ThreadInv(u)'
    <3>1. pc[u] \in Inserting \cup {"removePtrCas"} => key[u] # key[t]
      BY <2>2 DEF ThreadInv
    <3>2. pc[u] \in Inserting => ~Present(key[u])'
      BY <1>2, <1>p, <2>1, <3>1 DEF ThreadInv, Present, TypeOK
    <3>3. pc[u] \in Claiming => table'[Probe(u)] = Placeholder
      BY <1>p, <2>1, <2>3, ProbeType DEF ThreadInv, TypeOK, Claiming
    <3>4. pc[u] = "removePtrCas" => ptr'[key[u]] = ptr[key[u]]
      BY <2>1, <3>1 DEF TypeOK, KeyInv
    <3> QED
      BY <1>2, <2>1, <3>2, <3>3, <3>4 DEF ThreadInv, Present
  <2>5. ThreadInv(t)'
    BY <2>1 DEF ThreadInv, Inserting, Claiming
  <2>6. ClaimsApart'
    BY <1>2, <2>1 DEF ClaimsApart, Claiming
  <2>7. \A k \in Keys : ptr'[k] \in Slots => k \in PtrKeys /\ table'[ptr'[k]] = k
    BY <1>p, <2>1, <2>2, Marks DEF TableInv, TypeOK, Slots
  <2>8. TableInv' /\ ValueWhole'
    BY <1>p, <2>1, <2>2, <2>7 DEF TableInv, ValueWhole, TypeOK
  <2> QED
    BY <1>1, <2>4, <2>5, <2>6, <2>8
<1>7. CASE RemoveCas(t) /\ table[Probe(t)] = key[t]
  <2>1. /\ table' = [table EXCEPT ![Probe(t)] = Removed] /\ value' = value /\ ptr' = ptr
        /\ pc'[t] = "removeCount" /\ key[t] \notin PtrKeys
    BY <1>7 DEF RemoveCas, TakenOut, TypeOK, ThreadInv
  <2>2. \A u \in Threads : pc[u] \in Claiming => Probe(u) # Probe(t)
    BY <1>7, <1>p, Marks DEF ThreadInv
  <2>3. ASSUME NEW u \in Threads \ {t} PROVE ThreadInv(u)'
    <3>1. pc[u] \in Inserting => ~Present(key[u])'
      BY <1>2, <1>p, <2>1, Marks DEF ThreadInv, Present, TypeOK, KeyInv, Inserting
    <3>2. pc[u] \in Claiming => table'[Probe(u)] = Placeholder
      BY <1>p, <2>1, <2>2, ProbeType DEF ThreadInv, TypeOK, Claiming
    <3> QED
      BY <1>2, <2>1, <3>1, <3>2 DEF ThreadInv, Present
  <2>4. ThreadInv(t)'
    BY <2>1 DEF ThreadInv, Inserting, Claiming
  <2>5. ClaimsApart'
    BY <1>2, <2>1 DEF ClaimsApart, Claiming
  <2>6. TableInv' /\ ValueWhole'
    BY <1>7, <1>p, <2>1, Marks DEF TableInv, ValueWhole, TypeOK
  <2> QED
    BY <1>1, <2>3, <2>4, <2>5, <2>6
<1>8. CASE RemoveCas(t) /\ table[Probe(t)] # key[t]
  BY <1>8, LocalSteps DEF RemoveCas
<1>9. CASE RemovePtrCas(t)
  <2> DEFINE s == ptr[key[t]]
  <2>1. s \in Slots /\ table[s] = key[t] /\ seen[t] = key[t] /\ Inserter[key[t]] = t
    BY <1>9, <1>p DEF RemovePtrCas, ThreadInv, TableInv
  <2>2. /\ table' = [table EXCEPT ![s] = Removed] /\ value' = value
        /\ ptr' = [ptr EXCEPT ![key[t]] = -1] /\ pc'[t] = "removeCount"
    BY <1>9, <2>1 DEF RemovePtrCas, TakenOut, TypeOK
  <2> HIDE DEF s
  <2>3. \A u \in Threads : pc[u] \in Claiming => Probe(u) # s
    BY <2>1, <1>p, Marks DEF ThreadInv
  <2>4. ASSUME NEW u \in Threads \ {t} PROVE ThreadInv(u)'
    <3>1. pc[u] \in Inserting => ~Present(key[u])'
      BY <1>2, <2>1, <2>2, Marks DEF ThreadInv, Present, TypeOK, KeyInv, Inserting
    <3>2. pc[u] \in Claiming => table'[Probe(u)] = Placeholder
      BY <2>1, <2>2, <2>3, ProbeType DEF ThreadInv, TypeOK, Claiming
    <3>3. pc[u] = "removePtrCas" => ptr'[key[u]] = ptr[key[u]]
      BY <1>p, <2>1, <2>2 DEF ThreadInv, TypeOK, KeyInv
    <3> QED
      BY <1>2, <2>2, <3>1, <3>2, <3>3 DEF ThreadInv, Present
  <2>5. ThreadInv(t)'
    BY <2>2 DEF ThreadInv, Inserting, Claiming
  <2>6. ClaimsApart'
    BY <1>2, <2>2 DEF ClaimsApart, Claiming
  <2>7. \A k \in Keys : ptr'[k] \in Slots => k \in PtrKeys /\ table'[ptr'[k]] = k
    BY <1>p, <2>1, <2>2 DEF TableInv, TypeOK, Slots
  <2>8. TableInv' /\ ValueWhole'
    BY <2>1, <2>2, <2>7, Marks DEF TableInv, ValueWhole, TypeOK
  <2> QED
    BY <1>1, <2>4, <2>5, <2>6, <2>8
<1>10. CASE RemoveCount(t)
  <2>1. table' = table /\ value' = value /\ ptr' = ptr /\ pc'[t] = "idle"
    BY <1>10 DEF RemoveCount, Return, TypeOK
  <2>2. \A u \in Threads : ThreadInv(u)'
    BY <1>2, <2>1 DEF ThreadInv, Present, Inserting, Claiming
  <2>3. ClaimsApart' /\ TableInv' /\ ValueWhole'
    BY <1>2, <2>1 DEF ClaimsApart, TableInv, ValueWhole, Claiming
  <2> QED
    BY <1>1, <2>2, <2>3
<1> QED
  BY <1>3, <1>4, <1>5, <1>6, <1>7, <1>8, <1>9, <1>10
  DEF Step, Claiming, InsertRead, RemoveRead, GetRead

(* Every step preserves the inductive invariant.                             *)
LEMMA IInvStep ==
  ASSUME ~AllowReinsert
  PROVE  IInv /\ [Next]_vars => IInv'
<1> SUFFICES ASSUME IInv, [Next]_vars PROVE IInv'
  OBVIOUS
<1>1. ASSUME NEW t \in Threads, Call(t) PROVE IInv'
  BY <1>1, LocalSteps
  DEF Call, InsertCall, RemoveCall, RemovePtrRead, GetCall, Begin
<1>2. ASSUME NEW t \in Threads, Step(t) PROVE IInv'
  <2>1. CASE InsertRead(t) \/ RemoveRead(t) \/ GetRead(t)
    BY <1>2, <2>1, LocalSteps DEF InsertRead, RemoveRead, GetRead
  <2> QED
    BY <1>2, <2>1, SharedSteps
    DEF Step, Claiming, InsertClaim, InsertCopyBegin, InsertCopyEnd, InsertCount, InsertPublish,
        RemoveCas, RemovePtrCas, RemoveCount
<1>3. CASE Clear
  <2>1. TypeOK' /\ KeyInv'
    BY <1>3, TypeStep DEF IInv, Next
  <2>2. \A t \in Threads : pc'[t] = "idle"
    BY <1>3 DEF Clear, locals
  <2>3. TableInv' /\ ValueWhole'
    BY <1>3, Marks DEF Clear, TableInv, ValueWhole, Slots
  <2> QED
    BY <2>1, <2>2, <2>3 DEF IInv, ThreadInv, ClaimsApart, Inserting, Claiming
<1>4. CASE UNCHANGED vars
  BY <1>4, TypeStep
  DEF IInv, vars, locals, ThreadInv, ClaimsApart, TableInv, ValueWhole, Present, Probe
<1> QED
  BY <1>1, <1>2, <1>3, <1>4 DEF Next

(* From which, as long as no key is inserted while it is in the table, all of
   the following holds.                                                      *)
THEOREM InductiveInvariant ==
  ASSUME ~AllowReinsert
  PROVE  Spec => []IInv
<1>1. Init => IInv
  BY IInvInit
<1>2. IInv /\ [Next]_vars => IInv'
  BY IInvStep
<1> QED
  BY <1>1, <1>2, PTL DEF Spec

(* A key that can be seen has its whole value: the key is stored after the
   value (atomic_hash_table.cpp:107-109), in a slot nobody else writes to.     *)
THEOREM ValueWholeHolds ==
  ASSUME ~AllowReinsert
  PROVE  Spec => []ValueWhole
<1>1. IInv => ValueWhole
  BY DEF IInv
<1> QED
  BY <1>1, InductiveInvariant, PTL

(* A step that changes a slot is a claim, a publication, a removal or Clear.    *)
LEMMA TableChanges ==
  ASSUME ~AllowReinsert, IInv, [Next]_vars, table' # table, ~Clear
  PROVE  \E t \in Threads :
           \/ /\ InsertClaim(t) /\ Probe(t) \in Slots /\ table[Probe(t)] \in {Empty, Removed}
              /\ table' = [table EXCEPT ![Probe(t)] = Placeholder]
           \/ /\ InsertPublish(t) /\ Probe(t) \in Slots /\ table[Probe(t)] = Placeholder
              /\ key[t] \in Keys /\ table' = [table EXCEPT ![Probe(t)] = key[t]]
           \/ /\ RemoveCas(t) \/ RemovePtrCas(t)
              /\ pc[t] \in {"removeCas", "removePtrCas"} /\ pc'[t] = "removeCount"
              /\ \E s \in Slots : /\ table[s] = key[t] /\ key[t] \in Keys
                                  /\ table' = [table EXCEPT ![s] = Removed]
<1> USE DEF IInv
<1>1. PICK t \in Threads : Step(t)
  BY DEF Next, vars, Call, InsertCall, RemoveCall, RemovePtrRead, GetCall
<1>2. pc[t] # "idle" => Probe(t) \in Slots /\ key[t] \in Keys
  BY ProbeType DEF KeyInv
<1>3. CASE InsertClaim(t)
  BY <1>2, <1>3 DEF InsertClaim, ThreadInv
<1>4. CASE InsertPublish(t)
  BY <1>2, <1>4 DEF InsertPublish, ThreadInv, Claiming
<1>5. CASE RemoveCas(t)
  BY <1>2, <1>5 DEF RemoveCas, TakenOut, TypeOK
<1>6. CASE RemovePtrCas(t)
  <2>1. ptr[key[t]] \in Slots /\ table[ptr[key[t]]] = key[t] /\ seen[t] = key[t]
    BY <1>2, <1>6 DEF RemovePtrCas, ThreadInv, TableInv
  <2> QED
    BY <1>2, <1>6, <2>1 DEF RemovePtrCas, TakenOut, TypeOK
<1> QED
  BY <1>1, <1>3, <1>4, <1>5, <1>6
  DEF Step, InsertRead, InsertCopyBegin, InsertCopyEnd, InsertCount, RemoveRead, RemoveCount, GetRead

(* A published entry stays in its slot until a removal of its own key, by key or
   by pointer, takes it out (atomic_hash_table.cpp:98, 130, 163).               *)
THEOREM EntriesStayHolds ==
  ASSUME ~AllowReinsert
  PROVE  Spec => EntriesStay
<1>1. IInv /\ [Next]_vars =>
        [\A s \in Slots : table[s] \in Keys /\ table'[s] # table[s] =>
           \/ \E t \in Threads :
                /\ pc[t] \in {"removeCas", "removePtrCas"}
                /\ key[t] = table[s] /\ pc'[t] = "removeCount"
           \/ Clear]_vars
  <2> SUFFICES ASSUME IInv, [Next]_vars, ~Clear,
                      NEW s \in Slots, table[s] \in Keys, table'[s] # table[s]
               PROVE  \E t \in Threads :
                        /\ pc[t] \in {"removeCas", "removePtrCas"}
                        /\ key[t] = table[s] /\ pc'[t] = "removeCount"
    OBVIOUS
  <2> QED
    BY TableChanges, Marks DEF IInv, TypeOK
<1> QED
  BY <1>1, InductiveInvariant, PTL DEF Spec, EntriesStay

(* After a Remove by key has succeeded no slot holds the key: it was in one.      *)
THEOREM RemoveRemovesHolds ==
  ASSUME ~AllowReinsert
  PROVE  Spec => RemoveRemoves
<1>1. IInv /\ IInv' /\ [Next]_vars =>
        [\A t \in Threads :
           pc[t] = "removeCas" /\ pc'[t] = "removeCount" =>
             \A s \in Slots : table'[s] # key[t]]_vars
  <2> SUFFICES ASSUME IInv, IInv', [Next]_vars,
                      NEW t \in Threads, pc[t] = "removeCas", pc'[t] = "removeCount"
               PROVE  \A s \in Slots : table'[s] # key[t]
    OBVIOUS
  <2>1. PICK u \in Threads : Call(u) \/ Step(u)
    BY DEF Next, vars, locals, Clear
  <2>2. u = t
    BY <2>1, OthersKeepLocals DEF IInv
  <2>3. RemoveCas(t)
    BY <2>1, <2>2 DEF Call, InsertCall, RemoveCall, RemovePtrRead, GetCall, Begin, Step,
      InsertRead, InsertClaim, InsertCopyBegin, InsertCopyEnd, InsertCount, InsertPublish,
      RemoveRead, RemovePtrCas, RemoveCount, GetRead
  <2>4. table[Probe(t)] = key[t] /\ table' = [table EXCEPT ![Probe(t)] = Removed]
    BY <2>3 DEF RemoveCas, NextTry, Return, IInv, TypeOK
  <2>5. Probe(t) \in Slots /\ key[t] \in Keys
    BY ProbeType DEF IInv, KeyInv
  <2> QED
    BY <2>4, <2>5, Marks DEF IInv, TypeOK, TableInv
<1> QED
  BY <1>1, InductiveInvariant, PTL DEF Spec, RemoveRemoves

------------------------------------------------------------------------------
(* The count.                                                                *)

Entries == {s \in Slots : table[s] \in Keys}
Counting == {t \in Threads : pc[t] \in {"insertPublish", "removeCount"}}

CountInv ==
  /\ IsFiniteSet(Counting)
  /\ mCurrentEntries = Cardinality(Entries) + Cardinality(Counting)

(* The table is finite.                                                      *)
LEMMA EntriesFinite == IsFiniteSet(Entries)
<1>1. IsFiniteSet(Slots)
  BY FS_Interval, TableAssumption DEF Slots
<1> QED
  BY <1>1, FS_Subset DEF Entries

(* Every change of the table is matched by one of the count, before or after.   *)
LEMMA CountStep ==
  ASSUME ~AllowReinsert, IInv, CountInv, [Next]_vars
  PROVE  CountInv'
<1>0. TypeOK
  BY DEF IInv
<1>f. /\ IsFiniteSet(Counting) /\ Cardinality(Counting) \in Nat
      /\ IsFiniteSet(Entries) /\ Cardinality(Entries) \in Nat
  BY EntriesFinite, FS_CardinalityType DEF CountInv
<1>1. CASE Clear
  <2>1. Counting' = {} /\ Entries' = {} /\ mCurrentEntries' = 0
    BY <1>1, Marks DEF Clear, locals, Counting, Entries, Slots
  <2> QED
    BY <2>1, FS_EmptySet DEF CountInv
<1>2. CASE UNCHANGED vars
  BY <1>2 DEF vars, locals, CountInv, Counting, Entries
<1>3. ASSUME NEW t \in Threads, Call(t) \/ Step(t), ~Clear PROVE CountInv'
  <2>1. \A u \in Threads \ {t} : pc'[u] = pc[u]
    BY <1>0, <1>3, OthersKeepLocals
  <2>2. CASE InsertCount(t)
    <3>1. Counting' = Counting \cup {t} /\ t \notin Counting
      BY <1>0, <2>1, <2>2 DEF Counting, InsertCount, GoTo, TypeOK
    <3>2. Entries' = Entries /\ mCurrentEntries' = mCurrentEntries + 1
      BY <2>2 DEF Entries, InsertCount
    <3>3. Cardinality(Counting') = Cardinality(Counting) + 1 /\ IsFiniteSet(Counting')
      BY <1>f, <3>1, FS_AddElement
    <3> QED
      BY <1>f, <3>2, <3>3 DEF CountInv
  <2>3. CASE RemoveCount(t)
    <3>1. Counting' = Counting \ {t} /\ t \in Counting
      BY <1>0, <2>1, <2>3 DEF Counting, RemoveCount, Return, TypeOK
    <3>2. Entries' = Entries /\ mCurrentEntries' = mCurrentEntries - 1
      BY <2>3 DEF Entries, RemoveCount
    <3>3. Cardinality(Counting') = Cardinality(Counting) - 1 /\ IsFiniteSet(Counting')
      BY <1>f, <3>1, FS_RemoveElement
    <3> QED
      BY <1>f, <3>2, <3>3 DEF CountInv
  <2>4. CASE InsertPublish(t)
    <3>1. Counting' = Counting \ {t} /\ t \in Counting
      BY <1>0, <2>1, <2>4 DEF Counting, InsertPublish, Return, TypeOK
    <3>2. /\ Probe(t) \in Slots /\ table[Probe(t)] = Placeholder /\ key[t] \in Keys
          /\ table' = [table EXCEPT ![Probe(t)] = key[t]]
      BY <2>4, ProbeType DEF InsertPublish, IInv, ThreadInv, KeyInv, Claiming
    <3>3. Entries' = Entries \cup {Probe(t)} /\ Probe(t) \notin Entries
      BY <1>0, <3>2, Marks DEF Entries, TypeOK
    <3>4. mCurrentEntries' = mCurrentEntries
      BY <2>4 DEF InsertPublish
    <3>5. Cardinality(Counting') = Cardinality(Counting) - 1 /\ IsFiniteSet(Counting')
      BY <1>f, <3>1, FS_RemoveElement
    <3>6. Cardinality(Entries') = Cardinality(Entries) + 1
      BY <1>f, <3>3, FS_AddElement
    <3> QED
      BY <1>f, <3>4, <3>5, <3>6 DEF CountInv
  <2>5. CASE (RemoveCas(t) \/ RemovePtrCas(t)) /\ table' # table
    <3>1. PICK s \in Slots : /\ table[s] = key[t] /\ key[t] \in Keys
                             /\ table' = [table EXCEPT ![s] = Removed]
      <4>1. CASE RemoveCas(t)
        BY <2>5, <4>1, ProbeType DEF RemoveCas, IInv, KeyInv
      <4>2. CASE RemovePtrCas(t)
        BY <2>5, <4>2 DEF RemovePtrCas, IInv, KeyInv, ThreadInv, TableInv
      <4> QED
        BY <2>5, <4>1, <4>2
    <3>2. Counting' = Counting \cup {t} /\ t \notin Counting
      BY <1>0, <2>1, <2>5 DEF Counting, RemoveCas, RemovePtrCas, TakenOut, TypeOK
    <3>3. Entries' = Entries \ {s} /\ s \in Entries
      BY <1>0, <3>1, Marks DEF Entries, TypeOK
    <3>4. mCurrentEntries' = mCurrentEntries
      BY <2>5 DEF RemoveCas, RemovePtrCas
    <3>5. Cardinality(Counting') = Cardinality(Counting) + 1 /\ IsFiniteSet(Counting')
      BY <1>f, <3>2, FS_AddElement
    <3>6. Cardinality(Entries') = Cardinality(Entries) - 1
      BY <1>f, <3>3, FS_RemoveElement
    <3> QED
      BY <1>f, <3>4, <3>5, <3>6 DEF CountInv
  <2>6. CASE InsertClaim(t)
    <3>1. Counting' = Counting
      BY <1>0, <2>1, <2>6 DEF Counting, InsertClaim, GoTo, NextTry, Return, TypeOK
    <3>2. \A s \in Slots : table'[s] \in Keys <=> table[s] \in Keys
      BY <1>0, <2>6, ProbeType, Marks DEF InsertClaim, IInv, ThreadInv, TypeOK
    <3>3. Entries' = Entries
      BY <3>2 DEF Entries
    <3>4. mCurrentEntries' = mCurrentEntries
      BY <2>6 DEF InsertClaim
    <3> QED
      BY <3>1, <3>3, <3>4 DEF CountInv
  <2>7. CASE Call(t) \/ InsertRead(t) \/ InsertCopyBegin(t) \/ InsertCopyEnd(t) \/ RemoveRead(t)
             \/ GetRead(t) \/ ((RemoveCas(t) \/ RemovePtrCas(t)) /\ table' = table)
    <3>1. Counting' = Counting
      <4>1. t \notin Counting
        BY <2>7 DEF Counting, Call, InsertCall, RemoveCall, RemovePtrRead, GetCall, Begin,
          InsertRead, InsertCopyBegin, InsertCopyEnd, RemoveRead, GetRead, RemoveCas, RemovePtrCas
      <4>2. pc'[t] \notin {"insertPublish", "removeCount"}
        BY <1>0, <2>7, ProbeType, Marks
        DEF Call, InsertCall, RemoveCall, RemovePtrRead, GetCall, Begin, InsertRead,
            InsertCopyBegin, InsertCopyEnd, RemoveRead, GetRead, RemoveCas, RemovePtrCas, GoTo,
            Return, NextTry, TakenOut, TypeOK, locals, IInv, KeyInv, ThreadInv, TableInv
      <4> QED
        BY <2>1, <4>1, <4>2 DEF Counting
    <3>2. table' = table /\ mCurrentEntries' = mCurrentEntries
      BY <2>7 DEF Call, InsertCall, RemoveCall, RemovePtrRead, GetCall, InsertRead,
        InsertCopyBegin, InsertCopyEnd, RemoveRead, GetRead, RemoveCas, RemovePtrCas
    <3>3. Entries' = Entries
      BY <3>2 DEF Entries
    <3> QED
      BY <3>1, <3>2, <3>3 DEF CountInv
  <2> QED
    BY <1>3, <2>2, <2>3, <2>4, <2>5, <2>6, <2>7 DEF Step
<1> QED
  BY <1>1, <1>2, <1>3 DEF Next

(* mCurrentEntries is the number of entries, and of the calls on their way
   between the table and the counter.                                        *)
THEOREM CountMatchesHolds ==
  ASSUME ~AllowReinsert
  PROVE  Spec => []CountMatches
<1>1. Init => CountInv
  <2> SUFFICES ASSUME Init PROVE CountInv
    OBVIOUS
  <2>1. Counting = {} /\ Entries = {} /\ mCurrentEntries = 0
    BY Marks DEF Init, Counting, Entries, Slots
  <2> QED
    BY <2>1, FS_EmptySet DEF CountInv
<1>2. IInv /\ CountInv /\ [Next]_vars => CountInv'
  BY CountStep
<1>3. CountInv => CountMatches
  BY DEF CountInv, CountMatches, Entries, Counting
<1> QED
  BY <1>1, <1>2, <1>3, InductiveInvariant, PTL DEF Spec

------------------------------------------------------------------------------
(* The probe sequences.                                                      *)

Place(k, i) == (Home[k] + i) % NumEntries

(* The places of a key before its j-th have been taken: probing goes past them. *)
Led(tab, k, j) == \A i \in 0 .. j - 1 : tab[Place(k, i)] # Empty

(* Every entry is at one of the places of its key, and can be reached there.   *)
PathInv ==
  \A s \in Slots : table[s] \in Keys =>
    \E j \in 0 .. MaxTries - 1 : s = Place(table[s], j) /\ Led(table, table[s], j)

(* An insertion goes past places that are taken, and stay so.  A lookup that has
   not missed its key yet has it still in front of it.                        *)
LookInv(t) ==
  /\ pc[t] = "idle" => try[t] = 0
  /\ pc[t] \in Inserting => Led(table, key[t], try[t])
  /\ pc[t] = "insertClaim" /\ seen[t] = Removed => table[Probe(t)] # Empty
  /\ Looking(t) /\ ~missed[t] =>
       \E j \in try[t] .. MaxTries - 1 :
         table[Place(key[t], j)] = key[t] /\ Led(table, key[t], j)

LEMMA PlaceType ==
  ASSUME NEW k \in Keys, NEW i \in Nat
  PROVE  Place(k, i) \in Slots
<1>1. Home[k] \in Slots /\ NumEntries \in Nat \ {0}
  BY TableAssumption
<1> QED
  BY <1>1 DEF Place, Slots

(* A slot that was taken is never empty again, except by Clear.                *)
LEMMA StaysTaken ==
  ASSUME ~AllowReinsert, IInv, [Next]_vars, ~Clear
  PROVE  /\ \A s \in Slots : table[s] # Empty => table'[s] # Empty
         /\ \A k \in Keys, j \in Nat : Led(table, k, j) => Led(table', k, j)
<1>1. \A s \in Slots : table[s] # Empty => table'[s] # Empty
  <2>1. CASE table' = table
    BY <2>1
  <2>2. CASE table' # table
    BY <2>2, TableChanges, Marks DEF IInv, TypeOK
  <2> QED
    BY <2>1, <2>2
<1>2. ASSUME NEW k \in Keys, NEW j \in Nat, Led(table, k, j) PROVE Led(table', k, j)
  <2>1. \A i \in 0 .. j - 1 : Place(k, i) \in Slots
    BY PlaceType
  <2> QED
    BY <1>1, <1>2, <2>1 DEF Led, Place
<1> QED
  BY <1>1, <1>2

(* The key that a removal of t takes out, if its step is one that does.        *)
Takes(t, k) ==
  /\ pc'[t] = "removeCount"
  /\ \/ RemoveCas(t) /\ k = key[t]
     \/ RemovePtrCas(t) /\ k = seen[t]

(* Lookups by other threads keep what they have missed, and are told what is
   taken out.                                                                *)
LEMMA OthersMissed ==
  ASSUME TypeOK, NEW t \in Threads, Call(t) \/ Step(t), NEW u \in Threads, u # t
  PROVE  /\ missed[u] => missed'[u]
         /\ Looking(u) /\ Takes(t, key[u]) => missed'[u]
<1> USE DEF TypeOK, Begin, GoTo, Return, NextTry, TakenOut
<1>1. missed[u] => missed'[u]
  <2>1. CASE Call(t)
    BY <2>1, Zenon DEF Call, InsertCall, RemoveCall, RemovePtrRead, GetCall, locals
  <2>2. CASE InsertRead(t)
    BY <2>2, Zenon DEF InsertRead
  <2>3. CASE InsertClaim(t)
    BY <2>3, Zenon DEF InsertClaim
  <2>4. CASE InsertCopyBegin(t) \/ InsertCopyEnd(t) \/ InsertCount(t) \/ InsertPublish(t)
    BY <2>4, Zenon DEF InsertCopyBegin, InsertCopyEnd, InsertCount, InsertPublish
  <2>5. CASE RemoveRead(t)
    BY <2>5, Zenon DEF RemoveRead
  <2>6. CASE RemoveCas(t)
    BY <2>6, Zenon DEF RemoveCas
  <2>7. CASE GetRead(t)
    BY <2>7, Zenon DEF GetRead
  <2>8. CASE RemovePtrCas(t) \/ RemoveCount(t)
    BY <2>8, Zenon DEF RemovePtrCas, RemoveCount
  <2> QED
    BY <2>1, <2>2, <2>3, <2>4, <2>5, <2>6, <2>7, <2>8 DEF Step
<1>2. ASSUME Looking(u), RemoveCas(t), pc'[t] = "removeCount", key[u] = key[t]
      PROVE  missed'[u]
  <2>1. pc'[t] # "idle" /\ pc'[t] # "removeRead"
    BY <1>2
  <2>2. TakenOut(t, key[t])
    BY <1>2, <2>1 DEF RemoveCas
  <2> QED
    BY <1>2, <2>2, Zenon
<1>3. ASSUME Looking(u), RemovePtrCas(t), pc'[t] = "removeCount", key[u] = seen[t]
      PROVE  missed'[u]
  <2>1. TakenOut(t, seen[t])
    BY <1>3 DEF RemovePtrCas
  <2> QED
    BY <1>3, <2>1, Zenon
<1> QED
  BY <1>1, <1>2, <1>3 DEF Takes

(* A lookup that has not missed its key, and whose key is still there, has it
   in front of it.                                                           *)
LEMMA KeyAhead ==
  ASSUME TypeOK, PathInv, NEW k \in Keys, Present(k)
  PROVE  \E j \in 0 .. MaxTries - 1 : table[Place(k, j)] = k /\ Led(table, k, j)
BY DEF PathInv, Present

LookupInv == IInv /\ PathInv /\ \A t \in Threads : LookInv(t)

(* What the thread that makes a step knows after it.                           *)
LEMMA OwnLookStep ==
  ASSUME ~AllowReinsert, LookupInv, NEW t \in Threads, Call(t) \/ Step(t), ~Clear
  PROVE  LookInv(t)'
<1> USE TableAssumption DEF LookupInv, IInv, TypeOK
<1>0. [Next]_vars
  BY DEF Next
<1>n. \A s \in Slots : table[s] # Empty => table'[s] # Empty
  BY <1>0, StaysTaken
<1>l. \A k \in Keys, j \in Nat : Led(table, k, j) => Led(table', k, j)
  BY <1>0, StaysTaken
<1>p. pc[t] # "idle" => Probe(t) \in Slots /\ key[t] \in Keys /\ Probe(t) = Place(key[t], try[t])
  BY ProbeType DEF KeyInv, Probe, Place
<1>m. Empty # Removed /\ Empty # Placeholder /\ Empty \notin Keys /\ Removed \notin Keys
  BY Marks
<1>1. ASSUME NEW k \in Keys, Begin(t, k, "insertRead") PROVE LookInv(t)'
  <2>1. pc'[t] = "insertRead" /\ try'[t] = 0
    BY <1>1 DEF Begin, LookInv
  <2> QED
    BY <2>1 DEF LookInv, Looking, Led
<1>2. ASSUME NEW k \in Keys, NEW to \in {"removeRead", "getRead"}, Begin(t, k, to), table' = table
      PROVE  LookInv(t)'
  <2>1. pc'[t] = to /\ try'[t] = 0 /\ key'[t] = k
    BY <1>2 DEF Begin, LookInv
  <2>2. ~missed'[t] => Present(k)
    BY <1>2, Zenon DEF Begin
  <2>3. ~missed'[t] => \E j \in 0 .. MaxTries - 1 : table[Place(k, j)] = k /\ Led(table, k, j)
    BY <2>2, KeyAhead
  <2> QED
    BY <1>2, <2>1, <2>3 DEF LookInv, Looking, Inserting
<1>3. ASSUME NEW k \in Keys, RemovePtrRead(t, k) PROVE LookInv(t)'
  BY <1>3 DEF RemovePtrRead, LookInv, Looking, Inserting, locals
<1>4. ASSUME Return(t) PROVE LookInv(t)'
  <2>1. pc'[t] = "idle" /\ try'[t] = 0
    BY <1>4 DEF Return
  <2> QED
    BY <2>1 DEF LookInv, Looking, Inserting
<1>5. ASSUME pc'[t] = "removeCount" PROVE LookInv(t)'
  BY <1>5 DEF LookInv, Looking, Inserting
<1>6. ASSUME pc[t] \in Inserting, pc'[t] \in Inserting \ {"insertClaim"}, key'[t] = key[t],
             try'[t] = try[t] \/ (try'[t] = try[t] + 1 /\ table[Probe(t)] # Empty)
      PROVE  LookInv(t)'
  <2>0. key[t] \in Keys /\ try[t] \in Nat /\ Led(table, key[t], try[t])
    BY <1>6, <1>p DEF LookInv, Inserting
  <2>1. ASSUME table[Probe(t)] # Empty PROVE Led(table, key[t], try[t] + 1)
    <3>1. Probe(t) = Place(key[t], try[t])
      BY <1>6, <1>p DEF Inserting
    <3>2. ASSUME NEW i \in 0 .. try[t] PROVE table[Place(key[t], i)] # Empty
      <4>1. CASE i = try[t]
        BY <2>1, <3>1, <4>1
      <4>2. CASE i # try[t]
        <5>1. i \in 0 .. try[t] - 1
          BY <2>0, <4>2
        <5> QED
          BY <2>0, <5>1 DEF Led
      <4> QED
        BY <4>1, <4>2
    <3>3. 0 .. (try[t] + 1) - 1 = 0 .. try[t]
      BY <2>0
    <3> QED
      BY <3>2, <3>3 DEF Led
  <2>2. Led(table, key[t], try'[t]) /\ try'[t] \in Nat
    BY <1>6, <2>0, <2>1
  <2>3. Led(table', key'[t], try'[t])
    <3>1. Led(table', key[t], try'[t])
      BY <1>l, <2>0, <2>2
    <3> QED
      BY <1>6, <3>1
  <2> QED
    BY <1>6, <2>3 DEF LookInv, Looking, Inserting
<1>7. ASSUME Looking(t), Looking(t)', table' = table, key'[t] = key[t], missed'[t] = missed[t],
             try'[t] = try[t] \/ (try'[t] = try[t] + 1 /\ table[Probe(t)] # key[t])
      PROVE  LookInv(t)'
  <2> SUFFICES ASSUME ~missed'[t]
               PROVE  \E j \in try'[t] .. MaxTries - 1 :
                        table[Place(key[t], j)] = key[t] /\ Led(table, key[t], j)
    BY <1>7 DEF LookInv, Looking, Inserting
  <2>1. ~missed[t]
    BY <1>7
  <2>2. PICK j \in try[t] .. MaxTries - 1 : table[Place(key[t], j)] = key[t] /\ Led(table, key[t], j)
    BY <1>7, <2>1 DEF LookInv
  <2>3. table[Probe(t)] # key[t] => j # try[t]
    BY <1>7, <1>p, <2>2 DEF Looking
  <2>4. j \in try'[t] .. MaxTries - 1
    <3>1. try[t] \in Nat /\ j \in Nat /\ j >= try[t] /\ j <= MaxTries - 1
      BY <2>2
    <3>2. CASE try'[t] = try[t]
      BY <2>2, <3>2
    <3>3. CASE try'[t] = try[t] + 1 /\ table[Probe(t)] # key[t]
      <4>1. j >= try[t] + 1
        BY <2>3, <3>1, <3>3
      <4> QED
        BY <3>1, <3>3, <4>1
    <3> QED
      BY <1>7, <3>2, <3>3
  <2> QED
    BY <2>2, <2>4
<1>8. CASE Call(t)
  <2>1. PICK k \in Keys :
          InsertCall(t, k) \/ RemoveCall(t, k) \/ RemovePtrRead(t, k) \/ GetCall(t, k)
    BY <1>8 DEF Call
  <2>2. CASE InsertCall(t, k)
    BY <1>1, <2>2 DEF InsertCall
  <2>3. CASE RemoveCall(t, k)
    BY <1>2, <2>3 DEF RemoveCall
  <2>4. CASE RemovePtrRead(t, k)
    BY <1>3, <2>4
  <2>5. CASE GetCall(t, k)
    BY <1>2, <2>5 DEF GetCall
  <2> QED
    BY <2>1, <2>2, <2>3, <2>4, <2>5
<1>9. CASE InsertRead(t)
  <2>1. CASE table[Probe(t)] = key[t]
    <3>1. pc[t] = "insertRead" /\ GoTo(t, "insertCopy")
      <4>1. pc[t] = "insertRead" /\ key[t] \in Keys
        BY <1>9, <1>p DEF InsertRead
      <4>2. table[Probe(t)] \notin {Empty, Removed}
        BY <2>1, <4>1, <1>m
      <4> QED
        BY <1>9, <2>1, <4>1, <4>2, Zenon DEF InsertRead
    <3>2. pc'[t] = "insertCopy" /\ key' = key /\ try' = try
      BY <3>1 DEF GoTo
    <3> QED
      BY <1>6, <3>1, <3>2 DEF Inserting
  <2>2. CASE table[Probe(t)] # key[t] /\ table[Probe(t)] \in {Empty, Removed}
    <3>1. /\ pc'[t] = "insertClaim" /\ seen'[t] = table[Probe(t)] /\ table' = table
          /\ key'[t] = key[t] /\ try'[t] = try[t] /\ pc[t] = "insertRead"
      BY <1>9, <2>2 DEF InsertRead
    <3> QED
      BY <3>1, <1>m DEF LookInv, Looking, Inserting, Probe
  <2>3. CASE table[Probe(t)] # key[t] /\ table[Probe(t)] \notin {Empty, Removed}
    BY <1>4, <1>6, <1>9, <2>3 DEF InsertRead, NextTry, Inserting
  <2> QED
    BY <2>1, <2>2, <2>3
<1>10. CASE InsertClaim(t)
  <2>1. CASE table[Probe(t)] = seen[t]
    BY <1>6, <1>10, <2>1 DEF InsertClaim, GoTo, Inserting
  <2>2. CASE table[Probe(t)] # seen[t]
    <3>1. table[Probe(t)] # Empty
      BY <1>10, <2>2 DEF InsertClaim, LookInv, ThreadInv
    <3> QED
      BY <1>4, <1>6, <1>10, <2>2, <3>1 DEF InsertClaim, NextTry, Inserting
  <2> QED
    BY <2>1, <2>2
<1>11. CASE InsertCopyBegin(t) \/ InsertCopyEnd(t) \/ InsertCount(t)
  BY <1>6, <1>11 DEF InsertCopyBegin, InsertCopyEnd, InsertCount, GoTo, Inserting
<1>12. CASE InsertPublish(t) \/ RemoveCount(t)
  BY <1>4, <1>12 DEF InsertPublish, RemoveCount
<1>13. CASE RemoveRead(t)
  <2>1. CASE table[Probe(t)] = key[t]
    <3>1. pc[t] = "removeRead" /\ GoTo(t, "removeCas") /\ table' = table
      <4>1. pc[t] = "removeRead" /\ key[t] \in Keys
        BY <1>13, <1>p DEF RemoveRead
      <4>2. table[Probe(t)] # Empty
        BY <2>1, <4>1, <1>m
      <4> QED
        BY <1>13, <2>1, <4>1, <4>2, Zenon DEF RemoveRead
    <3>2. pc'[t] = "removeCas" /\ key' = key /\ try' = try /\ missed' = missed
      BY <3>1 DEF GoTo
    <3> QED
      BY <1>7, <3>1, <3>2 DEF Looking
  <2>2. CASE table[Probe(t)] # key[t]
    BY <1>4, <1>7, <1>13, <2>2 DEF RemoveRead, NextTry, Looking
  <2> QED
    BY <2>1, <2>2
<1>14. CASE RemoveCas(t)
  <2>1. CASE table[Probe(t)] = key[t]
    BY <1>5, <1>14, <2>1 DEF RemoveCas, TakenOut
  <2>2. CASE table[Probe(t)] # key[t]
    BY <1>4, <1>7, <1>14, <2>2 DEF RemoveCas, NextTry, Looking
  <2> QED
    BY <2>1, <2>2
<1>15. CASE RemovePtrCas(t)
  BY <1>4, <1>5, <1>15 DEF RemovePtrCas, TakenOut
<1>16. CASE GetRead(t)
  BY <1>4, <1>7, <1>16 DEF GetRead, NextTry, Looking
<1> QED
  BY <1>8, <1>9, <1>10, <1>11, <1>12, <1>13, <1>14, <1>15, <1>16 DEF Step

(* An entry that leaves its slot in a step of t is the one t takes.             *)
LEMMA OwnTake ==
  ASSUME ~AllowReinsert, IInv, NEW t \in Threads, Call(t) \/ Step(t), ~Clear,
         NEW s \in Slots, table[s] \in Keys, table'[s] # table[s]
  PROVE  Takes(t, table[s])
<1> USE DEF IInv
<1>1. pc[t] # "idle" => Probe(t) \in Slots /\ key[t] \in Keys
  BY ProbeType DEF KeyInv
<1>2. Step(t) /\ table' # table
  BY DEF Call, InsertCall, RemoveCall, RemovePtrRead, GetCall
<1>3. CASE InsertClaim(t) \/ InsertPublish(t)
  <2>1. table[Probe(t)] \notin Keys
    BY <1>2, <1>3, Marks DEF InsertClaim, InsertPublish, ThreadInv, Claiming
  <2> QED
    BY <1>1, <1>3, <2>1 DEF InsertClaim, InsertPublish, TypeOK
<1>4. CASE RemoveCas(t)
  <2>1. table[Probe(t)] = key[t] /\ TakenOut(t, key[t])
    BY <1>2, <1>4 DEF RemoveCas
  <2>2. table' = [table EXCEPT ![Probe(t)] = Removed]
    BY <1>2, <1>4 DEF RemoveCas
  <2>3. s = Probe(t)
    BY <2>2 DEF TypeOK
  <2>4. pc'[t] = "removeCount"
    BY <2>1 DEF TakenOut, TypeOK
  <2> QED
    BY <1>4, <2>1, <2>3, <2>4, Zenon DEF Takes
<1>5. CASE RemovePtrCas(t)
  BY <1>1, <1>2, <1>5 DEF RemovePtrCas, TakenOut, Takes, TypeOK
<1> QED
  BY <1>2, <1>3, <1>4, <1>5
  DEF Step, InsertRead, InsertCopyBegin, InsertCopyEnd, InsertCount, RemoveRead, RemoveCount, GetRead

(* Every step preserves what inserters and lookups know.                       *)
LEMMA LookupStep ==
  ASSUME ~AllowReinsert
  PROVE  LookupInv /\ [Next]_vars => LookupInv'
<1> SUFFICES ASSUME LookupInv, [Next]_vars PROVE LookupInv'
  OBVIOUS
<1> USE TableAssumption DEF LookupInv
<1>0. IInv' /\ TypeOK /\ TypeOK'
  BY IInvStep DEF IInv
<1>1. CASE Clear
  <2>1. PathInv'
    BY <1>1, Marks DEF Clear, PathInv, Slots
  <2>2. ASSUME NEW t \in Threads PROVE LookInv(t)'
    BY <1>1, <2>2 DEF Clear, locals, LookInv, Looking, Inserting
  <2> QED
    BY <1>0, <2>1, <2>2
<1>2. CASE UNCHANGED vars
  BY <1>0, <1>2 DEF vars, locals, PathInv, LookInv, Looking, Led, Place, Probe
<1>3. ASSUME NEW t \in Threads, Call(t) \/ Step(t), ~Clear PROVE LookupInv'
  <2>1. PathInv'
    <3> SUFFICES ASSUME NEW s \in Slots, table'[s] \in Keys
                 PROVE  \E j \in 0 .. MaxTries - 1 :
                          s = Place(table'[s], j) /\ Led(table', table'[s], j)
      BY DEF PathInv, Place, Led
    <3>1. CASE table'[s] = table[s]
      <4>1. PICK j \in 0 .. MaxTries - 1 : s = Place(table[s], j) /\ Led(table, table[s], j)
        BY <3>1 DEF PathInv
      <4>2. table[s] \in Keys /\ j \in Nat
        BY <3>1
      <4>3. Led(table', table[s], j)
        BY <1>3, <4>1, <4>2, StaysTaken
      <4> QED
        BY <3>1, <4>1, <4>3
    <3>2. CASE table'[s] # table[s]
      <4>1. PICK u \in Threads : /\ InsertPublish(u) /\ s = Probe(u) /\ key[u] \in Keys
                                 /\ table' = [table EXCEPT ![Probe(u)] = key[u]]
        BY <1>0, <1>3, <3>2, TableChanges, Marks DEF TypeOK
      <4>2. try[u] \in 0 .. MaxTries - 1 /\ s = Place(key[u], try[u]) /\ table'[s] = key[u]
        BY <1>0, <4>1 DEF TypeOK, Probe, Place
      <4>3. Led(table, key[u], try[u])
        BY <4>1 DEF InsertPublish, LookInv, Inserting
      <4>4. Led(table', key[u], try[u])
        <5>1. try[u] \in Nat /\ key[u] \in Keys
          BY <4>1, <4>2
        <5>2. \A k \in Keys, j \in Nat : Led(table, k, j) => Led(table', k, j)
          BY <1>3, StaysTaken
        <5> QED
          BY <4>3, <5>1, <5>2
      <4> QED
        BY <4>2, <4>4
    <3> QED
      BY <3>1, <3>2
  <2>2. LookInv(t)'
    BY <1>3, OwnLookStep
  <2>3. ASSUME NEW u \in Threads, u # t PROVE LookInv(u)'
    <3>1. /\ pc'[u] = pc[u] /\ key'[u] = key[u] /\ try'[u] = try[u] /\ seen'[u] = seen[u]
          /\ Probe(u)' = Probe(u)
      BY <1>0, <1>3, <2>3, OthersKeepLocals DEF Probe
    <3>2. pc[u] # "idle" => Probe(u) \in Slots /\ key[u] \in Keys
      BY <1>0, ProbeType DEF IInv, KeyInv
    <3>3. \A s \in Slots : table[s] # Empty => table'[s] # Empty
      BY <1>3, StaysTaken
    <3>4. \A j \in Nat : pc[u] # "idle" /\ Led(table, key[u], j) => Led(table', key[u], j)
      BY <1>3, <3>1, <3>2, StaysTaken
    <3>5. pc[u] \in Inserting => Led(table', key[u], try[u])
      BY <1>0, <3>4 DEF LookInv, Inserting, TypeOK
    <3>6. pc[u] = "insertClaim" /\ seen[u] = Removed => table'[Probe(u)] # Empty
      BY <3>2, <3>3 DEF LookInv
    <3>7. ASSUME Looking(u), ~missed'[u]
          PROVE  \E j \in try[u] .. MaxTries - 1 :
                   table'[Place(key[u], j)] = key[u] /\ Led(table', key[u], j)
      <4>1. ~missed[u] /\ ~Takes(t, key[u])
        BY <1>0, <1>3, <2>3, <3>7, OthersMissed
      <4>2. PICK j \in try[u] .. MaxTries - 1 :
              table[Place(key[u], j)] = key[u] /\ Led(table, key[u], j)
        BY <3>7, <4>1 DEF LookInv
      <4>3. j \in Nat /\ key[u] \in Keys /\ Place(key[u], j) \in Slots
        BY <1>0, <3>2, <3>7, PlaceType DEF Looking, TypeOK
      <4>4. table'[Place(key[u], j)] = key[u]
        BY <1>0, <1>3, <4>1, <4>2, <4>3, OwnTake, Marks DEF TypeOK
      <4> QED
        BY <3>4, <3>7, <4>2, <4>3, <4>4 DEF Looking
    <3> QED
      BY <3>1, <3>5, <3>6, <3>7 DEF LookInv, Looking, Led, Place
  <2> QED
    BY <1>0, <2>1, <2>2, <2>3
<1> QED
  BY <1>1, <1>2, <1>3 DEF Next

(* Nothing is in the empty table, and nobody looks for anything.               *)
LEMMA LookupInit == Init => LookupInv
<1> SUFFICES ASSUME Init PROVE LookupInv
  OBVIOUS
<1>1. IInv
  BY IInvInit
<1>2. PathInv
  BY Marks DEF Init, PathInv
<1>3. \A t \in Threads : LookInv(t)
  BY DEF Init, LookInv, Looking, Inserting
<1> QED
  BY <1>1, <1>2, <1>3 DEF LookupInv

(* A lookup that is about to give up has not its key in front of it: the slot
   it has read is empty, and no place after that is reached; or it is the last.
   So it has missed the key.                                                 *)
THEOREM MissesAreTrueHolds ==
  ASSUME ~AllowReinsert
  PROVE  Spec => []MissesAreTrue
<1>1. LookupInv => MissesAreTrue
  <2> SUFFICES ASSUME LookupInv, NEW t \in Threads, pc[t] \in {"getRead", "removeRead"},
                      \/ table[Probe(t)] = Empty
                      \/ table[Probe(t)] # key[t] /\ try[t] = MaxTries - 1,
                      ~missed[t]
               PROVE  FALSE
    BY Zenon DEF MissesAreTrue
  <2> USE TableAssumption
  <2>1. key[t] \in Keys /\ try[t] \in Nat
    BY DEF LookupInv, IInv, KeyInv, TypeOK
  <2>2. PICK j \in try[t] .. MaxTries - 1 :
          table[Place(key[t], j)] = key[t] /\ Led(table, key[t], j)
    BY DEF LookupInv, LookInv, Looking
  <2>3. table[Probe(t)] # key[t] /\ (table[Probe(t)] = Empty \/ try[t] = MaxTries - 1)
    BY <2>1, Marks
  <2>4. Probe(t) = Place(key[t], try[t])
    BY DEF Probe, Place
  <2>5. j # try[t]
    BY <2>2, <2>3, <2>4
  <2>6. table[Probe(t)] = Empty /\ try[t] \in 0 .. j - 1
    BY <2>1, <2>2, <2>3, <2>5
  <2> QED
    BY <2>2, <2>4, <2>6 DEF Led
<1>2. Init => LookupInv
  BY LookupInit
<1>3. LookupInv /\ [Next]_vars => LookupInv'
  BY LookupStep
<1> QED
  BY <1>1, <1>2, <1>3, PTL DEF Spec

==============================================================================
