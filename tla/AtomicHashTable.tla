--------------------------- MODULE AtomicHashTable ---------------------------
(***************************************************************************)
(* ycommon/containers/atomic_hash_table.{h,cpp}: an open-addressing hash     *)
(* table shared by threads.  A slot's word is Empty, Removed, Placeholder or *)
(* a key; an insertion claims a free slot by a compare-and-set to            *)
(* Placeholder, copies the value and then stores the key.  A removed slot is *)
(* a tombstone, which probing goes past and an insertion takes again.        *)
(*                                                                           *)
(* Each action is one access to shared memory; the memcpy of a value is two, *)
(* between which the slot's value is Torn.  The value inserted under a key   *)
(* is named by the key.  The header's contract, that one key is not inserted *)
(* twice at the same time, gives every key one thread, Inserter[k].          *)
(***************************************************************************)
EXTENDS Integers, FiniteSets

CONSTANTS
  Threads,
  Keys,
  PtrKeys,       (* those removed by pointer, the others are removed by key  *)
  Inserter,      (* the thread that inserts each key                         *)
  Home,          (* hash_key % mNumEntries                                   *)
  NumEntries,    (* mNumEntries                                              *)
  MaxTries,      (* MAX_TRIES                                                *)
  AllowReinsert, (* whether a key may be inserted while it is in the table   *)
  Empty, Removed, Placeholder, Torn

Slots == 0 .. NumEntries - 1

ASSUME TableAssumption ==
  /\ MaxTries \in Nat \ {0}
  /\ NumEntries \in Nat /\ NumEntries >= MaxTries   \* asserted by Init
  /\ IsFiniteSet(Keys) /\ PtrKeys \subseteq Keys
  /\ Home \in [Keys -> Slots]
  /\ Inserter \in [Keys -> Threads]
  /\ AllowReinsert \in BOOLEAN
  /\ {Empty, Removed, Placeholder, Torn} \cap Keys = {}
  /\ Cardinality({Empty, Removed, Placeholder}) = 3

VARIABLES
  table,            (* the words                                             *)
  value,            (* the values                                            *)
  mCurrentEntries,
  pc, key, try, seen, (* program counter, argument, loop counter and         *)
                      (* hash_table_value of each thread's call              *)
  ptr,              (* the slot Insert returned for a key of PtrKeys, or -1  *)
  missed            (* ghost: the key a thread looks for was not in the table*)
                    (* at some instant of its call                           *)

locals == <<pc, key, try, seen, missed>>
vars == <<table, value, mCurrentEntries, locals, ptr>>

NoKey == Empty

Init ==
  /\ table = [s \in Slots |-> Empty]
  /\ value = [s \in Slots |-> Torn]
  /\ mCurrentEntries = 0
  /\ pc = [t \in Threads |-> "idle"]
  /\ key = [t \in Threads |-> NoKey]
  /\ try = [t \in Threads |-> 0]
  /\ seen = [t \in Threads |-> Empty]
  /\ ptr = [k \in Keys |-> -1]
  /\ missed = [t \in Threads |-> FALSE]

Probe(t) == (Home[key[t]] + try[t]) % NumEntries

Present(k) == \E s \in Slots : table[s] = k

\* A call of thread t with key k; whether k is missing already matters to lookups.
Begin(t, k, to) ==
  /\ pc[t] = "idle"
  /\ pc' = [pc EXCEPT ![t] = to]
  /\ key' = [key EXCEPT ![t] = k]
  /\ missed' = [missed EXCEPT ![t] = to # "insertRead" /\ ~Present(k)]
  /\ UNCHANGED <<try, seen>>

GoTo(t, to) ==
  /\ pc' = [pc EXCEPT ![t] = to]
  /\ UNCHANGED <<key, try, seen, missed>>

\* The call ends and its locals with it.
Return(t) ==
  /\ pc' = [pc EXCEPT ![t] = "idle"]
  /\ key' = [key EXCEPT ![t] = NoKey]
  /\ try' = [try EXCEPT ![t] = 0]
  /\ seen' = [seen EXCEPT ![t] = Empty]
  /\ missed' = [missed EXCEPT ![t] = FALSE]

\* Mutant: one try too many.
NextTryTooFar(t, from) ==
  IF try[t] < MaxTries
    THEN /\ pc' = [pc EXCEPT ![t] = from]
         /\ try' = [try EXCEPT ![t] = @ + 1]
         /\ seen' = [seen EXCEPT ![t] = Empty]
         /\ UNCHANGED <<key, missed>>
    ELSE Return(t)

\* The next turn of the loop, which reads again at `from', or the end of it:
\* the call returns NULL or false (Insert reports that the table is too full).
NextTry(t, from) ==
  IF try[t] + 1 < MaxTries
    THEN /\ pc' = [pc EXCEPT ![t] = from]
         /\ try' = [try EXCEPT ![t] = @ + 1]
         /\ seen' = [seen EXCEPT ![t] = Empty]
         /\ UNCHANGED <<key, missed>>
    ELSE Return(t)

------------------------------------------------------------------------------
(* Insert                                                                    *)

InsertCall(t, k) ==
  /\ Inserter[k] = t
  /\ AllowReinsert \/ ~Present(k)
  /\ Begin(t, k, "insertRead")
  /\ UNCHANGED <<table, value, mCurrentEntries, ptr>>

InsertRead(t) ==
  /\ pc[t] = "insertRead"
  /\ LET v == table[Probe(t)] IN
       CASE v = key[t] -> GoTo(t, "insertCopy")
         [] v \in {Empty, Removed} ->
              /\ pc' = [pc EXCEPT ![t] = "insertClaim"]
              /\ seen' = [seen EXCEPT ![t] = v]
              /\ UNCHANGED <<key, try, missed>>
         [] OTHER -> NextTry(t, "insertRead")
  /\ UNCHANGED <<table, value, mCurrentEntries, ptr>>

\* Mutant: the slot is claimed by a store.
InsertClaimStore(t) ==
  /\ pc[t] = "insertClaim"
  /\ table' = [table EXCEPT ![Probe(t)] = Placeholder]
  /\ GoTo(t, "insertCopy")
  /\ UNCHANGED <<value, mCurrentEntries, ptr>>

\* Mutant: the slot is claimed under the key, visible before its value is.
InsertClaimKey(t) ==
  /\ pc[t] = "insertClaim"
  /\ IF table[Probe(t)] = seen[t]
       THEN /\ table' = [table EXCEPT ![Probe(t)] = key[t]]
            /\ GoTo(t, "insertCopy")
       ELSE /\ NextTry(t, "insertRead")
            /\ UNCHANGED table
  /\ UNCHANGED <<value, mCurrentEntries, ptr>>

InsertClaim(t) ==
  /\ pc[t] = "insertClaim"
  /\ IF table[Probe(t)] = seen[t]
       THEN /\ table' = [table EXCEPT ![Probe(t)] = Placeholder]
            /\ GoTo(t, "insertCopy")
       ELSE /\ NextTry(t, "insertRead")
            /\ UNCHANGED table
  /\ UNCHANGED <<value, mCurrentEntries, ptr>>

InsertCopyBegin(t) ==
  /\ pc[t] = "insertCopy"
  /\ value' = [value EXCEPT ![Probe(t)] = Torn]
  /\ GoTo(t, "insertCopying")
  /\ UNCHANGED <<table, mCurrentEntries, ptr>>

InsertCopyEnd(t) ==
  /\ pc[t] = "insertCopying"
  /\ value' = [value EXCEPT ![Probe(t)] = key[t]]
  /\ GoTo(t, "insertCount")
  /\ UNCHANGED <<table, mCurrentEntries, ptr>>

InsertCount(t) ==
  /\ pc[t] = "insertCount"
  /\ mCurrentEntries' = mCurrentEntries + 1
  /\ GoTo(t, "insertPublish")
  /\ UNCHANGED <<table, value, ptr>>

InsertPublish(t) ==
  /\ pc[t] = "insertPublish"
  /\ table' = [table EXCEPT ![Probe(t)] = key[t]]
  /\ ptr' = [ptr EXCEPT ![key[t]] = IF key[t] \in PtrKeys THEN Probe(t) ELSE -1]
  /\ Return(t)
  /\ UNCHANGED <<value, mCurrentEntries>>

------------------------------------------------------------------------------
(* Remove, by key or by the pointer Insert returned                          *)

RemoveCall(t, k) ==
  /\ Begin(t, k, "removeRead")
  /\ UNCHANGED <<table, value, mCurrentEntries, ptr>>

RemoveRead(t) ==
  /\ pc[t] = "removeRead"
  /\ CASE table[Probe(t)] = key[t] -> GoTo(t, "removeCas")
       [] table[Probe(t)] = Empty -> Return(t)
       [] OTHER -> NextTry(t, "removeRead")
  /\ UNCHANGED <<table, value, mCurrentEntries, ptr>>

Looking(u) == pc[u] \in {"getRead", "removeRead", "removeCas"}

\* Thread t has taken key k out of the table and goes on to count it: from now
\* on whoever looks for k may say that it was not there.
TakenOut(t, k) ==
  /\ pc' = [pc EXCEPT ![t] = "removeCount"]
  /\ missed' = [u \in Threads |-> missed[u] \/ (Looking(u) /\ key[u] = k)]
  /\ UNCHANGED <<key, try, seen>>

\* Mutant: the slot is freed instead of being made a tombstone.
RemoveCasEmpty(t) ==
  /\ pc[t] = "removeCas"
  /\ IF table[Probe(t)] = key[t]
       THEN /\ table' = [table EXCEPT ![Probe(t)] = Empty]
            /\ TakenOut(t, key[t])
       ELSE /\ NextTry(t, "removeRead")
            /\ UNCHANGED table
  /\ UNCHANGED <<value, mCurrentEntries, ptr>>

\* Mutant: the tombstone is stored without a comparison.
RemoveStore(t) ==
  /\ pc[t] = "removeCas"
  /\ table' = [table EXCEPT ![Probe(t)] = Removed]
  /\ TakenOut(t, key[t])
  /\ UNCHANGED <<value, mCurrentEntries, ptr>>

\* Mutant: what the compare-and-set returns is not looked at.
RemoveCasUnchecked(t) ==
  /\ pc[t] = "removeCas"
  /\ IF table[Probe(t)] = key[t]
       THEN table' = [table EXCEPT ![Probe(t)] = Removed]
       ELSE UNCHANGED table
  /\ TakenOut(t, key[t])
  /\ UNCHANGED <<value, mCurrentEntries, ptr>>

RemoveCas(t) ==
  /\ pc[t] = "removeCas"
  /\ IF table[Probe(t)] = key[t]
       THEN /\ table' = [table EXCEPT ![Probe(t)] = Removed]
            /\ TakenOut(t, key[t])
       ELSE /\ NextTry(t, "removeRead")
            /\ UNCHANGED table
  /\ UNCHANGED <<value, mCurrentEntries, ptr>>

\* By pointer.  Only a thread that has inserted k and not removed it since uses
\* its pointer; hash_key is what the slot holds, whatever that is by now.
RemovePtrRead(t, k) ==
  /\ pc[t] = "idle" /\ Inserter[k] = t /\ ptr[k] \in Slots
  /\ IF table[ptr[k]] \in {Removed, Empty}
       THEN UNCHANGED locals
       ELSE /\ pc' = [pc EXCEPT ![t] = "removePtrCas"]
            /\ key' = [key EXCEPT ![t] = k]
            /\ seen' = [seen EXCEPT ![t] = table[ptr[k]]]
            /\ UNCHANGED <<try, missed>>
  /\ UNCHANGED <<table, value, mCurrentEntries, ptr>>

RemovePtrCas(t) ==
  /\ pc[t] = "removePtrCas"
  /\ IF table[ptr[key[t]]] = seen[t]
       THEN /\ table' = [table EXCEPT ![ptr[key[t]]] = Removed]
            /\ TakenOut(t, seen[t])
       ELSE /\ Return(t)
            /\ UNCHANGED table
  /\ ptr' = [ptr EXCEPT ![key[t]] = -1]
  /\ UNCHANGED <<value, mCurrentEntries>>

\* Both return true.
RemoveCount(t) ==
  /\ pc[t] = "removeCount"
  /\ mCurrentEntries' = mCurrentEntries - 1
  /\ Return(t)
  /\ UNCHANGED <<table, value, ptr>>

------------------------------------------------------------------------------
(* GetValue and Clear                                                        *)

GetCall(t, k) ==
  /\ Begin(t, k, "getRead")
  /\ UNCHANGED <<table, value, mCurrentEntries, ptr>>

\* Returns the value's slot, or NULL.
GetRead(t) ==
  /\ pc[t] = "getRead"
  /\ IF table[Probe(t)] \in {key[t], Empty} THEN Return(t)
                                            ELSE NextTry(t, "getRead")
  /\ UNCHANGED <<table, value, mCurrentEntries, ptr>>

\* Not while anybody is in a call.
Clear ==
  /\ \A t \in Threads : pc[t] = "idle"
  /\ mCurrentEntries' = 0
  /\ table' = [s \in Slots |-> Empty]
  /\ ptr' = [k \in Keys |-> -1]
  /\ UNCHANGED <<value, locals>>

------------------------------------------------------------------------------
Call(t) ==
  \E k \in Keys : \/ InsertCall(t, k)
                  \/ k \notin PtrKeys /\ RemoveCall(t, k)
                  \/ k \in PtrKeys /\ RemovePtrRead(t, k)
                  \/ GetCall(t, k)

Step(t) ==
  \/ InsertRead(t) \/ InsertClaim(t) \/ InsertCopyBegin(t) \/ InsertCopyEnd(t)
  \/ InsertCount(t) \/ InsertPublish(t)
  \/ RemoveRead(t) \/ RemoveCas(t) \/ RemovePtrCas(t) \/ RemoveCount(t)
  \/ GetRead(t)

Next == (\E t \in Threads : Call(t) \/ Step(t)) \/ Clear

Spec == Init /\ [][Next]_vars

------------------------------------------------------------------------------
TypeOK ==
  /\ table \in [Slots -> Keys \cup {Empty, Removed, Placeholder}]
  /\ value \in [Slots -> Keys \cup {Torn}]
  /\ mCurrentEntries \in Int
  /\ pc \in [Threads -> {"idle", "insertRead", "insertClaim", "insertCopy",
                         "insertCopying", "insertCount", "insertPublish",
                         "removeRead", "removeCas", "removePtrCas",
                         "removeCount", "getRead"}]
  /\ key \in [Threads -> Keys \cup {NoKey}]
  /\ try \in [Threads -> 0 .. MaxTries - 1]
  /\ seen \in [Threads -> Keys \cup {Empty, Removed, Placeholder}]
  /\ ptr \in [Keys -> Slots \cup {-1}]
  /\ missed \in [Threads -> BOOLEAN]

(* A lookup that gives up tells the truth: GetValue returns NULL (192-196) and
   Remove returns false (134-140) only if the key was out of the table at some
   instant of the call, though keys may be moving between the slots it has
   probed and the slots it has still to probe.                               *)
MissesAreTrue ==
  \A t \in Threads :
    /\ pc[t] \in {"getRead", "removeRead"}
    /\ \/ table[Probe(t)] = Empty
       \/ table[Probe(t)] # key[t] /\ try[t] = MaxTries - 1
    => missed[t]

(* A key that can be seen has its value: no reader that finds key k
   (atomic_hash_table.cpp:212-214) is handed a value of another key or one that
   is half copied.                                                           *)
ValueWhole == \A s \in Slots : table[s] \in Keys => value[s] = table[s]

(* Once Remove has succeeded the key is gone, so that GetValue returns nullptr
   and a second Remove false (atomic_hash_table_test_atomic.cpp:153-156,
   hash_table_test.cpp:40-42): no copy of it is left further down its probe
   sequence.                                                                 *)
RemoveRemoves ==
  [][\A t \in Threads :
       pc[t] = "removeCas" /\ pc'[t] = "removeCount" =>
         \A s \in Slots : table'[s] # key[t]]_vars

(* A published entry stays in its slot until it is removed: the stores of
   another insertion (109) and the tombstone of another removal (130, 163)
   never hit it.                                                             *)
EntriesStay ==
  [][\A s \in Slots : table[s] \in Keys /\ table'[s] # table[s] =>
       \/ \E t \in Threads :
            /\ pc[t] \in {"removeCas", "removePtrCas"}
            /\ key[t] = table[s] /\ pc'[t] = "removeCount"
       \/ Clear]_vars

(* The entry count is right whenever the calls that change it are over, and
   never less than the entries that can be seen (GetCurrentSize).             *)
CountMatches ==
  mCurrentEntries =
    Cardinality({s \in Slots : table[s] \in Keys})
    + Cardinality({t \in Threads : pc[t] \in {"insertPublish", "removeCount"}})

==============================================================================
