----------------------------- MODULE HashTable -----------------------------
(***************************************************************************)
(* ycommon/containers/hash_table.cpp: open addressing over a bounded number   *)
(* of tries, with tombstones.  A key stands for its 64-bit hash and is a       *)
(* number that is neither Empty nor Removed.                                   *)
(***************************************************************************)
EXTENDS Integers, FiniteSets, FiniteSetsExt

CONSTANTS
  Keys, Data,
  NumEntries, MaxTries,   \* mNumEntries >= MAX_TRIES
  Empty, Removed

VARIABLES
  keyAt, dataAt,          \* the words and the values of mBuffer
  currentEntries,
  held                    \* what callers know: the slot and value of each key

tableVars == <<keyAt, dataAt, currentEntries, held>>

Slots == 0 .. NumEntries - 1
Absent == -1

Cleared ==
  /\ keyAt' = [s \in Slots |-> Empty] /\ currentEntries' = 0
  /\ held' = [k \in {} |-> {}]

Init ==
  /\ keyAt = [s \in Slots |-> Empty] /\ currentEntries = 0
  /\ held = [k \in {} |-> {}]
  /\ \E d \in Data : dataAt = [s \in Slots |-> d]   \* whatever the memory held

\* The first slot of k's probe sequence whose word is k or one of words.
FirstTry(k, words) ==
  LET slot(i) == (k + i) % NumEntries
      hits == {i \in 0 .. MaxTries - 1 : keyAt[slot(i)] \in words \cup {k}}
  IN IF hits = {} THEN Absent ELSE slot(Min(hits))

GetValue(k) ==
  LET s == FirstTry(k, {Empty})
  IN IF s = Absent \/ keyAt[s] = Empty THEN Absent ELSE s

\* Callers insert a key that is not in the table; a failure after MaxTries is
\* fatal.  The first slot with a tombstone is taken.
Insert(k, d) ==
  LET s == FirstTry(k, {Empty, Removed})
  IN
  /\ k \notin DOMAIN held /\ s # Absent
  /\ keyAt' = [keyAt EXCEPT ![s] = k]
  /\ dataAt' = [dataAt EXCEPT ![s] = d]
  /\ currentEntries' = currentEntries + 1
  /\ held' = [x \in (DOMAIN held) \cup {k} |->
                IF x = k THEN [slot |-> s, data |-> d] ELSE held[x]]

\* Mutant: a removal leaves an empty word instead of a tombstone.
BuryEmpty(s) ==
  /\ keyAt' = [keyAt EXCEPT ![s] = Empty]
  /\ currentEntries' = currentEntries - 1
  /\ held' = [x \in (DOMAIN held) \ {keyAt[s]} |-> held[x]]
  /\ UNCHANGED dataAt

Bury(s) ==
  /\ keyAt' = [keyAt EXCEPT ![s] = Removed]
  /\ currentEntries' = currentEntries - 1
  /\ held' = [x \in (DOMAIN held) \ {keyAt[s]} |-> held[x]]
  /\ UNCHANGED dataAt

Remove(k) == GetValue(k) # Absent /\ Bury(GetValue(k))

\* Removal by a pointer to the value, which may be to a slot without a key.
RemoveValue(s) == keyAt[s] \notin {Empty, Removed} /\ Bury(s)

Clear == Cleared /\ UNCHANGED dataAt

Next ==
  \/ \E k \in Keys : (\E d \in Data : Insert(k, d)) \/ Remove(k)
  \/ \E s \in Slots : RemoveValue(s)
  \/ Clear

HashTypeOK ==
  /\ keyAt \in [Slots -> Keys \cup {Empty, Removed}]
  /\ dataAt \in [Slots -> Data]
  /\ currentEntries \in 0 .. NumEntries

\* The table is a map: a lookup finds exactly the keys that were inserted and
\* not removed since, at the slot whose address the insertion returned and with
\* the value it stored there, and GetCurrentSize counts them.
HashTableIsMap ==
  /\ \A k \in Keys :
       IF k \in DOMAIN held
       THEN GetValue(k) = held[k].slot /\ dataAt[held[k].slot] = held[k].data
       ELSE GetValue(k) = Absent
  /\ currentEntries = Cardinality(DOMAIN held)

==============================================================================
