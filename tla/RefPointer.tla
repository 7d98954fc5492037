----------------------------- MODULE RefPointer -----------------------------
(***************************************************************************)
(* ycommon/containers/ref_pointer.h: a pointer with counts of the handles that *)
(* read, write, or do both, and the handles.  The assertions are guards:        *)
(* clients ask for a handle only when the counts allow it and move a pointer    *)
(* that has none.                                                               *)
(*                                                                            *)
(* The move constructors of handles, which pass a named rvalue to the copy     *)
(* constructor of the base and leave the source as it was, are not modelled:   *)
(* the compiler elides them where a handle is returned, their only use.        *)
(***************************************************************************)
EXTENDS Integers, FiniteSets

CONSTANTS
  Pointers, Objects, Null,
  ReadHandles, WriteHandles, ReadWriteHandles, \* variables of the three classes
  CountMod                                     \* of a uint8_t count

VARIABLES
  target,        \* mPointer of each RefPointer
  refs,          \* mReadRefs, mWriteRefs, mReadWriteRefs of each
  handle         \* [to: mRefPointer, at: mPointer] of each handle

refVars == <<target, refs, handle>>

Handles == ReadHandles \cup WriteHandles \cup ReadWriteHandles
Kinds == {"read", "write", "readWrite"}
HandleKind(h) == IF h \in ReadHandles THEN "read"
                 ELSE IF h \in WriteHandles THEN "write" ELSE "readWrite"

Closed == [to |-> Null, at |-> Null]

Init ==
  /\ target \in [Pointers -> Objects \cup {Null}]
  /\ refs = [p \in Pointers |-> [k \in Kinds |-> 0]]
  /\ handle = [h \in Handles |-> Closed]

\* The counts that must be 0 for another handle of a kind.
Excludes(k) == IF k = "readWrite" THEN Kinds ELSE Kinds \ {k}
Inc(rs, p, k) ==
  IF p = Null THEN rs ELSE [rs EXCEPT ![p][k] = (@ + 1) % CountMod]
Dec(rs, p, k) ==
  IF p = Null THEN rs ELSE [rs EXCEPT ![p][k] = (@ - 1) % CountMod]

\* GetReadRef, GetWriteRef and GetReadWriteRef, to a handle that is closed.
GetRef(p, h) ==
  /\ handle[h] = Closed
  /\ \A k \in Excludes(HandleKind(h)) : refs[p][k] = 0
  /\ refs' = Inc(refs, p, HandleKind(h))
  /\ handle' = [handle EXCEPT ![h] = [to |-> p, at |-> target[p]]]
  /\ UNCHANGED target

\* A handle's Reset, also its destruction.
ResetHandle(h) ==
  /\ handle[h].to # Null => refs[handle[h].to][HandleKind(h)] # 0
  /\ refs' = Dec(refs, handle[h].to, HandleKind(h))
  /\ handle' = [handle EXCEPT ![h] = Closed]
  /\ UNCHANGED target

\* Mutant: an assignment does not give up what the handle held.
ReleasedNot(h) == refs

\* What an assignment to h leaves of the counts before it counts h again.
Released(h) == Dec(refs, handle[h].to, HandleKind(h))

\* Assignment of a read or a write handle, and copy construction, to one that is
\* closed.  Assigned to itself a handle is only reset.
Copy(h, other) ==
  LET source == IF h = other THEN Closed ELSE handle[other]
  IN
  /\ HandleKind(h) = HandleKind(other) /\ HandleKind(h) # "readWrite"
  /\ source.to # Null => \A k \in Excludes(HandleKind(h)) : Released(h)[source.to][k] = 0
  /\ refs' = Inc(Released(h), source.to, HandleKind(h))
  /\ handle' = [handle EXCEPT ![h] = source]
  /\ UNCHANGED target

\* Assignment and copy construction of a handle that reads and writes moves it.
Move(h, other) ==
  /\ {h, other} \subseteq ReadWriteHandles
  /\ refs' = Released(h)
  /\ handle' = [handle EXCEPT ![h] = IF h = other THEN Closed ELSE handle[other],
                              ![other] = Closed]
  /\ UNCHANGED target

Unreferenced(p) == \A k \in Kinds : refs[p][k] = 0

\* Set, Reset, and assignment of a plain pointer.
SetPointer(p, o) ==
  /\ Unreferenced(p)
  /\ target' = [target EXCEPT ![p] = o]
  /\ UNCHANGED <<refs, handle>>

MovePointer(p, other) ==
  /\ Unreferenced(p) /\ Unreferenced(other)
  /\ target' = [target EXCEPT ![p] = IF p = other THEN Null ELSE target[other],
                              ![other] = Null]
  /\ UNCHANGED <<refs, handle>>

Next ==
  \/ \E p \in Pointers, h \in Handles : GetRef(p, h)
  \/ \E h \in Handles : ResetHandle(h)
  \/ \E h, other \in Handles : Copy(h, other) \/ Move(h, other)
  \/ \E p \in Pointers, o \in Objects \cup {Null} : SetPointer(p, o)
  \/ \E p, other \in Pointers : MovePointer(p, other)

RefTypeOK ==
  /\ target \in [Pointers -> Objects \cup {Null}]
  /\ refs \in [Pointers -> [Kinds -> 0 .. CountMod - 1]]
  /\ handle \in [Handles -> [to : Pointers \cup {Null}, at : Objects \cup {Null}]]

Open(p, k) == {h \in Handles : handle[h].to = p /\ HandleKind(h) = k}

\* However handles are copied, moved and reset, the counts are those of the live
\* handles, a pointer has no two kinds of handle at once and at most one that
\* reads and writes, and no handle is out of date.
RefCountsMatch ==
  /\ \A p \in Pointers, k \in Kinds : refs[p][k] = Cardinality(Open(p, k))
  /\ \A p \in Pointers, k \in Kinds : Open(p, k) # {} =>
       \A j \in Kinds \ {k} : Open(p, j) = {}
  /\ \A p \in Pointers : Cardinality(Open(p, "readWrite")) <= 1
  /\ \A h \in Handles :
       handle[h].at = IF handle[h].to = Null THEN Null ELSE target[handle[h].to]

==============================================================================
