------------------------ MODULE FrameResourcesProofs ------------------------
(* Proofs about the device (RenderDevice) and the resources that the renderer    *)
(* binds to it (FrameResources), for every size of the tables, every number of   *)
(* resources and every set of points. First the device on its own: its ids, its  *)
(* slots and what each call keeps; then the resources, the caches and the filter *)
(* of the activations, whose invariant rests on the device's.                    *)

EXTENDS FrameResources, FiniteSetTheorems, TLAPS

------------------------------------------------------------------------------
(* Ids                                                                       *)

\* Of the ids below n, at most N, those in use are U and the free ones the stack F.
Ids(U, F, n, N) ==
  /\ n \in 0 .. N
  /\ F \in Seq(Int) /\ \A i, j \in DOMAIN F : F[i] = F[j] => i = j
  /\ U \cap ToSet(F) = {} /\ U \cup ToSet(F) = 0 .. n - 1

\* A new id is below the bound and not in use, and the stack stays the rest.
LEMMA IdsNew ==
  ASSUME NEW U, NEW F, NEW n, NEW N \in Nat, Ids(U, F, n, N), NEW id,
         id = IF F # <<>> THEN Head(F) ELSE IF n < N THEN n ELSE NoID, id # NoID
  PROVE  /\ id \in 0 .. N - 1 /\ id \notin U
         /\ Ids(U \cup {id}, IF F = <<>> THEN F ELSE Tail(F), IF id = n THEN n + 1 ELSE n, N)
<1>0. /\ n \in Nat /\ n <= N /\ F \in Seq(Int) /\ \A i, j \in DOMAIN F : F[i] = F[j] => i = j
      /\ U \cap ToSet(F) = {} /\ U \cup ToSet(F) = 0 .. n - 1
  BY DEF Ids
<1>1. CASE F = <<>>
  <2>1. ToSet(F) = {} /\ U = 0 .. n - 1
    <3>1. DOMAIN F = {}
      BY <1>1
    <3>2. ToSet(F) = {}
      BY <3>1 DEF ToSet
    <3> QED
      BY <1>0, <3>2
  <2>2. id = n /\ n < N
    BY <1>1 DEF NoID
  <2>3. U \cup {id} = 0 .. (n + 1) - 1
    BY <1>0, <2>1, <2>2
  <2> QED
    BY <1>0, <1>1, <2>1, <2>2, <2>3 DEF Ids
<1>2. CASE F # <<>>
  <2>1. /\ id = F[1] /\ 1 \in DOMAIN F /\ Tail(F) \in Seq(Int)
        /\ DOMAIN F = 1 .. Len(F) /\ Len(F) \in Nat \ {0}
        /\ DOMAIN Tail(F) = 1 .. Len(F) - 1
        /\ \A i \in 1 .. Len(F) - 1 : Tail(F)[i] = F[i + 1]
    BY <1>0, <1>2
  <2>2. id \in ToSet(F) /\ id \in 0 .. n - 1 /\ id \notin U /\ id # n
    <3>1. id \in ToSet(F)
      BY <2>1 DEF ToSet
    <3> QED
      BY <1>0, <3>1
  <2>3. ToSet(Tail(F)) = ToSet(F) \ {id}
    <3>1. ASSUME NEW x \in ToSet(Tail(F)) PROVE x \in ToSet(F) \ {id}
      <4>1. PICK i \in 1 .. Len(F) - 1 : x = F[i + 1]
        BY <2>1 DEF ToSet
      <4>2. i + 1 \in DOMAIN F /\ i + 1 # 1
        BY <2>1
      <4> QED
        BY <1>0, <2>1, <4>1, <4>2 DEF ToSet
    <3>2. ASSUME NEW x \in ToSet(F) \ {id} PROVE x \in ToSet(Tail(F))
      <4>1. PICK i \in DOMAIN F : x = F[i]
        BY DEF ToSet
      <4>2. i - 1 \in 1 .. Len(F) - 1 /\ (i - 1) + 1 = i
        BY <2>1, <4>1
      <4>3. Tail(F)[i - 1] = x
        BY <2>1, <4>1, <4>2
      <4> QED
        BY <2>1, <4>2, <4>3 DEF ToSet
    <3> QED
      BY <3>1, <3>2
  <2>4. \A i, j \in DOMAIN Tail(F) : Tail(F)[i] = Tail(F)[j] => i = j
    <3> SUFFICES ASSUME NEW i \in DOMAIN Tail(F), NEW j \in DOMAIN Tail(F), Tail(F)[i] = Tail(F)[j]
                 PROVE  i = j
      OBVIOUS
    <3>1. i \in Nat /\ j \in Nat /\ i + 1 \in DOMAIN F /\ j + 1 \in DOMAIN F
      BY <2>1, SMTT(40)
    <3>2. F[i + 1] = F[j + 1]
      BY <2>1
    <3>3. i + 1 = j + 1
      BY <1>0, <3>1, <3>2
    <3> QED
      BY <3>1, <3>3
  <2>5. (U \cup {id}) \cap ToSet(Tail(F)) = {} /\ (U \cup {id}) \cup ToSet(Tail(F)) = 0 .. n - 1
    BY <1>0, <2>2, <2>3
  <2>6. id \in 0 .. N - 1
    BY <1>0, <2>2
  <2>7. Ids(U \cup {id}, Tail(F), n, N)
    BY <1>0, <2>1, <2>4, <2>5 DEF Ids
  <2> QED
    BY <1>2, <2>2, <2>6, <2>7
<1> QED
  BY <1>1, <1>2

\* A released id goes to the stack.
LEMMA IdsReleased ==
  ASSUME NEW U, NEW F, NEW n, NEW N \in Nat, Ids(U, F, n, N), NEW id \in U
  PROVE  Ids(U \ {id}, <<id>> \o F, n, N) /\ id \in 0 .. N - 1
<1>0. /\ n \in Nat /\ n <= N /\ F \in Seq(Int) /\ \A i, j \in DOMAIN F : F[i] = F[j] => i = j
      /\ U \cap ToSet(F) = {} /\ U \cup ToSet(F) = 0 .. n - 1
  BY DEF Ids
<1> DEFINE G == <<id>> \o F
<1>1. id \in 0 .. n - 1 /\ id \in Int /\ id \notin ToSet(F)
  BY <1>0
<1>2. <<id>> \in Seq(Int) /\ Len(<<id>>) = 1
  BY <1>1
<1>3. /\ G \in Seq(Int) /\ DOMAIN G = 1 .. Len(F) + 1 /\ Len(F) \in Nat /\ DOMAIN F = 1 .. Len(F)
      /\ G[1] = id /\ \A i \in 1 .. Len(F) : G[i + 1] = F[i]
  BY <1>0, <1>1, <1>2
<1> HIDE DEF G
<1>4. ToSet(G) = ToSet(F) \cup {id}
  <2>1. ASSUME NEW x \in ToSet(G) PROVE x \in ToSet(F) \cup {id}
    <3>1. PICK i \in 1 .. Len(F) + 1 : x = G[i]
      BY <1>3 DEF ToSet
    <3>2. CASE i = 1
      BY <1>3, <3>1, <3>2
    <3>3. CASE i # 1
      <4>1. i - 1 \in 1 .. Len(F) /\ (i - 1) + 1 = i
        BY <1>3, <3>1, <3>3
      <4>2. x = F[i - 1]
        BY <1>3, <3>1, <4>1
      <4> QED
        BY <1>3, <4>1, <4>2 DEF ToSet
    <3> QED
      BY <3>2, <3>3
  <2>2. ASSUME NEW x \in ToSet(F) PROVE x \in ToSet(G)
    <3>1. PICK i \in 1 .. Len(F) : x = F[i]
      BY <1>3 DEF ToSet
    <3>2. i + 1 \in DOMAIN G /\ G[i + 1] = x
      BY <1>3, <3>1
    <3> QED
      BY <3>2 DEF ToSet
  <2>3. id \in ToSet(G)
    <3>1. 1 \in DOMAIN G
      BY <1>3
    <3> QED
      BY <1>3, <3>1 DEF ToSet
  <2> QED
    BY <2>1, <2>2, <2>3
<1>5. \A i, j \in DOMAIN G : G[i] = G[j] => i = j
  <2> SUFFICES ASSUME NEW i \in DOMAIN G, NEW j \in DOMAIN G, G[i] = G[j] PROVE i = j
    OBVIOUS
  <2>1. ASSUME NEW m \in DOMAIN G, m # 1
        PROVE  m - 1 \in DOMAIN F /\ m \in Nat /\ G[m] = F[m - 1] /\ G[m] # id
    <3>1. m - 1 \in 1 .. Len(F) /\ (m - 1) + 1 = m
      BY <1>3, <2>1
    <3>2. G[m] = F[m - 1]
      BY <1>3, <3>1
    <3> QED
      BY <1>1, <1>3, <3>1, <3>2 DEF ToSet
  <2>2. CASE i = 1 \/ j = 1
    BY <1>3, <2>1, <2>2
  <2>3. CASE i # 1 /\ j # 1
    <3>1. F[i - 1] = F[j - 1] /\ i - 1 \in DOMAIN F /\ j - 1 \in DOMAIN F /\ i \in Nat /\ j \in Nat
      BY <2>1, <2>3
    <3>2. i - 1 = j - 1
      BY <1>0, <3>1
    <3> QED
      BY <3>1, <3>2
  <2> QED
    BY <2>2, <2>3
<1>6. (U \ {id}) \cap ToSet(G) = {} /\ (U \ {id}) \cup ToSet(G) = 0 .. n - 1
  BY <1>0, <1>1, <1>4
<1>7. Ids(U \ {id}, G, n, N)
  BY <1>0, <1>3, <1>5, <1>6 DEF Ids
<1> QED
  BY <1>0, <1>1, <1>7 DEF G

\* The ids in use and the free ones are as many as were ever given.
LEMMA IdsCount ==
  ASSUME NEW U, NEW F, NEW n, NEW N \in Nat, Ids(U, F, n, N)
  PROVE  IsFiniteSet(U) /\ Cardinality(U) \in Nat /\ Cardinality(U) + Len(F) = n
<1>0. /\ n \in Nat /\ n <= N /\ F \in Seq(Int) /\ \A i, j \in DOMAIN F : F[i] = F[j] => i = j
      /\ U \cap ToSet(F) = {} /\ U \cup ToSet(F) = 0 .. n - 1
  BY DEF Ids
<1>1. IsFiniteSet(0 .. n - 1) /\ Cardinality(0 .. n - 1) = n
  <2>1. IsFiniteSet(0 .. n - 1) /\ Cardinality(0 .. n - 1) = IF 0 > n - 1 THEN 0 ELSE (n - 1) - 0 + 1
    BY <1>0, FS_Interval
  <2> QED
    BY <1>0, <2>1
<1>2. IsFiniteSet(U) /\ IsFiniteSet(ToSet(F))
  <2>1. U \subseteq 0 .. n - 1 /\ ToSet(F) \subseteq 0 .. n - 1
    BY <1>0
  <2> QED
    BY <1>1, <2>1, FS_Subset
<1>3. Cardinality(U) \in Nat /\ Cardinality(ToSet(F)) \in Nat
  BY <1>2, FS_CardinalityType
<1>4. Cardinality(ToSet(F)) = Len(F)
  <2>1. Len(F) \in Nat /\ DOMAIN F = 1 .. Len(F)
    BY <1>0
  <2>2. IsFiniteSet(1 .. Len(F)) /\ Cardinality(1 .. Len(F)) = Len(F)
    <3>1. ASSUME NEW m \in Nat PROVE IsFiniteSet(1 .. m) /\ Cardinality(1 .. m) = m
      <4>1. IsFiniteSet(1 .. m) /\ Cardinality(1 .. m) = IF 1 > m THEN 0 ELSE m - 1 + 1
        BY FS_Interval
      <4> QED
        BY <4>1
    <3> QED
      BY <2>1, <3>1
  <2>3. F \in Bijection(1 .. Len(F), ToSet(F))
    <3>1. F \in [1 .. Len(F) -> ToSet(F)]
      <4>1. F = [i \in 1 .. Len(F) |-> F[i]]
        BY <1>0, <2>1
      <4>2. \A i \in 1 .. Len(F) : F[i] \in ToSet(F)
        BY <2>1 DEF ToSet
      <4>3. [i \in 1 .. Len(F) |-> F[i]] \in [1 .. Len(F) -> ToSet(F)]
        BY <4>2
      <4> QED
        BY <4>1, <4>3, Zenon
    <3>2. F \in Injection(1 .. Len(F), ToSet(F))
      BY <1>0, <2>1, <3>1 DEF Injection, IsInjective
    <3>3. F \in Surjection(1 .. Len(F), ToSet(F))
      BY <2>1, <3>1 DEF Surjection, ToSet
    <3> QED
      BY <3>2, <3>3 DEF Bijection
  <2>4. ExistsBijection(1 .. Len(F), ToSet(F))
    BY <2>3 DEF ExistsBijection
  <2> QED
    BY <2>2, <2>4, FS_Bijection
<1>5. Cardinality(U \cup ToSet(F)) = Cardinality(U) + Cardinality(ToSet(F)) - Cardinality(U \cap ToSet(F))
  BY <1>2, FS_Union, Zenon
<1>6. Cardinality(U \cap ToSet(F)) = 0
  BY <1>0, FS_EmptySet
<1>7. Len(F) \in Nat
  BY <1>0
<1>8. Cardinality(U) + Len(F) = n
  <2> DEFINE u == Cardinality(U)
             f == Len(F)
  <2>1. u \in Nat /\ f \in Nat /\ n = u + f - 0
    BY <1>0, <1>1, <1>3, <1>4, <1>5, <1>6, <1>7, Zenon
  <2> HIDE DEF u, f
  <2>2. u + f = n
    BY <2>1
  <2> QED
    BY <2>2 DEF u, f
<1> QED
  BY <1>2, <1>3, <1>8

------------------------------------------------------------------------------
(* The invariant of the device                                               *)

IsSlot(s) ==
  /\ DOMAIN s = {"object", "usage", "data", "texture", "count"}
  /\ s.object \in BOOLEAN /\ s.count \in 0 .. Total

\* What a device is made of.
ShapeInv(d) ==
  /\ DOMAIN d = {"up", "used", "free", "top", "alive", "at", "bound", "freq", "memory",
                 "points", "stream", "drawn"}
  /\ d.up \in BOOLEAN /\ DOMAIN d.bound = AllPoints /\ d.freq = [s \in Streams |-> d.freq[s]]
  /\ DOMAIN d.used = Kinds /\ DOMAIN d.free = Kinds /\ DOMAIN d.top = Kinds
  /\ DOMAIN d.alive = Kinds /\ DOMAIN d.at = Kinds
  /\ \A k \in Kinds : /\ DOMAIN d.at[k] = 0 .. Size[k] - 1
                      /\ \A i \in 0 .. Size[k] - 1 : IsSlot(d.at[k][i])
  /\ d.memory \in 0 .. MemorySize /\ d.drawn \in 0 .. Total
  /\ d.points \in DrawPoints \cup {0}

\* The slots that have an object: those in use, but of the tables that Terminate
\* released none.
Owned(d, k) ==
  IF k \in DeviceObjects /\ (d.up \/ k \notin Reinitialized) THEN d.used[k] ELSE {}

TableInv(d) ==
  \A k \in Kinds :
    /\ Ids(d.used[k], d.free[k], d.top[k], Size[k])
    /\ \A i \in 0 .. Size[k] - 1 : d.at[k][i].object <=> i \in Owned(d, k)
    /\ d.alive[k] = Cardinality(Owned(d, k))

\* A bound declaration is in use, and its streams have its divisors.
DeclInv(d) ==
  /\ \A i \in d.used["decl"] : DOMAIN d.at["decl"][i].data \subseteq Streams
  /\ \A p \in Points["decl"] :
       \/ d.bound[p] \in {NoID, Gone}
       \/ /\ d.bound[p] \in d.used["decl"]
          /\ \A s \in DOMAIN d.at["decl"][d.bound[p]].data :
               d.freq[s] = d.at["decl"][d.bound[p]].data[s]

BaseInv(d) == ShapeInv(d) /\ TableInv(d) /\ DeclInv(d)

\* The first surface is the back buffer's; the others and the system's textures are
\* targets, with one id for both.
TargetInv(d) ==
  /\ 0 \in d.used["surface"] /\ d.at["surface"][0].texture = NoID
  /\ \A s \in d.used["surface"] \ {0} :
       /\ d.at["surface"][s].texture = s
       /\ s \in d.used["texture"] /\ d.at["texture"][s].usage = "System"
  /\ \A t \in d.used["texture"] :
       d.at["texture"][t].usage = "System" => t \in d.used["surface"] \ {0}

DeviceInv(d) == BaseInv(d) /\ (d.up => TargetInv(d))

------------------------------------------------------------------------------
(* The invariant of the resources                                            *)

Targets == {"viewport", "surface"}        \* kinds whose resources are made when used
Single == {"decl", "blend", "vs", "ps"}   \* and that have one id

\* An id that a resource may have and may release.
MayOwn(d, k, id) ==
  /\ id \in d.used[k]
  /\ k = "surface" => id # 0
  /\ k = "texture" => d.at["texture"][id].usage # "System"

\* The data that a slot has of a resource's.
DataFor(k, x) == CASE k = "texture" -> Levels(x)
                   [] k = "decl" -> Divisors(x)
                   [] OTHER -> x

IsResource(r, s) ==
  /\ DOMAIN s = {"ids", "active", "sampler", "dirty", "usage", "data"}
  /\ DOMAIN s.ids = Two /\ s.active \in Two /\ s.dirty \in BOOLEAN
  /\ Kind[r] \in Single => s.active = 0 /\ s.ids[1] = NoID
  /\ Kind[r] = "decl" => s.data \in Declarations

\* Is the active id good for the resource's data?
UpToDate(r, s) == Kind[r] \in Targets => ~s.dirty

\* The slots of a resource's ids are its own, the active one has what it was given
\* last, and so does its sampler's.
HasIds(d, r, s) ==
  /\ \A i \in Two : s.ids[i] # NoID => MayOwn(d, Kind[r], s.ids[i])
  /\ Kind[r] \in Targets /\ ~s.dirty => s.ids[s.active] # NoID
  /\ s.ids[s.active] # NoID /\ UpToDate(r, s) =>
       d.at[Kind[r]][s.ids[s.active]].data = DataFor(Kind[r], s.data)
  /\ Kind[r] = "texture" /\ s.sampler # NoID =>
       /\ s.sampler \in d.used["sampler"]
       /\ d.at["sampler"][s.sampler].data = SamplerHash[r]

\* No id has two owners; blend states are shared.
Apart(rs) ==
  \A q, r \in resources : \A i, j \in Two :
    /\ Kind[q] = Kind[r] /\ Kind[r] # "blend"
    /\ rs[q].ids[i] = rs[r].ids[j] /\ rs[r].ids[j] # NoID
    => q = r /\ i = j

ResInv(d, rs) ==
  /\ DOMAIN rs = resources /\ Apart(rs)
  /\ \A r \in resources : IsResource(r, rs[r]) /\ HasIds(d, r, rs[r])

\* The cache has the ids of the states it names, and those of the blend resources.
CacheInv(d, rs, c) ==
  /\ DOMAIN c = {"blend", "sampler"}
  /\ \A k \in {"blend", "sampler"} : \A h \in DOMAIN c[k] :
       c[k][h] # NoID => c[k][h] \in d.used[k] /\ d.at[k][c[k][h]].data = h
  /\ \A r \in resources : Kind[r] = "blend" /\ rs[r].ids[0] # NoID =>
       rs[r].data \in DOMAIN c["blend"] /\ c["blend"][rs[r].data] = rs[r].ids[0]

\* What the filter remembers is what is bound.
BoundInv(d, f) ==
  /\ DOMAIN f = AllPoints
  /\ \A k \in Kinds : \A p \in Points[k] : f[p] # NoID =>
       /\ f[p] \in d.used[k]
       /\ d.bound[p] = IF k \in Copied THEN d.at[k][f[p]].data ELSE f[p]

\* The filter remembers the resources activated last, which have not changed since.
UserInv(rs, f, u) ==
  /\ DOMAIN u = AllPoints
  /\ \A p \in Points["sampler"] : u[p] = Unused
  /\ \A k \in Kinds \ {"sampler"} : \A p \in Points[k] :
       \/ u[p] = Unused /\ f[p] = NoID
       \/ /\ u[p] \in resources /\ Kind[u[p]] = k /\ UpToDate(u[p], rs[u[p]])
          /\ f[p] # NoID /\ f[p] = rs[u[p]].ids[rs[u[p]].active]
          /\ k = "texture" => /\ rs[u[p]].sampler # NoID
                              /\ f[SamplerOf[p]] = rs[u[p]].sampler

FrameInv ==
  /\ DeviceInv(dev) /\ dev.up /\ resources \subseteq DOMAIN Kind
  /\ ResInv(dev, res) /\ CacheInv(dev, res, cache)
  /\ BoundInv(dev, filter) /\ UserInv(res, filter, user)
  /\ inFrame \in BOOLEAN /\ (~inFrame => filter = Unfiltered /\ user = Unbound)

------------------------------------------------------------------------------
(* What the calls do to the tables                                           *)

\* The tables of the kinds that satisfy it are alike in d and e.
SameTables(d, e, ks) ==
  \A k \in ks : /\ e.used[k] = d.used[k] /\ e.free[k] = d.free[k] /\ e.top[k] = d.top[k]
                /\ e.alive[k] = d.alive[k] /\ e.at[k] = d.at[k]

SameShape(d, e) ==
  /\ DOMAIN e = DOMAIN d /\ e.up = d.up
  /\ DOMAIN e.used = Kinds /\ DOMAIN e.free = Kinds /\ DOMAIN e.top = Kinds
  /\ DOMAIN e.alive = Kinds /\ DOMAIN e.at = Kinds
  /\ e.memory = d.memory /\ e.points = d.points /\ e.drawn = d.drawn
  /\ e.freq = d.freq

\* e is d with s in a new slot.
IsPut(d, e, k, id, s) ==
  /\ SameShape(d, e) /\ SameTables(d, e, Kinds \ {k}) /\ e.bound = d.bound
  /\ e.used[k] = d.used[k] \cup {id}
  /\ e.free[k] = IF d.free[k] = <<>> THEN d.free[k] ELSE Tail(d.free[k])
  /\ e.top[k] = IF id = d.top[k] THEN d.top[k] + 1 ELSE d.top[k]
  /\ e.at[k] = [d.at[k] EXCEPT ![id] = s]
  /\ e.alive[k] = IF s.object THEN d.alive[k] + 1 ELSE d.alive[k]

\* What NewID gives is in no use and leaves ids and stack in order.
LEMMA NewIDs ==
  ASSUME DeviceAssumption, NEW d, TableInv(d), NEW k \in Kinds, NewID(d, k) # NoID
  PROVE  /\ Size[k] \in Nat /\ NewID(d, k) \in 0 .. Size[k] - 1
         /\ NewID(d, k) \notin d.used[k]
         /\ Ids(d.used[k] \cup {NewID(d, k)},
                IF d.free[k] = <<>> THEN d.free[k] ELSE Tail(d.free[k]),
                IF NewID(d, k) = d.top[k] THEN d.top[k] + 1 ELSE d.top[k], Size[k])
<1> DEFINE U == d.used[k]
           F == d.free[k]
           n == d.top[k]
           N == Size[k]
           id == NewID(d, k)
<1>1. Ids(U, F, n, N) /\ N \in Nat
  BY DEF TableInv, DeviceAssumption
<1>2. id = IF F # <<>> THEN Head(F) ELSE IF n < N THEN n ELSE NoID
  BY DEF NewID
<1>3. id # NoID
  OBVIOUS
<1> HIDE DEF U, F, n, N, id
<1>4. /\ id \in 0 .. N - 1 /\ id \notin U
      /\ Ids(U \cup {id}, IF F = <<>> THEN F ELSE Tail(F), IF id = n THEN n + 1 ELSE n, N)
  BY <1>1, <1>2, <1>3, IdsNew
<1> QED
  BY <1>1, <1>4 DEF U, F, n, N, id

\* Put does what IsPut says.
LEMMA Puts ==
  ASSUME NEW d, ShapeInv(d), NEW k \in Kinds, NEW s
  PROVE  IsPut(d, Put(d, k, s), k, NewID(d, k), s)
<1> DEFINE id == NewID(d, k)
           e == Put(d, k, s)
<1> HIDE DEF id
<1>1. e = [d EXCEPT !.used[k] = @ \cup {id},
               !.free[k] = IF @ = <<>> THEN @ ELSE Tail(@),
               !.top[k] = IF id = @ THEN @ + 1 ELSE @,
               !.at[k][id] = s,
               !.alive[k] = IF s.object THEN @ + 1 ELSE @]
  BY DEF Put, id
<1> HIDE DEF e
<1>2. DOMAIN e = DOMAIN d
  BY <1>1
<1>3. /\ e.used = [d.used EXCEPT ![k] = @ \cup {id}]
      /\ e.free = [d.free EXCEPT ![k] = IF @ = <<>> THEN @ ELSE Tail(@)]
      /\ e.top = [d.top EXCEPT ![k] = IF id = @ THEN @ + 1 ELSE @]
      /\ e.at = [d.at EXCEPT ![k] = [@ EXCEPT ![id] = s]]
      /\ e.alive = [d.alive EXCEPT ![k] = IF s.object THEN @ + 1 ELSE @]
  BY <1>1 DEF ShapeInv
<1>4. /\ e.up = d.up /\ e.bound = d.bound /\ e.freq = d.freq /\ e.memory = d.memory
      /\ e.points = d.points /\ e.drawn = d.drawn
  BY <1>1 DEF ShapeInv
<1>5. SameShape(d, e)
  BY <1>2, <1>3, <1>4 DEF SameShape, ShapeInv
<1>6. SameTables(d, e, Kinds \ {k})
  BY <1>3 DEF SameTables, ShapeInv
<1> QED
  BY <1>3, <1>4, <1>5, <1>6 DEF IsPut, ShapeInv, id, e

\* A slot that a client may be given.
MayPut(k, s) ==
  /\ IsSlot(s) /\ (s.object <=> k \in DeviceObjects)
  /\ k = "decl" => DOMAIN s.data \subseteq Streams

\* A slot that a client is given keeps the tables in order.
LEMMA PutKeeps ==
  ASSUME DeviceAssumption, NEW d, BaseInv(d), d.up, NEW k \in Kinds, NEW s, MayPut(k, s),
         NEW id, id = NewID(d, k), id # NoID, NEW e, IsPut(d, e, k, id, s)
  PROVE  BaseInv(e)
<1>1. Size[k] \in Nat /\ id \in 0 .. Size[k] - 1 /\ id \notin d.used[k]
  BY NewIDs DEF BaseInv, DeviceAssumption
<1>2. ShapeInv(e)
  <2>1. \A j \in Kinds : DOMAIN e.at[j] = 0 .. Size[j] - 1
    <3>1. \A j \in Kinds : DOMAIN d.at[j] = 0 .. Size[j] - 1
      BY DEF BaseInv, ShapeInv
    <3>2. DOMAIN e.at[k] = DOMAIN d.at[k]
      BY DEF IsPut
    <3> QED
      BY <3>1, <3>2 DEF IsPut, SameTables
  <2>2. \A j \in Kinds : \A i \in 0 .. Size[j] - 1 : IsSlot(e.at[j][i])
    <3>1. \A j \in Kinds : \A i \in 0 .. Size[j] - 1 : IsSlot(d.at[j][i])
      BY DEF BaseInv, ShapeInv
    <3>2. \A i \in 0 .. Size[k] - 1 : e.at[k][i] = IF i = id THEN s ELSE d.at[k][i]
      BY ZenonT(60) DEF IsPut, BaseInv, ShapeInv
    <3>3. \A j \in Kinds \ {k} : e.at[j] = d.at[j]
      BY DEF IsPut, SameTables
    <3>4. IsSlot(s)
      BY DEF MayPut
    <3> QED
      BY <3>1, <3>2, <3>3, <3>4
  <2> QED
    BY <2>1, <2>2 DEF IsPut, SameShape, BaseInv, ShapeInv
<1>3. Ids(e.used[k], e.free[k], e.top[k], Size[k])
  <2>1. Ids(d.used[k] \cup {id}, IF d.free[k] = <<>> THEN d.free[k] ELSE Tail(d.free[k]),
            IF id = d.top[k] THEN d.top[k] + 1 ELSE d.top[k], Size[k])
    BY NewIDs DEF BaseInv
  <2> QED
    BY <2>1 DEF IsPut
<1>4. e.up
  BY DEF IsPut, SameShape
<1>5. /\ \A i \in 0 .. Size[k] - 1 : e.at[k][i].object <=> i \in Owned(e, k)
      /\ e.alive[k] = Cardinality(Owned(e, k))
  <2>1. IsFiniteSet(d.used[k])
    BY <1>1, IdsCount DEF BaseInv, TableInv
  <2>2. \A i \in 0 .. Size[k] - 1 : e.at[k][i] = IF i = id THEN s ELSE d.at[k][i]
    BY <1>1 DEF IsPut, BaseInv, ShapeInv
  <2>3. CASE k \in DeviceObjects
    <3>1. Owned(e, k) = Owned(d, k) \cup {id} /\ Owned(d, k) = d.used[k] /\ s.object
      BY <1>4, <2>3 DEF Owned, IsPut, MayPut
    <3>2. e.alive[k] = Cardinality(d.used[k]) + 1
      BY <3>1 DEF IsPut, BaseInv, TableInv
    <3>3. Cardinality(d.used[k] \cup {id}) = Cardinality(d.used[k]) + 1
      BY <1>1, <2>1, FS_AddElement
    <3> QED
      BY <1>1, <2>2, <3>1, <3>2, <3>3 DEF BaseInv, TableInv
  <2>4. CASE k \notin DeviceObjects
    <3>1. Owned(e, k) = {} /\ Owned(d, k) = {} /\ ~s.object
      BY <2>4 DEF Owned, MayPut
    <3>2. e.alive[k] = d.alive[k]
      BY <3>1 DEF IsPut
    <3> QED
      BY <2>2, <3>1, <3>2 DEF BaseInv, TableInv
  <2> QED
    BY <2>3, <2>4
<1>6. TableInv(e)
  <2>1. \A j \in Kinds \ {k} : Owned(e, j) = Owned(d, j)
    BY <1>4 DEF Owned, IsPut, SameTables
  <2>2. \A j \in Kinds \ {k} :
          /\ Ids(e.used[j], e.free[j], e.top[j], Size[j])
          /\ \A i \in 0 .. Size[j] - 1 : e.at[j][i].object <=> i \in Owned(e, j)
          /\ e.alive[j] = Cardinality(Owned(e, j))
    BY <2>1 DEF IsPut, SameTables, BaseInv, TableInv
  <2> QED
    BY <1>3, <1>5, <2>2 DEF TableInv
<1>7. DeclInv(e)
  <2>1. e.bound = d.bound /\ e.freq = d.freq
    BY DEF IsPut, SameShape
  <2>2. CASE k # "decl"
    <3>1. e.used["decl"] = d.used["decl"] /\ e.at["decl"] = d.at["decl"]
      BY <2>2 DEF IsPut, SameTables, Kinds, DeviceObjects
    <3> QED
      BY <2>1, <3>1 DEF DeclInv, BaseInv
  <2>3. CASE k = "decl"
    <3>1. e.used["decl"] = d.used["decl"] \cup {id} /\ e.at["decl"][id] = s
          /\ \A i \in d.used["decl"] : e.at["decl"][i] = d.at["decl"][i]
      <4>1. \A i \in d.used["decl"] : i \in 0 .. Size["decl"] - 1
        BY <2>3 DEF BaseInv, TableInv, Ids, DeviceAssumption
      <4>2. DOMAIN d.at["decl"] = 0 .. Size["decl"] - 1
        BY <2>3 DEF BaseInv, ShapeInv
      <4>3. /\ e.used["decl"] = d.used["decl"] \cup {id}
            /\ e.at["decl"] = [d.at["decl"] EXCEPT ![id] = s]
        BY <2>3 DEF IsPut
      <4> QED
        BY <1>1, <2>3, <4>1, <4>2, <4>3
    <3>2. ASSUME NEW i \in e.used["decl"] PROVE DOMAIN e.at["decl"][i].data \subseteq Streams
      <4>1. CASE i = id
        BY <2>3, <3>1, <4>1 DEF MayPut
      <4>2. CASE i # id
        BY <3>1, <4>2 DEF DeclInv, BaseInv
      <4> QED
        BY <4>1, <4>2
    <3>3. ASSUME NEW p \in Points["decl"], e.bound[p] \notin {NoID, Gone}
          PROVE  /\ e.bound[p] \in e.used["decl"]
                 /\ \A x \in DOMAIN e.at["decl"][e.bound[p]].data :
                      e.freq[x] = e.at["decl"][e.bound[p]].data[x]
      <4>1. /\ d.bound[p] \in d.used["decl"]
            /\ \A x \in DOMAIN d.at["decl"][d.bound[p]].data :
                 d.freq[x] = d.at["decl"][d.bound[p]].data[x]
        BY <2>1, <3>3 DEF DeclInv, BaseInv
      <4> QED
        BY <2>1, <3>1, <4>1
    <3> QED
      BY <3>2, <3>3 DEF DeclInv
  <2> QED
    BY <2>2, <2>3
<1> QED
  BY <1>2, <1>6, <1>7 DEF BaseInv

\* e is d without id.
IsRelease(d, e, k, id) ==
  /\ SameShape(d, e) /\ SameTables(d, e, Kinds \ {k})
  /\ e.used[k] = d.used[k] \ {id} /\ e.free[k] = <<id>> \o d.free[k] /\ e.top[k] = d.top[k]
  /\ e.at[k] = [d.at[k] EXCEPT ![id] = Released(k, @)]
  /\ e.alive[k] = IF d.at[k][id].object THEN d.alive[k] - 1 ELSE d.alive[k]
  /\ e.bound = [p \in AllPoints |->
                  IF k \in DeviceObjects /\ p \in Points[k] /\ d.bound[p] = id
                  THEN Gone ELSE d.bound[p]]

\* ReleaseOne does what IsRelease says.
LEMMA Releases ==
  ASSUME NEW d, ShapeInv(d), NEW k \in Kinds, NEW id \in 0 .. Size[k] - 1
  PROVE  IsRelease(d, ReleaseOne(d, k, id), k, id)
<1> DEFINE lost(p) == k \in DeviceObjects /\ p \in Points[k] /\ d.bound[p] = id
           e == ReleaseOne(d, k, id)
<1>1. e = [d EXCEPT !.used[k] = @ \ {id},
               !.free[k] = <<id>> \o @,
               !.at[k][id] = Released(k, @),
               !.alive[k] = IF d.at[k][id].object THEN @ - 1 ELSE @,
               !.bound = [p \in DOMAIN @ |-> IF lost(p) THEN Gone ELSE @[p]]]
  BY DEF ReleaseOne
<1> HIDE DEF e
<1>2. DOMAIN e = DOMAIN d
  BY <1>1
<1> DEFINE s == Released(k, d.at[k][id])
           a == IF d.at[k][id].object THEN d.alive[k] - 1 ELSE d.alive[k]
           b == [p \in DOMAIN d.bound |-> IF lost(p) THEN Gone ELSE d.bound[p]]
<1>10. e = [d EXCEPT !.used[k] = @ \ {id}, !.free[k] = <<id>> \o @, !.at[k][id] = s,
                    !.alive[k] = a, !.bound = b]
  BY <1>1 DEF ShapeInv
<1> HIDE DEF s, a, b
<1>3. /\ e.used = [d.used EXCEPT ![k] = @ \ {id}]
      /\ e.free = [d.free EXCEPT ![k] = <<id>> \o @]
      /\ e.top = d.top
      /\ e.at = [d.at EXCEPT ![k] = [d.at[k] EXCEPT ![id] = s]]
      /\ e.alive = [d.alive EXCEPT ![k] = a]
      /\ e.bound = b
  BY <1>10 DEF ShapeInv
<1>4. /\ e.up = d.up /\ e.freq = d.freq /\ e.memory = d.memory
      /\ e.points = d.points /\ e.drawn = d.drawn
  BY <1>10 DEF ShapeInv
<1>5. e.bound = [p \in AllPoints |-> IF lost(p) THEN Gone ELSE d.bound[p]]
  BY <1>3 DEF ShapeInv, b
<1>6. SameShape(d, e)
  BY <1>2, <1>3, <1>4 DEF SameShape, ShapeInv
<1>7. SameTables(d, e, Kinds \ {k})
  BY <1>3 DEF SameTables, ShapeInv
<1> QED
  <2>1. /\ e.used[k] = d.used[k] \ {id} /\ e.free[k] = <<id>> \o d.free[k]
        /\ e.top[k] = d.top[k] /\ e.alive[k] = a /\ e.at[k] = [d.at[k] EXCEPT ![id] = s]
    BY <1>3 DEF ShapeInv
  <2>2. e.at[k] = [d.at[k] EXCEPT ![id] = Released(k, @)]
    BY <2>1 DEF s
  <2> QED
    BY <1>5, <1>6, <1>7, <2>1, <2>2 DEF IsRelease, e, a

\* An id in use has a slot in its table.
LEMMA InUse ==
  ASSUME DeviceAssumption, NEW d, TableInv(d), NEW k \in Kinds, NEW id \in d.used[k]
  PROVE  id \in 0 .. Size[k] - 1 /\ Size[k] \in Nat /\ IsFiniteSet(d.used[k])
<1>1. Ids(d.used[k], d.free[k], d.top[k], Size[k]) /\ Size[k] \in Nat
  BY DEF TableInv, DeviceAssumption
<1>2. IsFiniteSet(d.used[k])
  BY <1>1, IdsCount
<1>3. id \in 0 .. Size[k] - 1
  BY <1>1, IdsReleased
<1> QED
  BY <1>1, <1>2, <1>3

\* A released slot has no object; nothing of a device's object is left in it.
LEMMA ReleasedSlot ==
  ASSUME DeviceAssumption, NEW d, BaseInv(d), d.up, NEW k \in Kinds, NEW id \in d.used[k]
  PROVE  /\ IsSlot(Released(k, d.at[k][id])) /\ ~Released(k, d.at[k][id]).object
         /\ k \in DeviceObjects => Released(k, d.at[k][id]) = Vacant
<1>1. id \in 0 .. Size[k] - 1
  BY InUse DEF BaseInv
<1>2. IsSlot(d.at[k][id]) /\ (d.at[k][id].object <=> k \in DeviceObjects)
  BY <1>1 DEF BaseInv, ShapeInv, TableInv, Owned
<1>3. IsSlot(Vacant) /\ ~Vacant.object
  BY DEF Vacant, IsSlot, DeviceAssumption
<1>4. k \in Plain => k \notin DeviceObjects
  BY DEF Plain, DeviceObjects, Reinitialized, Buffers
<1> QED
  BY <1>2, <1>3, <1>4 DEF Released

\* A release keeps the tables in order: what was bound is gone.
LEMMA ReleaseKeeps ==
  ASSUME DeviceAssumption, NEW d, BaseInv(d), d.up, NEW k \in Kinds, NEW id \in d.used[k],
         NEW e, IsRelease(d, e, k, id)
  PROVE  BaseInv(e)
<1> DEFINE s == Released(k, d.at[k][id])
<1>1. Size[k] \in Nat /\ id \in 0 .. Size[k] - 1 /\ IsFiniteSet(d.used[k])
  BY InUse DEF BaseInv
<1>2. IsSlot(s) /\ ~s.object
  BY ReleasedSlot
<1>3. DOMAIN d.at[k] = 0 .. Size[k] - 1
  BY DEF BaseInv, ShapeInv
<1> HIDE DEF s
<1>4. /\ DOMAIN e.at[k] = 0 .. Size[k] - 1
      /\ \A i \in 0 .. Size[k] - 1 : e.at[k][i] = IF i = id THEN s ELSE d.at[k][i]
  BY <1>3 DEF IsRelease, s
<1>5. e.up
  BY DEF IsRelease, SameShape
<1>6. ShapeInv(e)
  <2>1. \A j \in Kinds : DOMAIN e.at[j] = 0 .. Size[j] - 1
    BY <1>4 DEF BaseInv, ShapeInv, IsRelease, SameTables
  <2>2. \A j \in Kinds : \A i \in 0 .. Size[j] - 1 : IsSlot(e.at[j][i])
    <3>1. \A j \in Kinds : \A i \in 0 .. Size[j] - 1 : IsSlot(d.at[j][i])
      BY DEF BaseInv, ShapeInv
    <3>2. \A j \in Kinds \ {k} : e.at[j] = d.at[j]
      BY DEF IsRelease, SameTables
    <3> QED
      BY <1>2, <1>4, <3>1, <3>2
  <2>3. DOMAIN e.bound = AllPoints
    BY DEF IsRelease
  <2> QED
    BY <2>1, <2>2, <2>3 DEF IsRelease, SameShape, BaseInv, ShapeInv
<1>7. Ids(e.used[k], e.free[k], e.top[k], Size[k])
  <2>1. Ids(d.used[k], d.free[k], d.top[k], Size[k])
    BY DEF BaseInv, TableInv
  <2>2. Ids(d.used[k] \ {id}, <<id>> \o d.free[k], d.top[k], Size[k])
    BY <1>1, <2>1, IdsReleased
  <2> QED
    BY <2>2 DEF IsRelease
<1>8. /\ \A i \in 0 .. Size[k] - 1 : e.at[k][i].object <=> i \in Owned(e, k)
      /\ e.alive[k] = Cardinality(Owned(e, k))
  <2>1. CASE k \in DeviceObjects
    <3>1. Owned(e, k) = Owned(d, k) \ {id} /\ Owned(d, k) = d.used[k]
      BY <1>5, <2>1 DEF Owned, IsRelease
    <3>2. d.at[k][id].object /\ e.alive[k] = Cardinality(d.used[k]) - 1
      BY <1>1, <3>1 DEF IsRelease, BaseInv, TableInv
    <3>3. Cardinality(d.used[k] \ {id}) = Cardinality(d.used[k]) - 1
      BY <1>1, FS_RemoveElement
    <3> QED
      BY <1>2, <1>4, <3>1, <3>2, <3>3 DEF BaseInv, TableInv
  <2>2. CASE k \notin DeviceObjects
    <3>1. Owned(e, k) = {} /\ Owned(d, k) = {}
      BY <2>2 DEF Owned
    <3>2. ~d.at[k][id].object /\ e.alive[k] = d.alive[k]
      BY <1>1, <3>1 DEF IsRelease, BaseInv, TableInv
    <3> QED
      BY <1>2, <1>4, <3>1, <3>2, ZenonT(60) DEF BaseInv, TableInv
  <2> QED
    BY <2>1, <2>2
<1>9. TableInv(e)
  <2>1. \A j \in Kinds \ {k} : Owned(e, j) = Owned(d, j)
    BY <1>5 DEF Owned, IsRelease, SameTables
  <2>2. \A j \in Kinds \ {k} :
          /\ Ids(e.used[j], e.free[j], e.top[j], Size[j])
          /\ \A i \in 0 .. Size[j] - 1 : e.at[j][i].object <=> i \in Owned(e, j)
          /\ e.alive[j] = Cardinality(Owned(e, j))
    BY <2>1, ZenonT(60) DEF IsRelease, SameTables, BaseInv, TableInv
  <2> QED
    BY <1>7, <1>8, <2>2 DEF TableInv
<1>10. DeclInv(e)
  <2>0. e.freq = d.freq /\ Points["decl"] \subseteq AllPoints /\ "decl" \in Kinds
    BY DEF IsRelease, SameShape, AllPoints, Kinds, DeviceObjects
  <2>1. CASE k # "decl"
    <3>1. e.used["decl"] = d.used["decl"] /\ e.at["decl"] = d.at["decl"]
      BY <2>0, <2>1 DEF IsRelease, SameTables
    <3>2. \A p \in Points["decl"] : e.bound[p] = d.bound[p]
      BY <2>0, <2>1 DEF IsRelease, DeviceAssumption
    <3> QED
      BY <2>0, <3>1, <3>2 DEF DeclInv, BaseInv
  <2>2. CASE k = "decl"
    <3>1. /\ e.used["decl"] = d.used["decl"] \ {id}
          /\ \A i \in e.used["decl"] : e.at["decl"][i] = d.at["decl"][i]
      <4>1. \A i \in d.used["decl"] : i \in 0 .. Size["decl"] - 1
        BY <2>2, InUse DEF BaseInv
      <4> QED
        BY <1>4, <2>2, <4>1 DEF IsRelease
    <3>2. \A p \in Points["decl"] :
            e.bound[p] = IF d.bound[p] = id THEN Gone ELSE d.bound[p]
      BY <2>0, <2>2 DEF IsRelease, DeviceObjects
    <3> QED
      BY <2>0, <3>1, <3>2, SMTT(40) DEF DeclInv, BaseInv
  <2> QED
    BY <2>1, <2>2
<1> QED
  BY <1>6, <1>9, <1>10 DEF BaseInv

\* e is d with s in the slot id.
IsUpdate(d, e, k, id, s) ==
  /\ SameShape(d, e) /\ SameTables(d, e, Kinds \ {k}) /\ e.bound = d.bound
  /\ e.used[k] = d.used[k] /\ e.free[k] = d.free[k] /\ e.top[k] = d.top[k]
  /\ e.alive[k] = d.alive[k]
  /\ e.at[k] = [d.at[k] EXCEPT ![id] = s]

\* A change of a slot that keeps its object keeps the tables in order.
LEMMA UpdateKeeps ==
  ASSUME DeviceAssumption, NEW d, BaseInv(d), d.up, NEW k \in Kinds, k # "decl",
         NEW id \in d.used[k], NEW s, IsSlot(s), s.object = d.at[k][id].object,
         NEW e, IsUpdate(d, e, k, id, s)
  PROVE  BaseInv(e)
<1>1. id \in 0 .. Size[k] - 1
  BY InUse DEF BaseInv
<1>2. DOMAIN d.at[k] = 0 .. Size[k] - 1
  BY DEF BaseInv, ShapeInv
<1>3. /\ DOMAIN e.at[k] = 0 .. Size[k] - 1
      /\ \A i \in 0 .. Size[k] - 1 : e.at[k][i] = IF i = id THEN s ELSE d.at[k][i]
  BY <1>2 DEF IsUpdate
<1>4. e.up
  BY DEF IsUpdate, SameShape
<1>5. ShapeInv(e)
  <2>1. \A j \in Kinds : DOMAIN e.at[j] = 0 .. Size[j] - 1
    BY <1>3 DEF BaseInv, ShapeInv, IsUpdate, SameTables
  <2>2. \A j \in Kinds : \A i \in 0 .. Size[j] - 1 : IsSlot(e.at[j][i])
    <3>1. \A j \in Kinds : \A i \in 0 .. Size[j] - 1 : IsSlot(d.at[j][i])
      BY DEF BaseInv, ShapeInv
    <3>2. \A j \in Kinds \ {k} : e.at[j] = d.at[j]
      BY DEF IsUpdate, SameTables
    <3> QED
      BY <1>3, <3>1, <3>2
  <2> QED
    BY <2>1, <2>2 DEF IsUpdate, SameShape, BaseInv, ShapeInv
<1>6. TableInv(e)
  <2>1. \A j \in Kinds : Owned(e, j) = Owned(d, j)
    BY <1>4 DEF Owned, IsUpdate, SameTables
  <2>2. \A i \in 0 .. Size[k] - 1 : e.at[k][i].object = d.at[k][i].object
    BY <1>3
  <2>3. \A j \in Kinds : \A i \in 0 .. Size[j] - 1 : e.at[j][i].object = d.at[j][i].object
    BY <2>2 DEF IsUpdate, SameTables
  <2>4. \A j \in Kinds : /\ e.used[j] = d.used[j] /\ e.free[j] = d.free[j]
                         /\ e.top[j] = d.top[j] /\ e.alive[j] = d.alive[j]
    BY DEF IsUpdate, SameTables
  <2> QED
    BY <2>1, <2>3, <2>4 DEF BaseInv, TableInv
<1>7. DeclInv(e)
  <2>1. e.used["decl"] = d.used["decl"] /\ e.at["decl"] = d.at["decl"]
    BY DEF IsUpdate, SameTables, Kinds, DeviceObjects
  <2> QED
    BY <2>1 DEF IsUpdate, SameShape, BaseInv, DeclInv
<1> QED
  BY <1>5, <1>6, <1>7 DEF BaseInv

\* e is d with id bound at the points ps.
IsBind(d, e, k, ps, id) ==
  /\ DOMAIN e = DOMAIN d /\ e.up = d.up
  /\ e.used = d.used /\ e.free = d.free /\ e.top = d.top /\ e.alive = d.alive /\ e.at = d.at
  /\ e.memory = d.memory /\ e.points = d.points /\ e.drawn = d.drawn
  /\ e.bound = [p \in AllPoints |-> IF p \notin ps THEN d.bound[p]
                                   ELSE IF k \in Copied THEN d.at[k][id].data ELSE id]
  /\ e.freq = [s \in Streams |-> IF k = "decl" /\ s \in DOMAIN d.at["decl"][id].data
                                THEN d.at["decl"][id].data[s] ELSE d.freq[s]]

\* The points that an activation at points binds.
PointsBound(k, points) == IF k \in {"decl", "vb"} THEN Points[k] ELSE points

\* Activated does what IsBind says.
LEMMA Binds ==
  ASSUME NEW d, ShapeInv(d), NEW k, NEW points, NEW id
  PROVE  IsBind(d, Activated(d, k, points, id), k, PointsBound(k, points), id)
<1>1. CASE k = "decl"
  BY <1>1 DEF Activated, BindVertexDeclaration, Bind, IsBind, PointsBound, ShapeInv
<1>2. CASE k = "vb"
  BY <1>2 DEF Activated, BindVertexStream, Bind, IsBind, PointsBound, ShapeInv
<1>3. CASE k \notin {"decl", "vb"}
  BY <1>3 DEF Activated, Bind, IsBind, PointsBound, ShapeInv
<1> QED
  BY <1>1, <1>2, <1>3

\* A binding keeps the tables, and the streams follow the declaration bound.
LEMMA BindKeeps ==
  ASSUME DeviceAssumption, NEW d, BaseInv(d), NEW k \in Kinds, NEW id \in d.used[k],
         NEW ps, ps \subseteq Points[k], k = "decl" => ps = Points[k],
         NEW e, IsBind(d, e, k, ps, id)
  PROVE  BaseInv(e)
<1>1. ShapeInv(e)
  BY DEF IsBind, BaseInv, ShapeInv
<1>2. TableInv(e)
  <2>1. \A j \in Kinds : Owned(e, j) = Owned(d, j)
    BY DEF IsBind, Owned
  <2> QED
    BY <2>1 DEF IsBind, BaseInv, TableInv
<1>3. DeclInv(e)
  <2>0. "decl" \in Kinds /\ Points["decl"] \subseteq AllPoints
    BY DEF Kinds, DeviceObjects, AllPoints
  <2>1. CASE k # "decl"
    <3>1. \A p \in Points["decl"] : e.bound[p] = d.bound[p]
      BY <2>0, <2>1 DEF IsBind, DeviceAssumption
    <3>2. \A s \in Streams : e.freq[s] = d.freq[s]
      BY <2>1 DEF IsBind
    <3>3. \A i \in d.used["decl"] : DOMAIN d.at["decl"][i].data \subseteq Streams
      BY DEF BaseInv, DeclInv
    <3>4. e.used = d.used /\ e.at = d.at
      BY SMTT(40) DEF IsBind
    <3> QED
      BY <3>1, <3>2, <3>3, <3>4 DEF BaseInv, DeclInv
  <2>2. CASE k = "decl"
    <3>1. \A p \in Points["decl"] : e.bound[p] = id
      BY <2>0, <2>2 DEF IsBind, Copied, Plain
    <3>2. DOMAIN d.at["decl"][id].data \subseteq Streams
      BY <2>2 DEF BaseInv, DeclInv
    <3>3. \A s \in DOMAIN d.at["decl"][id].data : e.freq[s] = d.at["decl"][id].data[s]
      BY <2>2, <3>2 DEF IsBind
    <3> QED
      BY <2>2, <3>1, <3>3 DEF IsBind, BaseInv, DeclInv
  <2> QED
    BY <2>1, <2>2
<1> QED
  BY <1>1, <1>2, <1>3 DEF BaseInv

\* From d to e, no slots in use change but those of Z, and no points but where
\* objects of Z were bound.
Keeps(d, e, Z) ==
  /\ e.up = d.up
  /\ \A k \in Kinds : \A i \in d.used[k] :
       <<k, i>> \notin Z => i \in e.used[k] /\ e.at[k][i] = d.at[k][i]
  /\ \A k \in Kinds : \A p \in Points[k] :
       e.bound[p] # d.bound[p] => k \in DeviceObjects /\ <<k, d.bound[p]>> \in Z

\* What two changes keep, one after the other.
LEMMA KeepsCompose ==
  ASSUME NEW d, NEW e, NEW f, NEW Y, NEW Z, Keeps(d, e, Y), Keeps(e, f, Z)
  PROVE  Keeps(d, f, Y \cup Z)
<1>1. ASSUME NEW k \in Kinds, NEW i \in d.used[k], <<k, i>> \notin Y \cup Z
      PROVE  i \in f.used[k] /\ f.at[k][i] = d.at[k][i]
  BY <1>1 DEF Keeps
<1>2. ASSUME NEW k \in Kinds, NEW p \in Points[k], f.bound[p] # d.bound[p]
      PROVE  k \in DeviceObjects /\ <<k, d.bound[p]>> \in Y \cup Z
  BY <1>2 DEF Keeps
<1>3. f.up = d.up
  BY DEF Keeps
<1> QED
  BY <1>1, <1>2, <1>3 DEF Keeps

\* What keeps all slots but few keeps all but more.
LEMMA KeepsMore ==
  ASSUME NEW d, NEW e, NEW Y, NEW Z, Keeps(d, e, Y), Y \subseteq Z
  PROVE  Keeps(d, e, Z)
BY DEF Keeps

\* The table of a kind has a slot for each id in use.
LEMMA SlotDomain ==
  ASSUME DeviceAssumption, NEW d, BaseInv(d), NEW k \in Kinds
  PROVE  DOMAIN d.at[k] = 0 .. Size[k] - 1 /\ \A i \in d.used[k] : i \in 0 .. Size[k] - 1
<1>1. DOMAIN d.at[k] = 0 .. Size[k] - 1
  BY DEF BaseInv, ShapeInv
<1>2. \A i \in d.used[k] : i \in 0 .. Size[k] - 1
  BY InUse DEF BaseInv
<1> QED
  BY <1>1, <1>2

\* A new slot leaves the slots in use.
LEMMA PutSlots ==
  ASSUME DeviceAssumption, NEW d, BaseInv(d), NEW k \in Kinds, NEW s,
         NEW id, id = NewID(d, k), id # NoID, NEW e, IsPut(d, e, k, id, s)
  PROVE  /\ Keeps(d, e, {}) /\ id \notin d.used[k] /\ id \in e.used[k] /\ e.at[k][id] = s
         /\ \A i \in d.used[k] : e.at[k][i] = d.at[k][i]
<1>1. id \in 0 .. Size[k] - 1 /\ id \notin d.used[k]
  BY NewIDs DEF BaseInv
<1>2. e.at[k] = [d.at[k] EXCEPT ![id] = s] /\ e.used[k] = d.used[k] \cup {id}
  BY DEF IsPut
<1>3. e.at[k][id] = s /\ \A i \in d.used[k] : i # id => e.at[k][i] = d.at[k][i]
  <2>1. DOMAIN d.at[k] = 0 .. Size[k] - 1 /\ \A i \in d.used[k] : i \in 0 .. Size[k] - 1
    BY SlotDomain
  <2> QED
    BY <1>1, <1>2, <2>1
<1>4. ASSUME NEW j \in Kinds, NEW i \in d.used[j]
      PROVE  i \in e.used[j] /\ e.at[j][i] = d.at[j][i]
  <2>1. CASE j = k
    BY <1>1, <1>2, <1>3, <2>1
  <2>2. CASE j # k
    BY <2>2 DEF IsPut, SameTables
  <2> QED
    BY <2>1, <2>2
<1>5. e.up = d.up /\ e.bound = d.bound
  BY DEF IsPut, SameShape
<1>6. Keeps(d, e, {})
  BY <1>4, <1>5 DEF Keeps
<1> QED
  BY <1>1, <1>2, <1>3, <1>6

\* A release leaves the slots of the other ids.
LEMMA ReleaseSlots ==
  ASSUME DeviceAssumption, NEW d, BaseInv(d), NEW k \in Kinds, NEW id \in d.used[k],
         NEW e, IsRelease(d, e, k, id)
  PROVE  Keeps(d, e, {<<k, id>>})
<1>1. e.at[k] = [d.at[k] EXCEPT ![id] = Released(k, @)] /\ e.used[k] = d.used[k] \ {id}
  BY DEF IsRelease
<1>2. \A i \in d.used[k] : i # id => e.at[k][i] = d.at[k][i]
  <2>1. DOMAIN d.at[k] = 0 .. Size[k] - 1
    BY DEF BaseInv, ShapeInv
  <2>2. \A i \in d.used[k] : i \in 0 .. Size[k] - 1
    BY InUse DEF BaseInv
  <2> QED
    BY <1>1, <2>1, <2>2
<1>3. ASSUME NEW j \in Kinds, NEW i \in d.used[j], <<j, i>> \notin {<<k, id>>}
      PROVE  i \in e.used[j] /\ e.at[j][i] = d.at[j][i]
  <2>1. CASE j = k
    BY <1>1, <1>2, <1>3, <2>1
  <2>2. CASE j # k
    BY <2>2 DEF IsRelease, SameTables
  <2> QED
    BY <2>1, <2>2
<1>4. ASSUME NEW j \in Kinds, NEW p \in Points[j], e.bound[p] # d.bound[p]
      PROVE  j \in DeviceObjects /\ <<j, d.bound[p]>> \in {<<k, id>>}
  <2>1. p \in AllPoints
    BY DEF AllPoints
  <2>2. k \in DeviceObjects /\ p \in Points[k] /\ d.bound[p] = id
    BY <1>4, <2>1 DEF IsRelease
  <2>3. j = k
    BY <2>2 DEF DeviceAssumption
  <2> QED
    BY <2>2, <2>3
<1>5. e.up = d.up
  BY DEF IsRelease, SameShape
<1> QED
  BY <1>3, <1>4, <1>5 DEF Keeps

\* A change of a slot leaves the others.
LEMMA UpdateSlots ==
  ASSUME DeviceAssumption, NEW d, BaseInv(d), NEW k \in Kinds, NEW id \in d.used[k],
         NEW s, NEW e, IsUpdate(d, e, k, id, s)
  PROVE  Keeps(d, e, {<<k, id>>})
<1>1. e.at[k] = [d.at[k] EXCEPT ![id] = s] /\ e.used[k] = d.used[k]
  BY DEF IsUpdate
<1>2. id \in 0 .. Size[k] - 1
  BY InUse DEF BaseInv
<1>3. e.at[k][id] = s /\ \A i \in d.used[k] : i # id => e.at[k][i] = d.at[k][i]
  <2>1. DOMAIN d.at[k] = 0 .. Size[k] - 1 /\ \A i \in d.used[k] : i \in 0 .. Size[k] - 1
    BY SlotDomain
  <2> QED
    BY <1>1, <1>2, <2>1
<1>4. ASSUME NEW j \in Kinds, NEW i \in d.used[j], <<j, i>> \notin {<<k, id>>}
      PROVE  i \in e.used[j] /\ e.at[j][i] = d.at[j][i]
  <2>1. CASE j = k
    BY <1>1, <1>3, <1>4, <2>1
  <2>2. CASE j # k
    BY <2>2 DEF IsUpdate, SameTables
  <2> QED
    BY <2>1, <2>2
<1>5. e.up = d.up /\ e.bound = d.bound
  BY DEF IsUpdate, SameShape
<1> QED
  BY <1>4, <1>5 DEF Keeps

------------------------------------------------------------------------------
(* Targets                                                                   *)

\* Targets depend only on the tables of surfaces and textures.
LEMMA TargetsSame ==
  ASSUME NEW d, NEW e, TargetInv(d), SameTables(d, e, {"surface", "texture"})
  PROVE  TargetInv(e)
BY DEF TargetInv, SameTables

\* A new slot that is not a target's leaves the targets.
LEMMA PutTargets ==
  ASSUME DeviceAssumption, NEW d, BaseInv(d), TargetInv(d), NEW k \in Kinds \ {"surface"},
         NEW s, k = "texture" => s.usage # "System",
         NEW id, id = NewID(d, k), id # NoID, NEW e, IsPut(d, e, k, id, s)
  PROVE  TargetInv(e)
<1>0. "surface" \in Kinds /\ "texture" \in Kinds
  BY DEF Kinds, DeviceObjects, Reinitialized
<1>1. e.used["surface"] = d.used["surface"] /\ e.at["surface"] = d.at["surface"]
  BY <1>0 DEF IsPut, SameTables
<1>2. CASE k # "texture"
  <2>1. e.used["texture"] = d.used["texture"] /\ e.at["texture"] = d.at["texture"]
    BY <1>0, <1>2 DEF IsPut, SameTables
  <2> QED
    BY <1>1, <2>1 DEF TargetInv
<1>3. CASE k = "texture"
  <2>1. /\ e.at["texture"][id] = s /\ e.used["texture"] = d.used["texture"] \cup {id}
        /\ \A i \in d.used["texture"] : e.at["texture"][i] = d.at["texture"][i]
    <3>1. e.at[k][id] = s /\ \A i \in d.used[k] : e.at[k][i] = d.at[k][i]
      BY PutSlots
    <3> QED
      BY <1>3, <3>1 DEF IsPut
  <2> QED
    BY <1>1, <1>3, <2>1 DEF TargetInv
<1> QED
  BY <1>2, <1>3

\* So does the release of a slot that is not a target's.
LEMMA ReleaseTargets ==
  ASSUME DeviceAssumption, NEW d, BaseInv(d), TargetInv(d), NEW k \in Kinds \ {"surface"},
         NEW id \in d.used[k], k = "texture" => d.at["texture"][id].usage # "System",
         NEW e, IsRelease(d, e, k, id)
  PROVE  TargetInv(e)
<1>0. "surface" \in Kinds /\ "texture" \in Kinds
  BY DEF Kinds, DeviceObjects, Reinitialized
<1>1. e.used["surface"] = d.used["surface"] /\ e.at["surface"] = d.at["surface"]
  BY <1>0 DEF IsRelease, SameTables
<1>2. Keeps(d, e, {<<k, id>>})
  BY ReleaseSlots
<1>3. e.used["texture"] \subseteq d.used["texture"]
  BY <1>0 DEF IsRelease, SameTables
<1>4. \A i \in d.used["texture"] : i # id \/ k # "texture" =>
        i \in e.used["texture"] /\ e.at["texture"][i] = d.at["texture"][i]
  BY <1>0, <1>2 DEF Keeps
<1>5. k = "texture" => id \notin e.used["texture"]
  BY DEF IsRelease
<1> QED
  BY <1>1, <1>3, <1>4, <1>5 DEF TargetInv

\* The release of a surface takes its texture, and both ids are one target's.
LEMMA SurfaceTargets ==
  ASSUME DeviceAssumption, NEW d, BaseInv(d), TargetInv(d), NEW id \in d.used["surface"],
         id # 0, NEW e, IsRelease(d, e, "texture", id), BaseInv(e),
         NEW f, IsRelease(e, f, "surface", id)
  PROVE  TargetInv(f)
<1>0. "surface" \in Kinds /\ "texture" \in Kinds
  BY DEF Kinds, DeviceObjects, Reinitialized
<1>1. id \in d.used["texture"]
  BY DEF TargetInv
<1>2. /\ e.used["surface"] = d.used["surface"] /\ e.at["surface"] = d.at["surface"]
      /\ f.used["texture"] = e.used["texture"] /\ f.at["texture"] = e.at["texture"]
      /\ e.used["texture"] = d.used["texture"] \ {id}
      /\ f.used["surface"] = d.used["surface"] \ {id}
  BY <1>0 DEF IsRelease, SameTables
<1>3. Keeps(d, e, {<<"texture", id>>}) /\ Keeps(e, f, {<<"surface", id>>})
  BY <1>0, <1>1, <1>2, ReleaseSlots
<1>4. \A i \in f.used["texture"] : f.at["texture"][i] = d.at["texture"][i]
  BY <1>0, <1>2, <1>3 DEF Keeps
<1>5. \A i \in f.used["surface"] : f.at["surface"][i] = d.at["surface"][i]
  BY <1>0, <1>2, <1>3 DEF Keeps
<1> QED
  BY <1>2, <1>4, <1>5 DEF TargetInv

------------------------------------------------------------------------------
(* The calls keep the invariant                                              *)

\* A creation keeps the device's invariant and gives a slot nobody had.
LEMMA Created ==
  ASSUME DeviceAssumption, NEW d, DeviceInv(d), d.up, NEW k \in Kinds \ {"surface"},
         NEW s, MayPut(k, s), s.usage # "System", NewID(d, k) # NoID
  PROVE  /\ DeviceInv(Put(d, k, s)) /\ Put(d, k, s).up
         /\ Keeps(d, Put(d, k, s), {}) /\ NewID(d, k) \notin d.used[k]
         /\ NewID(d, k) \in Put(d, k, s).used[k]
         /\ Put(d, k, s).at[k][NewID(d, k)] = s
<1> DEFINE e == Put(d, k, s)
           id == NewID(d, k)
<1>1. IsPut(d, e, k, id, s)
  BY Puts DEF DeviceInv, BaseInv
<1>2. id # NoID /\ id = NewID(d, k)
  OBVIOUS
<1> HIDE DEF e, id
<1>3. BaseInv(d) /\ TargetInv(d)
  BY DEF DeviceInv
<1>4. BaseInv(e)
  BY <1>1, <1>2, <1>3, PutKeeps
<1>5. TargetInv(e)
  BY <1>1, <1>2, <1>3, PutTargets
<1>6. Keeps(d, e, {}) /\ id \notin d.used[k] /\ id \in e.used[k] /\ e.at[k][id] = s
  BY <1>1, <1>2, <1>3, PutSlots
<1>7. e.up
  BY <1>6 DEF Keeps
<1> QED
  BY <1>4, <1>5, <1>6, <1>7 DEF DeviceInv, e, id

\* Two slots that differ in what a fill changes.
Alike(s, t) == s.object = t.object /\ s.usage = t.usage /\ s.texture = t.texture

\* A change of a slot's data keeps the device's invariant and the other slots.
LEMMA Updated ==
  ASSUME DeviceAssumption, NEW d, DeviceInv(d), d.up, NEW k \in Kinds, k # "decl",
         NEW id \in d.used[k], NEW s, IsSlot(s), Alike(s, d.at[k][id]),
         NEW e, IsUpdate(d, e, k, id, s)
  PROVE  /\ DeviceInv(e) /\ e.up /\ Keeps(d, e, {<<k, id>>})
         /\ \A j \in Kinds : e.used[j] = d.used[j]
         /\ e.at[k][id] = s
<1>0. BaseInv(d) /\ TargetInv(d)
  BY DEF DeviceInv
<1>1. BaseInv(e)
  BY <1>0, UpdateKeeps DEF Alike
<1>2. /\ Keeps(d, e, {<<k, id>>}) /\ e.used[k] = d.used[k] /\ e.at[k][id] = s
      /\ \A i \in d.used[k] : i # id => e.at[k][i] = d.at[k][i]
  <2>1. Keeps(d, e, {<<k, id>>})
    BY <1>0, UpdateSlots
  <2>2. e.used[k] = d.used[k]
    BY DEF IsUpdate
  <2>3. e.at[k][id] = s
    <3>1. id \in DOMAIN d.at[k]
      BY <1>0, SlotDomain
    <3> QED
      BY <3>1 DEF IsUpdate
  <2>4. \A i \in d.used[k] : i # id => e.at[k][i] = d.at[k][i]
    BY <2>1 DEF Keeps
  <2> QED
    BY <2>1, <2>2, <2>3, <2>4
<1>3. \A j \in Kinds : e.used[j] = d.used[j]
  BY DEF IsUpdate, SameTables
<1>4. \A j \in Kinds : \A i \in d.used[j] :
        e.at[j][i].usage = d.at[j][i].usage /\ e.at[j][i].texture = d.at[j][i].texture
  <2>1. ASSUME NEW j \in Kinds, NEW i \in d.used[j], j # k
        PROVE  e.at[j][i] = d.at[j][i]
    BY <2>1 DEF IsUpdate, SameTables
  <2> QED
    BY <1>2, <2>1 DEF Alike
<1>5. TargetInv(e)
  <2>1. "surface" \in Kinds /\ "texture" \in Kinds
    BY DEF Kinds, DeviceObjects, Reinitialized
  <2> QED
    BY <1>3, <1>4, <2>1 DEF DeviceInv, TargetInv
<1> QED
  BY <1>1, <1>2, <1>3, <1>5 DEF DeviceInv, Keeps

\* The slots that the release of an id takes.
Lost(k, id) == {<<j, id>> : j \in IF k = "surface" THEN {k, "texture"} ELSE {k}}

\* A release of an owned id keeps the invariant and takes only the slots of that id.
LEMMA ReleaseIDs ==
  ASSUME DeviceAssumption, NEW d, DeviceInv(d), d.up, NEW k \in Kinds, NEW id,
         MayOwn(d, k, id)
  PROVE  /\ DeviceInv(ReleaseID(d, k, id)) /\ ReleaseID(d, k, id).up
         /\ Keeps(d, ReleaseID(d, k, id), Lost(k, id))
<1>0. BaseInv(d) /\ TargetInv(d) /\ id \in d.used[k]
  BY DEF DeviceInv, MayOwn
<1>1. "surface" \in Kinds /\ "texture" \in Kinds /\ "surface" \in DeviceObjects
  BY DEF Kinds, DeviceObjects, Reinitialized
<1>2. id \in 0 .. Size[k] - 1
  BY <1>0, InUse DEF BaseInv
<1>3. CASE k # "surface"
  <2> DEFINE e == ReleaseOne(d, k, id)
  <2>1. ReleaseID(d, k, id) = e
    BY <1>3 DEF ReleaseID
  <2>2. IsRelease(d, e, k, id)
    BY <1>0, <1>2, Releases DEF BaseInv
  <2> HIDE DEF e
  <2>3. BaseInv(e)
    BY <1>0, <2>2, ReleaseKeeps
  <2>4. TargetInv(e)
    BY <1>0, <1>3, <2>2, ReleaseTargets DEF MayOwn
  <2>5. Keeps(d, e, {<<k, id>>}) /\ Lost(k, id) = {<<k, id>>}
    BY <1>0, <1>3, <2>2, ReleaseSlots DEF Lost
  <2>6. e.up
    BY <2>5 DEF Keeps
  <2> QED
    BY <2>1, <2>3, <2>4, <2>5, <2>6 DEF DeviceInv
<1>4. CASE k = "surface"
  <2>1. /\ id # 0 /\ d.at["surface"][id].texture = id /\ id \in d.used["texture"]
        /\ id \in d.used["surface"]
    BY <1>0, <1>4 DEF MayOwn, TargetInv
  <2>2. d.at["surface"][id].object
    BY <1>0, <1>1, <1>2, <1>4 DEF BaseInv, TableInv, Owned
  <2>3. id \in 0 .. Size["texture"] - 1
    BY <1>0, <1>1, <2>1, InUse DEF BaseInv
  <2> DEFINE e == ReleaseOne(d, "texture", id)
             f == ReleaseOne(e, "surface", id)
  <2>4. ReleaseID(d, k, id) = f
    BY <1>4, <2>1, <2>2 DEF ReleaseID
  <2>5. IsRelease(d, e, "texture", id)
    BY <1>0, <1>1, <2>3, Releases DEF BaseInv
  <2> HIDE DEF e
  <2>6. BaseInv(e) /\ e.up
    <3>1. BaseInv(e)
      BY <1>0, <1>1, <2>1, <2>5, ReleaseKeeps
    <3> QED
      BY <3>1, <2>5 DEF IsRelease, SameShape
  <2>7. id \in e.used["surface"]
    BY <1>1, <2>1, <2>5 DEF IsRelease, SameTables
  <2>8. IsRelease(e, f, "surface", id)
    BY <1>1, <1>2, <1>4, <2>6, Releases DEF BaseInv
  <2> HIDE DEF f
  <2>9. BaseInv(f)
    BY <1>1, <2>6, <2>7, <2>8, ReleaseKeeps
  <2>10. TargetInv(f)
    BY <1>0, <2>1, <2>5, <2>6, <2>8, SurfaceTargets
  <2>11. Keeps(d, e, {<<"texture", id>>})
    BY <1>0, <1>1, <2>1, <2>5, ReleaseSlots
  <2>12. Keeps(e, f, {<<"surface", id>>})
    BY <1>1, <2>6, <2>7, <2>8, ReleaseSlots
  <2>13. Keeps(d, f, {<<"texture", id>>} \cup {<<"surface", id>>})
    BY <2>11, <2>12, KeepsCompose
  <2>14. {<<"texture", id>>} \cup {<<"surface", id>>} = Lost(k, id)
    BY <1>4 DEF Lost
  <2>15. Keeps(d, f, Lost(k, id))
    BY <2>13, <2>14
  <2>16. f.up
    BY <2>6, <2>12 DEF Keeps
  <2> QED
    BY <2>4, <2>9, <2>10, <2>15, <2>16 DEF DeviceInv
<1> QED
  BY <1>3, <1>4

\* What a target's two slots have.
TargetTexture == [Vacant EXCEPT !.object = TRUE, !.usage = "System"]
TargetSurface(x, id) == [Vacant EXCEPT !.object = TRUE, !.data = x, !.texture = id]

\* The two slots of a target are slots a client may be given.
LEMMA SlotsOfTargets ==
  ASSUME DeviceAssumption, NEW x, NEW id
  PROVE  /\ MayPut("texture", TargetTexture) /\ TargetTexture.usage = "System"
         /\ MayPut("surface", TargetSurface(x, id))
         /\ TargetSurface(x, id).texture = id /\ TargetSurface(x, id).data = x
BY DEF TargetTexture, TargetSurface, Vacant, MayPut, IsSlot, DeviceObjects, Reinitialized,
       DeviceAssumption

\* With the ids aligned, a target is two slots of the same id.
LEMMA CreatesTarget ==
  ASSUME DeviceAssumption, TargetsAligned, NEW d, BaseInv(d), MayCreateRenderTarget(d), NEW x,
         NEW id, id = NewID(d, "surface"), NEW e, e = Put(d, "texture", TargetTexture)
  PROVE  /\ id # NoID /\ id = NewID(d, "texture") /\ id = NewID(e, "surface")
         /\ IsPut(d, e, "texture", id, TargetTexture)
         /\ ShapeInv(e) =>
              IsPut(e, CreateRenderTarget(d, x), "surface", id, TargetSurface(x, id))
<1>0. "surface" \in Kinds /\ "texture" \in Kinds /\ "surface" # "texture"
  BY DEF Kinds, DeviceObjects, Reinitialized
<1>1. id # NoID /\ id = NewID(d, "texture")
  BY DEF MayCreateRenderTarget
<1>2. IsPut(d, e, "texture", id, TargetTexture)
  BY <1>0, <1>1, Puts DEF BaseInv
<1>3. NewID(e, "surface") = NewID(d, "surface")
  BY <1>0, <1>2 DEF NewID, IsPut, SameTables
<1>4. ASSUME ShapeInv(e)
      PROVE  IsPut(e, CreateRenderTarget(d, x), "surface", id, TargetSurface(x, id))
  <2> DEFINE f == Put(e, "surface", Vacant)
             g == CreateRenderTarget(d, x)
  <2>1. IsPut(e, f, "surface", id, Vacant)
    BY <1>0, <1>3, <1>4, Puts
  <2>2. g = [f EXCEPT !.at["surface"][id] = [@ EXCEPT !.object = TRUE, !.data = x, !.texture = id],
                      !.alive["surface"] = @ + 1]
    BY <1>1 DEF CreateRenderTarget, SurfaceWritten, TargetTexture
  <2> HIDE DEF f, g
  <2>3. id \in 0 .. Size["surface"] - 1
    BY <1>0, <1>1, NewIDs DEF BaseInv
  <2>4. /\ f.at["surface"] = [e.at["surface"] EXCEPT ![id] = Vacant]
        /\ f.alive["surface"] = e.alive["surface"]
        /\ SameShape(e, f) /\ DOMAIN e.at["surface"] = 0 .. Size["surface"] - 1
    <3>1. ~Vacant.object
      BY DEF Vacant
    <3> QED
      BY <1>0, <1>4, <2>1, <3>1 DEF IsPut, ShapeInv
  <2>5. f.at["surface"][id] = Vacant
    BY <2>3, <2>4
  <2>6. /\ DOMAIN g = DOMAIN f
        /\ g.used = f.used /\ g.free = f.free /\ g.top = f.top /\ g.bound = f.bound
        /\ g.up = f.up /\ g.memory = f.memory /\ g.points = f.points /\ g.drawn = f.drawn
        /\ g.freq = f.freq
    BY <1>4, <2>2, <2>4 DEF SameShape, ShapeInv
  <2> DEFINE t == TargetSurface(x, id)
  <2>7. [Vacant EXCEPT !.object = TRUE, !.data = x, !.texture = id] = t
    BY DEF TargetSurface
  <2> DEFINE A == f.at["surface"]
             X == [A EXCEPT ![id] =
                    [A[id] EXCEPT !.object = TRUE, !.data = x, !.texture = id]]
  <2>8. /\ g.at = [f.at EXCEPT !["surface"] = X]
        /\ g.alive = [f.alive EXCEPT !["surface"] = @ + 1]
    BY <1>4, <2>2, <2>4 DEF SameShape, ShapeInv
  <2>9. /\ DOMAIN f.at = Kinds /\ DOMAIN f.alive = Kinds
    BY <2>4 DEF SameShape
  <2>10. /\ DOMAIN g.at = Kinds /\ DOMAIN g.alive = Kinds
         /\ \A k \in Kinds \ {"surface"} : g.at[k] = f.at[k] /\ g.alive[k] = f.alive[k]
         /\ g.alive["surface"] = e.alive["surface"] + 1
    BY <1>0, <2>4, <2>8, <2>9
  <2>11. g.at["surface"] = [f.at["surface"] EXCEPT ![id] = t]
    <3>2. [A[id] EXCEPT !.object = TRUE, !.data = x, !.texture = id] = t
      BY <2>5, <2>7, Zenon
    <3>3. X = [A EXCEPT ![id] = t]
      BY <3>2, Zenon
    <3> HIDE DEF X
    <3>4. g.at["surface"] = X
      BY <1>0, <2>8, <2>9
    <3> QED
      BY <3>3, <3>4, Zenon
  <2>12. g.at["surface"] = [e.at["surface"] EXCEPT ![id] = t]
    BY <2>3, <2>4, <2>11
  <2>13. t.object
    BY DEF TargetSurface, Vacant
  <2> HIDE DEF t
  <2>14. SameShape(e, g)
    BY <2>4, <2>6, <2>10 DEF SameShape
  <2>15. SameTables(e, g, Kinds \ {"surface"})
    BY <2>1, <2>6, <2>10 DEF IsPut, SameTables
  <2>16. IsPut(e, g, "surface", id, t)
    BY <2>1, <2>6, <2>10, <2>12, <2>13, <2>14, <2>15 DEF IsPut
  <2> QED
    BY <2>16 DEF g, t
<1> QED
  BY <1>1, <1>2, <1>3, <1>4

\* A created target keeps the invariant and gives a surface nobody had.
LEMMA CreatedTarget ==
  ASSUME DeviceAssumption, TargetsAligned, NEW d, DeviceInv(d), d.up,
         MayCreateRenderTarget(d), NEW x, NEW id, id = NewID(d, "surface")
  PROVE  /\ DeviceInv(CreateRenderTarget(d, x)) /\ CreateRenderTarget(d, x).up
         /\ Keeps(d, CreateRenderTarget(d, x), {})
         /\ id \notin d.used["surface"] /\ id # NoID
         /\ MayOwn(CreateRenderTarget(d, x), "surface", id)
         /\ CreateRenderTarget(d, x).at["surface"][id].data = x
<1> DEFINE e == Put(d, "texture", TargetTexture)
           f == CreateRenderTarget(d, x)
           s == TargetSurface(x, id)
<1>0. /\ "surface" \in Kinds /\ "texture" \in Kinds
      /\ BaseInv(d) /\ TargetInv(d)
  BY DEF Kinds, DeviceObjects, Reinitialized, DeviceInv
<1>1. /\ id # NoID /\ id = NewID(d, "texture") /\ id = NewID(e, "surface")
      /\ IsPut(d, e, "texture", id, TargetTexture)
      /\ ShapeInv(e) => IsPut(e, f, "surface", id, s)
  BY <1>0, CreatesTarget, Zenon
<1> HIDE DEF e, f, s
<1>2. /\ MayPut("texture", TargetTexture) /\ TargetTexture.usage = "System"
      /\ MayPut("surface", s) /\ s.texture = id /\ s.data = x
  BY SlotsOfTargets DEF s
<1>3. BaseInv(e) /\ e.up
  <2>1. BaseInv(e)
    BY <1>0, <1>1, <1>2, PutKeeps
  <2> QED
    BY <1>1, <2>1 DEF IsPut, SameShape
<1>4. IsPut(e, f, "surface", id, s)
  BY <1>1, <1>3 DEF BaseInv
<1>5. BaseInv(f)
  BY <1>0, <1>1, <1>2, <1>3, <1>4, PutKeeps
<1>6. /\ Keeps(d, e, {}) /\ id \notin d.used["texture"]
      /\ e.at["texture"][id] = TargetTexture /\ id \in e.used["texture"]
  BY <1>0, <1>1, PutSlots
<1>7. /\ Keeps(e, f, {}) /\ id \notin e.used["surface"]
      /\ f.at["surface"][id] = s /\ id \in f.used["surface"]
  BY <1>0, <1>1, <1>3, <1>4, PutSlots
<1>8. /\ e.used["surface"] = d.used["surface"] /\ e.at["surface"] = d.at["surface"]
      /\ f.used["texture"] = e.used["texture"] /\ f.at["texture"] = e.at["texture"]
      /\ e.used["texture"] = d.used["texture"] \cup {id}
      /\ f.used["surface"] = d.used["surface"] \cup {id}
  BY <1>0, <1>1, <1>4 DEF IsPut, SameTables
<1>9. id # 0
  BY <1>0, <1>7, <1>8 DEF TargetInv
<1>10. /\ \A i \in d.used["surface"] : f.at["surface"][i] = d.at["surface"][i]
       /\ \A i \in d.used["texture"] : f.at["texture"][i] = d.at["texture"][i]
       /\ f.at["texture"][id].usage = "System" /\ f.at["surface"][id].texture = id
  BY <1>0, <1>2, <1>6, <1>7, <1>8 DEF Keeps
<1>11. TargetInv(f)
  BY <1>0, <1>8, <1>9, <1>10 DEF TargetInv
<1>12. f.up
  BY <1>3, <1>7 DEF Keeps
<1>13. Keeps(d, f, {})
  <2>1. Keeps(d, f, {} \cup {})
    BY <1>6, <1>7, KeepsCompose
  <2>2. {} \cup {} = {}
    OBVIOUS
  <2> QED
    BY <2>1, <2>2
<1>14. MayOwn(f, "surface", id)
  BY <1>7, <1>9 DEF MayOwn
<1>15. f.at["surface"][id].data = x
  BY <1>2, <1>7
<1> QED
  BY <1>1, <1>5, <1>7, <1>8, <1>11, <1>12, <1>13, <1>14, <1>15 DEF DeviceInv, f

\* The larger of two numbers.
LEMMA MaxOfTwo ==
  ASSUME NEW a \in Int, NEW b \in Int
  PROVE  Max({a, b}) = IF a >= b THEN a ELSE b
<1> DEFINE c == IF a >= b THEN a ELSE b
           P(m) == m \in {a, b} /\ \A y \in {a, b} : m >= y
<1>1. P(c)
  OBVIOUS
<1>2. \A m : P(m) => m = c
  OBVIOUS
<1>3. Max({a, b}) = CHOOSE m : P(m)
  BY DEF Max
<1>4. P(CHOOSE m : P(m))
  BY <1>1, Zenon
<1> HIDE DEF P
<1> QED
  BY <1>2, <1>3, <1>4 DEF c

\* The divisors of a declaration are of streams.
LEMMA StreamsOf ==
  ASSUME DeviceAssumption, NEW e \in Declarations
  PROVE  DOMAIN Divisors(e) \subseteq Streams
<1> DEFINE S == {x[1] : x \in ToSet(e)}
           P(m) == m \in S /\ \A y \in S : m >= y
<1>1. e \in Seq(Streams \X Nat) /\ e # <<>>
  BY DEF DeviceAssumption
<1>2. \A x \in ToSet(e) : x \in Streams \X Nat
  BY <1>1 DEF ToSet
<1>3. S \subseteq {0, 1}
  BY <1>2 DEF Streams
<1>4. S # {}
  <2>1. 1 \in DOMAIN e
    BY <1>1
  <2>2. e[1] \in ToSet(e)
    BY <2>1 DEF ToSet
  <2> QED
    BY <2>2
<1> HIDE DEF S
<1>5. \E m : P(m)
  <2>1. CASE 1 \in S
    BY <1>3, <2>1
  <2>2. CASE 1 \notin S
    BY <1>3, <1>4, <2>2
  <2> QED
    BY <2>1, <2>2
<1>6. Max(S) = CHOOSE m : P(m)
  BY DEF Max
<1>7. P(CHOOSE m : P(m))
  BY <1>5, Zenon
<1>8. Max(S) \in {0, 1}
  BY <1>3, <1>6, <1>7
<1>9. DOMAIN Divisors(e) = 0 .. Max(S)
  BY DEF Divisors, S
<1> HIDE DEF P
<1> QED
  BY <1>8, <1>9 DEF Streams

\* What the creations put.
LEMMA CreatedSlots ==
  ASSUME DeviceAssumption, NEW x, NEW u \in {"Immutable", "Static", "Dynamic"}
  PROVE  /\ \A k \in Copied :
              LET s == [Vacant EXCEPT !.data = x] IN MayPut(k, s) /\ s.usage # "System"
         /\ \A k \in {"vs", "ps"} :
              LET s == [Vacant EXCEPT !.object = TRUE, !.data = x]
              IN MayPut(k, s) /\ s.usage # "System"
         /\ \A e \in Declarations :
              LET s == [Vacant EXCEPT !.object = TRUE, !.data = Divisors(e)]
              IN MayPut("decl", s) /\ s.usage # "System"
         /\ LET s == [Vacant EXCEPT !.object = TRUE, !.usage = u, !.data = x]
            IN MayPut("texture", s) /\ s.usage # "System"
<1> USE DEF Vacant, MayPut, IsSlot, DeviceObjects, Reinitialized, Copied, Plain, Buffers
<1>1. 0 \in 0 .. Total
  BY DEF DeviceAssumption
<1>2. \A k \in Copied :
        LET s == [Vacant EXCEPT !.data = x] IN MayPut(k, s) /\ s.usage # "System"
  BY <1>1
<1>3. \A k \in {"vs", "ps"} :
        LET s == [Vacant EXCEPT !.object = TRUE, !.data = x]
        IN MayPut(k, s) /\ s.usage # "System"
  BY <1>1
<1>4. ASSUME NEW e \in Declarations
      PROVE  LET s == [Vacant EXCEPT !.object = TRUE, !.data = Divisors(e)]
             IN MayPut("decl", s) /\ s.usage # "System"
  <2>1. DOMAIN Divisors(e) \subseteq Streams
    BY StreamsOf
  <2> DEFINE v == Divisors(e)
  <2> HIDE DEF v
  <2>2. DOMAIN v \subseteq Streams
    BY <2>1 DEF v
  <2>3. LET s == [Vacant EXCEPT !.object = TRUE, !.data = v]
        IN MayPut("decl", s) /\ s.usage # "System"
    BY <1>1, <2>2
  <2> QED
    BY <2>3 DEF v
<1>5. LET s == [Vacant EXCEPT !.object = TRUE, !.usage = u, !.data = x]
      IN MayPut("texture", s) /\ s.usage # "System"
  BY <1>1
<1> QED
  BY <1>2, <1>3, <1>4, <1>5

\* A constant buffer's memory changes no table.
LEMMA Allocates ==
  ASSUME NEW d, DeviceInv(d), d.up, d.memory + 1 < MemorySize, DeviceAssumption
  PROVE  /\ DeviceInv(AllocateMemory(d)) /\ AllocateMemory(d).up
         /\ Keeps(d, AllocateMemory(d), {})
         /\ \A k \in Kinds : /\ NewID(AllocateMemory(d), k) = NewID(d, k)
                             /\ AllocateMemory(d).used[k] = d.used[k]
<1> DEFINE e == AllocateMemory(d)
<1>1. d.memory \in Nat /\ MemorySize \in Nat /\ d.memory + 1 \in 0 .. MemorySize
  BY DEF DeviceInv, BaseInv, ShapeInv, DeviceAssumption
<1>2. /\ DOMAIN e = DOMAIN d /\ e.memory = d.memory + 1
      /\ e.up = d.up /\ e.used = d.used /\ e.free = d.free /\ e.top = d.top
      /\ e.alive = d.alive /\ e.at = d.at /\ e.bound = d.bound /\ e.freq = d.freq
      /\ e.points = d.points /\ e.drawn = d.drawn
  BY DEF AllocateMemory, DeviceInv, BaseInv, ShapeInv
<1> HIDE DEF e
<1>3. ShapeInv(e)
  BY <1>1, <1>2 DEF DeviceInv, BaseInv, ShapeInv
<1>4. TableInv(e)
  BY <1>2 DEF DeviceInv, BaseInv, TableInv, Owned
<1>5. DeclInv(e)
  BY <1>2 DEF DeviceInv, BaseInv, DeclInv
<1>6. TargetInv(e)
  BY <1>2 DEF DeviceInv, TargetInv
<1>7. Keeps(d, e, {})
  BY <1>2 DEF Keeps
<1> QED
  BY <1>2, <1>3, <1>4, <1>5, <1>6, <1>7 DEF DeviceInv, BaseInv, NewID, e

\* CreateBuffer and CreateTexture.
LEMMA CreatedFilled ==
  ASSUME DeviceAssumption, NEW d, DeviceInv(d), d.up,
         NEW k \in Buffers \cup {"cb", "texture"}, NEW u, NEW x, Creatable(u, x),
         MayCreateBuffer(d, k), NEW e,
         e = IF k = "texture" THEN CreateTexture(d, u, x) ELSE CreateBuffer(d, k, u, x)
  PROVE  /\ DeviceInv(e) /\ e.up /\ Keeps(d, e, {})
         /\ NewID(d, k) # NoID /\ NewID(d, k) \notin d.used[k] /\ MayOwn(e, k, NewID(d, k))
         /\ k # "texture" => e.at[k][NewID(d, k)].data = x
         /\ e.at[k][NewID(d, k)].usage = u
<1>0. /\ k \in Kinds \ {"surface"} /\ NewID(d, k) # NoID
      /\ u \in {"Immutable", "Static", "Dynamic"}
      /\ k = "cb" => d.memory + 1 < MemorySize
  BY DEF MayCreateBuffer, Creatable, Kinds, DeviceObjects, Reinitialized, Buffers, Copied
<1>1. CASE k = "texture"
  <2> DEFINE s == [Vacant EXCEPT !.object = TRUE, !.usage = u, !.data = Levels(x)]
  <2>0. 0 \in 0 .. Total
    BY DEF DeviceAssumption
  <2>1. MayPut(k, s) /\ s.usage # "System" /\ s.usage = u
    BY <1>0, <1>1, <2>0, CreatedSlots DEF Vacant
  <2>2. e = Put(d, k, s)
    BY <1>1 DEF CreateTexture
  <2> HIDE DEF s
  <2>3. /\ DeviceInv(e) /\ e.up /\ Keeps(d, e, {}) /\ NewID(d, k) \notin d.used[k]
        /\ NewID(d, k) \in e.used[k] /\ e.at[k][NewID(d, k)] = s
    BY <1>0, <2>1, <2>2, Created
  <2> QED
    BY <1>0, <1>1, <2>1, <2>3 DEF MayOwn
<1>2. CASE k # "texture"
  <2> DEFINE count == IF k = "cb" \/ x = Unfilled THEN 0 ELSE Total
             s == [Vacant EXCEPT !.object = k # "cb", !.usage = u, !.data = x, !.count = count]
             c == IF k = "cb" THEN AllocateMemory(d) ELSE d
  <2>1. count \in 0 .. Total
    BY DEF DeviceAssumption
  <2>2. e = Put(c, k, s)
    BY <1>2 DEF CreateBuffer
  <2>3. s.usage = u /\ s.data = x
    BY DEF Vacant
  <2>4. MayPut(k, s) /\ s.usage # "System"
    <3> HIDE DEF count
    <3> QED
      BY <1>0, <1>2, <2>1 DEF Vacant, MayPut, IsSlot, DeviceObjects, Reinitialized, Buffers
  <2> HIDE DEF s, count
  <2>5. /\ DeviceInv(c) /\ c.up /\ Keeps(d, c, {})
        /\ NewID(c, k) = NewID(d, k) /\ c.used[k] = d.used[k]
    <3>1. CASE k = "cb"
      BY <1>0, <3>1, Allocates
    <3>2. CASE k # "cb"
      BY <3>2 DEF Keeps
    <3> QED
      BY <3>1, <3>2
  <2> HIDE DEF c
  <2>6. NewID(c, k) # NoID
    BY <1>0, <2>5
  <2>7. /\ DeviceInv(e) /\ e.up /\ Keeps(c, e, {}) /\ NewID(c, k) \notin c.used[k]
        /\ NewID(c, k) \in e.used[k] /\ e.at[k][NewID(c, k)] = s
    BY <1>0, <2>2, <2>4, <2>5, <2>6, Created
  <2>8. Keeps(d, e, {})
    <3>1. Keeps(d, e, {} \cup {})
      BY <2>5, <2>7, KeepsCompose
    <3>2. {} \cup {} = {}
      OBVIOUS
    <3> QED
      BY <3>1, <3>2
  <2> QED
    BY <1>0, <1>2, <2>3, <2>5, <2>7, <2>8 DEF MayOwn
<1> QED
  BY <1>1, <1>2

------------------------------------------------------------------------------
(* Fills                                                                     *)

\* A slot replaced in its table is an update.
LEMMA Replaces ==
  ASSUME NEW d, ShapeInv(d), NEW k \in Kinds, NEW id, NEW s,
         NEW e, e = [d EXCEPT !.at[k][id] = s]
  PROVE  IsUpdate(d, e, k, id, s)
<1>1. /\ DOMAIN e = DOMAIN d /\ e.at = [d.at EXCEPT ![k] = [d.at[k] EXCEPT ![id] = s]]
      /\ e.up = d.up /\ e.used = d.used /\ e.free = d.free /\ e.top = d.top
      /\ e.alive = d.alive /\ e.bound = d.bound /\ e.freq = d.freq
      /\ e.memory = d.memory /\ e.points = d.points /\ e.drawn = d.drawn
  BY DEF ShapeInv
<1>2. DOMAIN d.at = Kinds
  BY DEF ShapeInv
<1> DEFINE A == [d.at[k] EXCEPT ![id] = s]
<1>3. e.at = [d.at EXCEPT ![k] = A]
  BY <1>1
<1> HIDE DEF A
<1>4. DOMAIN e.at = Kinds /\ e.at[k] = A /\ \A j \in Kinds \ {k} : e.at[j] = d.at[j]
  BY <1>2, <1>3
<1> QED
  BY <1>1, <1>4 DEF IsUpdate, SameShape, SameTables, ShapeInv, A

\* d with the data x and the count n in a slot.
Refilled(d, k, id, x, n) ==
  [d EXCEPT !.at[k][id] = [d.at[k][id] EXCEPT !.data = x, !.count = n]]

\* Every fill keeps the device's invariant and the other slots.
LEMMA Refills ==
  ASSUME DeviceAssumption, NEW d, DeviceInv(d), d.up, NEW k \in Kinds, k # "decl",
         NEW id \in d.used[k], NEW x, NEW n \in 0 .. Total
  PROVE  /\ DeviceInv(Refilled(d, k, id, x, n)) /\ Refilled(d, k, id, x, n).up
         /\ Keeps(d, Refilled(d, k, id, x, n), {<<k, id>>})
         /\ id \in Refilled(d, k, id, x, n).used[k]
         /\ Refilled(d, k, id, x, n).at[k][id].data = x
         /\ Refilled(d, k, id, x, n).at[k][id].usage = d.at[k][id].usage
<1> DEFINE e == Refilled(d, k, id, x, n)
<1> DEFINE s == [d.at[k][id] EXCEPT !.data = x, !.count = n]
<1>1. IsSlot(d.at[k][id])
  <2>1. id \in 0 .. Size[k] - 1
    BY InUse DEF DeviceInv, BaseInv
  <2> QED
    BY <2>1 DEF DeviceInv, BaseInv, ShapeInv
<1>2. IsSlot(s) /\ Alike(s, d.at[k][id]) /\ s.data = x /\ s.usage = d.at[k][id].usage
  BY <1>1 DEF IsSlot, Alike
<1>3. e = [d EXCEPT !.at[k][id] = s]
  BY Zenon DEF Refilled
<1> HIDE DEF s, e
<1>4. IsUpdate(d, e, k, id, s)
  BY <1>3, Replaces DEF DeviceInv, BaseInv
<1>5. /\ DeviceInv(e) /\ e.up /\ Keeps(d, e, {<<k, id>>})
      /\ \A j \in Kinds : e.used[j] = d.used[j]
      /\ e.at[k][id] = s
  <2>1. DeviceInv(e) /\ e.up /\ Keeps(d, e, {<<k, id>>})
    BY <1>2, <1>4, Updated
  <2>2. \A j \in Kinds : e.used[j] = d.used[j]
    BY <1>4 DEF IsUpdate, SameTables
  <2>3. e.at[k][id] = s
    <3>1. id \in DOMAIN d.at[k]
      BY SlotDomain DEF DeviceInv
    <3> QED
      BY <1>4, <3>1 DEF IsUpdate
  <2> QED
    BY <2>1, <2>2, <2>3
<1> QED
  BY <1>2, <1>5 DEF e

\* What an id in use has is a slot.
LEMMA SlotInUse ==
  ASSUME DeviceAssumption, NEW d, DeviceInv(d), NEW k \in Kinds, NEW id \in d.used[k]
  PROVE  IsSlot(d.at[k][id])
<1>1. id \in 0 .. Size[k] - 1
  BY InUse DEF DeviceInv, BaseInv
<1> QED
  BY <1>1 DEF DeviceInv, BaseInv, ShapeInv

\* A fill of the data alone keeps the count.
LEMMA DataFilled ==
  ASSUME NEW s, IsSlot(s), NEW x
  PROVE  [s EXCEPT !.data = x] = [s EXCEPT !.data = x, !.count = s.count]
<1> DEFINE a == [s EXCEPT !.data = x]
           n == s.count
<1>1. DOMAIN s = {"object", "usage", "data", "texture", "count"}
  BY DEF IsSlot
<1>2. a.count = n
  BY <1>1
<1>3. a = [f \in DOMAIN a |-> a[f]]
  OBVIOUS
<1>4. [a EXCEPT !.count = n] = [f \in DOMAIN a |-> IF f = "count" THEN n ELSE a[f]]
  BY <1>3
<1> HIDE DEF a, n
<1>5. [a EXCEPT !.count = n] = a
  BY <1>2, <1>3, <1>4
<1> QED
  BY <1>5, Zenon DEF a, n

\* A fill of the data is a refill.
LEMMA FillsData ==
  ASSUME DeviceAssumption, NEW d, DeviceInv(d), NEW k \in Kinds, NEW id \in d.used[k], NEW x
  PROVE  \E n \in 0 .. Total : [d EXCEPT !.at[k][id].data = x] = Refilled(d, k, id, x, n)
<1> DEFINE s == d.at[k][id]
<1>1. IsSlot(s)
  BY SlotInUse
<1>2. [s EXCEPT !.data = x] = [s EXCEPT !.data = x, !.count = s.count]
  BY <1>1, DataFilled
<1>3. s.count \in 0 .. Total
  BY <1>1 DEF IsSlot
<1>4. [d EXCEPT !.at[k][id].data = x] = [d EXCEPT !.at[k][id] = [s EXCEPT !.data = x]]
  OBVIOUS
<1>5. [d EXCEPT !.at[k][id].data = x] = Refilled(d, k, id, x, s.count)
  BY <1>2, <1>4, Zenon DEF Refilled
<1> QED
  BY <1>3, <1>5

\* A fill of a buffer is a refill.
LEMMA FillsBuffer ==
  ASSUME DeviceAssumption, NEW d, DeviceInv(d), NEW k \in Buffers \cup {"cb"},
         NEW id \in d.used[k], NEW x, NEW end \in 0 .. Total
  PROVE  \E n \in 0 .. Total : FillBuffer(d, k, id, end, x) = Refilled(d, k, id, x, n)
<1>0. k \in Kinds
  BY DEF Kinds, DeviceObjects, Reinitialized, Copied, Buffers
<1> DEFINE s == d.at[k][id]
           n == IF s.count >= end THEN s.count ELSE end
<1>1. IsSlot(s)
  BY <1>0, SlotInUse
<1>2. s.count \in 0 .. Total /\ Total \in Nat
  BY <1>1 DEF IsSlot, DeviceAssumption
<1>3. Max({s.count, end}) = n
  BY <1>2, MaxOfTwo
<1>4. n \in 0 .. Total
  BY <1>2
<1>5. CASE k \in Buffers
  <2> DEFINE m == Max({s.count, end})
  <2>1. FillBuffer(d, k, id, end, x) = [d EXCEPT !.at[k][id] = [s EXCEPT !.data = x, !.count = m]]
    <3>1. CASE k = "vb"
      <4>1. FillBuffer(d, "vb", id, end, x) = FillVertexBuffer(d, id, end, x)
        BY DEF FillBuffer
      <4>2. FillVertexBuffer(d, id, end, x) =
              [d EXCEPT !.at["vb"][id] =
                 [d.at["vb"][id] EXCEPT !.data = x, !.count = Max({d.at["vb"][id].count, end})]]
        BY Zenon DEF FillVertexBuffer
      <4> QED
        BY <3>1, <4>1, <4>2, Zenon
    <3>2. CASE k = "ib"
      <4>1. FillBuffer(d, "ib", id, end, x) = FillIndexBuffer(d, id, end, x)
        BY DEF FillBuffer
      <4>2. FillIndexBuffer(d, id, end, x) =
              [d EXCEPT !.at["ib"][id] =
                 [d.at["ib"][id] EXCEPT !.data = x, !.count = Max({d.at["ib"][id].count, end})]]
        BY Zenon DEF FillIndexBuffer
      <4> QED
        BY <3>2, <4>1, <4>2, Zenon
    <3> QED
      BY <1>5, <3>1, <3>2 DEF Buffers
  <2> HIDE DEF n
  <2>3. FillBuffer(d, k, id, end, x) = Refilled(d, k, id, x, n)
    BY <1>3, <2>1, Zenon DEF Refilled
  <2> QED
    BY <1>4, <2>3
<1>6. CASE k = "cb"
  <2>1. FillBuffer(d, k, id, end, x) = [d EXCEPT !.at[k][id].data = x]
    BY <1>6 DEF FillBuffer, FillConstantBuffer
  <2>2. \E m \in 0 .. Total : [d EXCEPT !.at[k][id].data = x] = Refilled(d, k, id, x, m)
    BY <1>0, FillsData, SMTT(40)
  <2> QED
    BY <2>1, <2>2, Zenon
<1> QED
  BY <1>5, <1>6

------------------------------------------------------------------------------
(* Initialize and Terminate                                                  *)

\* No ids at the start.
LEMMA NoIds ==
  ASSUME NEW N \in Nat
  PROVE  Ids({}, <<>>, 0, N)
<1>1. ToSet(<<>>) = {}
  BY DEF ToSet
<1>2. <<>> \in Seq(Int) /\ DOMAIN <<>> = {}
  OBVIOUS
<1> QED
  BY <1>1, <1>2 DEF Ids

\* A vacant slot is a slot without an object.
LEMMA VacantSlot ==
  ASSUME DeviceAssumption
  PROVE  IsSlot(Vacant) /\ ~Vacant.object /\ Vacant.texture = NoID
BY DEF Vacant, IsSlot, DeviceAssumption

\* The device before Initialize.
LEMMA FreshBase ==
  ASSUME DeviceAssumption
  PROVE  BaseInv(Fresh) /\ ~Fresh.up
<1>1. ShapeInv(Fresh)
  <2>1. 0 \in 0 .. MemorySize /\ 0 \in 0 .. Total
    BY DEF DeviceAssumption
  <2> QED
    BY <2>1, VacantSlot DEF Fresh, ShapeInv
<1>2. \A k \in Kinds : /\ Fresh.used[k] = {} /\ Fresh.free[k] = <<>> /\ Fresh.top[k] = 0
                       /\ Fresh.alive[k] = 0 /\ Size[k] \in Nat
                       /\ \A i \in 0 .. Size[k] - 1 : Fresh.at[k][i] = Vacant
  BY DEF Fresh, DeviceAssumption
<1>3. TableInv(Fresh)
  <2> SUFFICES ASSUME NEW k \in Kinds
               PROVE  /\ Ids(Fresh.used[k], Fresh.free[k], Fresh.top[k], Size[k])
                      /\ \A i \in 0 .. Size[k] - 1 : Fresh.at[k][i].object <=> i \in Owned(Fresh, k)
                      /\ Fresh.alive[k] = Cardinality(Owned(Fresh, k))
    BY DEF TableInv
  <2>1. Owned(Fresh, k) = {}
    BY <1>2 DEF Owned
  <2>2. Ids(Fresh.used[k], Fresh.free[k], Fresh.top[k], Size[k])
    BY <1>2, NoIds
  <2>3. Cardinality(Owned(Fresh, k)) = 0
    BY <2>1, FS_EmptySet
  <2> QED
    BY <1>2, <2>1, <2>2, <2>3, VacantSlot
<1>4. DeclInv(Fresh)
  BY DEF DeclInv, Fresh, AllPoints, Kinds, DeviceObjects
<1>5. ~Fresh.up
  BY DEF Fresh
<1> QED
  BY <1>1, <1>3, <1>4, <1>5 DEF BaseInv

\* The tables that Initialize clears.
Cleared(d) ==
  LET clear(f, x) == [k \in Kinds |-> IF k \in Reinitialized THEN x ELSE f[k]]
  IN [d EXCEPT !.used = clear(@, {}), !.free = clear(@, <<>>),
               !.top = clear(@, 0), !.memory = 0, !.points = 0,
               !.stream = NoID, !.up = TRUE]

BackBufferSlot == [Vacant EXCEPT !.object = TRUE, !.data = BackBuffer]

\* The tables that Initialize clears.
LEMMA ClearedBase ==
  ASSUME DeviceAssumption, NEW d, BaseInv(d), ~d.up, NEW e, e = Cleared(d)
  PROVE  BaseInv(e) /\ e.up /\ \A k \in Reinitialized :
           e.used[k] = {} /\ e.free[k] = <<>> /\ e.top[k] = 0
<1>0. DOMAIN d = {"up", "used", "free", "top", "alive", "at", "bound", "freq", "memory",
                 "points", "stream", "drawn"}
  BY DEF BaseInv, ShapeInv
<1>1. /\ DOMAIN e = DOMAIN d /\ e.up = TRUE
      /\ e.used = [k \in Kinds |-> IF k \in Reinitialized THEN {} ELSE d.used[k]]
      /\ e.free = [k \in Kinds |-> IF k \in Reinitialized THEN <<>> ELSE d.free[k]]
      /\ e.top = [k \in Kinds |-> IF k \in Reinitialized THEN 0 ELSE d.top[k]]
      /\ e.memory = 0 /\ e.points = 0
      /\ e.alive = d.alive /\ e.at = d.at /\ e.bound = d.bound /\ e.freq = d.freq
      /\ e.drawn = d.drawn
  BY <1>0 DEF Cleared
<1>2. ShapeInv(e)
  <2>1. 0 \in 0 .. MemorySize
    BY DEF DeviceAssumption
  <2> QED
    BY <1>1, <2>1 DEF BaseInv, ShapeInv
<1>3. Reinitialized \subseteq Kinds
  BY DEF Kinds, DeviceObjects
<1>4. TableInv(e)
  <2> SUFFICES ASSUME NEW k \in Kinds
               PROVE  /\ Ids(e.used[k], e.free[k], e.top[k], Size[k])
                      /\ \A i \in 0 .. Size[k] - 1 : e.at[k][i].object <=> i \in Owned(e, k)
                      /\ e.alive[k] = Cardinality(Owned(e, k))
    BY DEF TableInv
  <2>1. Owned(e, k) = Owned(d, k)
    BY <1>1 DEF Owned
  <2>2. Ids(e.used[k], e.free[k], e.top[k], Size[k])
    <3>1. CASE k \in Reinitialized
      <4>1. Ids({}, <<>>, 0, Size[k])
        BY NoIds DEF DeviceAssumption
      <4> QED
        BY <1>1, <3>1, <4>1
    <3>2. CASE k \notin Reinitialized
      BY <1>1, <3>2 DEF BaseInv, TableInv
    <3> QED
      BY <3>1, <3>2
  <2> QED
    BY <1>1, <2>1, <2>2 DEF BaseInv, TableInv
<1>5. DeclInv(e)
  <2>1. e.used["decl"] = d.used["decl"]
    BY <1>1 DEF Kinds, DeviceObjects, Reinitialized, Buffers
  <2>2. e.at = d.at /\ e.bound = d.bound /\ e.freq = d.freq
    BY <1>1
  <2>3. DeclInv(d)
    BY DEF BaseInv
  <2> QED
    BY <2>1, <2>2, <2>3 DEF DeclInv
<1> QED
  BY <1>1, <1>2, <1>3, <1>4, <1>5 DEF BaseInv

\* Initialize sets the invariant up: the back buffer is the first surface.
LEMMA InitializedInv ==
  ASSUME DeviceAssumption, NEW d, BaseInv(d), ~d.up
  PROVE  DeviceInv(Initialized(d)) /\ Initialized(d).up
<1> DEFINE c == Cleared(d)
           e == Initialized(d)
           s == BackBufferSlot
<1>1. e = Put(c, "surface", s)
  BY DEF Initialized, Cleared, BackBufferSlot
<1>2. /\ BaseInv(c) /\ c.up
      /\ \A k \in Reinitialized : c.used[k] = {} /\ c.free[k] = <<>> /\ c.top[k] = 0
  BY ClearedBase
<1>3. "surface" \in Kinds /\ "texture" \in Kinds /\ {"surface", "texture"} \subseteq Reinitialized
  BY DEF Kinds, DeviceObjects, Reinitialized
<1> HIDE DEF c, e
<1>4. NewID(c, "surface") = 0
  <2>1. c.free["surface"] = <<>> /\ c.top["surface"] = 0
    BY <1>2, <1>3
  <2>2. Size["surface"] > 0
    BY DEF DeviceAssumption
  <2> QED
    BY <2>1, <2>2 DEF NewID
<1>5. IsPut(c, e, "surface", 0, s)
  BY <1>1, <1>2, <1>3, <1>4, Puts DEF BaseInv
<1>6. MayPut("surface", s) /\ s.texture = NoID
  BY DEF BackBufferSlot, Vacant, MayPut, IsSlot, DeviceObjects, Reinitialized, DeviceAssumption
<1> HIDE DEF s
<1>7. BaseInv(e)
  BY <1>2, <1>3, <1>4, <1>5, <1>6, PutKeeps DEF NoID
<1>8. e.at["surface"][0] = s
  <2>1. DOMAIN c.at["surface"] = 0 .. Size["surface"] - 1
    BY <1>2, <1>3 DEF BaseInv, ShapeInv
  <2>2. 0 \in DOMAIN c.at["surface"]
    BY <1>3, <2>1 DEF DeviceAssumption
  <2> QED
    BY <1>5, <2>2 DEF IsPut
<1>9. e.used["surface"] = {0} /\ e.used["texture"] = {}
  BY <1>2, <1>3, <1>5 DEF IsPut, SameTables
<1>10. TargetInv(e)
  BY <1>6, <1>8, <1>9 DEF TargetInv
<1>11. e.up
  BY <1>2, <1>5 DEF IsPut, SameShape
<1> QED
  BY <1>7, <1>10, <1>11 DEF DeviceInv, e

\* Terminate keeps it once the clients have released the shaders and declarations.
LEMMA TerminatedInv ==
  ASSUME DeviceAssumption, NEW d, DeviceInv(d), d.up,
         \A k \in DeviceObjects \ Reinitialized : d.used[k] = {}
  PROVE  DeviceInv(Terminated(d))
<1> DEFINE e == Terminated(d)
           owned(k) == {i \in d.used[k] : d.at[k][i].object}
<1>0. BaseInv(d)
  BY DEF DeviceInv
<1>1. /\ DOMAIN e = DOMAIN d /\ e.up = FALSE
      /\ e.at = [k \in Kinds |-> [i \in 0 .. Size[k] - 1 |->
                  IF k \in Reinitialized /\ i \in d.used[k]
                  THEN Released(k, d.at[k][i]) ELSE d.at[k][i]]]
      /\ e.alive = [k \in Kinds |-> IF k \in Reinitialized
                     THEN d.alive[k] - Cardinality(owned(k)) ELSE d.alive[k]]
      /\ e.bound = [p \in AllPoints |-> NoID]
      /\ e.freq = [s \in Streams |-> 0]
      /\ e.used = d.used /\ e.free = d.free /\ e.top = d.top
      /\ e.memory = d.memory /\ e.points = d.points /\ e.drawn = d.drawn
  BY <1>0 DEF Terminated, BaseInv, ShapeInv
<1> HIDE DEF e, owned
<1>2. \A k \in Kinds : /\ DOMAIN e.at[k] = 0 .. Size[k] - 1
                       /\ \A i \in 0 .. Size[k] - 1 :
                            e.at[k][i] = IF k \in Reinitialized /\ i \in d.used[k]
                                         THEN Released(k, d.at[k][i]) ELSE d.at[k][i]
  BY <1>1
<1>3. ShapeInv(e)
  <2>1. \A k \in Kinds : \A i \in 0 .. Size[k] - 1 : IsSlot(e.at[k][i])
    <3> SUFFICES ASSUME NEW k \in Kinds, NEW i \in 0 .. Size[k] - 1
                 PROVE  IsSlot(e.at[k][i])
      OBVIOUS
    <3>1. IsSlot(d.at[k][i])
      BY <1>0 DEF BaseInv, ShapeInv
    <3>2. i \in d.used[k] => IsSlot(Released(k, d.at[k][i]))
      BY <1>0, ReleasedSlot
    <3> QED
      BY <1>2, <3>1, <3>2
  <2>2. DOMAIN e.bound = AllPoints /\ e.freq = [s \in Streams |-> e.freq[s]]
    BY <1>1
  <2>3. DOMAIN e.at = Kinds /\ DOMAIN e.alive = Kinds
    BY <1>1
  <2> QED
    BY <1>0, <1>1, <1>2, <2>1, <2>2, <2>3 DEF BaseInv, ShapeInv
<1>4. TableInv(e)
  <2> SUFFICES ASSUME NEW k \in Kinds
               PROVE  /\ Ids(e.used[k], e.free[k], e.top[k], Size[k])
                      /\ \A i \in 0 .. Size[k] - 1 : e.at[k][i].object <=> i \in Owned(e, k)
                      /\ e.alive[k] = Cardinality(Owned(e, k))
    BY DEF TableInv
  <2>1. /\ Ids(d.used[k], d.free[k], d.top[k], Size[k])
        /\ \A i \in 0 .. Size[k] - 1 : d.at[k][i].object <=> i \in Owned(d, k)
        /\ d.alive[k] = Cardinality(Owned(d, k))
    BY <1>0 DEF BaseInv, TableInv
  <2>2. CASE k \in Reinitialized
    <3>1. Owned(e, k) = {} /\ Owned(d, k) = d.used[k] /\ k \in DeviceObjects
      BY <1>1, <2>2 DEF Owned, DeviceObjects
    <3>2. \A i \in 0 .. Size[k] - 1 : ~e.at[k][i].object
      <4> SUFFICES ASSUME NEW i \in 0 .. Size[k] - 1 PROVE ~e.at[k][i].object
        OBVIOUS
      <4>1. CASE i \in d.used[k]
        <5>1. ~Released(k, d.at[k][i]).object
          BY <1>0, <4>1, ReleasedSlot
        <5> QED
          BY <1>2, <2>2, <4>1, <5>1
      <4>2. CASE i \notin d.used[k]
        BY <1>2, <2>1, <3>1, <4>2
      <4> QED
        BY <4>1, <4>2
    <3>3. owned(k) = d.used[k]
      <4>1. \A i \in d.used[k] : i \in 0 .. Size[k] - 1
        BY <1>0, InUse DEF BaseInv
      <4> QED
        BY <2>1, <3>1, <4>1 DEF owned
    <3>4. e.alive[k] = Cardinality(d.used[k]) - Cardinality(d.used[k])
      BY <1>1, <2>1, <2>2, <3>1, <3>3
    <3>5. Cardinality(d.used[k]) \in Nat
      BY <2>1, IdsCount DEF DeviceAssumption
    <3>6. e.alive[k] = 0 /\ Cardinality(Owned(e, k)) = 0
      BY <3>1, <3>4, <3>5, FS_EmptySet
    <3> QED
      BY <1>1, <2>1, <3>1, <3>2, <3>6
  <2>3. CASE k \notin Reinitialized
    <3>1. Owned(e, k) = Owned(d, k)
      BY <1>1, <2>3 DEF Owned
    <3> QED
      BY <1>1, <1>2, <2>1, <2>3, <3>1
  <2> QED
    BY <2>2, <2>3
<1>5. DeclInv(e)
  <2>1. d.used["decl"] = {}
    BY DEF DeviceObjects, Reinitialized, Buffers
  <2>2. Points["decl"] \subseteq AllPoints
    BY DEF AllPoints, Kinds, DeviceObjects
  <2> QED
    BY <1>1, <2>1, <2>2 DEF DeclInv
<1> QED
  BY <1>1, <1>3, <1>4, <1>5 DEF DeviceInv, BaseInv, e

------------------------------------------------------------------------------
(* What the invariant implies                                                *)

\* The invariant gives what the run checks of the slots.
LEMMA SlotsFollow ==
  ASSUME DeviceAssumption, DeviceInv(dev)
  PROVE  DeviceSlots
<1> SUFFICES ASSUME dev.up
             PROVE
    /\ \A k \in Kinds :
         /\ dev.used[k] \cup ToSet(dev.free[k]) = 0 .. dev.top[k] - 1
         /\ Cardinality(dev.used[k]) + Len(dev.free[k]) = dev.top[k]
         /\ dev.alive[k] = Cardinality({i \in DOMAIN dev.at[k] : dev.at[k][i].object})
         /\ k \in DeviceObjects => \A i \in DOMAIN dev.at[k] :
                               dev.at[k][i].object <=> i \in dev.used[k]
    /\ \A t \in dev.used["texture"] : dev.at["texture"][t].usage = "System" <=>
         Cardinality({s \in dev.used["surface"] : dev.at["surface"][s].texture = t}) = 1
    /\ \A s \in dev.used["surface"] : s # 0 =>
         dev.at["surface"][s].texture \in dev.used["texture"]
    /\ \A p \in Points["decl"] : dev.bound[p] >= 0 =>
         LET divisors == dev.at["decl"][dev.bound[p]].data
         IN \A s \in DOMAIN divisors : dev.freq[s] = divisors[s]
  BY DEF DeviceSlots
<1>0. BaseInv(dev) /\ TargetInv(dev)
  BY DEF DeviceInv
<1>1. ASSUME NEW k \in Kinds
      PROVE  /\ dev.used[k] \cup ToSet(dev.free[k]) = 0 .. dev.top[k] - 1
             /\ Cardinality(dev.used[k]) + Len(dev.free[k]) = dev.top[k]
             /\ dev.alive[k] = Cardinality({i \in DOMAIN dev.at[k] : dev.at[k][i].object})
             /\ k \in DeviceObjects => \A i \in DOMAIN dev.at[k] :
                                   dev.at[k][i].object <=> i \in dev.used[k]
  <2>1. /\ Ids(dev.used[k], dev.free[k], dev.top[k], Size[k]) /\ Size[k] \in Nat
        /\ \A i \in 0 .. Size[k] - 1 : dev.at[k][i].object <=> i \in Owned(dev, k)
        /\ dev.alive[k] = Cardinality(Owned(dev, k))
        /\ DOMAIN dev.at[k] = 0 .. Size[k] - 1
    BY <1>0 DEF BaseInv, TableInv, ShapeInv, DeviceAssumption
  <2>2. \A i \in dev.used[k] : i \in 0 .. Size[k] - 1
    BY <1>0, InUse DEF BaseInv
  <2>3. /\ Owned(dev, k) \subseteq dev.used[k]
        /\ k \in DeviceObjects => Owned(dev, k) = dev.used[k]
    BY DEF Owned
  <2>4. {i \in DOMAIN dev.at[k] : dev.at[k][i].object} = Owned(dev, k)
    BY <2>1, <2>2, <2>3
  <2>5. Cardinality(dev.used[k]) + Len(dev.free[k]) = dev.top[k]
    BY <2>1, IdsCount
  <2>6. dev.used[k] \cup ToSet(dev.free[k]) = 0 .. dev.top[k] - 1
    BY <2>1 DEF Ids
  <2> QED
    BY <2>1, <2>3, <2>4, <2>5, <2>6
<1>2. ASSUME NEW t \in dev.used["texture"]
      PROVE  dev.at["texture"][t].usage = "System" <=>
               Cardinality({s \in dev.used["surface"] : dev.at["surface"][s].texture = t}) = 1
  <2> DEFINE S == {s \in dev.used["surface"] : dev.at["surface"][s].texture = t}
  <2>1. t # NoID
    <3>1. t \in 0 .. Size["texture"] - 1 /\ Size["texture"] \in Nat
      BY <1>0, InUse DEF BaseInv, Kinds, DeviceObjects, Reinitialized
    <3> QED
      BY <3>1 DEF NoID
  <2>2. CASE t \in dev.used["surface"] \ {0}
    <3>1. S = {t}
      BY <1>0, <2>1, <2>2 DEF TargetInv
    <3>2. Cardinality(S) = 1
      BY <3>1, FS_Singleton
    <3> QED
      BY <1>0, <2>2, <3>2 DEF TargetInv
  <2>3. CASE t \notin dev.used["surface"] \ {0}
    <3>1. S = {}
      BY <1>0, <2>1, <2>3 DEF TargetInv
    <3>2. Cardinality(S) = 0
      BY <3>1, FS_EmptySet
    <3> QED
      BY <1>0, <2>3, <3>2 DEF TargetInv
  <2> QED
    BY <2>2, <2>3
<1>3. \A s \in dev.used["surface"] : s # 0 =>
        dev.at["surface"][s].texture \in dev.used["texture"]
  BY <1>0 DEF TargetInv
<1>4. ASSUME NEW p \in Points["decl"], dev.bound[p] >= 0
      PROVE  \A s \in DOMAIN dev.at["decl"][dev.bound[p]].data :
               dev.freq[s] = dev.at["decl"][dev.bound[p]].data[s]
  <2>1. dev.bound[p] \notin {NoID, Gone}
    BY <1>4 DEF NoID, Gone
  <2> QED
    BY <1>0, <2>1 DEF BaseInv, DeclInv
<1> QED
  BY <1>1, <1>2, <1>3, <1>4

\* And the types.
LEMMA TypesFollow ==
  ASSUME DeviceAssumption, DeviceInv(dev)
  PROVE  DeviceTypeOK
<1>0. BaseInv(dev)
  BY DEF DeviceInv
<1>1. ASSUME NEW k \in Kinds
      PROVE  /\ dev.used[k] \subseteq 0 .. Size[k] - 1 /\ dev.top[k] \in 0 .. Size[k]
             /\ \A id \in dev.used[k] : dev.at[k][id].count \in 0 .. Total
  <2>1. \A id \in dev.used[k] : id \in 0 .. Size[k] - 1
    BY <1>0, InUse DEF BaseInv
  <2>2. \A id \in 0 .. Size[k] - 1 : dev.at[k][id].count \in 0 .. Total
    BY <1>0 DEF BaseInv, ShapeInv, IsSlot
  <2>3. dev.top[k] \in 0 .. Size[k]
    BY <1>0 DEF BaseInv, TableInv, Ids
  <2> QED
    BY <2>1, <2>2, <2>3
<1>2. /\ dev.memory \in 0 .. MemorySize /\ dev.drawn \in 0 .. Total
      /\ dev.points \in DrawPoints \cup {0}
  BY <1>0 DEF BaseInv, ShapeInv
<1> QED
  BY <1>1, <1>2 DEF DeviceTypeOK

------------------------------------------------------------------------------
(* The steps of the device                                                   *)

\* Creations of view ports, states and shaders.
LEMMA CreateInv ==
  ASSUME DeviceAssumption, DeviceInv(dev), dev.up,
         NEW k \in {"viewport", "blend", "sampler", "vs", "ps"}, NEW x, Create(k, x)
  PROVE  DeviceInv(dev')
<1>0. k \in Kinds \ {"surface"} /\ NewID(dev, k) # NoID
  BY DEF Kinds, DeviceObjects, Reinitialized, Copied, Plain, Create
<1>1. CASE k \in Copied
  <2> DEFINE s == [Vacant EXCEPT !.data = x]
  <2>1. MayPut(k, s) /\ s.usage # "System"
    BY <1>1, CreatedSlots
  <2>2. dev' = Put(dev, k, s)
    BY <1>1 DEF Create, CreateState, CreateSamplerState, Copied, Plain
  <2> HIDE DEF s
  <2> QED
    BY <1>0, <2>1, <2>2, Created
<1>2. CASE k \notin Copied
  <2> DEFINE s == [Vacant EXCEPT !.object = TRUE, !.data = x]
  <2>0. k \in {"vs", "ps"}
    BY <1>2 DEF Copied, Plain
  <2>1. MayPut(k, s) /\ s.usage # "System"
    BY <2>0, CreatedSlots
  <2>2. dev' = Put(dev, k, s)
    BY <2>0 DEF Create, CreateShader
  <2> HIDE DEF s
  <2> QED
    BY <1>0, <2>1, <2>2, Created
<1> QED
  BY <1>1, <1>2

\* A creation of a declaration, which keeps its divisors.
LEMMA DeclarationCreated ==
  ASSUME DeviceAssumption, NEW d, DeviceInv(d), d.up, NEW elements \in Declarations,
         NewID(d, "decl") # NoID, NEW e, e = CreateVertexDeclaration(d, elements)
  PROVE  /\ DeviceInv(e) /\ e.up /\ Keeps(d, e, {})
         /\ NewID(d, "decl") \notin d.used["decl"] /\ MayOwn(e, "decl", NewID(d, "decl"))
         /\ e.at["decl"][NewID(d, "decl")].data = Divisors(elements)
<1> DEFINE s == [Vacant EXCEPT !.object = TRUE, !.data = Divisors(elements)]
<1>0. "decl" \in Kinds \ {"surface"}
  BY DEF Kinds, DeviceObjects
<1>1. MayPut("decl", s) /\ s.usage # "System"
  BY CreatedSlots
<1>2. s.data = Divisors(elements)
  BY DEF Vacant
<1>3. e = Put(d, "decl", s)
  BY DEF CreateVertexDeclaration
<1> HIDE DEF s
<1>4. /\ DeviceInv(e) /\ e.up /\ Keeps(d, e, {}) /\ NewID(d, "decl") \notin d.used["decl"]
      /\ NewID(d, "decl") \in e.used["decl"] /\ e.at["decl"][NewID(d, "decl")] = s
  BY <1>0, <1>1, <1>3, Created
<1> QED
  BY <1>2, <1>4 DEF MayOwn

\* A fill that sets only the data, as a refill.
LEMMA SomeRefill ==
  ASSUME DeviceAssumption, NEW d, DeviceInv(d), NEW k \in Kinds, NEW id \in d.used[k], NEW x,
         NEW e, e = [d EXCEPT !.at[k][id].data = x]
  PROVE  \E v : \E n \in 0 .. Total : e = Refilled(d, k, id, v, n)
<1>1. \E n \in 0 .. Total : e = Refilled(d, k, id, x, n)
  BY FillsData
<1> QED
  BY <1>1

\* Fills of every kind that has one.
LEMMA FillInv ==
  ASSUME DeviceAssumption, DeviceInv(dev), dev.up,
         NEW k \in {"viewport", "texture", "vb", "ib", "cb"},
         NEW id \in dev.used[k], NEW x, Fill(k, id, x)
  PROVE  DeviceInv(dev')
<1>0. k \in Kinds /\ k # "decl"
  BY DEF Kinds, DeviceObjects, Reinitialized, Copied, Plain, Buffers
<1>1. \E v : \E n \in 0 .. Total : dev' = Refilled(dev, k, id, v, n)
  <2>1. CASE k = "viewport" /\ dev' = SetViewPort(dev, id, x)
    <3>1. dev' = [dev EXCEPT !.at[k][id].data = x]
      BY <2>1 DEF SetViewPort
    <3> QED
      BY <1>0, <3>1, SomeRefill
  <2>2. CASE k = "texture" /\ dev' = FillTexture(dev, id, x)
    <3>1. dev' = [dev EXCEPT !.at[k][id].data = Levels(x)]
      BY <2>2 DEF FillTexture
    <3> QED
      BY <1>0, <3>1, SomeRefill, SMTT(40)
  <2>3. CASE k = "texture" /\ \E m \in 1 .. Mips : dev' = FillTextureMip(dev, id, m, x)
    <3>1. PICK m \in 1 .. Mips : dev' = FillTextureMip(dev, id, m, x)
      BY <2>3
    <3> DEFINE v == [dev.at[k][id].data EXCEPT ![m] = x]
    <3>2. dev' = [dev EXCEPT !.at[k][id].data = v]
      BY <2>3, <3>1 DEF FillTextureMip
    <3> HIDE DEF v
    <3> QED
      BY <1>0, <3>2, SomeRefill
  <2>4. CASE k \in Buffers /\ dev' = ResetBuffer(dev, k, id)
    <3> DEFINE s == dev.at[k][id]
               t == [s EXCEPT !.count = 0]
    <3>1. dev' = [dev EXCEPT !.at[k][id] = t]
      BY <2>4 DEF ResetBuffer
    <3>2. t = [s EXCEPT !.data = s.data, !.count = 0]
      <4> DEFINE b == [s EXCEPT !.data = s.data]
      <4> HIDE DEF s
      <4>1. t = [f \in DOMAIN s |-> IF f = "count" THEN 0 ELSE s[f]]
        OBVIOUS
      <4>2. DOMAIN b = DOMAIN s /\ \A f \in DOMAIN s : b[f] = s[f]
        OBVIOUS
      <4> HIDE DEF b
      <4>3. [b EXCEPT !.count = 0] = [f \in DOMAIN b |-> IF f = "count" THEN 0 ELSE b[f]]
        OBVIOUS
      <4>4. [b EXCEPT !.count = 0] = t
        BY <4>1, <4>2, <4>3
      <4> QED
        BY <4>4, Zenon DEF b
    <3>3. 0 \in 0 .. Total
      BY DEF DeviceAssumption
    <3>4. dev' = Refilled(dev, k, id, s.data, 0)
      BY <3>1, <3>2, Zenon DEF Refilled
    <3> QED
      BY <3>3, <3>4
  <2>5. CASE /\ k \in Buffers \cup {"cb"}
             /\ \E end \in 1 .. Total : dev' = FillBuffer(dev, k, id, end, x)
    <3>1. PICK end \in 1 .. Total : dev' = FillBuffer(dev, k, id, end, x)
      BY <2>5
    <3>2. end \in 0 .. Total
      BY DEF DeviceAssumption
    <3> QED
      BY <2>5, <3>1, <3>2, FillsBuffer
  <2> QED
    BY <2>1, <2>2, <2>3, <2>4, <2>5 DEF Fill
<1>2. PICK v : \E n \in 0 .. Total : dev' = Refilled(dev, k, id, v, n)
  BY <1>1
<1>3. PICK n \in 0 .. Total : dev' = Refilled(dev, k, id, v, n)
  BY <1>2
<1>4. DeviceInv(Refilled(dev, k, id, v, n))
  BY <1>0, Refills
<1> QED
  BY <1>3, <1>4

\* Releases.
LEMMA ReleaseInv ==
  ASSUME DeviceAssumption, DeviceInv(dev), dev.up, NEW k \in Kinds,
         NEW id \in dev.used[k], Release(k, id)
  PROVE  DeviceInv(dev')
<1>1. MayOwn(dev, k, id)
  BY DEF Release, MayOwn
<1>2. dev' = ReleaseID(dev, k, id)
  BY DEF Release
<1> QED
  BY <1>1, <1>2, ReleaseIDs

\* Activations leave the tables, and so the targets.
LEMMA BindInv ==
  ASSUME DeviceAssumption, NEW d, DeviceInv(d), d.up, NEW k \in Kinds, NEW id \in d.used[k],
         NEW ps, ps \subseteq Points[k], k = "decl" => ps = Points[k],
         NEW e, IsBind(d, e, k, ps, id)
  PROVE  DeviceInv(e) /\ e.up
<1>1. BaseInv(e)
  BY BindKeeps DEF DeviceInv
<1>2. SameTables(d, e, {"surface", "texture"}) /\ e.up
  BY DEF IsBind, SameTables
<1>3. TargetInv(e)
  BY <1>2, TargetsSame DEF DeviceInv
<1> QED
  BY <1>1, <1>2, <1>3 DEF DeviceInv

\* Activations.
LEMMA ActivateInv ==
  ASSUME DeviceAssumption, DeviceInv(dev), dev.up, NEW k \in Kinds,
         NEW id \in dev.used[k], NEW p \in Points[k], Activate(k, p, id)
  PROVE  DeviceInv(dev')
<1> DEFINE ps == PointsBound(k, {p})
<1>1. ps \subseteq Points[k] /\ (k = "decl" => ps = Points[k])
  BY DEF PointsBound
<1>2. IsBind(dev, dev', k, ps, id)
  BY Binds DEF Activate, DeviceInv, BaseInv
<1> QED
  BY <1>1, <1>2, BindInv

\* The calls that change no table.
LEMMA CountersInv ==
  ASSUME DeviceAssumption, NEW d, DeviceInv(d), NEW points \in DrawPoints \cup {0},
         NEW drawn \in 0 .. Total, NEW e,
         \/ e = [d EXCEPT !.points = points]
         \/ e = [d EXCEPT !.drawn = drawn]
  PROVE  DeviceInv(e)
<1>1. ShapeInv(d)
  BY DEF DeviceInv, BaseInv
<1>2. /\ DOMAIN e = DOMAIN d /\ e.up = d.up /\ e.used = d.used /\ e.free = d.free
      /\ e.top = d.top /\ e.alive = d.alive /\ e.at = d.at /\ e.bound = d.bound
      /\ e.freq = d.freq /\ e.memory = d.memory
      /\ e.points \in DrawPoints \cup {0} /\ e.drawn \in 0 .. Total
  BY <1>1 DEF ShapeInv
<1>3. ShapeInv(e)
  BY <1>1, <1>2 DEF ShapeInv
<1>4. TableInv(e)
  BY <1>2 DEF DeviceInv, BaseInv, TableInv, Owned
<1>5. DeclInv(e)
  BY <1>2 DEF DeviceInv, BaseInv, DeclInv
<1>6. e.up => TargetInv(e)
  BY <1>2 DEF DeviceInv, TargetInv
<1> QED
  BY <1>3, <1>4, <1>5, <1>6 DEF DeviceInv, BaseInv

\* A draw's primitives are no more than its vertices.
LEMMA Primitives ==
  ASSUME DeviceAssumption, NEW points \in DrawPoints \cup {0}, points # 0,
         NEW n \in 0 .. Total, Enough(points, n)
  PROVE  NumPrimitives(points, n) \in 0 .. Total
<1>0. points \in Int /\ n \in Nat /\ Total \in Nat /\ n <= Total
  BY DEF DeviceAssumption
<1>1. CASE points < 0
  BY <1>0, <1>1 DEF Enough, NumPrimitives
<1>2. CASE points > 0
  <2>1. points \in Nat \ {0}
    BY <1>0, <1>2
  <2>2. n \div points \in Int /\ n \div points >= 0
    BY <1>0, <2>1
  <2>3. n \div points <= n
    BY <1>0, <2>1
  <2> QED
    BY <1>0, <1>2, <2>2, <2>3 DEF NumPrimitives
<1> QED
  BY <1>0, <1>1, <1>2

\* Every call of a client to the device keeps the invariant.
LEMMA CallsInv ==
  ASSUME DeviceAssumption, TargetsAligned, DeviceInv(dev), dev.up, NEW k \in Kinds, Calls(k)
  PROVE  DeviceInv(dev')
<1>1. ASSUME NEW x \in Payloads, k \in {"viewport", "blend", "sampler", "vs", "ps"}, Create(k, x)
      PROVE  DeviceInv(dev')
  BY <1>1, CreateInv
<1>2. ASSUME NEW x \in Payloads, CreateTarget(x) PROVE DeviceInv(dev')
  <2>1. MayCreateRenderTarget(dev) /\ dev' = CreateRenderTarget(dev, x)
    BY <1>2 DEF CreateTarget
  <2>2. DeviceInv(CreateRenderTarget(dev, x))
    BY <2>1, CreatedTarget
  <2> QED
    BY <2>1, <2>2
<1>3. ASSUME NEW x \in Payloads, k \in {"viewport", "texture", "vb", "ib", "cb"},
             NEW id \in dev.used[k], Fill(k, id, x)
      PROVE  DeviceInv(dev')
  BY <1>3, FillInv
<1>4. ASSUME NEW u \in {"Immutable", "Static", "Dynamic"}, NEW x \in Payloads \cup {Unfilled},
             k \in {"texture", "vb", "ib", "cb"}, CreateFilled(k, u, x)
      PROVE  DeviceInv(dev')
  <2>1. Creatable(u, x) /\ MayCreateBuffer(dev, k) /\ k \in Buffers \cup {"cb", "texture"}
    BY <1>4 DEF CreateFilled, Buffers
  <2>2. dev' = IF k = "texture" THEN CreateTexture(dev, u, x) ELSE CreateBuffer(dev, k, u, x)
    BY <1>4 DEF CreateFilled
  <2> QED
    BY <2>1, <2>2, CreatedFilled
<1>5. ASSUME NEW e \in Declarations, CreateDeclaration(e) PROVE DeviceInv(dev')
  <2>1. NewID(dev, "decl") # NoID /\ dev' = CreateVertexDeclaration(dev, e)
    BY <1>5 DEF CreateDeclaration
  <2> QED
    BY <2>1, DeclarationCreated
<1>6. ASSUME NEW id \in dev.used[k], Release(k, id) PROVE DeviceInv(dev')
  BY <1>6, ReleaseInv
<1>7. ASSUME NEW id \in dev.used[k], NEW p \in Points[k], Activate(k, p, id) PROVE DeviceInv(dev')
  BY <1>7, ActivateInv
<1> QED
  BY <1>1, <1>2, <1>3, <1>4, <1>5, <1>6, <1>7 DEF Calls

\* Every step of the device keeps it: Initialize, Terminate, the calls and the draws.
LEMMA DeviceStep ==
  ASSUME DeviceAssumption, TargetsAligned, DeviceInv(dev), [Next]_<<dev, kinds>>
  PROVE  DeviceInv(dev')
<1>1. CASE UNCHANGED <<dev, kinds>>
  BY <1>1
<1>2. CASE Initialize
  <2>1. ~dev.up /\ dev' = Initialized(dev) /\ BaseInv(dev)
    BY <1>2 DEF Initialize, DeviceInv
  <2> QED
    BY <2>1, InitializedInv
<1>3. CASE Terminate
  <2>1. /\ dev.up /\ \A k \in DeviceObjects \ Reinitialized : dev.used[k] = {}
        /\ dev' = Terminated(dev)
    BY <1>3 DEF Terminate
  <2> QED
    BY <2>1, TerminatedInv
<1>4. ASSUME dev.up, NEW k \in kinds \cap Kinds, Calls(k) PROVE DeviceInv(dev')
  BY <1>4, CallsInv
<1>5. ASSUME NEW points \in DrawPoints, ActivateDrawPrimitive(points) PROVE DeviceInv(dev')
  <2>1. dev' = [dev EXCEPT !.points = points] /\ points \in DrawPoints \cup {0} /\ 0 \in 0 .. Total
    BY <1>5 DEF ActivateDrawPrimitive, DeviceAssumption
  <2> QED
    BY <2>1, CountersInv
<1>6. ASSUME NEW n \in 0 .. Total, Draw(n) PROVE DeviceInv(dev')
  <2> DEFINE drawn == NumPrimitives(dev.points, n)
  <2>1. dev' = [dev EXCEPT !.drawn = drawn] /\ dev.points # 0 /\ Enough(dev.points, n)
    BY <1>6 DEF Draw
  <2>2. dev.points \in DrawPoints \cup {0}
    BY DEF DeviceInv, BaseInv, ShapeInv
  <2>3. drawn \in 0 .. Total
    BY <2>1, <2>2, Primitives
  <2> HIDE DEF drawn
  <2> QED
    BY <2>1, <2>2, <2>3, CountersInv
<1> QED
  BY <1>1, <1>2, <1>3, <1>4, <1>5, <1>6 DEF Next

\* The invariant of the device, of its variable.
DevInv == DeviceInv(dev)

\* What holds in every reachable state of RenderDeviceDX9, for every size of its tables:
\* the ids in use and the free stack part the ids given so far, the slots with an object
\* are those in use, a bound declaration is in use and its streams have its divisors, and
\* a target's texture and surface share their id, as ReleaseRenderTarget takes for granted.
THEOREM DeviceInvariant ==
  ASSUME DeviceAssumption, TargetsAligned
  PROVE  Spec => []DevInv
<1>1. Init => DevInv
  <2> SUFFICES ASSUME Init PROVE DevInv
    OBVIOUS
  <2>1. dev = Initialized(Fresh)
    BY DEF Init
  <2>2. DeviceInv(Initialized(Fresh))
    BY FreshBase, InitializedInv
  <2> QED
    BY <2>1, <2>2 DEF DevInv
<1>2. DevInv /\ [Next]_<<dev, kinds>> => DevInv'
  BY DeviceStep DEF DevInv
<1> QED
  BY <1>1, <1>2, PTL DEF Spec

\* The tables, counters and bindings of the device have their types.
THEOREM DeviceTypeCorrect ==
  ASSUME DeviceAssumption, TargetsAligned
  PROVE  Spec => []DeviceTypeOK
<1>1. DevInv => DeviceTypeOK
  BY TypesFollow DEF DevInv
<1> QED
  BY <1>1, DeviceInvariant, PTL

\* In every reachable state of RenderDeviceDX9 an id is in use or free, the D3D objects
\* are those of the slots in use, a target's surface and texture live and die together,
\* and a bound declaration has its divisors in its streams.
THEOREM DeviceSlotsHold ==
  ASSUME DeviceAssumption, TargetsAligned
  PROVE  Spec => []DeviceSlots
<1>1. DevInv => DeviceSlots
  BY SlotsFollow DEF DevInv
<1> QED
  BY <1>1, DeviceInvariant, PTL

------------------------------------------------------------------------------
(* What a change of one resource leaves to the others                        *)

\* The slots of a resource that is s.
Own(r, s) == UNION {Lost(Kind[r], s.ids[i]) : i \in {j \in Two : s.ids[j] # NoID}}

\* Z has no slots of other resources than r, and none of states.
Spares(rs, r, Z) ==
  /\ \A q \in resources \ {r} : \A i \in Two :
       rs[q].ids[i] # NoID => <<Kind[q], rs[q].ids[i]>> \notin Z
  /\ \A k \in {"blend", "sampler"} : \A i : <<k, i>> \notin Z

\* No other resource of the kind has an id of s.
ApartFrom(rs, r, s) ==
  Kind[r] # "blend" =>
    /\ s.ids[0] = s.ids[1] => s.ids[0] = NoID
    /\ \A q \in resources \ {r} : \A i, j \in Two :
         Kind[q] = Kind[r] /\ rs[q].ids[j] = s.ids[i] => s.ids[i] = NoID

\* The resources and their kinds.
Known == FrameAssumption /\ resources \subseteq DOMAIN Kind

\* A resource is of a kind of the device, and is activated at that kind's points.
LEMMA KindsKnown ==
  ASSUME Known, NEW r \in resources
  PROVE  /\ DeviceAssumption /\ Kind[r] \in Kinds /\ Kind[r] # "sampler" /\ r # Unused
         /\ \A points \in Uses[r] : /\ points \subseteq Points[Kind[r]]
                                    /\ Kind[r] \in {"decl", "vb"} => points = Points[Kind[r]]
BY DEF Known, FrameAssumption

\* Slots that spare the other resources, together.
LEMMA SparesUnion ==
  ASSUME NEW rs, NEW r, NEW Y, NEW Z, Spares(rs, r, Y), Spares(rs, r, Z)
  PROVE  Spares(rs, r, Y \cup Z)
BY DEF Spares

\* No slots spare all.
LEMMA SparesNone ==
  ASSUME NEW rs, NEW r
  PROVE  Spares(rs, r, {})
BY DEF Spares

\* Fewer slots spare more.
LEMMA SparesLess ==
  ASSUME NEW rs, NEW r, NEW Y, NEW Z, Spares(rs, r, Z), Y \subseteq Z
  PROVE  Spares(rs, r, Y)
BY DEF Spares

\* A resource's own slots are no other's.
LEMMA OwnSpared ==
  ASSUME Known, NEW d, DeviceInv(d), d.up, NEW rs, ResInv(d, rs), NEW r \in resources,
         Kind[r] # "blend"
  PROVE  Spares(rs, r, Own(r, rs[r]))
<1>1. Kind[r] # "sampler"
  BY KindsKnown
<1>2. \A k \in {"blend", "sampler"} : \A i : <<k, i>> \notin Own(r, rs[r])
  BY <1>1 DEF Own, Lost
<1>3. ASSUME NEW q \in resources \ {r}, NEW i \in Two, rs[q].ids[i] # NoID,
             <<Kind[q], rs[q].ids[i]>> \in Own(r, rs[r])
      PROVE  FALSE
  <2>1. PICK j \in Two : /\ rs[r].ids[j] # NoID /\ rs[r].ids[j] = rs[q].ids[i]
                         /\ Kind[q] \in IF Kind[r] = "surface" THEN {"surface", "texture"}
                                        ELSE {Kind[r]}
    BY <1>3 DEF Own, Lost
  <2>2. CASE Kind[q] = Kind[r]
    BY <2>1, <2>2 DEF ResInv, Apart
  <2>3. CASE Kind[q] # Kind[r]
    <3>1. Kind[r] = "surface" /\ Kind[q] = "texture"
      BY <2>1, <2>3
    <3>2. MayOwn(d, "surface", rs[r].ids[j]) /\ MayOwn(d, "texture", rs[q].ids[i])
      BY <1>3, <2>1, <3>1 DEF ResInv, HasIds
    <3> QED
      BY <2>1, <3>2 DEF MayOwn, DeviceInv, TargetInv
  <2> QED
    BY <2>2, <2>3
<1> QED
  BY <1>2, <1>3 DEF Spares

\* The ids of the other resources stay in use.
LEMMA OthersInUse ==
  ASSUME Known, NEW d, NEW rs, ResInv(d, rs), NEW r \in resources, NEW e, NEW Z,
         Keeps(d, e, Z), Spares(rs, r, Z), NEW q \in resources \ {r}, NEW i \in Two,
         rs[q].ids[i] # NoID
  PROVE  rs[q].ids[i] \in e.used[Kind[q]]
<1>1. rs[q].ids[i] \in d.used[Kind[q]] /\ Kind[q] \in Kinds
  BY KindsKnown DEF ResInv, HasIds, MayOwn
<1> QED
  BY <1>1 DEF Keeps, Spares

\* A new id is nobody's.
LEMMA NewSpared ==
  ASSUME Known, NEW d, NEW rs, ResInv(d, rs), NEW r \in resources, NEW e, NEW Z,
         Keeps(d, e, Z), Spares(rs, r, Z), NEW id, id \notin e.used[Kind[r]],
         Kind[r] # "blend"
  PROVE  Spares(rs, r, {<<Kind[r], id>>})
<1>1. Kind[r] # "sampler"
  BY KindsKnown
<1>2. ASSUME NEW q \in resources \ {r}, NEW i \in Two, rs[q].ids[i] # NoID,
             <<Kind[q], rs[q].ids[i]>> = <<Kind[r], id>>
      PROVE  FALSE
  <2>1. rs[q].ids[i] \in e.used[Kind[q]]
    BY <1>2, OthersInUse
  <2> QED
    BY <1>2, <2>1
<1> QED
  BY <1>1, <1>2 DEF Spares

\* A slot that a change does not touch.
LEMMA SlotKept ==
  ASSUME NEW d, NEW e, NEW Z, Keeps(d, e, Z), NEW k \in Kinds, NEW id \in d.used[k],
         <<k, id>> \notin Z
  PROVE  id \in e.used[k] /\ e.at[k][id] = d.at[k][id]
BY SMTT(40) DEF Keeps

\* The other resources keep what they have.
LEMMA IdsKept ==
  ASSUME Known, NEW d, NEW rs, ResInv(d, rs), NEW r \in resources, NEW e, NEW Z,
         Keeps(d, e, Z), Spares(rs, r, Z), NEW q \in resources \ {r}
  PROVE  HasIds(e, q, rs[q])
<1> DEFINE k == Kind[q]
           s == rs[q]
<1>0. k \in Kinds /\ HasIds(d, q, s) /\ "sampler" \in Kinds /\ IsResource(q, s)
  BY KindsKnown DEF ResInv, Kinds, Copied, Plain
<1>1. ASSUME NEW i \in Two, s.ids[i] # NoID
      PROVE  s.ids[i] \in d.used[k] /\ s.ids[i] \in e.used[k]
             /\ e.at[k][s.ids[i]] = d.at[k][s.ids[i]] /\ MayOwn(e, k, s.ids[i])
  <2>1. MayOwn(d, k, s.ids[i]) /\ <<k, s.ids[i]>> \notin Z
    BY <1>0, <1>1 DEF HasIds, Spares
  <2>2. s.ids[i] \in d.used[k]
    BY <2>1 DEF MayOwn
  <2>3. s.ids[i] \in e.used[k] /\ e.at[k][s.ids[i]] = d.at[k][s.ids[i]]
    BY <1>0, <2>1, <2>2, SlotKept
  <2> QED
    BY <2>1, <2>2, <2>3 DEF MayOwn
<1>2. s.active \in Two
  BY <1>0 DEF IsResource
<1>3. s.ids[s.active] # NoID => e.at[k][s.ids[s.active]] = d.at[k][s.ids[s.active]]
  BY <1>1, <1>2
<1>4. k = "texture" /\ s.sampler # NoID =>
        s.sampler \in e.used["sampler"] /\ e.at["sampler"][s.sampler] = d.at["sampler"][s.sampler]
  <2> SUFFICES ASSUME k = "texture", s.sampler # NoID
               PROVE  /\ s.sampler \in e.used["sampler"]
                      /\ e.at["sampler"][s.sampler] = d.at["sampler"][s.sampler]
    OBVIOUS
  <2>1. s.sampler \in d.used["sampler"] /\ <<"sampler", s.sampler>> \notin Z
    BY <1>0 DEF HasIds, Spares
  <2> QED
    BY <1>0, <2>1, SlotKept
<1> QED
  BY <1>0, <1>1, <1>3, <1>4 DEF HasIds

\* The resources with r as s.
LEMMA ResStep ==
  ASSUME Known, NEW d, NEW rs, ResInv(d, rs), NEW r \in resources, NEW e, NEW Z,
         Keeps(d, e, Z), Spares(rs, r, Z),
         NEW s, IsResource(r, s), HasIds(e, r, s), ApartFrom(rs, r, s),
         NEW ss, ss = [rs EXCEPT ![r] = s]
  PROVE  ResInv(e, ss)
<1>1. DOMAIN rs = resources /\ Apart(rs)
  BY DEF ResInv
<1>2. DOMAIN ss = resources /\ ss[r] = s /\ \A q \in resources \ {r} : ss[q] = rs[q]
  BY <1>1
<1>3. Apart(ss)
  <2> SUFFICES ASSUME NEW p \in resources, NEW q \in resources, NEW i \in Two, NEW j \in Two,
                      Kind[p] = Kind[q], Kind[q] # "blend",
                      ss[p].ids[i] = ss[q].ids[j], ss[q].ids[j] # NoID
               PROVE  p = q /\ i = j
    BY DEF Apart
  <2>1. CASE p # r /\ q # r
    BY <1>1, <1>2, <2>1 DEF Apart
  <2>2. CASE p = r /\ q = r
    BY <1>2, <2>2 DEF ApartFrom, Two
  <2>3. CASE p = r /\ q # r
    BY <1>2, <2>3 DEF ApartFrom
  <2>4. CASE p # r /\ q = r
    BY <1>2, <2>4 DEF ApartFrom
  <2> QED
    BY <2>1, <2>2, <2>3, <2>4
<1>4. ASSUME NEW q \in resources PROVE IsResource(q, ss[q]) /\ HasIds(e, q, ss[q])
  <2>1. CASE q = r
    BY <1>2, <2>1
  <2>2. CASE q # r
    <3>1. ss[q] = rs[q] /\ IsResource(q, rs[q])
      BY <1>2, <2>2 DEF ResInv
    <3>2. HasIds(e, q, rs[q])
      BY <2>2, IdsKept
    <3> QED
      BY <3>1, <3>2
  <2> QED
    BY <2>1, <2>2
<1> QED
  BY <1>2, <1>3, <1>4 DEF ResInv

\* The cache outlives changes of other slots than states.
LEMMA CacheStep ==
  ASSUME Known, NEW d, NEW rs, NEW c, CacheInv(d, rs, c), NEW r \in resources, NEW e, NEW Z,
         Keeps(d, e, Z), Spares(rs, r, Z), NEW ss,
         \A q \in resources : Kind[q] = "blend" =>
           ss[q].data = rs[q].data /\ ss[q].ids[0] = rs[q].ids[0]
  PROVE  CacheInv(e, ss, c)
<1>0. "blend" \in Kinds /\ "sampler" \in Kinds
  BY DEF Kinds, Copied, Plain
<1>1. ASSUME NEW k \in {"blend", "sampler"}, NEW h \in DOMAIN c[k], c[k][h] # NoID
      PROVE  c[k][h] \in e.used[k] /\ e.at[k][c[k][h]].data = h
  <2>1. c[k][h] \in d.used[k] /\ d.at[k][c[k][h]].data = h /\ <<k, c[k][h]>> \notin Z
    BY <1>1 DEF CacheInv, Spares
  <2> QED
    BY <1>0, <2>1, SlotKept
<1> QED
  BY <1>1 DEF CacheInv

------------------------------------------------------------------------------
(* Between frames                                                            *)

\* The parts of the invariant after a step.
LEMMA FrameInvNext ==
  ASSUME resources' = resources, resources \subseteq DOMAIN Kind,
         DeviceInv(dev'), dev'.up, ResInv(dev', res'), CacheInv(dev', res', cache'),
         BoundInv(dev', filter'), UserInv(res', filter', user'),
         inFrame' \in BOOLEAN, ~inFrame' => filter' = Unfiltered /\ user' = Unbound
  PROVE  FrameInv'
<1>1. ResInv(dev, res)'
  BY DEF ResInv, Apart
<1>2. CacheInv(dev, res, cache)'
  BY DEF CacheInv
<1>3. BoundInv(dev, filter)'
  BY DEF BoundInv
<1>4. UserInv(res, filter, user)'
  BY DEF UserInv
<1> QED
  BY <1>1, <1>2, <1>3, <1>4 DEF FrameInv

\* No filter, nothing to keep.
LEMMA UnboundInv ==
  ASSUME FrameAssumption, NEW d, NEW rs
  PROVE  BoundInv(d, Unfiltered) /\ UserInv(rs, Unfiltered, Unbound)
<1>1. \A k \in Kinds : \A p \in Points[k] : p \in AllPoints
  BY DEF AllPoints
<1>2. "sampler" \in Kinds
  BY DEF Kinds, Copied, Plain
<1> QED
  BY <1>1, <1>2 DEF BoundInv, UserInv, Unfiltered, Unbound

\* A step between frames that keeps the device, the resources and the cache.
LEMMA BetweenFrames ==
  ASSUME FrameAssumption, FrameInv, ~inFrame, Steady, UNCHANGED <<filter, user>>,
         inFrame' \in BOOLEAN,
         DeviceInv(dev'), dev'.up, ResInv(dev', res'), CacheInv(dev', res', cache')
  PROVE  FrameInv'
<1>1. filter' = Unfiltered /\ user' = Unbound /\ resources' = resources
      /\ resources \subseteq DOMAIN Kind
  BY DEF FrameInv, Steady
<1>2. BoundInv(dev', filter') /\ UserInv(res', filter', user')
  BY <1>1, UnboundInv
<1> QED
  BY <1>1, <1>2, FrameInvNext

\* Nothing changed, nothing lost.
LEMMA KeepsSame ==
  ASSUME NEW d
  PROVE  Keeps(d, d, {})
BY DEF Keeps

\* The release of both ids of a resource keeps the device and the other resources' slots.
LEMMA FreedInv ==
  ASSUME Known, DeviceInv(dev), dev.up, ResInv(dev, res), NEW r \in resources
  PROVE  /\ DeviceInv(Freed(dev, r)) /\ Freed(dev, r).up
         /\ Keeps(dev, Freed(dev, r), Own(r, res[r]))
<1> DEFINE k == Kind[r]
           ids == res[r].ids
           d1 == FreedOne(dev, r, 0)
           d2 == FreedOne(d1, r, 1)
<1>0. /\ Freed(dev, r) = d2 /\ k \in Kinds /\ 0 \in Two /\ 1 \in Two /\ DeviceAssumption
      /\ \A i \in Two : ids[i] # NoID => MayOwn(dev, k, ids[i])
  BY KindsKnown DEF Freed, ResInv, HasIds, Two
<1>1. d1 = IF ids[0] = NoID THEN dev ELSE ReleaseID(dev, k, ids[0])
  BY DEF FreedOne
<1>2. d2 = IF ids[1] = NoID THEN d1 ELSE ReleaseID(d1, k, ids[1])
  BY DEF FreedOne
<1> HIDE DEF d1, d2
<1>3. \A i \in Two : ids[i] # NoID => Lost(k, ids[i]) \subseteq Own(r, res[r])
  BY DEF Own
<1> HIDE DEF ids
<1>4. DeviceInv(d1) /\ d1.up /\ Keeps(dev, d1, IF ids[0] = NoID THEN {} ELSE Lost(k, ids[0]))
  <2>1. CASE ids[0] = NoID
    BY <1>1, <2>1, KeepsSame
  <2>2. CASE ids[0] # NoID
    BY <1>0, <1>1, <2>2, ReleaseIDs
  <2> QED
    BY <2>1, <2>2
<1>5. CASE ids[1] = NoID
  <2>1. (IF ids[0] = NoID THEN {} ELSE Lost(k, ids[0])) \subseteq Own(r, res[r])
    BY <1>0, <1>3
  <2>2. Keeps(dev, d1, Own(r, res[r]))
    BY <1>4, <2>1, KeepsMore
  <2> QED
    BY <1>0, <1>2, <1>4, <1>5, <2>2
<1>6. CASE ids[1] # NoID /\ k # "blend"
  <2>1. <<k, ids[1]>> \notin IF ids[0] = NoID THEN {} ELSE Lost(k, ids[0])
    <3>1. ids[0] # ids[1]
      BY <1>0, <1>6 DEF ResInv, Apart, ids
    <3> QED
      BY <3>1 DEF Lost
  <2>2. ids[1] \in dev.used[k] /\ MayOwn(dev, k, ids[1])
    BY <1>0, <1>6 DEF MayOwn
  <2>3. ids[1] \in d1.used[k] /\ d1.at[k][ids[1]] = dev.at[k][ids[1]]
    BY <1>0, <1>4, <2>1, <2>2, SlotKept
  <2>4. MayOwn(d1, k, ids[1])
    BY <2>2, <2>3 DEF MayOwn
  <2>5. DeviceInv(d2) /\ d2.up /\ Keeps(d1, d2, Lost(k, ids[1]))
    BY <1>0, <1>2, <1>4, <1>6, <2>4, ReleaseIDs
  <2> DEFINE Y == IF ids[0] = NoID THEN {} ELSE Lost(k, ids[0])
             Z == Lost(k, ids[1])
  <2>6. Keeps(dev, d1, Y) /\ Keeps(d1, d2, Z)
    BY <1>4, <2>5
  <2>7. Y \cup Z \subseteq Own(r, res[r])
    BY <1>0, <1>3, <1>6
  <2> HIDE DEF Y, Z
  <2>8. Keeps(dev, d2, Y \cup Z)
    BY <2>6, KeepsCompose
  <2>9. Keeps(dev, d2, Own(r, res[r]))
    BY <2>7, <2>8, KeepsMore
  <2> QED
    BY <1>0, <2>5, <2>9
<1>7. k = "blend" => ids[1] = NoID
  BY DEF ResInv, IsResource, Single, ids
<1> QED
  BY <1>5, <1>6, <1>7

\* What is left of a resource whose ids were released.
LEMMA NoIdsLeft ==
  ASSUME NEW d, NEW r, NEW rs, NEW s, \A i \in Two : s.ids[i] = NoID, s.active \in Two,
         Kind[r] \in Targets => s.dirty,
         s.sampler # NoID /\ Kind[r] = "texture" =>
           /\ s.sampler \in d.used["sampler"]
           /\ d.at["sampler"][s.sampler].data = SamplerHash[r]
  PROVE  HasIds(d, r, s) /\ ApartFrom(rs, r, s)
BY DEF HasIds, ApartFrom, Two

\* A registered resource has no ids.
LEMMA NewResourceOK ==
  ASSUME FrameAssumption, NEW r, NEW x, Kind[r] = "decl" => x \in Declarations, NEW d, NEW rs
  PROVE  /\ IsResource(r, NewResource(r, x)) /\ HasIds(d, r, NewResource(r, x))
         /\ ApartFrom(rs, r, NewResource(r, x))
<1> DEFINE s == NewResource(r, x)
<1>1. /\ \A i \in Two : s.ids[i] = NoID
      /\ DOMAIN s.ids = Two /\ s.active = 0 /\ s.sampler = NoID /\ s.data = x
      /\ s.dirty = (Kind[r] \in Targets)
      /\ DOMAIN s = {"ids", "active", "sampler", "dirty", "usage", "data"}
  BY DEF NewResource, Targets
<1> HIDE DEF s
<1>2. HasIds(d, r, s) /\ ApartFrom(rs, r, s)
  BY <1>1, NoIdsLeft DEF Two
<1>3. IsResource(r, s)
  BY <1>1 DEF IsResource, Two
<1> QED
  BY <1>2, <1>3 DEF s

\* ReleaseResource.
LEMMA ReleaseResourceInv ==
  ASSUME FrameAssumption, FrameInv, ~inFrame, Steady, UNCHANGED <<filter, user, inFrame>>,
         NEW r \in resources, ReleaseResource(r)
  PROVE  FrameInv'
<1>0. /\ Known /\ DeviceInv(dev) /\ dev.up /\ ResInv(dev, res) /\ CacheInv(dev, res, cache)
      /\ Kind[r] # "blend" /\ dev' = Freed(dev, r) /\ cache' = cache /\ inFrame' \in BOOLEAN
  BY DEF FrameInv, Known, ReleaseResource
<1>1. PICK x \in InitialData(r) : res' = [res EXCEPT ![r] = NewResource(r, x)]
  BY DEF ReleaseResource
<1>2. Kind[r] = "decl" => x \in Declarations
  BY DEF InitialData
<1>3. DeviceInv(dev') /\ dev'.up /\ Keeps(dev, dev', Own(r, res[r]))
  BY <1>0, FreedInv
<1>4. Spares(res, r, Own(r, res[r]))
  BY <1>0, OwnSpared
<1> DEFINE s == NewResource(r, x)
<1>5. IsResource(r, s) /\ HasIds(dev', r, s) /\ ApartFrom(res, r, s)
  BY <1>2, NewResourceOK
<1> HIDE DEF s
<1>6. res' = [res EXCEPT ![r] = s]
  BY <1>1 DEF s
<1>7. ResInv(dev', res')
  BY <1>0, <1>3, <1>4, <1>5, <1>6, ResStep
<1>8. \A q \in resources : Kind[q] = "blend" =>
        res'[q].data = res[q].data /\ res'[q].ids[0] = res[q].ids[0]
  BY <1>0, <1>6 DEF ResInv
<1>9. CacheInv(dev', res', cache')
  BY <1>0, <1>3, <1>4, <1>8, CacheStep
<1> QED
  BY <1>0, <1>3, <1>7, <1>9, BetweenFrames

\* A step that only changes what a resource notes.
LEMMA NotedInv ==
  ASSUME FrameAssumption, FrameInv, ~inFrame, Steady, UNCHANGED <<filter, user, inFrame>>,
         UNCHANGED <<dev, cache>>, NEW r \in resources, Kind[r] # "blend",
         NEW s, res' = [res EXCEPT ![r] = s], IsResource(r, s),
         s.ids = res[r].ids, s.active = res[r].active, s.sampler = res[r].sampler,
         \/ Kind[r] \in Targets /\ s.dirty
         \/ Kind[r] \notin Targets /\ s.data = res[r].data
  PROVE  FrameInv'
<1>0. /\ Known /\ DeviceInv(dev') /\ dev'.up /\ ResInv(dev, res) /\ CacheInv(dev, res, cache)
      /\ dev' = dev /\ cache' = cache /\ inFrame' \in BOOLEAN
  BY DEF FrameInv, Known
<1>1. Keeps(dev, dev', {}) /\ Spares(res, r, {})
  BY <1>0, KeepsSame, SparesNone, SMTT(40)
<1>2. HasIds(dev', r, s)
  BY <1>0 DEF ResInv, HasIds, UpToDate
<1>3. ApartFrom(res, r, s)
  BY <1>0 DEF ResInv, Apart, ApartFrom, Two
<1>4. ResInv(dev', res')
  BY <1>0, <1>1, <1>2, <1>3, ResStep
<1>5. \A q \in resources : Kind[q] = "blend" =>
        res'[q].data = res[q].data /\ res'[q].ids[0] = res[q].ids[0]
  BY <1>0 DEF ResInv
<1>6. CacheInv(dev', res', cache')
  BY <1>0, <1>1, <1>5, CacheStep
<1> QED
  BY <1>0, <1>4, <1>6, BetweenFrames

\* New dimensions make a view port or a target dirty; others only note the data.
LEMMA SetResourceInv ==
  ASSUME FrameAssumption, FrameInv, ~inFrame, Steady, UNCHANGED <<filter, user, inFrame>>,
         NEW r \in resources, NEW x, SetResource(r, x)
  PROVE  FrameInv'
<1> DEFINE s == [res[r] EXCEPT !.data = x, !.dirty = TRUE]
<1>0. /\ UNCHANGED <<dev, cache>> /\ Kind[r] \in Targets
      /\ IsResource(r, res[r]) /\ DOMAIN res = resources
  BY DEF SetResource, Targets, FrameInv, ResInv
<1>1. res' = [res EXCEPT ![r] = s]
  BY DEF SetResource
<1>2. /\ IsResource(r, s) /\ s.dirty
      /\ s.ids = res[r].ids /\ s.active = res[r].active /\ s.sampler = res[r].sampler
  BY <1>0 DEF IsResource, Targets, Single
<1> HIDE DEF s
<1>3. Kind[r] # "blend"
  BY <1>0 DEF Targets
<1> QED
  BY <1>0, <1>1, <1>2, <1>3, NotedInv

\* Initialize of textures and buffers.
LEMMA InitializeResourceInv ==
  ASSUME FrameAssumption, FrameInv, ~inFrame, Steady, UNCHANGED <<filter, user, inFrame>>,
         NEW r \in resources, NEW u, InitializeResource(r, u)
  PROVE  FrameInv'
<1> DEFINE s == Shaped(res[r], Kind[r], u)
<1>0. /\ UNCHANGED <<dev, cache>> /\ Kind[r] \in Buffers \cup {"cb", "texture"}
      /\ IsResource(r, res[r]) /\ DOMAIN res = resources
  BY DEF InitializeResource, FrameInv, ResInv
<1>1. res' = [res EXCEPT ![r] = s]
  BY DEF InitializeResource
<1>2. /\ IsResource(r, s)
      /\ s.ids = res[r].ids /\ s.active = res[r].active /\ s.sampler = res[r].sampler
      /\ s.data = res[r].data
  BY <1>0 DEF IsResource, Shaped, Single, Buffers
<1> HIDE DEF s
<1>3. Kind[r] # "blend" /\ Kind[r] \notin Targets
  BY <1>0 DEF Targets, Buffers
<1> QED
  BY <1>0, <1>1, <1>2, <1>3, NotedInv

\* A fill of a resource's slot leaves there what was filled.
FilledKinds == Buffers \cup {"cb", "texture"}

\* A fill of a resource's slot leaves there what was filled.
LEMMA FilledData ==
  ASSUME DeviceAssumption, NEW d, DeviceInv(d), d.up, NEW k \in FilledKinds, NEW id, MayOwn(d, k, id), NEW x, NEW e,
         e = IF k = "texture" THEN FillTexture(d, id, x) ELSE FillBuffer(d, k, id, Total, x)
  PROVE  /\ DeviceInv(e) /\ e.up /\ Keeps(d, e, {<<k, id>>}) /\ MayOwn(e, k, id)
         /\ e.at[k][id].data = DataFor(k, x)
<1>0. k \in Kinds /\ k # "decl" /\ id \in d.used[k] /\ k # "surface"
  BY DEF FilledKinds, Kinds, DeviceObjects, Reinitialized, Copied, Buffers, MayOwn
<1>1. PICK n \in 0 .. Total : e = Refilled(d, k, id, DataFor(k, x), n)
  <2>1. CASE k = "texture"
    <3> DEFINE v == Levels(x)
    <3>1. e = [d EXCEPT !.at[k][id].data = v] /\ DataFor(k, x) = v
      BY <2>1 DEF FillTexture, DataFor
    <3> HIDE DEF v
    <3>2. \E n \in 0 .. Total : [d EXCEPT !.at[k][id].data = v] = Refilled(d, k, id, v, n)
      BY <1>0, FillsData, SMTT(40)
    <3> QED
      BY <3>1, <3>2
  <2>2. CASE k # "texture"
    <3>1. Total \in 0 .. Total /\ k \in Buffers \cup {"cb"} /\ DataFor(k, x) = x
      BY <2>2 DEF FilledKinds, DeviceAssumption, DataFor, Buffers
    <3>2. e = FillBuffer(d, k, id, Total, x)
      BY <2>2
    <3>3. \E n \in 0 .. Total : FillBuffer(d, k, id, Total, x) = Refilled(d, k, id, x, n)
      BY <1>0, <3>1, FillsBuffer
    <3> QED
      BY <3>1, <3>2, <3>3
  <2> QED
    BY <2>1, <2>2
<1> DEFINE v == DataFor(k, x)
<1> HIDE DEF v
<1>2. e = Refilled(d, k, id, v, n)
  BY <1>1 DEF v
<1>3. /\ DeviceInv(e) /\ e.up /\ Keeps(d, e, {<<k, id>>}) /\ id \in e.used[k]
      /\ e.at[k][id].data = v /\ e.at[k][id].usage = d.at[k][id].usage
  BY <1>0, <1>2, Refills
<1> QED
  BY <1>0, <1>3 DEF MayOwn, v

\* Fill: the other id of a dynamic resource, or the only one of a static one.
LEMMA FillResourceInv ==
  ASSUME FrameAssumption, FrameInv, ~inFrame, Steady, UNCHANGED <<filter, user, inFrame>>,
         NEW r \in resources, NEW x, FillResource(r, x)
  PROVE  FrameInv'
<1> DEFINE kind == Kind[r]
           was == IF res[r].dirty THEN [res[r] EXCEPT !.ids = [i \in Two |-> NoID]] ELSE res[r]
           freed == IF res[r].dirty THEN Freed(dev, r) ELSE dev
           next == Flip(was)
           new == was.ids[next] = NoID
           filled == IF new THEN NewID(freed, kind) ELSE was.ids[next]
           given == IF kind = "cb" THEN x ELSE Unfilled
           made == CASE ~new -> freed
                     [] new /\ kind = "texture" -> CreateTexture(freed, was.usage, given)
                     [] OTHER -> CreateBuffer(freed, kind, was.usage, given)
           now == [was EXCEPT !.ids[next] = filled, !.active = next, !.dirty = FALSE, !.data = x]
           Own0 == Own(r, res[r])
<1>0. /\ Known /\ DeviceAssumption /\ DeviceInv(dev) /\ dev.up
      /\ ResInv(dev, res) /\ CacheInv(dev, res, cache)
      /\ kind \in Buffers \cup {"cb", "texture"} /\ kind \in Kinds /\ cache' = cache
      /\ inFrame' \in BOOLEAN
  BY KindsKnown DEF FrameInv, Known, FillResource
<1>1. /\ kind # "blend" /\ kind \notin Single /\ kind \notin Targets /\ kind # "surface" /\ kind # "decl"
  BY <1>0 DEF Buffers, Single, Targets
<1>2. /\ new => Creatable(was.usage, given) /\ MayCreateBuffer(freed, kind)
      /\ dev' = CASE kind \in Buffers -> FilledBuffer(made, kind, filled, x)
                  [] kind = "cb" -> FilledFloat(made, kind, filled, new, x)
                  [] kind = "texture" -> FilledTexture(made, filled, x)
      /\ res' = [res EXCEPT ![r] = now]
  BY DEF FillResource
<1>3. /\ IsResource(r, res[r]) /\ HasIds(dev, r, res[r])
  BY <1>0 DEF ResInv
<1>4. DeviceInv(freed) /\ freed.up /\ Keeps(dev, freed, Own0)
  <2>1. CASE res[r].dirty
    BY <1>0, <2>1, FreedInv
  <2>2. CASE ~res[r].dirty
    <3>1. freed = dev
      BY <2>2
    <3>2. Keeps(dev, dev, {}) /\ {} \subseteq Own0
      BY KeepsSame
    <3>3. Keeps(dev, freed, Own0)
      BY <3>1, <3>2, KeepsMore
    <3> QED
      BY <1>0, <3>1, <3>3
  <2> QED
    BY <2>1, <2>2
<1>5. Spares(res, r, Own0)
  BY <1>0, <1>1, OwnSpared
<1>6. /\ DOMAIN was = {"ids", "active", "sampler", "dirty", "usage", "data"}
      /\ DOMAIN was.ids = Two /\ was.active \in Two /\ was.sampler = res[r].sampler
      /\ \A i \in Two : was.ids[i] \in {NoID, res[r].ids[i]}
      /\ \A i \in Two : was.ids[i] # NoID => freed = dev
  BY <1>3 DEF IsResource
<1>7. next \in Two /\ next # 1 - next /\ 1 - next \in Two /\ Two = {next, 1 - next} /\ Two = {0, 1}
  BY <1>6 DEF Flip, Two
<1>8. \A i \in Two : was.ids[i] # NoID => MayOwn(freed, kind, was.ids[i]) /\ was.ids[i] = res[r].ids[i]
  BY <1>3, <1>6 DEF HasIds
<1>9. /\ DOMAIN now = {"ids", "active", "sampler", "dirty", "usage", "data"}
      /\ DOMAIN now.ids = Two /\ now.ids[next] = filled /\ now.ids[1 - next] = was.ids[1 - next]
      /\ now.active = next /\ now.sampler = res[r].sampler /\ now.dirty = FALSE /\ now.data = x
  <2> HIDE DEF was, next, filled
  <2> QED
    BY <1>6, <1>7
<1> HIDE DEF now, next, freed
<1>10. /\ DeviceInv(made) /\ made.up /\ Keeps(freed, made, {}) /\ MayOwn(made, kind, filled)
       /\ new => filled \notin freed.used[kind] /\ filled # NoID /\ (kind = "cb" => made.at[kind][filled].data = x)
  <2>1. CASE new
    <3>1. Creatable(was.usage, given) /\ MayCreateBuffer(freed, kind) /\ filled = NewID(freed, kind)
      BY <1>2, <2>1
    <3>2. made = IF kind = "texture" THEN CreateTexture(freed, was.usage, given)
                 ELSE CreateBuffer(freed, kind, was.usage, given)
      BY <2>1
    <3> DEFINE u == was.usage
    <3> HIDE DEF was, given, made, new, u, filled, kind
    <3>3. /\ DeviceInv(made) /\ made.up /\ Keeps(freed, made, {})
          /\ NewID(freed, kind) # NoID /\ NewID(freed, kind) \notin freed.used[kind] /\ MayOwn(made, kind, NewID(freed, kind))
          /\ kind # "texture" => made.at[kind][NewID(freed, kind)].data = given
      BY <1>0, <1>4, <3>1, <3>2, CreatedFilled, SMTT(40) DEF u
    <3> QED
      BY <3>1, <3>3 DEF given
  <2>2. CASE ~new
    <3>1. made = freed /\ filled = was.ids[next] /\ was.ids[next] # NoID
      BY <2>2
    <3>2. MayOwn(freed, kind, filled) /\ Keeps(freed, freed, {})
      BY <1>7, <1>8, <3>1, KeepsSame, SMTT(40)
    <3> QED
      BY <1>4, <2>2, <3>1, <3>2
  <2> QED
    BY <2>1, <2>2
<1> HIDE DEF made, given
<1>11. /\ DeviceInv(dev') /\ dev'.up /\ Keeps(made, dev', {<<kind, filled>>}) /\ MayOwn(dev', kind, filled)
       /\ dev'.at[kind][filled].data = DataFor(kind, x)
  <2>1. CASE kind = "cb" /\ new
    <3>1. dev' = made
      BY <1>2, <2>1 DEF FilledFloat, Buffers
    <3>2. Keeps(made, made, {}) /\ {} \subseteq {<<kind, filled>>}
      BY KeepsSame
    <3>3. Keeps(made, dev', {<<kind, filled>>})
      BY <3>1, <3>2, KeepsMore
    <3>4. DataFor(kind, x) = x
      BY <2>1 DEF DataFor
    <3> QED
      BY <1>10, <2>1, <3>1, <3>3, <3>4
  <2>2. CASE ~(kind = "cb" /\ new)
    <3> HIDE DEF new, filled
    <3>1. dev' = IF kind = "texture" THEN FillTexture(made, filled, x)
                 ELSE FillBuffer(made, kind, filled, Total, x)
      BY <1>0, <1>2, <2>2 DEF FilledBuffer, FilledFloat, FilledTexture, Buffers
    <3> HIDE DEF kind
    <3>2. /\ DeviceAssumption /\ DeviceInv(made) /\ made.up /\ MayOwn(made, kind, filled)
          /\ kind \in FilledKinds
      BY <1>0, <1>10 DEF FilledKinds
    <3> QED
      BY <3>1, <3>2, FilledData, SMTT(40)
  <2> QED
    BY <2>1, <2>2
<1>12. filled # NoID
  BY <1>10
<1>13. Spares(res, r, {<<kind, filled>>})
  <2>1. CASE new
    BY <1>0, <1>1, <1>4, <1>5, <1>10, <2>1, NewSpared
  <2>2. CASE ~new
    <3>1. filled = res[r].ids[next] /\ filled # NoID
      BY <1>7, <1>8, <2>2
    <3>2. {<<kind, filled>>} \subseteq Own0
      BY <1>7, <3>1 DEF Own, Lost
    <3> QED
      BY <1>5, <3>2, SparesLess
  <2> QED
    BY <2>1, <2>2
<1> DEFINE Lost0 == (Own0 \cup {}) \cup {<<kind, filled>>}
<1>14. Keeps(dev, dev', Lost0) /\ Spares(res, r, Lost0)
  <2>1. Keeps(dev, made, Own0 \cup {})
    BY <1>4, <1>10, KeepsCompose, SMTT(40)
  <2>2. Keeps(dev, dev', Lost0)
    BY <1>11, <2>1, KeepsCompose
  <2>3. Own0 \cup {} = Own0
    OBVIOUS
  <2>4. Spares(res, r, Lost0)
    BY <1>5, <1>13, <2>3, SparesUnion
  <2> QED
    BY <2>2, <2>4, SMTT(40)
<1>15. now.ids[1 - next] # NoID =>
         /\ now.ids[1 - next] = res[r].ids[1 - next] /\ now.ids[1 - next] # filled
         /\ MayOwn(dev', kind, now.ids[1 - next])
  <2> SUFFICES ASSUME was.ids[1 - next] # NoID
               PROVE  /\ was.ids[1 - next] = res[r].ids[1 - next] /\ was.ids[1 - next] # filled
                      /\ MayOwn(dev', kind, was.ids[1 - next])
    BY <1>9
  <2> DEFINE other == was.ids[1 - next]
  <2>1. MayOwn(freed, kind, other) /\ other = res[r].ids[1 - next] /\ freed = dev
    BY <1>6, <1>7, <1>8
  <2>2. other # filled
    <3>1. CASE new
      BY <1>10, <2>1, <3>1 DEF MayOwn
    <3>2. CASE ~new
      <4>1. filled = res[r].ids[next] /\ filled # NoID
        BY <1>7, <1>8, <3>2, SMTT(40)
      <4> QED
        BY <1>0, <1>1, <1>7, <2>1, <4>1 DEF ResInv, Apart
    <3> QED
      BY <3>1, <3>2
  <2> HIDE DEF other
  <2>3. other \in made.used[kind] /\ made.at[kind][other] = freed.at[kind][other]
    <3>1. other \in freed.used[kind] /\ <<kind, other>> \notin {}
      BY <2>1 DEF MayOwn
    <3> QED
      BY <1>0, <1>10, <3>1 DEF Keeps
  <2>4. <<kind, other>> \notin {<<kind, filled>>}
    BY <2>2, SMTT(40)
  <2>5. other \in dev'.used[kind] /\ dev'.at[kind][other] = made.at[kind][other]
    BY <1>0, <1>11, <2>3, <2>4, SMTT(40) DEF Keeps
  <2>6. MayOwn(dev', kind, other)
    BY <2>1, <2>3, <2>5 DEF MayOwn
  <2> QED
    BY <2>1, <2>2, <2>6 DEF other
<1> HIDE DEF was, new, filled, Own0, Lost0
<1>16. IsResource(r, now)
  BY <1>1, <1>7, <1>9 DEF IsResource, Single
<1>17. HasIds(dev', r, now)
  <2>1. \A i \in Two : now.ids[i] # NoID => MayOwn(dev', kind, now.ids[i])
    BY <1>7, <1>9, <1>11, <1>15
  <2>2. kind = "texture" /\ now.sampler # NoID =>
          /\ now.sampler \in dev'.used["sampler"]
          /\ dev'.at["sampler"][now.sampler].data = SamplerHash[r]
    <3> SUFFICES ASSUME kind = "texture", res[r].sampler # NoID
                 PROVE  /\ res[r].sampler \in dev'.used["sampler"]
                        /\ dev'.at["sampler"][res[r].sampler].data = SamplerHash[r]
      BY <1>9
    <3>1. /\ res[r].sampler \in dev.used["sampler"]
          /\ dev.at["sampler"][res[r].sampler].data = SamplerHash[r]
      BY <1>3 DEF HasIds
    <3>2. <<"sampler", res[r].sampler>> \notin Lost0 /\ "sampler" \in Kinds
      BY <1>14 DEF Spares, Kinds, Copied, Plain
    <3> QED
      BY <1>14, <3>1, <3>2, SlotKept
  <2> QED
    BY <1>1, <1>9, <1>11, <2>1, <2>2 DEF HasIds
<1>18. ApartFrom(res, r, now)
  <2>1. now.ids[0] = now.ids[1] => now.ids[0] = NoID
    BY <1>7, <1>9, <1>15
  <2>2. ASSUME NEW q \in resources \ {r}, NEW i \in Two, NEW m \in Two,
               Kind[q] = Kind[r], res[q].ids[m] = now.ids[i], now.ids[i] # NoID
        PROVE  FALSE
    <3>1. CASE i = next
      BY <1>9, <1>13, <2>2, <3>1 DEF Spares
    <3>2. CASE i # next
      <4>1. now.ids[i] = res[r].ids[i]
        BY <1>7, <1>15, <2>2, <3>2
      <4> QED
        BY <1>0, <1>1, <2>2, <4>1 DEF ResInv, Apart
    <3> QED
      BY <3>1, <3>2
  <2> QED
    BY <2>1, <2>2 DEF ApartFrom
<1>19. ResInv(dev', res')
  BY <1>0, <1>2, <1>14, <1>16, <1>17, <1>18, ResStep, ZenonT(60)
<1>20. \A q \in resources : Kind[q] = "blend" =>
         res'[q].data = res[q].data /\ res'[q].ids[0] = res[q].ids[0]
  BY <1>0, <1>1, <1>2 DEF ResInv
<1>21. CacheInv(dev', res', cache')
  BY <1>0, <1>14, <1>20, CacheStep
<1> QED
  BY <1>0, <1>11, <1>19, <1>21, BetweenFrames

\* Register of a shader.
LEMMA RegisterShaderInv ==
  ASSUME FrameAssumption, FrameInv, ~inFrame, Steady, UNCHANGED <<filter, user, inFrame>>,
         NEW r \in resources, NEW x, RegisterShader(r, x)
  PROVE  FrameInv'
<1> DEFINE kind == Kind[r]
           slot == [Vacant EXCEPT !.object = TRUE, !.data = x]
           made == NewID(dev, kind)
           now == [res[r] EXCEPT !.ids = [@ EXCEPT ![0] = made], !.data = x]
<1>0. /\ Known /\ DeviceAssumption /\ DeviceInv(dev) /\ dev.up
      /\ ResInv(dev, res) /\ CacheInv(dev, res, cache) /\ IsResource(r, res[r])
      /\ kind \in {"vs", "ps"} /\ kind \in Kinds \ {"surface"} /\ kind \in Single
      /\ kind \notin Targets /\ kind \notin {"blend", "texture", "decl"}
      /\ made # NoID /\ dev' = Put(dev, kind, slot)
      /\ cache' = cache /\ inFrame' \in BOOLEAN
  BY KindsKnown DEF FrameInv, Known, RegisterShader, CreateShader, ResInv, Single, Targets
<1>1. MayPut(kind, slot) /\ slot.usage # "System" /\ slot.data = x
  <2>1. LET s == [Vacant EXCEPT !.object = TRUE, !.data = x]
        IN MayPut(kind, s) /\ s.usage # "System"
    BY <1>0, CreatedSlots
  <2>2. slot.data = x
    BY DEF Vacant
  <2> QED
    BY <2>1, <2>2
<1> HIDE DEF slot
<1>2. /\ DeviceInv(dev') /\ dev'.up /\ Keeps(dev, dev', {}) /\ made \notin dev.used[kind]
      /\ made \in dev'.used[kind] /\ dev'.at[kind][made].data = x
  BY <1>0, <1>1, Created
<1>3. /\ DOMAIN now = {"ids", "active", "sampler", "dirty", "usage", "data"}
      /\ DOMAIN now.ids = Two /\ now.ids[0] = made /\ now.ids[1] = NoID /\ now.active = 0
      /\ now.sampler = res[r].sampler /\ now.dirty = res[r].dirty /\ now.data = x
  <2> HIDE DEF made
  <2> QED
    BY <1>0 DEF IsResource, Two
<1>4. res' = [res EXCEPT ![r] = now]
  <2>1. DOMAIN res = resources
    BY <1>0 DEF ResInv
  <2>2. res' = [res EXCEPT ![r].ids[0] = made, ![r].data = x]
    BY DEF RegisterShader
  <2> HIDE DEF made
  <2> QED
    BY <1>0, <2>1, <2>2 DEF IsResource
<1> HIDE DEF now, made
<1>5. IsResource(r, now)
  BY <1>0, <1>3 DEF IsResource, Two
<1>6. HasIds(dev', r, now)
  BY <1>0, <1>2, <1>3 DEF HasIds, MayOwn, DataFor, Two
<1>7. ApartFrom(res, r, now)
  <2>1. ASSUME NEW q \in resources \ {r}, NEW i \in Two, NEW j \in Two,
               Kind[q] = Kind[r], res[q].ids[j] = now.ids[i], now.ids[i] # NoID
        PROVE  FALSE
    <3>1. res[q].ids[j] = made /\ made # NoID
      BY <1>0, <1>3, <2>1 DEF Two
    <3>2. MayOwn(dev, Kind[q], res[q].ids[j])
      BY <1>0, <3>1 DEF ResInv, HasIds
    <3> QED
      BY <1>2, <2>1, <3>1, <3>2 DEF MayOwn
  <2> QED
    BY <1>0, <1>3, <2>1 DEF ApartFrom
<1>8. ResInv(dev', res')
  BY <1>0, <1>2, <1>4, <1>5, <1>6, <1>7, SparesNone, ResStep
<1>9. \A q \in resources : Kind[q] = "blend" =>
        res'[q].data = res[q].data /\ res'[q].ids[0] = res[q].ids[0]
  BY <1>0, <1>4 DEF ResInv
<1>10. CacheInv(dev', res', cache')
  BY <1>0, <1>2, <1>9, SparesNone, CacheStep
<1> QED
  BY <1>0, <1>2, <1>8, <1>10, BetweenFrames

\* A state inserted into a cache, without an id.
LEMMA InsertStateInv ==
  ASSUME FrameAssumption, FrameInv, ~inFrame, Steady, UNCHANGED <<filter, user, inFrame>>,
         NEW k \in {"blend", "sampler"}, NEW h, InsertState(k, h)
  PROVE  FrameInv'
<1>0. /\ DeviceInv(dev') /\ dev'.up /\ ResInv(dev', res') /\ CacheInv(dev, res, cache)
      /\ dev' = dev /\ res' = res /\ h \notin DOMAIN cache[k] /\ inFrame' \in BOOLEAN
  BY DEF FrameInv, InsertState
<1>1. /\ DOMAIN cache' = DOMAIN cache /\ \A j \in DOMAIN cache \ {k} : cache'[j] = cache[j]
      /\ cache'[k] = [g \in {h} \cup DOMAIN cache[k] |->
                       IF g = h THEN NoID ELSE cache[k][g]]
  BY <1>0 DEF InsertState, CacheInv
<1>2. /\ DOMAIN cache'[k] = DOMAIN cache[k] \cup {h} /\ cache'[k][h] = NoID
      /\ \A g \in DOMAIN cache[k] : cache'[k][g] = cache[k][g]
  BY <1>0, <1>1
<1>3. CacheInv(dev', res', cache')
  <2>1. DOMAIN cache' = {"blend", "sampler"}
    BY <1>0, <1>1 DEF CacheInv
  <2>2. ASSUME NEW j \in {"blend", "sampler"}, NEW g \in DOMAIN cache'[j], cache'[j][g] # NoID
        PROVE  cache'[j][g] \in dev.used[j] /\ dev.at[j][cache'[j][g]].data = g
    BY <1>0, <1>1, <1>2, <2>2 DEF CacheInv
  <2>3. ASSUME NEW r \in resources, Kind[r] = "blend", res[r].ids[0] # NoID
        PROVE  /\ res[r].data \in DOMAIN cache'["blend"]
               /\ cache'["blend"][res[r].data] = res[r].ids[0]
    BY <1>0, <1>1, <1>2, <2>3 DEF CacheInv
  <2>4. resources' = resources
    BY DEF Steady
  <2> QED
    BY <1>0, <2>1, <2>2, <2>3 DEF CacheInv
<1> QED
  BY <1>0, <1>3, BetweenFrames

\* BeginFrame.
LEMMA BeginFrameInv ==
  ASSUME FrameAssumption, FrameInv, ~inFrame, Steady, UNCHANGED <<filter, user>>, BeginFrame
  PROVE  FrameInv'
<1>1. /\ DeviceInv(dev') /\ dev'.up /\ ResInv(dev', res') /\ CacheInv(dev', res', cache')
      /\ inFrame' \in BOOLEAN
  BY DEF FrameInv, BeginFrame
<1> QED
  BY <1>1, BetweenFrames

\* EndFrame forgets the filter.
LEMMA EndFrameInv ==
  ASSUME FrameAssumption, FrameInv, Steady, EndFrame
  PROVE  FrameInv'
<1>1. /\ DeviceInv(dev') /\ dev'.up /\ ResInv(dev', res') /\ CacheInv(dev', res', cache')
      /\ inFrame' \in BOOLEAN /\ filter' = Unfiltered /\ user' = Unbound
      /\ resources' = resources /\ resources \subseteq DOMAIN Kind
  BY DEF FrameInv, EndFrame, FrameFilter, Steady
<1>2. BoundInv(dev', filter') /\ UserInv(res', filter', user')
  BY <1>1, UnboundInv
<1> QED
  BY <1>1, <1>2, FrameInvNext

------------------------------------------------------------------------------
(* What an activation makes                                                  *)

\* Have the ids of r been used as they are?
Usable(r, s) ==
  /\ UpToDate(r, s) /\ s.ids[s.active] # NoID
  /\ Kind[r] = "texture" => s.sampler # NoID

\* In e the resource r, which is then s, can be activated; Z is what changed.
IsReady(r, e, s, Z) ==
  /\ DeviceInv(e) /\ e.up /\ Keeps(dev, e, Z) /\ Spares(res, r, Z)
  /\ IsResource(r, s) /\ HasIds(e, r, s) /\ ApartFrom(res, r, s) /\ Usable(r, s)
  /\ s.data = res[r].data
  /\ UpToDate(r, res[r]) => Z = {}
  /\ Usable(r, res[r]) => /\ s.ids[s.active] = res[r].ids[res[r].active]
                          /\ s.sampler = res[r].sampler

\* The device and the resources before an activation.
Sound == Known /\ DeviceInv(dev) /\ dev.up /\ ResInv(dev, res)

\* A resource's ids are apart from the others'.
LEMMA ApartAlready ==
  ASSUME Sound, NEW r \in resources
  PROVE  ApartFrom(res, r, res[r])
BY DEF Sound, ResInv, Apart, ApartFrom, Two

\* A resource that can be used as it is.
LEMMA ReadySame ==
  ASSUME Sound, NEW r \in resources, Usable(r, res[r]), NEW Z, Z = {}
  PROVE  IsReady(r, dev, res[r], Z)
<1>1. Keeps(dev, dev, Z) /\ Spares(res, r, Z)
  BY KeepsSame, SparesNone
<1> QED
  BY <1>1, ApartAlready DEF Sound, ResInv, IsReady

\* A view port or a target with the id in the other place.
LEMMA ReadySwapped ==
  ASSUME Sound, NEW r \in resources, Kind[r] \in Targets, res[r].dirty,
         NEW e, DeviceInv(e), e.up, NEW i, i = Flip(res[r]), NEW id, id # NoID,
         NEW Z, Keeps(dev, e, Z), Spares(res, r, Z),
         res[r].ids[1 - i] # NoID => <<Kind[r], res[r].ids[1 - i]>> \notin Z,
         id # res[r].ids[1 - i], Spares(res, r, {<<Kind[r], id>>}),
         MayOwn(e, Kind[r], id), e.at[Kind[r]][id].data = res[r].data,
         NEW s, s = [res[r] EXCEPT !.ids[i] = id, !.active = i, !.dirty = FALSE]
  PROVE  IsReady(r, e, s, Z)
<1> DEFINE kind == Kind[r]
           old == res[r]
<1>0. /\ IsResource(r, old) /\ HasIds(dev, r, old) /\ kind \in Kinds
      /\ kind \notin Single /\ kind \notin {"texture", "decl", "blend"}
  BY KindsKnown DEF Sound, ResInv, Targets, Single
<1>1. i \in Two /\ 1 - i \in Two /\ Two = {i, 1 - i} /\ Two = {0, 1} /\ i # 1 - i
  BY <1>0 DEF IsResource, Flip, Two
<1>2. /\ DOMAIN s = {"ids", "active", "sampler", "dirty", "usage", "data"}
      /\ DOMAIN s.ids = Two /\ s.ids[i] = id /\ s.ids[1 - i] = old.ids[1 - i]
      /\ s.active = i /\ s.sampler = old.sampler /\ s.dirty = FALSE /\ s.data = old.data
  BY <1>0, <1>1 DEF IsResource
<1>3. old.ids[1 - i] # NoID => MayOwn(e, kind, old.ids[1 - i])
  <2> SUFFICES ASSUME old.ids[1 - i] # NoID PROVE MayOwn(e, kind, old.ids[1 - i])
    BY SMTT(40)
  <2>1. MayOwn(dev, kind, old.ids[1 - i])
    BY <1>0, <1>1 DEF HasIds
  <2> QED
    BY <1>0, <2>1 DEF MayOwn, Keeps
<1>4. IsResource(r, s)
  BY <1>0, <1>1, <1>2, SMTT(40) DEF IsResource
<1>5. HasIds(e, r, s)
  BY <1>0, <1>1, <1>2, <1>3 DEF HasIds, DataFor
<1>6. ApartFrom(res, r, s)
  <2>1. s.ids[0] # s.ids[1]
    BY <1>1, <1>2
  <2>2. ASSUME NEW q \in resources \ {r}, NEW m \in Two, NEW n \in Two,
               Kind[q] = Kind[r], res[q].ids[n] = s.ids[m], s.ids[m] # NoID
        PROVE  FALSE
    <3>1. CASE m = i
      BY <1>2, <2>2, <3>1 DEF Spares
    <3>2. CASE m # i
      <4>1. s.ids[m] = old.ids[m]
        BY <1>1, <1>2, <3>2
      <4> QED
        BY <1>0, <2>2, <4>1 DEF Sound, ResInv, Apart
    <3> QED
      BY <3>1, <3>2
  <2> QED
    BY <2>1, <2>2 DEF ApartFrom
<1>7. Usable(r, s) /\ ~UpToDate(r, res[r])
  BY <1>0, <1>2 DEF Usable, UpToDate
<1> QED
  BY <1>2, <1>4, <1>5, <1>6, <1>7 DEF IsReady, Usable

\* A slot of the resource's.
LEMMA OneSpared ==
  ASSUME Sound, NEW r \in resources, Kind[r] # "blend", NEW i \in Two, res[r].ids[i] # NoID
  PROVE  /\ Spares(res, r, {<<Kind[r], res[r].ids[i]>>})
         /\ Spares(res, r, Lost(Kind[r], res[r].ids[i]))
<1>1. Spares(res, r, Own(r, res[r]))
  BY OwnSpared DEF Sound
<1>2. /\ Lost(Kind[r], res[r].ids[i]) \subseteq Own(r, res[r])
      /\ {<<Kind[r], res[r].ids[i]>>} \subseteq Own(r, res[r])
  BY DEF Own, Lost
<1> QED
  BY <1>1, <1>2, SparesLess

\* A slot that was not in use is nobody's.
LEMMA FreshSpared ==
  ASSUME Sound, NEW r \in resources, Kind[r] # "blend", NEW id, id \notin dev.used[Kind[r]]
  PROVE  Spares(res, r, {<<Kind[r], id>>})
<1> DEFINE z == {}
<1>1. Keeps(dev, dev, z) /\ Spares(res, r, z)
  BY KeepsSame, SparesNone
<1> HIDE DEF z
<1> QED
  BY <1>1, NewSpared DEF Sound

\* A slot that is given data.
DataSet(d, k, id, x) == [d EXCEPT !.at[k][id].data = x]

\* The data set of a slot.
LEMMA SlotSet ==
  ASSUME DeviceAssumption, NEW d, DeviceInv(d), d.up, NEW k \in Kinds, k # "decl",
         NEW id \in d.used[k], NEW x, NEW e, e = DataSet(d, k, id, x)
  PROVE  /\ DeviceInv(e) /\ e.up /\ Keeps(d, e, {<<k, id>>})
         /\ id \in e.used[k] /\ e.at[k][id].data = x
<1> DEFINE u == d.at[k][id]
           n == u.count
<1>1. n \in 0 .. Total /\ [u EXCEPT !.data = x] = [u EXCEPT !.data = x, !.count = n]
  <2>1. IsSlot(u)
    BY SlotInUse
  <2> QED
    BY <2>1, DataFilled DEF IsSlot
<1>2. n \in 0 .. Total /\ e = Refilled(d, k, id, x, n)
  <2>1. e = [d EXCEPT !.at[k][id] = [u EXCEPT !.data = x]]
    BY DEF DataSet
  <2>2. e = Refilled(d, k, id, x, n)
    BY <1>1, <2>1, Zenon DEF Refilled
  <2> QED
    BY <1>1, <2>2
<1> HIDE DEF n
<1>3. /\ DeviceInv(Refilled(d, k, id, x, n)) /\ Refilled(d, k, id, x, n).up
      /\ Keeps(d, Refilled(d, k, id, x, n), {<<k, id>>})
      /\ id \in Refilled(d, k, id, x, n).used[k]
      /\ Refilled(d, k, id, x, n).at[k][id].data = x
  BY <1>2, Refills
<1>4. e = Refilled(d, k, id, x, n)
  BY <1>2
<1>5. DeviceInv(e) /\ e.up /\ id \in e.used[k] /\ e.at[k][id].data = x
  BY <1>3, <1>4
<1>6. Keeps(d, e, {<<k, id>>})
  BY <1>3, <1>4
<1> QED
  BY <1>5, <1>6

\* A resource's two ids differ.
LEMMA NotTwice ==
  ASSUME Sound, NEW r \in resources, Kind[r] # "blend", NEW i \in Two, NEW j \in Two, i # j,
         res[r].ids[i] # NoID
  PROVE  res[r].ids[i] # res[r].ids[j]
BY DEF Sound, ResInv, Apart

\* A view port when it is used.
LEMMA ViewPortReady ==
  ASSUME Sound, NEW r \in resources, Kind[r] = "viewport", NewID(dev, "viewport") # NoID
  PROVE  \E Z : IsReady(r, ReadyViewPort(r).dev, ReadyViewPort(r).s, Z)
<1> DEFINE old == res[r]
           i == Flip(old)
           new == old.ids[i] = NoID
           slot == IF new THEN NewID(dev, "viewport") ELSE old.ids[i]
           made == IF new THEN CreateState(dev, "viewport", old.data)
                   ELSE SetViewPort(dev, slot, old.data)
           now == [old EXCEPT !.ids[i] = slot, !.active = i, !.dirty = FALSE]
<1>0. /\ Known /\ DeviceAssumption /\ DeviceInv(dev) /\ dev.up /\ ResInv(dev, res)
      /\ IsResource(r, old) /\ HasIds(dev, r, old) /\ "viewport" \in Kinds \ {"surface"}
      /\ "viewport" \in Kinds /\ "viewport" \in Copied /\ "viewport" # "blend"
      /\ Kind[r] \in Targets
  BY DEF Sound, Known, FrameAssumption, ResInv, Kinds, Copied, Plain, Targets
<1>1. i \in Two /\ 1 - i \in Two /\ i # 1 - i
  BY <1>0 DEF IsResource, Flip, Two
<1>2. CASE ~old.dirty
  <2>1. Usable(r, old)
    BY <1>0, <1>2 DEF Usable, UpToDate, HasIds
  <2>2. ReadyViewPort(r).dev = dev /\ ReadyViewPort(r).s = old
    BY <1>2 DEF ReadyViewPort, Same
  <2> DEFINE Z == {}
  <2>3. Z = {}
    OBVIOUS
  <2> HIDE DEF Z
  <2>4. IsReady(r, dev, old, Z)
    BY <2>1, <2>3, ReadySame
  <2> QED
    BY <2>2, <2>4
<1>3. CASE old.dirty
  <2>1. ReadyViewPort(r).dev = made /\ ReadyViewPort(r).s = now
    BY <1>3 DEF ReadyViewPort
  <2>2. \A j \in Two : old.ids[j] # NoID => MayOwn(dev, "viewport", old.ids[j])
    BY <1>0 DEF HasIds
  <2>3. CASE new
    <3> DEFINE z == {}
               t == [Vacant EXCEPT !.data = old.data]
    <3>1. made = Put(dev, "viewport", t) /\ slot = NewID(dev, "viewport")
      BY <2>3 DEF CreateState
    <3>2. MayPut("viewport", t) /\ t.usage # "System" /\ t.data = old.data
      <4>1. LET s == [Vacant EXCEPT !.data = old.data]
            IN MayPut("viewport", s) /\ s.usage # "System"
        BY <1>0, CreatedSlots
      <4>2. t.data = old.data
        BY DEF Vacant
      <4> QED
        BY <4>1, <4>2
    <3> HIDE DEF t, made, slot, now, i, new
    <3>3. /\ DeviceInv(made) /\ made.up /\ Keeps(dev, made, z)
          /\ slot \notin dev.used["viewport"]
          /\ slot \in made.used["viewport"] /\ made.at["viewport"][slot] = t /\ slot # NoID
      BY <1>0, <3>1, <3>2, Created
    <3>4. MayOwn(made, "viewport", slot)
      BY <3>3 DEF MayOwn
    <3>5. slot # old.ids[1 - i]
      BY <1>1, <2>2, <3>3 DEF MayOwn
    <3>6. Spares(res, r, z) /\ \A a : a \notin z
      BY SparesNone
    <3> HIDE DEF z
    <3>7. slot \notin dev.used[Kind[r]] /\ Kind[r] # "blend"
      BY <3>3
    <3>8. Spares(res, r, {<<Kind[r], slot>>})
      BY <3>7, FreshSpared
    <3>9. IsReady(r, made, now, z)
      BY <1>0, <1>3, <3>2, <3>3, <3>4, <3>5, <3>6, <3>8, ReadySwapped DEF now, i
    <3> QED
      BY <2>1, <3>9
  <2>4. CASE ~new
    <3> DEFINE z == {<<"viewport", slot>>}
    <3>1. /\ slot = old.ids[i] /\ slot # NoID
          /\ made = [dev EXCEPT !.at["viewport"][slot].data = old.data]
      BY <2>4 DEF SetViewPort
    <3> HIDE DEF made, slot, now, i, new
    <3>2. slot \in dev.used["viewport"] /\ "viewport" # "decl" /\ slot # old.ids[1 - i]
      BY <1>0, <1>1, <2>2, <3>1, NotTwice DEF MayOwn
    <3> DEFINE v == old.data
               kind == "viewport"
    <3>3. made = DataSet(dev, kind, slot, v)
      BY <3>1 DEF DataSet
    <3>4. kind \in Kinds /\ kind # "decl" /\ slot \in dev.used[kind]
      BY <1>0, <3>2
    <3> HIDE DEF v, kind
    <3>5. /\ DeviceInv(made) /\ made.up /\ Keeps(dev, made, {<<kind, slot>>})
          /\ slot \in made.used[kind] /\ made.at[kind][slot].data = v
      BY <1>0, <3>3, <3>4, SlotSet
    <3>6. /\ DeviceInv(made) /\ made.up /\ Keeps(dev, made, z)
          /\ slot \in made.used["viewport"] /\ made.at["viewport"][slot].data = v
      BY <3>5 DEF kind
    <3>7. MayOwn(made, "viewport", slot)
      BY <3>6 DEF MayOwn
    <3>8. Spares(res, r, z) /\ <<"viewport", old.ids[1 - i]>> \notin z
      BY <1>0, <1>1, <3>1, <3>2, OneSpared
    <3>9. Spares(res, r, {<<Kind[r], slot>>})
      BY <3>8
    <3> HIDE DEF z
    <3>10. IsReady(r, made, now, z)
      BY <1>0, <1>3, <3>1, <3>2, <3>6, <3>7, <3>8, <3>9, ReadySwapped DEF now, i, v
    <3> QED
      BY <2>1, <3>10
  <2> QED
    BY <2>3, <2>4
<1> QED
  BY <1>2, <1>3

\* A render target when it is used: the old one is released, a new one created.
LEMMA RenderTargetReady ==
  ASSUME Sound, TargetsAligned, NEW r \in resources, Kind[r] = "surface", MayActivate(r)
  PROVE  \E Z : IsReady(r, ReadyRenderTarget(r).dev, ReadyRenderTarget(r).s, Z)
<1> DEFINE old == res[r]
           i == Flip(old)
           none == old.ids[i] = NoID
           base == IF none THEN dev ELSE ReleaseID(dev, "surface", old.ids[i])
           slot == NewID(base, "surface")
           made == CreateRenderTarget(base, old.data)
           now == [old EXCEPT !.ids[i] = slot, !.active = i, !.dirty = FALSE]
           lost == IF none THEN {} ELSE Lost("surface", old.ids[i])
<1>0. /\ Known /\ DeviceAssumption /\ DeviceInv(dev) /\ dev.up /\ ResInv(dev, res)
      /\ IsResource(r, old) /\ HasIds(dev, r, old) /\ "surface" \in Kinds
      /\ Kind[r] # "blend" /\ Kind[r] \in Targets
  BY DEF Sound, Known, FrameAssumption, ResInv, Kinds, DeviceObjects, Reinitialized, Targets
<1>1. i \in Two /\ 1 - i \in Two /\ i # 1 - i
  BY <1>0 DEF IsResource, Flip, Two
<1>2. CASE ~old.dirty
  <2>1. Usable(r, old)
    BY <1>0, <1>2 DEF Usable, UpToDate, HasIds
  <2>2. ReadyRenderTarget(r).dev = dev /\ ReadyRenderTarget(r).s = old
    BY <1>2 DEF ReadyRenderTarget, Same
  <2> DEFINE z == {}
  <2>3. z = {}
    OBVIOUS
  <2> HIDE DEF z
  <2>4. IsReady(r, dev, old, z)
    BY <2>1, <2>3, ReadySame
  <2> QED
    BY <2>2, <2>4
<1>3. CASE old.dirty
  <2>1. ReadyRenderTarget(r).dev = made /\ ReadyRenderTarget(r).s = now
    BY <1>3 DEF ReadyRenderTarget
  <2>2. \A j \in Two : old.ids[j] # NoID => MayOwn(dev, "surface", old.ids[j])
    BY <1>0 DEF HasIds
  <2>3. MayCreateRenderTarget(base)
    BY <1>3 DEF MayActivate
  <2>4. DeviceInv(base) /\ base.up /\ Keeps(dev, base, lost) /\ Spares(res, r, lost)
    <3>1. CASE none
      BY <1>0, <3>1, KeepsSame, SparesNone
    <3>2. CASE ~none
      <4>1. /\ base = ReleaseID(dev, "surface", old.ids[i])
            /\ lost = Lost("surface", old.ids[i]) /\ MayOwn(dev, "surface", old.ids[i])
        BY <1>1, <2>2, <3>2
      <4>2. DeviceInv(base) /\ base.up /\ Keeps(dev, base, lost)
        BY <1>0, <4>1, ReleaseIDs
      <4>3. Spares(res, r, lost)
        BY <1>0, <1>1, <3>2, OneSpared
      <4> QED
        BY <4>2, <4>3
    <3> QED
      BY <3>1, <3>2
  <2>5. old.ids[1 - i] # NoID => <<"surface", old.ids[1 - i]>> \notin lost
    BY <1>0, <1>1, NotTwice DEF Lost
  <2> HIDE DEF base, lost, none, now
  <2>6. /\ DeviceInv(made) /\ made.up /\ Keeps(base, made, {})
        /\ slot \notin base.used["surface"] /\ slot # NoID
        /\ MayOwn(made, "surface", slot) /\ made.at["surface"][slot].data = old.data
    <3>1. slot = NewID(base, "surface")
      OBVIOUS
    <3> DEFINE v == old.data
    <3>2. made = CreateRenderTarget(base, v)
      OBVIOUS
    <3> HIDE DEF slot, v
    <3>3. /\ DeviceInv(CreateRenderTarget(base, v)) /\ CreateRenderTarget(base, v).up
          /\ Keeps(base, CreateRenderTarget(base, v), {})
          /\ slot \notin base.used["surface"] /\ slot # NoID
          /\ MayOwn(CreateRenderTarget(base, v), "surface", slot)
          /\ CreateRenderTarget(base, v).at["surface"][slot].data = v
      BY <1>0, <2>3, <2>4, <3>1, CreatedTarget
    <3> QED
      BY <3>3 DEF v
  <2> HIDE DEF made, slot
  <2>7. Keeps(dev, made, lost)
    <3>1. Keeps(dev, made, lost \cup {})
      BY <2>4, <2>6, KeepsCompose
    <3>2. lost \cup {} = lost
      OBVIOUS
    <3> QED
      BY <3>1, <3>2
  <2>8. slot # old.ids[1 - i]
    <3> SUFFICES ASSUME old.ids[1 - i] # NoID PROVE old.ids[1 - i] \in base.used["surface"]
      BY <2>6
    <3>1. old.ids[1 - i] \in dev.used["surface"] /\ <<"surface", old.ids[1 - i]>> \notin lost
      BY <1>1, <2>2, <2>5 DEF MayOwn
    <3> QED
      BY <1>0, <2>4, <3>1 DEF Keeps
  <2>9. Spares(res, r, {<<Kind[r], slot>>})
    <3>1. slot \notin base.used[Kind[r]]
      BY <2>6
    <3> QED
      BY <1>0, <2>4, <3>1, NewSpared
  <2> HIDE DEF i
  <2>10. IsReady(r, made, now, lost)
    BY <1>0, <1>3, <2>4, <2>5, <2>6, <2>7, <2>8, <2>9, ReadySwapped DEF now, i
  <2> QED
    BY <2>1, <2>10
<1> QED
  BY <1>2, <1>3

\* A resource with one id that is made when it is first used.
LEMMA ReadyFirst ==
  ASSUME Sound, NEW r \in resources, Kind[r] \in {"decl", "blend"},
         NEW e, DeviceInv(e), e.up, NEW Z, Z = {}, Keeps(dev, e, Z), NEW id, id # NoID,
         MayOwn(e, Kind[r], id), e.at[Kind[r]][id].data = DataFor(Kind[r], res[r].data),
         Kind[r] = "decl" => id \notin dev.used["decl"],
         res[r].ids[0] # NoID => id = res[r].ids[0],
         NEW s, s = [res[r] EXCEPT !.ids[0] = id]
  PROVE  IsReady(r, e, s, Z)
<1> DEFINE kind == Kind[r]
           old == res[r]
<1>0. /\ IsResource(r, old) /\ HasIds(dev, r, old) /\ kind \in Kinds /\ kind \in Single
      /\ kind \notin Targets /\ kind # "texture"
  BY KindsKnown DEF Sound, ResInv, Targets, Single
<1>1. Two = {0, 1} /\ old.active = 0 /\ old.ids[1] = NoID
  BY <1>0 DEF IsResource, Two
<1>2. /\ DOMAIN s = {"ids", "active", "sampler", "dirty", "usage", "data"}
      /\ DOMAIN s.ids = Two /\ s.ids[0] = id /\ s.ids[1] = NoID
      /\ s.active = 0 /\ s.sampler = old.sampler /\ s.dirty = old.dirty /\ s.data = old.data
  BY <1>0, <1>1 DEF IsResource
<1>3. IsResource(r, s)
  BY <1>0, <1>1, <1>2, SMTT(40) DEF IsResource
<1>4. HasIds(e, r, s)
  BY <1>0, <1>1, <1>2 DEF HasIds
<1>5. ApartFrom(res, r, s)
  <2>1. ASSUME kind = "decl", NEW q \in resources \ {r}, NEW m \in Two, NEW n \in Two,
               Kind[q] = Kind[r], res[q].ids[n] = s.ids[m], s.ids[m] # NoID
        PROVE  FALSE
    <3>1. res[q].ids[n] = id
      BY <1>1, <1>2, <2>1
    <3>2. MayOwn(dev, "decl", res[q].ids[n])
      BY <2>1, <3>1 DEF Sound, ResInv, HasIds
    <3> QED
      BY <2>1, <3>1, <3>2 DEF MayOwn
  <2>2. s.ids[0] # s.ids[1]
    BY <1>2
  <2> QED
    BY <2>1, <2>2 DEF ApartFrom
<1>6. Usable(r, s)
  BY <1>0, <1>2 DEF Usable, UpToDate
<1>7. Spares(res, r, Z)
  BY SparesNone
<1>8. Usable(r, old) => s.ids[s.active] = old.ids[old.active] /\ s.sampler = old.sampler
  BY <1>1, <1>2 DEF Usable
<1> QED
  BY <1>2, <1>3, <1>4, <1>5, <1>6, <1>7, <1>8 DEF IsReady

\* A vertex declaration when it is used.
LEMMA VertexDeclReady ==
  ASSUME Sound, NEW r \in resources, Kind[r] = "decl", NewID(dev, "decl") # NoID
  PROVE  \E Z : IsReady(r, ReadyVertexDecl(r).dev, ReadyVertexDecl(r).s, Z)
<1> DEFINE old == res[r]
           z == {}
<1>0. /\ DeviceAssumption /\ DeviceInv(dev) /\ dev.up /\ IsResource(r, old) /\ z = {}
      /\ Kind[r] \in Single /\ Kind[r] \notin Targets
  BY DEF Sound, Known, FrameAssumption, ResInv, Single, Targets
<1> HIDE DEF z
<1>1. CASE old.ids[0] # NoID
  <2>1. Usable(r, old)
    BY <1>0, <1>1 DEF Usable, UpToDate, IsResource
  <2>2. ReadyVertexDecl(r).dev = dev /\ ReadyVertexDecl(r).s = old
    BY <1>1 DEF ReadyVertexDecl, Same
  <2>3. IsReady(r, dev, old, z)
    BY <1>0, <2>1, ReadySame
  <2> QED
    BY <2>2, <2>3
<1>2. CASE old.ids[0] = NoID
  <2> DEFINE slot == NewID(dev, "decl")
             made == CreateVertexDeclaration(dev, old.data)
             now == [old EXCEPT !.ids[0] = slot]
             elements == old.data
  <2>1. ReadyVertexDecl(r).dev = made /\ ReadyVertexDecl(r).s = now
    BY <1>2 DEF ReadyVertexDecl
  <2>2. elements \in Declarations /\ made = CreateVertexDeclaration(dev, elements)
    BY <1>0 DEF IsResource
  <2>3. slot = NewID(dev, "decl")
    OBVIOUS
  <2> HIDE DEF made, elements
  <2>4. /\ DeviceInv(made) /\ made.up /\ Keeps(dev, made, {})
        /\ NewID(dev, "decl") \notin dev.used["decl"] /\ MayOwn(made, "decl", NewID(dev, "decl"))
        /\ made.at["decl"][NewID(dev, "decl")].data = Divisors(elements)
    BY <1>0, <2>2, DeclarationCreated
  <2> HIDE DEF slot
  <2>5. /\ Keeps(dev, made, z) /\ slot \notin dev.used["decl"] /\ MayOwn(made, "decl", slot)
        /\ slot # NoID
    BY <1>0, <2>3, <2>4 DEF Keeps
  <2>6. made.at["decl"][slot].data = DataFor("decl", old.data)
    BY <2>3, <2>4 DEF DataFor, elements
  <2> HIDE DEF now
  <2>7. IsReady(r, made, now, z)
    BY <1>0, <1>2, <2>4, <2>5, <2>6, ReadyFirst DEF now
  <2> QED
    BY <2>1, <2>7
<1> QED
  BY <1>1, <1>2

\* The kinds of states, which the caches share.
StateKinds == {"blend", "sampler"}

\* The state that is asked for, whether it was there or not.
LEMMA StateReady ==
  ASSUME Sound, CacheInv(dev, res, cache), NEW k \in StateKinds, NEW h \in DOMAIN cache[k],
         NewID(dev, k) # NoID, NEW Z, Z = {}, NEW e, e = WithState(k, h),
         NEW id, id = StateID(k, h)
  PROVE  /\ DeviceInv(e) /\ e.up /\ Keeps(dev, e, Z)
         /\ id # NoID /\ id \in e.used[k] /\ e.at[k][id].data = h
         /\ cache[k][h] # NoID => id = cache[k][h]
<1>0. /\ DeviceAssumption /\ DeviceInv(dev) /\ dev.up
      /\ k \in Kinds \ {"surface"} /\ k \in Copied /\ k \in {"blend", "sampler"}
  BY DEF Sound, Known, FrameAssumption, StateKinds, Kinds, Copied, Plain
<1>1. CASE cache[k][h] # NoID
  <2>1. e = dev /\ id = cache[k][h]
    BY <1>1 DEF WithState, StateID
  <2>2. cache[k][h] \in dev.used[k] /\ dev.at[k][cache[k][h]].data = h
    BY <1>0, <1>1 DEF CacheInv
  <2> QED
    BY <1>0, <1>1, <2>1, <2>2, KeepsSame
<1>2. CASE cache[k][h] = NoID
  <2> DEFINE t == [Vacant EXCEPT !.data = h]
  <2>1. e = Put(dev, k, t) /\ id = NewID(dev, k)
    BY <1>0, <1>2 DEF WithState, StateID, CreateState, CreateSamplerState
  <2>2. MayPut(k, t) /\ t.usage # "System" /\ t.data = h
    <3>1. LET s == [Vacant EXCEPT !.data = h] IN MayPut(k, s) /\ s.usage # "System"
      BY <1>0, CreatedSlots
    <3>2. t.data = h
      BY DEF Vacant
    <3> QED
      BY <3>1, <3>2
  <2> HIDE DEF t
  <2>3. /\ DeviceInv(e) /\ e.up /\ Keeps(dev, e, {})
        /\ id \in e.used[k] /\ e.at[k][id] = t
    BY <1>0, <2>1, <2>2, Created
  <2> QED
    BY <1>2, <2>1, <2>2, <2>3
<1> QED
  BY <1>1, <1>2

\* The cache with the id of a state.
CacheWith(k, h, id) == [cache EXCEPT ![k] = [@ EXCEPT ![h] = id]]

\* Of the blend resources only those with the state h of kind k change, to its id.
BlendsAs(ss, k, h, id) ==
  \A q \in resources : Kind[q] = "blend" =>
    /\ ss[q].data = res[q].data
    /\ \/ ss[q].ids[0] = res[q].ids[0]
       \/ k = "blend" /\ ss[q].data = h /\ ss[q].ids[0] = id

\* The cache with the state's id, which all blend resources of the state have.
LEMMA CacheSet ==
  ASSUME Sound, CacheInv(dev, res, cache), NEW k \in StateKinds, NEW h \in DOMAIN cache[k],
         NEW Z, Z = {}, NEW e, Keeps(dev, e, Z),
         NEW id, id # NoID, id \in e.used[k], e.at[k][id].data = h,
         k = "blend" /\ cache[k][h] # NoID => id = cache[k][h],
         NEW ss, BlendsAs(ss, k, h, id), NEW c, c = CacheWith(k, h, id)
  PROVE  CacheInv(e, ss, c)
<1>0. "blend" \in Kinds /\ "sampler" \in Kinds /\ k \in {"blend", "sampler"}
  BY DEF StateKinds, Kinds, Copied, Plain
<1>1. /\ DOMAIN c = {"blend", "sampler"} /\ DOMAIN cache = {"blend", "sampler"}
      /\ \A j \in {"blend", "sampler"} : DOMAIN c[j] = DOMAIN cache[j]
      /\ c[k][h] = id
      /\ \A j \in {"blend", "sampler"} : \A g \in DOMAIN cache[j] :
           <<j, g>> # <<k, h>> => c[j][g] = cache[j][g]
  BY <1>0 DEF CacheInv, CacheWith
<1>2. ASSUME NEW j \in {"blend", "sampler"}, NEW g \in DOMAIN c[j], c[j][g] # NoID
      PROVE  c[j][g] \in e.used[j] /\ e.at[j][c[j][g]].data = g
  <2>1. CASE <<j, g>> = <<k, h>>
    BY <1>1, <2>1
  <2>2. CASE <<j, g>> # <<k, h>>
    <3>1. c[j][g] \in dev.used[j] /\ dev.at[j][c[j][g]].data = g
      BY <1>1, <1>2, <2>2 DEF CacheInv
    <3> QED
      BY <1>0, <3>1 DEF Keeps
  <2> QED
    BY <2>1, <2>2
<1>3. ASSUME NEW q \in resources, Kind[q] = "blend", ss[q].ids[0] # NoID
      PROVE  ss[q].data \in DOMAIN c["blend"] /\ c["blend"][ss[q].data] = ss[q].ids[0]
  <2>0. /\ ss[q].data = res[q].data
        /\ \/ ss[q].ids[0] = res[q].ids[0]
           \/ k = "blend" /\ ss[q].data = h /\ ss[q].ids[0] = id
    BY <1>3 DEF BlendsAs
  <2>1. CASE k = "blend" /\ ss[q].data = h /\ ss[q].ids[0] = id
    BY <1>1, <2>1
  <2>2. CASE ss[q].ids[0] = res[q].ids[0]
    <3>1. /\ res[q].data \in DOMAIN cache["blend"]
          /\ cache["blend"][res[q].data] = res[q].ids[0] /\ ss[q].data = res[q].data
      BY <1>3, <2>0, <2>2 DEF CacheInv
    <3>2. CASE k = "blend" /\ ss[q].data = h
      BY <1>1, <1>3, <2>2, <3>1, <3>2
    <3>3. CASE ~(k = "blend" /\ ss[q].data = h)
      BY <1>0, <1>1, <1>3, <2>2, <3>1, <3>3
    <3> QED
      BY <3>2, <3>3
  <2> QED
    BY <1>3, <2>0, <2>1, <2>2
<1> QED
  BY <1>1, <1>2, <1>3 DEF CacheInv

\* The resources with r as s.
ResWith(r, s) == [res EXCEPT ![r] = s]

\* A texture when it is used: its sampler's state comes from the cache.
LEMMA TextureReady ==
  ASSUME Sound, CacheInv(dev, res, cache), NEW r \in resources, Kind[r] = "texture",
         MayActivate(r), NEW e, e = ReadyTexture(r).dev, NEW s, s = ReadyTexture(r).s,
         NEW c, c = CacheWith("sampler", SamplerHash[r], s.sampler),
         NEW ss, ss = ResWith(r, s)
  PROVE  (\E Z : IsReady(r, e, s, Z)) /\ CacheInv(e, ss, c)
<1> DEFINE old == res[r]
           state == SamplerHash[r]
           z == {}
           sort == "sampler"
<1>0. /\ old.ids[old.active] # NoID /\ NewID(dev, sort) # NoID /\ state \in DOMAIN cache[sort]
      /\ sort \in StateKinds /\ z = {} /\ sort \in Kinds /\ Kind[r] \notin Targets
      /\ IsResource(r, old) /\ HasIds(dev, r, old) /\ DOMAIN res = resources
      /\ sort # "blend" /\ Kind[r] # "blend" /\ Kind[r] \notin Single
      /\ Kind[r] \in Kinds
  BY KindsKnown DEF MayActivate, StateKinds, Kinds, Copied, Plain, Targets, Sound, ResInv, Single
<1>1. c = CacheWith(sort, state, s.sampler)
  OBVIOUS
<1>2. BlendsAs(ss, sort, state, s.sampler)
  BY <1>0 DEF BlendsAs, ResWith
<1> HIDE DEF z, sort, state
<1>3. CASE old.sampler # NoID
  <2>1. e = dev /\ s = old
    BY <1>3 DEF ReadyTexture, Same
  <2>2. Usable(r, old)
    BY <1>0, <1>3 DEF Usable, UpToDate
  <2>3. IsReady(r, e, s, z)
    BY <1>0, <2>1, <2>2, ReadySame
  <2>4. s.sampler # NoID /\ s.sampler \in e.used[sort] /\ e.at[sort][s.sampler].data = state
    BY <1>0, <1>3, <2>1 DEF HasIds, sort, state
  <2>5. Keeps(dev, e, z)
    BY <2>3 DEF IsReady
  <2>6. CacheInv(e, ss, c)
    BY <1>0, <1>1, <1>2, <2>4, <2>5, CacheSet
  <2> QED
    BY <2>3, <2>6
<1>4. CASE old.sampler = NoID
  <2> DEFINE id == StateID(sort, state)
  <2>1. e = WithState(sort, state) /\ s = [old EXCEPT !.sampler = id]
    BY <1>4 DEF ReadyTexture, sort, state
  <2>2. id = StateID(sort, state)
    OBVIOUS
  <2> HIDE DEF id
  <2>3. /\ DeviceInv(e) /\ e.up /\ Keeps(dev, e, z)
        /\ id # NoID /\ id \in e.used[sort] /\ e.at[sort][id].data = state
    BY <1>0, <2>1, <2>2, StateReady
  <2>4. /\ DOMAIN s = {"ids", "active", "sampler", "dirty", "usage", "data"}
        /\ s.ids = old.ids /\ s.active = old.active /\ s.sampler = id
        /\ s.dirty = old.dirty /\ s.data = old.data
    BY <1>0, <2>1 DEF IsResource
  <2>5. CacheInv(e, ss, c)
    BY <1>0, <1>1, <1>2, <2>3, <2>4, CacheSet
  <2>6. IsResource(r, s)
    BY <1>0, <2>4 DEF IsResource
  <2>7. \A i \in Two : old.ids[i] # NoID =>
          /\ old.ids[i] \in dev.used[Kind[r]] /\ MayOwn(dev, Kind[r], old.ids[i])
          /\ old.ids[i] \in e.used[Kind[r]]
          /\ e.at[Kind[r]][old.ids[i]] = dev.at[Kind[r]][old.ids[i]]
    <3> SUFFICES ASSUME NEW i \in Two, old.ids[i] # NoID
                 PROVE  /\ old.ids[i] \in dev.used[Kind[r]] /\ MayOwn(dev, Kind[r], old.ids[i])
                        /\ old.ids[i] \in e.used[Kind[r]]
                        /\ e.at[Kind[r]][old.ids[i]] = dev.at[Kind[r]][old.ids[i]]
      OBVIOUS
    <3>1. MayOwn(dev, Kind[r], old.ids[i]) /\ old.ids[i] \in dev.used[Kind[r]]
      BY <1>0 DEF HasIds, MayOwn
    <3> QED
      BY <1>0, <2>3, <3>1 DEF Keeps
  <2>8. HasIds(e, r, s)
    <3>1. \A i \in Two : s.ids[i] # NoID => MayOwn(e, Kind[r], s.ids[i])
      BY <2>4, <2>7, SMTT(40) DEF MayOwn
    <3>2. e.at[Kind[r]][s.ids[s.active]].data = DataFor(Kind[r], s.data)
      BY <1>0, <2>4, <2>7 DEF HasIds, UpToDate, IsResource
    <3>3. s.sampler \in e.used["sampler"] /\ e.at["sampler"][s.sampler].data = SamplerHash[r]
      BY <2>3, <2>4 DEF sort, state
    <3> QED
      BY <1>0, <3>1, <3>2, <3>3, ZenonT(60) DEF HasIds
  <2>9. ApartFrom(res, r, s)
    BY <2>4, ApartAlready DEF ApartFrom
  <2>10. Usable(r, s) /\ ~Usable(r, old)
    BY <1>0, <1>4, <2>3, <2>4 DEF Usable, UpToDate
  <2>11. Spares(res, r, z)
    BY <1>0, SparesNone
  <2>12. IsReady(r, e, s, z)
    BY <1>0, <2>3, <2>4, <2>6, <2>8, <2>9, <2>10, <2>11 DEF IsReady
  <2> QED
    BY <2>5, <2>12
<1> QED
  BY <1>3, <1>4

\* A blend state when it is used: its id comes from the cache.
LEMMA BlendReady ==
  ASSUME Sound, CacheInv(dev, res, cache), NEW r \in resources, Kind[r] = "blend",
         MayActivate(r), NEW e, e = ReadyBlend(r).dev, NEW s, s = ReadyBlend(r).s,
         NEW c, c = CacheWith("blend", s.data, s.ids[0]), NEW ss, ss = ResWith(r, s)
  PROVE  (\E Z : IsReady(r, e, s, Z)) /\ CacheInv(e, ss, c)
<1> DEFINE old == res[r]
           state == old.data
           none == {}
           sort == "blend"
           made == StateID(sort, state)
<1>0. /\ NewID(dev, sort) # NoID /\ state \in DOMAIN cache[sort]
      /\ sort \in StateKinds /\ none = {} /\ Kind[r] = sort
      /\ IsResource(r, old) /\ DOMAIN res = resources
      /\ Kind[r] \in {"decl", "blend"} /\ DataFor(Kind[r], old.data) = old.data
  BY DEF MayActivate, StateKinds, Sound, ResInv, DataFor
<1>1. e = WithState(sort, state) /\ s = [old EXCEPT !.ids[0] = made]
  BY DEF ReadyBlend
<1>2. made = StateID(sort, state)
  OBVIOUS
<1>3. /\ DOMAIN s = DOMAIN old /\ s.ids[0] = made /\ s.data = state
      /\ c = CacheWith(sort, s.data, s.ids[0])
  <2> HIDE DEF made
  <2> QED
    BY <1>0, <1>1 DEF IsResource, Two
<1>4. c = CacheWith(sort, state, made)
  BY <1>3
<1>5. old.ids[0] # NoID => cache[sort][state] = old.ids[0]
  BY <1>0 DEF CacheInv
<1> HIDE DEF none, made, state, sort
<1>6. /\ DeviceInv(e) /\ e.up /\ Keeps(dev, e, none)
      /\ made # NoID /\ made \in e.used[sort] /\ e.at[sort][made].data = state
      /\ cache[sort][state] # NoID => made = cache[sort][state]
  BY <1>0, <1>1, <1>2, StateReady
<1>7. BlendsAs(ss, sort, state, made)
  <2>1. /\ ss[r] = s /\ \A q \in resources \ {r} : ss[q] = res[q]
    BY <1>0 DEF ResWith
  <2>2. res[r].data = state /\ sort = "blend"
    BY DEF state, sort
  <2> QED
    BY <1>3, <2>1, <2>2 DEF BlendsAs
<1>8. CacheInv(e, ss, c)
  BY <1>0, <1>4, <1>6, <1>7, CacheSet
<1>9. MayOwn(e, Kind[r], made) /\ e.at[Kind[r]][made].data = DataFor(Kind[r], res[r].data)
  <2>1. made \in e.used["blend"] /\ e.at["blend"][made].data = old.data
    BY <1>6 DEF sort, state
  <2> QED
    BY <1>0, <2>1 DEF MayOwn
<1>10. res[r].ids[0] # NoID => made = res[r].ids[0]
  BY <1>5, <1>6
<1>11. IsReady(r, e, s, none)
  BY <1>0, <1>1, <1>6, <1>9, <1>10, ReadyFirst
<1> QED
  BY <1>8, <1>11

\* The cache after an activation of r, which is then s.
CacheAfter(r, s) ==
  CASE Kind[r] = "texture" -> CacheWith("sampler", SamplerHash[r], s.sampler)
    [] Kind[r] = "blend" -> CacheWith("blend", s.data, s.ids[0])
    [] OTHER -> cache

\* Every kind when it is used.
LEMMA Readied ==
  ASSUME Sound, TargetsAligned, CacheInv(dev, res, cache), NEW r \in resources,
         MayActivate(r), NEW e, e = Ready(r).dev, NEW s, s = Ready(r).s,
         NEW c, c = CacheAfter(r, s), NEW ss, ss = ResWith(r, s)
  PROVE  (\E Z : IsReady(r, e, s, Z)) /\ CacheInv(e, ss, c)
<1>0. /\ DOMAIN res = resources /\ IsResource(r, res[r]) /\ Known
      /\ Kind[r] \in Kinds /\ Kind[r] # "sampler"
  BY KindsKnown DEF Sound, ResInv
<1>1. CASE Kind[r] = "texture"
  <2>1. /\ e = ReadyTexture(r).dev /\ s = ReadyTexture(r).s
        /\ c = CacheWith("sampler", SamplerHash[r], s.sampler)
    BY <1>1 DEF Ready, CacheAfter
  <2> QED
    BY <1>1, <2>1, TextureReady
<1>2. CASE Kind[r] = "blend"
  <2>1. /\ e = ReadyBlend(r).dev /\ s = ReadyBlend(r).s
        /\ c = CacheWith("blend", s.data, s.ids[0])
    BY <1>2 DEF Ready, CacheAfter
  <2> QED
    BY <1>2, <2>1, BlendReady
<1>3. CASE Kind[r] \notin {"texture", "blend"}
  <2>1. \E Z : IsReady(r, e, s, Z)
    <3>1. CASE Kind[r] = "viewport"
      <4>1. e = ReadyViewPort(r).dev /\ s = ReadyViewPort(r).s /\ NewID(dev, "viewport") # NoID
        BY <3>1 DEF Ready, MayActivate
      <4> QED
        BY <3>1, <4>1, ViewPortReady
    <3>2. CASE Kind[r] = "surface"
      <4>1. e = ReadyRenderTarget(r).dev /\ s = ReadyRenderTarget(r).s
        BY <3>2 DEF Ready
      <4> QED
        BY <3>2, <4>1, RenderTargetReady
    <3>3. CASE Kind[r] = "decl"
      <4>1. e = ReadyVertexDecl(r).dev /\ s = ReadyVertexDecl(r).s /\ NewID(dev, "decl") # NoID
        BY <3>3 DEF Ready, MayActivate
      <4> QED
        BY <3>3, <4>1, VertexDeclReady
    <3>4. CASE Kind[r] \notin {"viewport", "surface", "decl"}
      <4>1. e = dev /\ s = res[r]
        BY <1>3, <3>4 DEF Ready, Same
      <4>2. Usable(r, res[r])
        BY <1>3, <3>4 DEF MayActivate, Usable, UpToDate, Targets
      <4> DEFINE z == {}
      <4>3. z = {}
        OBVIOUS
      <4> HIDE DEF z
      <4>4. IsReady(r, dev, res[r], z)
        BY <4>2, <4>3, ReadySame
      <4> QED
        BY <4>1, <4>4
    <3> QED
      BY <3>1, <3>2, <3>3, <3>4
  <2>2. PICK Z : IsReady(r, e, s, Z)
    BY <2>1
  <2>3. Keeps(dev, e, Z) /\ Spares(res, r, Z)
    BY <2>2 DEF IsReady
  <2>4. \A q \in resources : Kind[q] = "blend" =>
          ss[q].data = res[q].data /\ ss[q].ids[0] = res[q].ids[0]
    BY <1>0, <1>3 DEF ResWith
  <2>5. c = cache
    BY <1>3 DEF CacheAfter
  <2>6. CacheInv(e, ss, c)
    BY <1>0, <2>3, <2>4, <2>5, CacheStep
  <2> QED
    BY <2>1, <2>6
<1> QED
  BY <1>1, <1>2, <1>3

------------------------------------------------------------------------------
(* What an activation binds                                                  *)

\* What the filter remembers stays bound while a resource is made ready.
LEMMA BoundKept ==
  ASSUME Sound, BoundInv(dev, filter), UserInv(res, filter, user), NEW r \in resources,
         NEW e, NEW s, NEW Z, IsReady(r, e, s, Z)
  PROVE  BoundInv(e, filter)
<1>0. Keeps(dev, e, Z) /\ Spares(res, r, Z) /\ (UpToDate(r, res[r]) => Z = {})
  BY DEF IsReady
<1>1. ASSUME NEW k \in Kinds, NEW p \in Points[k], filter[p] # NoID
      PROVE  /\ filter[p] \in e.used[k]
             /\ e.bound[p] = IF k \in Copied THEN e.at[k][filter[p]].data ELSE filter[p]
  <2>1. /\ filter[p] \in dev.used[k]
        /\ dev.bound[p] = IF k \in Copied THEN dev.at[k][filter[p]].data ELSE filter[p]
    BY <1>1 DEF BoundInv
  <2>2. <<k, filter[p]>> \notin Z
    <3>1. CASE k = "sampler"
      BY <1>0, <3>1 DEF Spares
    <3>2. CASE k # "sampler"
      <4> DEFINE q == user[p]
      <4>1. /\ q \in resources /\ Kind[q] = k /\ UpToDate(q, res[q])
            /\ filter[p] = res[q].ids[res[q].active]
        BY <1>1, <3>2 DEF UserInv
      <4> HIDE DEF q
      <4>2. res[q].active \in Two
        BY <4>1 DEF Sound, ResInv, IsResource
      <4>3. CASE q = r
        BY <1>0, <4>1, <4>3
      <4>4. CASE q # r
        BY <1>0, <1>1, <4>1, <4>2, <4>4 DEF Spares
      <4> QED
        BY <4>3, <4>4
    <3> QED
      BY <3>1, <3>2
  <2>3. filter[p] \in e.used[k] /\ e.at[k][filter[p]] = dev.at[k][filter[p]]
    BY <1>0, <2>1, <2>2 DEF Keeps
  <2>4. e.bound[p] = dev.bound[p]
    <3>1. e.bound[p] # dev.bound[p] => k \in DeviceObjects /\ <<k, dev.bound[p]>> \in Z
      BY <1>0 DEF Keeps
    <3>2. k \in DeviceObjects => k \notin Copied
      BY DEF DeviceObjects, Copied, Plain, Reinitialized, Buffers
    <3> QED
      BY <2>1, <2>2, <3>1, <3>2
  <2> QED
    BY <2>1, <2>3, <2>4
<1>2. DOMAIN filter = AllPoints
  BY DEF BoundInv
<1> QED
  BY <1>1, <1>2 DEF BoundInv

\* Points of a kind are of no other kind.
LEMMA PointsApart ==
  ASSUME DeviceAssumption, NEW k \in Kinds, NEW j \in Kinds, NEW p \in Points[k]
  PROVE  p \in AllPoints /\ (p \in Points[j] => j = k)
BY DEF DeviceAssumption, AllPoints

\* Points at which id's of kind k are set at once.
PointsOf(k, points) ==
  points \subseteq Points[k] /\ (k \in {"decl", "vb"} => points = Points[k])

\* The filter f with id at the points.
FilterSet(g, f, points, id) ==
  /\ DOMAIN g = AllPoints
  /\ \A p \in AllPoints : g[p] = IF p \in points THEN id ELSE f[p]

\* A call that the filter lets through or not.
LEMMA GoesThrough ==
  ASSUME DeviceAssumption, NEW d, DeviceInv(d), d.up, NEW f, BoundInv(d, f),
         NEW k \in Kinds, NEW points, PointsOf(k, points), NEW id, id \in d.used[k], id # NoID,
         NEW st, st.dev = d, st.filter = f, NEW e, e = Through(st, k, points, id).dev,
         NEW g, g = Through(st, k, points, id).filter
  PROVE  /\ DeviceInv(e) /\ e.up /\ e.used = d.used /\ e.at = d.at /\ BoundInv(e, g)
         /\ FilterSet(g, f, points, id)
<1>0. /\ DOMAIN f = AllPoints /\ points \subseteq Points[k]
      /\ k \in {"decl", "vb"} => points = Points[k]
  BY DEF BoundInv, PointsOf
<1>1. CASE \A p \in points : f[p] = id
  <2>1. e = d /\ g = f
    BY <1>1 DEF Through
  <2> QED
    BY <1>0, <1>1, <2>1 DEF FilterSet
<1>2. CASE ~\A p \in points : f[p] = id
  <2>1. /\ e = Activated(d, k, points, id)
        /\ g = [p \in AllPoints |-> IF p \in points THEN id ELSE f[p]]
    BY <1>2 DEF Through
  <2>2. PointsBound(k, points) = points
    BY <1>0 DEF PointsBound
  <2>3. ShapeInv(d)
    BY DEF DeviceInv, BaseInv
  <2>4. IsBind(d, Activated(d, k, points, id), k, PointsBound(k, points), id)
    BY <2>3, Binds
  <2>5. IsBind(d, e, k, points, id)
    BY <2>1, <2>2, <2>4
  <2>6. DeviceInv(e) /\ e.up
    BY <1>0, <2>5, BindInv
  <2>7. /\ e.used = d.used /\ e.at = d.at
        /\ e.bound = [p \in AllPoints |-> IF p \notin points THEN d.bound[p]
                                          ELSE IF k \in Copied THEN d.at[k][id].data ELSE id]
    BY <2>5 DEF IsBind
  <2>8. ASSUME NEW j \in Kinds, NEW p \in Points[j], g[p] # NoID
        PROVE  /\ g[p] \in e.used[j]
               /\ e.bound[p] = IF j \in Copied THEN e.at[j][g[p]].data ELSE g[p]
    <3>1. p \in AllPoints
      BY PointsApart
    <3>2. CASE p \in points
      <4>1. j = k
        BY <1>0, <3>2, PointsApart
      <4>2. g[p] = id /\ e.bound[p] = IF k \in Copied THEN d.at[k][id].data ELSE id
        BY <2>1, <2>7, <3>1, <3>2
      <4> QED
        BY <2>7, <4>1, <4>2
    <3>3. CASE p \notin points
      <4>1. g[p] = f[p] /\ e.bound[p] = d.bound[p]
        BY <2>1, <2>7, <3>1, <3>3
      <4> QED
        BY <2>7, <2>8, <4>1 DEF BoundInv
    <3> QED
      BY <3>2, <3>3
  <2>9. DOMAIN g = AllPoints
    BY <2>1
  <2>10. BoundInv(e, g)
    BY <2>8, <2>9 DEF BoundInv
  <2> QED
    BY <2>1, <2>6, <2>7, <2>9, <2>10 DEF FilterSet
<1> QED
  BY <1>1, <1>2

\* The points of the samplers that are set with the textures at points.
SamplerPoints(r, points) ==
  IF Kind[r] = "texture" THEN {SamplerOf[p] : p \in points} ELSE {}

\* The filter f with what the activation of r, which is s, sets.
FilterWith(g, f, r, s, points) ==
  /\ DOMAIN g = AllPoints
  /\ \A p \in AllPoints :
       g[p] = IF p \in points THEN s.ids[s.active]
              ELSE IF p \in SamplerPoints(r, points) THEN s.sampler ELSE f[p]

UserWith(r, points) == [p \in AllPoints |-> IF p \in points THEN r ELSE user[p]]

\* The activated resource is the one that was used last at its points.
LEMMA UserSet ==
  ASSUME FrameAssumption, Sound, UserInv(res, filter, user), NEW r \in resources,
         NEW points, points \subseteq Points[Kind[r]],
         NEW e, NEW s, NEW Z, IsReady(r, e, s, Z), NEW ss, ss = ResWith(r, s),
         NEW g, FilterWith(g, filter, r, s, points), NEW u, u = UserWith(r, points)
  PROVE  UserInv(ss, g, u)
<1> DEFINE samplers == SamplerPoints(r, points)
<1>00. /\ samplers = IF Kind[r] = "texture" THEN {SamplerOf[p] : p \in points} ELSE {}
       /\ \A p \in AllPoints : g[p] = IF p \in points THEN s.ids[s.active]
                                      ELSE IF p \in samplers THEN s.sampler ELSE filter[p]
       /\ u = [p \in AllPoints |-> IF p \in points THEN r ELSE user[p]]
  BY DEF FilterWith, SamplerPoints, UserWith
<1> HIDE DEF samplers
<1>0. /\ DeviceAssumption /\ Kind[r] \in Kinds /\ Kind[r] # "sampler" /\ r # Unused
      /\ "sampler" \in Kinds /\ "texture" \in Kinds /\ DOMAIN res = resources
  BY KindsKnown DEF Sound, ResInv, Kinds, Copied, Plain, DeviceObjects, Reinitialized
<1>1. /\ Usable(r, s)
      /\ Usable(r, res[r]) => /\ s.ids[s.active] = res[r].ids[res[r].active]
                              /\ s.sampler = res[r].sampler
  BY DEF IsReady
<1>2. ss[r] = s /\ \A q \in resources \ {r} : ss[q] = res[q]
  BY <1>0 DEF ResWith
<1>3. samplers \subseteq Points["sampler"]
  BY <1>0, <1>00 DEF FrameAssumption
<1>4. \A p \in Points["sampler"] : u[p] = Unused
  <2> SUFFICES ASSUME NEW p \in Points["sampler"] PROVE u[p] = Unused
    OBVIOUS
  <2>1. p \in AllPoints /\ p \notin points
    BY <1>0, PointsApart
  <2> QED
    BY <1>00, <2>1 DEF UserInv
<1>5. ASSUME NEW k \in Kinds \ {"sampler"}, NEW p \in Points[k]
      PROVE  \/ u[p] = Unused /\ g[p] = NoID
             \/ /\ u[p] \in resources /\ Kind[u[p]] = k /\ UpToDate(u[p], ss[u[p]])
                /\ g[p] # NoID /\ g[p] = ss[u[p]].ids[ss[u[p]].active]
                /\ k = "texture" => /\ ss[u[p]].sampler # NoID
                                    /\ g[SamplerOf[p]] = ss[u[p]].sampler
  <2>0. p \in AllPoints /\ p \notin Points["sampler"] /\ p \notin samplers
    BY <1>0, <1>3, PointsApart
  <2>1. k = "texture" => SamplerOf[p] \in Points["sampler"] /\ SamplerOf[p] \in AllPoints
                         /\ SamplerOf[p] \notin points
    <3> SUFFICES ASSUME k = "texture"
                 PROVE  SamplerOf[p] \in Points["sampler"] /\ SamplerOf[p] \in AllPoints
                        /\ SamplerOf[p] \notin points
      OBVIOUS
    <3>1. SamplerOf[p] \in Points["sampler"]
      BY DEF FrameAssumption
    <3> QED
      BY <1>0, <3>1, PointsApart
  <2>2. CASE p \in points
    <3>1. k = Kind[r]
      BY <1>0, <2>2, PointsApart
    <3>2. u[p] = r /\ g[p] = s.ids[s.active]
      BY <1>00, <2>0, <2>2
    <3>3. k = "texture" => s.sampler # NoID /\ g[SamplerOf[p]] = s.sampler
      BY <1>00, <1>1, <2>1, <2>2, <3>1 DEF Usable
    <3> QED
      BY <1>1, <1>2, <3>1, <3>2, <3>3 DEF Usable
  <2>3. CASE p \notin points
    <3>1. u[p] = user[p] /\ g[p] = filter[p]
      BY <1>00, <2>0, <2>3
    <3>2. CASE user[p] = Unused /\ filter[p] = NoID
      BY <3>1, <3>2
    <3>3. CASE ~(user[p] = Unused /\ filter[p] = NoID)
      <4> DEFINE q == user[p]
      <4>1. /\ q \in resources /\ Kind[q] = k /\ UpToDate(q, res[q])
            /\ filter[p] # NoID /\ filter[p] = res[q].ids[res[q].active]
            /\ k = "texture" => /\ res[q].sampler # NoID
                                /\ filter[SamplerOf[p]] = res[q].sampler
        BY <3>3 DEF UserInv
      <4> HIDE DEF q
      <4>2. Usable(q, res[q])
        BY <4>1 DEF Usable
      <4>3. UpToDate(q, ss[q]) /\ ss[q].ids[ss[q].active] = filter[p]
            /\ (k = "texture" => ss[q].sampler = res[q].sampler)
        <5>1. CASE q = r
          BY <1>1, <1>2, <4>1, <4>2, <5>1 DEF Usable
        <5>2. CASE q # r
          BY <1>2, <4>1, <5>2
        <5> QED
          BY <5>1, <5>2
      <4>4. k = "texture" => g[SamplerOf[p]] = filter[SamplerOf[p]]
        <5> SUFFICES ASSUME k = "texture", SamplerOf[p] \in samplers PROVE FALSE
          BY <1>00, <2>1
        <5>1. PICK o \in points : Kind[r] = "texture" /\ SamplerOf[p] = SamplerOf[o]
          BY <1>00
        <5>2. o \in Points["texture"] /\ p \in Points["texture"]
          BY <5>1
        <5>3. p = o
          BY <5>1, <5>2 DEF FrameAssumption
        <5> QED
          BY <2>3, <5>1, <5>3
      <4> QED
        BY <3>1, <4>1, <4>3, <4>4 DEF q
    <3> QED
      BY <3>2, <3>3
  <2> QED
    BY <2>2, <2>3
<1>6. DOMAIN u = AllPoints
  BY <1>00
<1> QED
  BY <1>4, <1>5, <1>6 DEF UserInv

\* Bindings change no slots.
LEMMA SameSlots ==
  ASSUME NEW d, NEW e, e.used = d.used, e.at = d.at, NEW ss, ResInv(d, ss),
         NEW c, CacheInv(d, ss, c)
  PROVE  ResInv(e, ss) /\ CacheInv(e, ss, c)
<1>1. \A r \in resources : HasIds(e, r, ss[r])
  BY DEF ResInv, HasIds, MayOwn
<1>2. ResInv(e, ss)
  BY <1>1 DEF ResInv
<1>3. CacheInv(e, ss, c)
  BY DEF CacheInv
<1> QED
  BY <1>2, <1>3, SMTT(40)

\* The device e and the filter after the calls of an activation of r, which is s.
Sampled(r, e, s, points) ==
  LET st == [dev |-> e, filter |-> filter]
  IN IF Kind[r] = "texture"
     THEN Through(st, "sampler", {SamplerOf[p] : p \in points}, s.sampler) ELSE st
Done(r, e, s, points) == Through(Sampled(r, e, s, points), Kind[r], points, s.ids[s.active])

\* What an activation binds is what the filter remembers.
LEMMA ActivationBinds ==
  ASSUME FrameAssumption, Sound, BoundInv(dev, filter), UserInv(res, filter, user),
         NEW r \in resources, NEW points \in Uses[r],
         NEW e, NEW s, NEW Z, IsReady(r, e, s, Z), NEW done, done = Done(r, e, s, points)
  PROVE  /\ DeviceInv(done.dev) /\ done.dev.up
         /\ done.dev.used = e.used /\ done.dev.at = e.at
         /\ BoundInv(done.dev, done.filter)
         /\ UserInv(ResWith(r, s), done.filter, UserWith(r, points))
<1> DEFINE sort == Kind[r]
           key == s.ids[s.active]
           sam == s.sampler
           samplers == {SamplerOf[p] : p \in points}
           st == [dev |-> e, filter |-> filter]
           sampled == Sampled(r, e, s, points)
           d1 == sampled.dev
           f1 == sampled.filter
           d2 == done.dev
           f2 == done.filter
<1>0. /\ DeviceAssumption /\ sort \in Kinds /\ sort # "sampler" /\ "sampler" \in Kinds
      /\ points \subseteq Points[sort] /\ PointsOf(sort, points)
      /\ DeviceInv(e) /\ e.up /\ BoundInv(e, filter) /\ st.dev = e /\ st.filter = filter
  BY KindsKnown, BoundKept DEF Sound, IsReady, Kinds, Copied, Plain, PointsOf
<1>1. /\ key # NoID /\ key \in e.used[sort]
      /\ sort = "texture" => sam # NoID /\ sam \in e.used["sampler"]
  <2>1. Usable(r, s) /\ HasIds(e, r, s) /\ IsResource(r, s)
    BY DEF IsReady
  <2>2. key # NoID /\ s.active \in Two
    BY <2>1 DEF Usable, IsResource
  <2>3. MayOwn(e, sort, key)
    BY <2>1, <2>2 DEF HasIds
  <2> QED
    BY <2>1, <2>2, <2>3 DEF Usable, HasIds, MayOwn
<1>2. sort = "texture" => PointsOf("sampler", samplers)
  BY <1>0 DEF FrameAssumption, PointsOf
<1>3. sort = "texture" => /\ d1 = Through(st, "sampler", samplers, sam).dev
                          /\ f1 = Through(st, "sampler", samplers, sam).filter
  BY DEF Sampled
<1>4. sort # "texture" => d1 = e /\ f1 = filter
  BY <1>0 DEF Sampled
<1>5. d2 = Through(sampled, sort, points, key).dev /\ f2 = Through(sampled, sort, points, key).filter
  BY DEF Done
<1>6. sampled.dev = d1 /\ sampled.filter = f1 /\ DOMAIN filter = AllPoints
  BY DEF BoundInv
<1>8. SamplerPoints(r, points) = IF sort = "texture" THEN samplers ELSE {}
  BY DEF SamplerPoints
<1> DEFINE set == SamplerPoints(r, points)
<1> HIDE DEF sort, key, sam, d1, f1, d2, f2, sampled, samplers, st, set
<1>9. /\ DeviceInv(d1) /\ d1.up /\ d1.used = e.used /\ d1.at = e.at /\ BoundInv(d1, f1)
      /\ FilterSet(f1, filter, set, sam)
  <2>1. CASE sort = "texture"
    <3>1. /\ DeviceInv(d1) /\ d1.up /\ d1.used = e.used /\ d1.at = e.at /\ BoundInv(d1, f1)
          /\ FilterSet(f1, filter, samplers, sam)
      BY <1>0, <1>1, <1>2, <1>3, <2>1, GoesThrough
    <3>2. set = samplers
      BY <1>8, <2>1 DEF set
    <3> QED
      BY <3>1, <3>2
  <2>2. CASE sort # "texture"
    <3>1. set = {}
      BY <1>8, <2>2 DEF set
    <3> QED
      BY <1>0, <1>4, <1>6, <2>2, <3>1 DEF FilterSet
  <2> QED
    BY <2>1, <2>2
<1>10. key \in d1.used[sort]
  BY <1>1, <1>9
<1>11. /\ DeviceInv(d2) /\ d2.up /\ d2.used = d1.used /\ d2.at = d1.at /\ BoundInv(d2, f2)
       /\ FilterSet(f2, f1, points, key)
  BY <1>0, <1>1, <1>5, <1>6, <1>9, <1>10, GoesThrough
<1>12. FilterWith(f2, filter, r, s, points)
  BY <1>9, <1>11 DEF FilterSet, FilterWith, key, sam, set
<1>13. UserInv(ResWith(r, s), f2, UserWith(r, points))
  BY <1>0, <1>12, UserSet DEF sort
<1> QED
  BY <1>9, <1>11, <1>13 DEF d2, f2

\* An activation keeps the invariant.
LEMMA ActivateResourceInv ==
  ASSUME FrameAssumption, TargetsAligned, FrameInv, inFrame, Steady,
         NEW r \in resources, NEW points \in Uses[r], ActivateResource(r, points)
  PROVE  FrameInv'
<1> DEFINE base == Ready(r).dev
           now == Ready(r).s
           done == Done(r, base, now, points)
           next == ResWith(r, now)
           users == UserWith(r, points)
<1>0. /\ Sound /\ CacheInv(dev, res, cache) /\ BoundInv(dev, filter)
      /\ UserInv(res, filter, user) /\ MayActivate(r)
      /\ resources' = resources /\ resources \subseteq DOMAIN Kind
  BY DEF FrameInv, Sound, Known, Steady, ActivateResource
<1>1. /\ dev' = done.dev /\ filter' = done.filter /\ res' = next /\ user' = users
      /\ inFrame' = inFrame
  BY DEF ActivateResource, ResWith, Done, Sampled, UserWith
<1>2. cache' = CacheAfter(r, now)
  <2>1. CASE Kind[r] = "texture"
    BY <2>1 DEF ActivateResource, CacheAfter, CacheWith
  <2>2. CASE Kind[r] = "blend"
    BY <2>2 DEF ActivateResource, CacheAfter, CacheWith
  <2>3. CASE Kind[r] \notin {"texture", "blend"}
    BY <2>3 DEF ActivateResource, CacheAfter
  <2> QED
    BY <2>1, <2>2, <2>3
<1>3. (\E Z : IsReady(r, base, now, Z)) /\ CacheInv(base, next, cache')
  BY <1>0, <1>2, Readied
<1>4. PICK Z : IsReady(r, base, now, Z)
  BY <1>3
<1>5. ResInv(base, next)
  <2>1. /\ Known /\ ResInv(dev, res) /\ Keeps(dev, base, Z) /\ Spares(res, r, Z)
        /\ IsResource(r, now) /\ HasIds(base, r, now) /\ ApartFrom(res, r, now)
    BY <1>0, <1>4 DEF IsReady, Sound
  <2>2. next = [res EXCEPT ![r] = now]
    BY DEF ResWith
  <2> HIDE DEF next, base, now
  <2> QED
    BY <2>1, <2>2, ResStep
<1>6. done = Done(r, base, now, points)
  OBVIOUS
<1> HIDE DEF base, now, done
<1>7. /\ DeviceInv(done.dev) /\ done.dev.up
      /\ done.dev.used = base.used /\ done.dev.at = base.at
      /\ BoundInv(done.dev, done.filter) /\ UserInv(next, done.filter, users)
  BY <1>0, <1>4, <1>6, ActivationBinds
<1> HIDE DEF next, users
<1>8. ResInv(done.dev, next) /\ CacheInv(done.dev, next, cache')
  BY <1>3, <1>5, <1>7, SameSlots
<1>9. /\ DeviceInv(dev') /\ dev'.up /\ ResInv(dev', res') /\ CacheInv(dev', res', cache')
      /\ BoundInv(dev', filter') /\ UserInv(res', filter', user')
  BY <1>1, <1>7, <1>8
<1>10. inFrame' \in BOOLEAN /\ inFrame'
  BY <1>1 DEF FrameInv
<1> QED
  BY <1>0, <1>9, <1>10, FrameInvNext

------------------------------------------------------------------------------
(* Theorems                                                                  *)

\* The start: a device initialized, no resource registered, empty caches.
LEMMA FrameInitInv ==
  ASSUME FrameAssumption, FrameInit
  PROVE  FrameInv
<1>0. /\ DeviceAssumption /\ dev = Initialized(Fresh) /\ resources \in ResourceSets
      /\ cache = [k \in {"blend", "sampler"} |-> [h \in {} |-> NoID]]
      /\ filter = Unfiltered /\ inFrame = FALSE /\ user = Unbound
      /\ resources \subseteq DOMAIN Kind
  BY DEF FrameInit, FrameAssumption
<1>1. DeviceInv(dev) /\ dev.up
  BY <1>0, FreshBase, InitializedInv
<1>2. PICK data \in [resources -> UNION {InitialData(r) : r \in resources}] :
        /\ \A r \in resources : data[r] \in InitialData(r)
        /\ res = [r \in resources |-> NewResource(r, data[r])]
  BY DEF FrameInit
<1>3. ASSUME NEW r \in resources
      PROVE  /\ IsResource(r, res[r]) /\ HasIds(dev, r, res[r])
             /\ \A i \in Two : res[r].ids[i] = NoID
  <2>1. res[r] = NewResource(r, data[r])
    BY <1>2
  <2>2. Kind[r] = "decl" => data[r] \in Declarations
    BY <1>2 DEF InitialData
  <2>3. \A i \in Two : NewResource(r, data[r]).ids[i] = NoID
    BY DEF NewResource
  <2> QED
    BY <2>1, <2>2, <2>3, NewResourceOK
<1>4. ResInv(dev, res)
  <2>1. DOMAIN res = resources
    BY <1>2
  <2>2. Apart(res)
    BY <1>3 DEF Apart
  <2> QED
    BY <1>3, <2>1, <2>2 DEF ResInv
<1>5. CacheInv(dev, res, cache)
  <2>1. DOMAIN cache = {"blend", "sampler"} /\ \A k \in {"blend", "sampler"} : DOMAIN cache[k] = {}
    BY <1>0
  <2>2. 0 \in Two
    BY DEF Two
  <2> QED
    BY <1>3, <2>1, <2>2 DEF CacheInv
<1>6. BoundInv(dev, filter) /\ UserInv(res, filter, user)
  BY <1>0, UnboundInv
<1> QED
  BY <1>0, <1>1, <1>4, <1>5, <1>6 DEF FrameInv

\* Every step of the render state keeps the invariant.
LEMMA FrameStep ==
  ASSUME FrameAssumption, TargetsAligned, FrameInv, [FrameNext]_frameVars
  PROVE  FrameInv'
<1>1. CASE UNCHANGED frameVars
  <2>1. /\ dev' = dev /\ resources' = resources /\ res' = res /\ cache' = cache
        /\ filter' = filter /\ inFrame' = inFrame /\ user' = user
    BY <1>1 DEF frameVars
  <2>2. /\ DeviceInv(dev') /\ dev'.up /\ ResInv(dev', res') /\ CacheInv(dev', res', cache')
        /\ BoundInv(dev', filter') /\ UserInv(res', filter', user')
        /\ inFrame' \in BOOLEAN /\ (~inFrame' => filter' = Unfiltered /\ user' = Unbound)
        /\ resources' = resources /\ resources \subseteq DOMAIN Kind
    BY <2>1 DEF FrameInv
  <2> QED
    BY <2>2, FrameInvNext
<1>2. CASE FrameNext
  <2>0. Steady
    BY <1>2 DEF FrameNext
  <2>1. CASE ~inFrame
    <3>0. UNCHANGED <<filter, user>>
      BY <1>2, <2>1 DEF FrameNext
    <3>1. CASE BeginFrame
      BY <2>0, <2>1, <3>0, <3>1, BeginFrameInv
    <3>2. CASE ~BeginFrame
      <4>0. UNCHANGED <<filter, user, inFrame>>
        BY <1>2, <2>1, <3>0, <3>2 DEF FrameNext
      <4>1. ASSUME NEW r \in resources, ReleaseResource(r) PROVE FrameInv'
        BY <2>0, <2>1, <4>0, <4>1, ReleaseResourceInv
      <4>2. ASSUME NEW r \in resources, NEW x, SetResource(r, x) PROVE FrameInv'
        BY <2>0, <2>1, <4>0, <4>2, SetResourceInv
      <4>3. ASSUME NEW r \in resources, NEW x, FillResource(r, x) PROVE FrameInv'
        BY <2>0, <2>1, <4>0, <4>3, FillResourceInv
      <4>4. ASSUME NEW r \in resources, NEW x, RegisterShader(r, x) PROVE FrameInv'
        BY <2>0, <2>1, <4>0, <4>4, RegisterShaderInv
      <4>5. ASSUME NEW r \in resources, NEW u, InitializeResource(r, u) PROVE FrameInv'
        BY <2>0, <2>1, <4>0, <4>5, InitializeResourceInv
      <4>6. ASSUME NEW k \in {"blend", "sampler"}, NEW h, InsertState(k, h) PROVE FrameInv'
        BY <2>0, <2>1, <4>0, <4>6, InsertStateInv
      <4> QED
        BY <1>2, <2>1, <3>2, <4>1, <4>2, <4>3, <4>4, <4>5, <4>6 DEF FrameNext
    <3> QED
      BY <3>1, <3>2
  <2>2. CASE inFrame
    <3>1. CASE EndFrame
      BY <2>0, <3>1, EndFrameInv
    <3>2. ASSUME NEW r \in resources, NEW points \in Uses[r], ActivateResource(r, points)
          PROVE  FrameInv'
      BY <2>0, <2>2, <3>2, ActivateResourceInv
    <3> QED
      BY <1>2, <2>2, <3>1, <3>2 DEF FrameNext
  <2>3. inFrame \in BOOLEAN
    BY DEF FrameInv
  <2> QED
    BY <2>1, <2>2, <2>3
<1> QED
  BY <1>1, <1>2

\* What holds in every reachable state of RenderState and the resources that use it: the
\* device's invariant, ids that no two resources share, caches whose ids are in use with
\* the state they are filed under, and a filter that remembers exactly what is bound and
\* the resources, unchanged since, that it is bound for.
THEOREM FrameInvariant ==
  ASSUME FrameAssumption, TargetsAligned
  PROVE  FrameSpec => []FrameInv
<1>1. FrameInit => FrameInv
  BY FrameInitInv
<1>2. FrameInv /\ [FrameNext]_frameVars => FrameInv'
  BY FrameStep
<1> QED
  BY <1>1, <1>2, PTL DEF FrameSpec

\* The invariant gives the types.
LEMMA FrameTypesFollow ==
  ASSUME FrameAssumption, FrameInv
  PROVE  FrameTypeOK
<1>1. DeviceTypeOK
  BY TypesFollow DEF FrameInv, FrameAssumption
<1>2. \A r \in resources : res[r].active \in Two
  BY DEF FrameInv, ResInv, IsResource
<1>3. \A r \in resources : \A i \in Two : res[r].ids[i] \in dev.used[Kind[r]] \cup {NoID}
  BY DEF FrameInv, ResInv, HasIds, MayOwn
<1> QED
  BY <1>1, <1>2, <1>3 DEF FrameTypeOK

\* And what the run checks of the bindings.
LEMMA LatestDataFollows ==
  ASSUME FrameAssumption, FrameInv
  PROVE  LatestDataBound
<1> SUFFICES ASSUME NEW p \in AllPoints, user[p] # Unused
             PROVE  /\ Shown(Kind[user[p]], p) = Wanted(user[p])
                    /\ Kind[user[p]] = "texture" =>
                         dev.bound[SamplerOf[p]] = SamplerHash[user[p]]
  BY DEF LatestDataBound
<1> DEFINE q == user[p]
           key == filter[p]
<1>0. /\ DeviceAssumption /\ DeviceInv(dev) /\ BoundInv(dev, filter)
      /\ UserInv(res, filter, user) /\ "sampler" \in Kinds /\ "sampler" \in Copied
  BY DEF FrameAssumption, FrameInv, Kinds, Copied, Plain
<1>1. PICK k \in Kinds : p \in Points[k]
  BY DEF AllPoints
<1>2. k # "sampler"
  BY <1>0, <1>1 DEF UserInv
<1>3. /\ q \in resources /\ Kind[q] = k /\ UpToDate(q, res[q])
      /\ key # NoID /\ key = res[q].ids[res[q].active]
      /\ k = "texture" => res[q].sampler # NoID /\ filter[SamplerOf[p]] = res[q].sampler
  BY <1>0, <1>1, <1>2, SMTT(40) DEF UserInv
<1>4. key \in dev.used[k] /\ dev.bound[p] = IF k \in Copied THEN dev.at[k][key].data ELSE key
  BY <1>0, <1>1, <1>3 DEF BoundInv
<1> HIDE DEF q, key
<1>5. HasIds(dev, q, res[q])
  BY <1>3 DEF FrameInv, ResInv
<1>6. dev.at[k][key].data = DataFor(k, res[q].data)
  BY <1>3, <1>5 DEF HasIds
<1>7. DataFor(k, res[q].data) = Wanted(q)
  BY <1>3 DEF DataFor, Wanted
<1>8. Shown(k, p) = Wanted(q)
  <2>1. CASE k \in Copied
    BY <1>4, <1>6, <1>7, <2>1 DEF Shown
  <2>2. CASE k \notin Copied
    <3>1. key \in 0 .. Size[k] - 1 /\ Size[k] \in Nat
      BY <1>0, <1>4, InUse DEF DeviceInv, BaseInv
    <3>2. ~(key < 0)
      BY <3>1
    <3> QED
      BY <1>4, <1>6, <1>7, <2>2, <3>2 DEF Shown
  <2> QED
    BY <2>1, <2>2
<1>9. k = "texture" => dev.bound[SamplerOf[p]] = SamplerHash[q]
  <2> SUFFICES ASSUME k = "texture" PROVE dev.bound[SamplerOf[p]] = SamplerHash[q]
    OBVIOUS
  <2>1. SamplerOf[p] \in Points["sampler"]
    BY <1>1 DEF FrameAssumption
  <2>2. dev.bound[SamplerOf[p]] = dev.at["sampler"][res[q].sampler].data
    BY <1>0, <1>3, <2>1 DEF BoundInv
  <2>3. dev.at["sampler"][res[q].sampler].data = SamplerHash[q]
    BY <1>3, <1>5 DEF HasIds
  <2> QED
    BY <2>2, <2>3
<1> QED
  BY <1>3, <1>8, <1>9 DEF q

\* The resources, the caches and the filter have their types.
THEOREM FrameTypeCorrect ==
  ASSUME FrameAssumption, TargetsAligned
  PROVE  FrameSpec => []FrameTypeOK
<1>1. FrameInv => FrameTypeOK
  BY FrameTypesFollow
<1> QED
  BY <1>1, FrameInvariant, PTL

\* The slots of the device stay in order under everything that RenderState, the buffers
\* and the textures do with it: no id is released twice, or by another than the one it was given to.
THEOREM FrameSlotsHold ==
  ASSUME FrameAssumption, TargetsAligned
  PROVE  FrameSpec => []DeviceSlots
<1>1. FrameInv => DeviceSlots
  BY SlotsFollow DEF FrameInv, FrameAssumption
<1> QED
  BY <1>1, FrameInvariant, PTL

\* What is bound at a point is the latest data of the resource activated there last: the
\* filter never drops a call that was needed, and no swap, refill or reused id is missed.
THEOREM LatestDataBoundHolds ==
  ASSUME FrameAssumption, TargetsAligned
  PROVE  FrameSpec => []LatestDataBound
<1>1. FrameInv => LatestDataBound
  BY LatestDataFollows
<1> QED
  BY <1>1, FrameInvariant, PTL

=============================================================================
