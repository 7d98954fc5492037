------------------------------ MODULE Renderer ------------------------------
(***************************************************************************)
(* yengine/renderer/renderer.cpp: the registry of named render items, with   *)
(* reference counts, the activation of render passes, which turns registered  *)
(* render objects into render keys, and the queue of keys to draw.            *)
(*                                                                            *)
(* All tables are one: a key <<table, name>> is an entry of a hash table, and  *)
(* live holds the keys that are in theirs.  mem is the memory of the slots: it *)
(* outlives the entry, as pointers to it from gRenderObjArray do.  A name is a sequence of *)
(* characters, since what the code does to shader names is a matter of their   *)
(* sizes; a name that is passed with its terminator ends in "0".               *)
(*                                                                            *)
(* A client releases what it registered, an item before what the item uses,    *)
(* and registers what an item uses before the item.  faults collects the       *)
(* assertions that fail since Initialize, at the first of which a build with     *)
(* assertions stops, but for those that fail whatever the clients do: these are  *)
(* in comments.                                                              *)
(*                                                                            *)
(* All of this is one thread's but EnqueueRenderObject, which clients call on    *)
(* threads of their own, and PrepareDraw, which is meant for another one.        *)
(***************************************************************************)
EXTENDS Integers, Bags, SequencesExt

CONSTANTS
  Clients,
  Scenes,              \* functions that give each client its registrations
  FieldSetups,         \* sequences of <<field type, bits>>, the default first
  MaxActive,           \* capacities of the arrays of active items
  MaxVertexBuffers, MaxBuffersPerData, MaxEnqueuedRenderKeys,
  None

\* A registration has a table t, a name n and a sequence of uses, each a role,
\* a class of tables and a name.
VARIABLES
  scene, own,          \* the registrations in use, and those each client holds
  up, live, mem,
  objs, vps, decls, shdrs, rkeys, \* gRenderObjArray, gViewPortArray,
                       \* gVertexDeclArray, gShaderDataArray, gRenderKeys
  pool,                \* gVertexBuffers: the declaration of each buffer
  active,              \* gActiveRenderPasses
  fields,              \* gActiveRenderKeyFields
  enqueued,            \* gEnqueuedRenderKeys, up to gEnqueuedRenderKeysCount
  copies,              \* what each client has reserved there and not yet copied
  device,              \* the shaders created and not released at the device
  faults

activation == <<objs, vps, decls, shdrs, rkeys, pool, active, enqueued, copies>>
vars == <<scene, own, up, live, mem, activation, fields, device, faults>>

\* What the constructors of the item classes leave, and an entry that has just
\* been inserted and referenced.
Blank == [refs |-> 0, deps |-> <<>>, act |-> None, bufs |-> <<>>, keys |-> <<>>]
Item == [Blank EXCEPT !.refs = 1]

Init ==
  /\ scene \in Scenes /\ own = [c \in Clients |-> {}]
  /\ up = TRUE /\ live = {} /\ mem = <<>>
  /\ objs = <<>> /\ vps = <<>> /\ decls = <<>> /\ shdrs = <<>> /\ rkeys = <<>>
  /\ pool = <<>> /\ active = None /\ fields = FieldSetups[1] /\ enqueued = <<>>
  /\ copies = [c \in Clients |-> None] /\ device = EmptyBag /\ faults = {}

Initialize ==
  /\ ~up /\ up' = TRUE /\ fields' = FieldSetups[1] /\ faults' = {}
  /\ UNCHANGED <<scene, own, live, mem, activation, device>>

\* Drops every table, without a call to the device.
Terminate ==
  /\ up /\ active = None /\ \A c \in Clients : own[c] = {}
  /\ up' = FALSE /\ live' = {} /\ mem' = <<>>
  /\ objs' = <<>> /\ vps' = <<>> /\ decls' = <<>> /\ shdrs' = <<>>
  /\ rkeys' = <<>> /\ pool' = <<>> /\ active' = None /\ enqueued' = <<>>
  /\ UNCHANGED <<scene, own, fields, copies, device, faults>>

BitsUsed(fs) == FoldLeft(LAMBDA n, f : n + f[2], 0, fs)

\* Called before the clients register or draw anything.
SetupRenderKey ==
  /\ up /\ live = {} /\ enqueued = <<>> /\ faults = {}
  /\ \E i \in DOMAIN FieldSetups : fields' = FieldSetups[i]
  /\ BitsUsed(fields') < 64 /\ Len(fields') < 6
  /\ UNCHANGED <<scene, own, up, live, mem, activation, device, faults>>

------------------------------------------------------------------------------
(* Names                                                                     *)

Colon == ":"
\* The name a shader is registered and released under: its size leaves no room
\* for the colon, and the last character is lost.
FullName(base, variant) ==
  SubSeq(base \o <<Colon>> \o variant, 1, Len(base) + Len(variant))

\* The name it is looked up with: the colon takes the place of the base's last
\* character.
LookupName(base, variant) ==
  SubSeq(base, 1, Len(base) - 1) \o <<Colon>> \o variant

\* The entry a name of a class denotes: floats are looked for first.
Find(class, name) ==
  LET first(a, b) == IF <<a, name>> \in live THEN <<a, name>> ELSE <<b, name>>
  IN CASE class = "param"  -> first("fparam", "tparam")
       [] class = "arg"    -> first("farg", "targ")
       [] class = "global" -> first("gfarg", "gtarg")
       [] OTHER            -> <<class, name>>

DepsOf(r) ==
  [i \in DOMAIN r.uses |-> <<r.uses[i][1], Find(r.uses[i][2], r.uses[i][3])>>]

\* The indexes of a vertex shader's parameters of a kind, and the other kind.
VertexParams(ds, t) == {i \in DOMAIN ds : ds[i][1] = "vparam" /\ ds[i][2][1] = t}
Swapped(t) == IF t = "fparam" THEN "tparam" ELSE "fparam"

\* The table of an entry that belongs to one of a kind.
KindOf(k, float, ofFloat, ofTexture) == IF k[1] = float THEN ofFloat ELSE ofTexture

\* Does q register what the use u names?
Provides(q, u) ==
  q.n = u[3] /\ u[2] = IF q.t \in {"fparam", "tparam"} THEN "param" ELSE q.t

\* The references to k at the indexes is, and the first item of a role.
Times(ds, is, k) == Cardinality({i \in is : ds[i][2] = k})
Dep(ds, role) == ds[CHOOSE i \in DOMAIN ds : ds[i][1] = role][2]
Among(ds, is) == {ds[i][2] : i \in is}
Keys(ds) == Among(ds, DOMAIN ds)
Shaders(ks) == {k \in ks : k[1] \in {"vs", "ps"}}
Fault(condition, name) == IF condition THEN {name} ELSE {}

------------------------------------------------------------------------------
(* What clients register                                                     *)

RegistrationsOf(S) == UNION Range(S)
Registrations == RegistrationsOf(scene)
NamesOf(R, t) == {r.n : r \in {q \in R : q.t = t}}

\* The parameters, arguments and global arguments that are floats.
FloatParams(R) == NamesOf(R, "fparam")
FloatArgs(R) ==
  {r.n : r \in {q \in R : q.t = "arg" /\ q.uses[1][3] \in FloatParams(R)}}
FloatGlobals(R) ==
  {r.n : r \in {q \in R : q.t = "global" /\ q.uses[1][3] \in FloatArgs(R)}}

\* The key of a name of a class, of a registration, and of what that one uses: those
\* that Find finds while the items are in the tables.
Denotes(R, class, n) ==
  CASE class = "param"  -> <<IF n \in FloatParams(R) THEN "fparam" ELSE "tparam", n>>
    [] class = "arg"    -> <<IF n \in FloatArgs(R) THEN "farg" ELSE "targ", n>>
    [] class = "global" -> <<IF n \in FloatGlobals(R) THEN "gfarg" ELSE "gtarg", n>>
    [] OTHER            -> <<class, n>>
KeyIn(R, r) ==
  IF r.t = "shader" THEN <<"shader", FullName(r.n, r.variant)>> ELSE Denotes(R, r.t, r.n)
UsesIn(R, r) ==
  [i \in DOMAIN r.uses |-> <<r.uses[i][1], Denotes(R, r.uses[i][2], r.uses[i][3])>>]
  \o IF r.t = "shader" THEN <<<<"vs", <<"vs", r.vs>>>>, <<"ps", <<"ps", r.ps>>>>>>
     ELSE <<>>

\* The roles of what an item of each table uses, the class of each, and the roles
\* that an item cannot be without.
Roles ==
  [viewport |-> {}, target |-> {}, back |-> {}, pass |-> {"target"}, decl |-> {},
   fparam |-> {}, tparam |-> {}, shader |-> {"decl", "vparam", "pparam"},
   passes |-> {"pass"}, type |-> {}, data |-> {}, arg |-> {"param"},
   global |-> {"arg"}, object |-> {"viewport", "type", "data", "arg"}]
ClassOf(role) == IF role \in {"vparam", "pparam"} THEN "param" ELSE role
Needs(t) ==
  CASE t = "shader" -> {"decl"}
    [] t \in {"arg", "global"} -> Roles[t]
    [] t = "object" -> {"viewport", "type", "data"}
    [] OTHER -> {}

WellFormed(r) ==
  /\ r.t \in DOMAIN Roles /\ r.uses \in Seq(Range(r.uses))
  /\ \A i \in DOMAIN r.uses :
       r.uses[i][1] \in Roles[r.t] /\ r.uses[i][2] = ClassOf(r.uses[i][1])
  /\ \A role \in Needs(r.t) : \E i \in DOMAIN r.uses : r.uses[i][1] = role

\* Of one name all clients use what it denotes alike; no name is both a float and a
\* texture parameter, or a render target and a back buffer; a shader has as many of
\* both kinds of vertex shader parameter.
Agreed(R) ==
  /\ \A q, r \in R : KeyIn(R, q) = KeyIn(R, r) => UsesIn(R, q) = UsesIn(R, r)
  /\ NamesOf(R, "fparam") \cap NamesOf(R, "tparam") = {}
  /\ NamesOf(R, "target") \cap NamesOf(R, "back") = {}
  /\ \A r \in R : r.t = "shader" =>
       Cardinality(VertexParams(UsesIn(R, r), "fparam"))
         = Cardinality(VertexParams(UsesIn(R, r), "tparam"))

ASSUME SceneAssumption ==
  \A S \in Scenes :
    LET R == RegistrationsOf(S)
    IN /\ DOMAIN S = Clients /\ IsFiniteSet(R) /\ Agreed(R)
       /\ \A r \in R : WellFormed(r) /\ None \notin Keys(UsesIn(R, r)) \cup {KeyIn(R, r)}

FieldTypes ==
  {"ViewPort", "RenderPass", "VertexDecl", "Shader", "Depth", "ArbitraryNumber"}

\* The clients' items fit the arrays and the fields of a render key.
Fits(number, type) ==
  \A i \in DOMAIN FieldSetups : \A j \in DOMAIN FieldSetups[i] :
    FieldSetups[i][j][1] = type => number <= 2 ^ FieldSetups[i][j][2]

\* The items of a table that clients may register.
ItemsOf(R, t) == {KeyIn(R, r) : r \in {q \in R : q.t = t}}

ASSUME LimitAssumption ==
  /\ None \notin Nat
  /\ MaxActive \in [{"objs", "vps", "decls", "shdrs", "rkeys"} -> Nat]
  /\ MaxVertexBuffers \in Nat /\ MaxBuffersPerData \in Nat
  /\ FieldSetups # <<>> /\ FieldSetups \in Seq(Range(FieldSetups))
  /\ \A i \in DOMAIN FieldSetups :
       /\ FieldSetups[i] \in Seq(Range(FieldSetups[i]))
       /\ \A j \in DOMAIN FieldSetups[i] :
            /\ FieldSetups[i][j][1] \in FieldTypes
            /\ FieldSetups[i][j][2] \in Nat /\ 0 < 2 ^ FieldSetups[i][j][2]
  /\ \A S \in Scenes :
       LET items(t) == Cardinality(ItemsOf(RegistrationsOf(S), t))
       IN /\ items("viewport") <= MaxActive.vps /\ Fits(items("viewport"), "ViewPort")
          /\ items("decl") <= MaxActive.decls /\ Fits(items("decl"), "VertexDecl")
          /\ items("shader") <= MaxActive.shdrs /\ Fits(items("shader"), "Shader")
          /\ \A r \in RegistrationsOf(S) :
               r.t = "passes" => Fits(Len(r.uses), "RenderPass")

------------------------------------------------------------------------------
(* Registration                                                              *)

\* The pointers that activation keeps are not looked after by registration and
\* release: a view port that is released and registered again in an activation
\* fails the check of its index when the activation ends.
MayChange == up /\ active = None

\* c has registered what r uses, and now registers r.
Registers(c, r) ==
  /\ MayChange /\ r \notin own[c]
  /\ \A i \in DOMAIN r.uses : \E q \in own[c] : Provides(q, r.uses[i])
  /\ own' = [own EXCEPT ![c] = @ \cup {r}]
  /\ UNCHANGED <<scene, up, vps, decls, shdrs, rkeys, pool, active, enqueued, copies,
                 fields>>

AddReference(k) ==
  mem' = [mem EXCEPT ![k].refs = @ + 1] /\ UNCHANGED <<live, objs, device>>

\* A mutant of Insert: the items ds are not referred to.
InsertUnreferenced(k, entry, ds, new) ==
  /\ mem' = [x \in (DOMAIN mem) \cup new \cup {k} |->
                IF x = k THEN [entry EXCEPT !.deps = ds]
                ELSE IF x \in new THEN Blank ELSE mem[x]]
  /\ live' = live \cup new \cup {k}
  /\ device' = device (+) SetToBag(new)

\* A new entry, which refers to the items ds; new are the device shaders that are
\* created for it.
Insert(k, entry, ds, new) ==
  LET bumped(x) == [IF x \in new THEN Blank ELSE mem[x]
                      EXCEPT !.refs = @ + Times(ds, DOMAIN ds, x)]
  IN
  /\ mem' = [x \in (DOMAIN mem) \cup new \cup {k} |->
                IF x = k THEN [entry EXCEPT !.deps = ds] ELSE bumped(x)]
  /\ live' = live \cup new \cup {k}
  /\ device' = device (+) SetToBag(new)

\* The first registration of a name inserts an entry, the others, whatever they
\* describe, add a reference.
RegisterEntry(k, ds) ==
  IF k \in live THEN AddReference(k)
  ELSE Insert(k, Item, ds, {}) /\ UNCHANGED objs

\* View ports, render targets, back buffer names, render passes, vertex
\* declarations and shader parameters.
RegisterItem(c, r) ==
  /\ r.t \in {"viewport", "target", "back", "pass", "decl", "fparam", "tparam"}
  /\ Registers(c, r)
  /\ RegisterEntry(<<r.t, r.n>>, DepsOf(r))
  /\ faults' = faults \cup
       Fault(\/ r.t = "target" /\ <<"back", r.n>> \in live
             \/ r.t = "back" /\ <<"target", r.n>> \in live, "NameClash")

\* Render passes to activate together, render types and vertex data.
RegisterDrawn(c, r) ==
  /\ r.t \in {"passes", "type", "data"}
  /\ Registers(c, r)
  /\ RegisterEntry(<<r.t, r.n>>, DepsOf(r))
  /\ UNCHANGED faults

\* A vertex or pixel shader that is the first with its code is created at the
\* device.
RegisterShaderData(c, r) ==
  /\ r.t = "shader" /\ Registers(c, r)
  /\ LET k  == <<"shader", FullName(r.n, r.variant)>>
         ds == DepsOf(r) \o <<<<"vs", <<"vs", r.vs>>>>, <<"ps", <<"ps", r.ps>>>>>>
     IN IF k \in live THEN AddReference(k)
        ELSE Insert(k, Item, ds, Shaders(Keys(ds)) \ live) /\ UNCHANGED objs
  /\ UNCHANGED faults

\* An argument goes to the table of the kind of its parameter.
RegisterShaderArg(c, r) ==
  /\ r.t = "arg" /\ Registers(c, r)
  /\ RegisterEntry(<<KindOf(DepsOf(r)[1][2], "fparam", "farg", "targ"), r.n>>, DepsOf(r))
  /\ UNCHANGED faults

\* A parameter has one global argument, of its argument's kind.
RegisterGlobalArg(c, r) ==
  /\ r.t = "global" /\ Registers(c, r)
  /\ LET k == <<KindOf(DepsOf(r)[1][2], "farg", "gfarg", "gtarg"), r.n>> IN
     /\ RegisterEntry(k, DepsOf(r))
     /\ faults' = faults \cup
          Fault(k \in live /\ mem[k].deps # DepsOf(r), "GlobalArgument")

\* A new object joins gRenderObjArray, which it never leaves: MaxActive.objs
\* bounds the insertions of objects.
RegisterRenderObject(c, r) ==
  /\ r.t = "object" /\ Registers(c, r)
  /\ LET k == <<"object", r.n>> IN
     IF k \in live THEN AddReference(k)
     ELSE /\ Len(objs) < MaxActive.objs
          /\ Insert(k, [Item EXCEPT !.act = Len(objs)], DepsOf(r), {})
          /\ objs' = Append(objs, k)
  /\ UNCHANGED faults

Register(c, r) ==
  \/ RegisterItem(c, r)      \/ RegisterDrawn(c, r)     \/ RegisterShaderData(c, r)
  \/ RegisterShaderArg(c, r) \/ RegisterGlobalArg(c, r) \/ RegisterRenderObject(c, r)

------------------------------------------------------------------------------
(* Release                                                                   *)

\* c releases r, on which nothing it has registered depends.
Releases(c, r) ==
  /\ MayChange /\ r \in own[c]
  /\ \A q \in own[c] : \A i \in DOMAIN q.uses : ~Provides(r, q.uses[i])
  /\ own' = [own EXCEPT ![c] = @ \ {r}]
  /\ UNCHANGED <<scene, up, activation, fields>>

\* What the objects in gRenderObjArray point at, registered or not.
Pointed ==
  LET uses(S) == UNION {Keys(mem[x].deps) : x \in S}
  IN Range(objs) \cup uses(Range(objs)) \cup uses(uses(Range(objs)))

\* A release of k, whose last one leaves it the memory entry, drops the references
\* at the indexes drops and removes it with the device shaders that become unused.
\* No other item may become unused.
ReleaseEntry(k, entry, drops) ==
  IF mem[k].refs # 1
  THEN /\ mem' = [mem EXCEPT ![k].refs = @ - 1]
       /\ UNCHANGED <<live, device, faults>>
  ELSE LET dropped == Among(mem[k].deps, drops)
           left(x) == mem[x].refs - Times(mem[k].deps, drops, x)
           freed   == {x \in Shaders(dropped) : left(x) = 0}
           stays   == live \ (freed \cup {k})
       IN
       /\ live' = stays
       /\ mem' = [x \in stays \cup Pointed |->
                    IF x = k THEN [entry EXCEPT !.refs = 0]
                    ELSE [mem[x] EXCEPT !.refs = left(x)]]
       /\ device' = device (-) SetToBag(freed)
       /\ faults' = faults \cup
            Fault(\E x \in dropped \ Shaders(dropped) : left(x) <= 0,
                  "ReleasedBefore")

ReleaseItem(c, r) ==
  LET k == <<r.t, r.n>> IN
  /\ r.t \in {"viewport", "target", "back", "pass", "decl", "fparam", "tparam"}
  /\ Releases(c, r)
  /\ ReleaseEntry(k, mem[k], DOMAIN mem[k].deps)

\* A vertex data's buffers are released; the pool keeps their slots.  Passes may
\* not be released in their activation.
ReleaseDrawn(c, r) ==
  LET k == <<r.t, r.n>> IN
  /\ r.t \in {"passes", "type", "data"} /\ k # active
  /\ Releases(c, r)
  /\ ReleaseEntry(k, [mem[k] EXCEPT !.bufs = <<>>], DOMAIN mem[k].deps)

\* A mutant of DroppedByShader: without the pixel shader's parameters.
DropsVertexOnly(ds) == {i \in DOMAIN ds : ds[i][1] # "pparam"}

\* The counts of the vertex shader's float and texture parameters are swapped:
\* it drops as many references to textures as there are floats and the reverse.
\* Where the numbers differ it reads past the end of a list: the shaders of the
\* clients have as many of both.
DroppedByShader(ds) ==
  LET rank(i)   == Cardinality({j \in VertexParams(ds, ds[i][2][1]) : j <= i})
      number(i) == Cardinality(VertexParams(ds, Swapped(ds[i][2][1])))
  IN {i \in DOMAIN ds : ds[i][1] = "vparam" => rank(i) <= number(i)}

ReleaseShaderData(c, r) ==
  LET k == <<"shader", FullName(r.n, r.variant)>> IN
  /\ r.t = "shader" /\ Releases(c, r)
  /\ ReleaseEntry(k, mem[k], DroppedByShader(mem[k].deps))

ReleaseShaderArg(c, r) ==
  LET k == Find("arg", r.n) IN
  r.t = "arg" /\ Releases(c, r) /\ ReleaseEntry(k, mem[k], DOMAIN mem[k].deps)

ReleaseGlobalArg(c, r) ==
  LET k == Find("global", r.n) IN
  r.t = "global" /\ Releases(c, r) /\ ReleaseEntry(k, mem[k], DOMAIN mem[k].deps)

\* The object loses its index but stays in gRenderObjArray.
ReleaseRenderObject(c, r) ==
  LET k == <<"object", r.n>> IN
  /\ r.t = "object" /\ Releases(c, r)
  /\ ReleaseEntry(k, [mem[k] EXCEPT !.act = None], DOMAIN mem[k].deps)

Release(c, r) ==
  \/ ReleaseItem(c, r)      \/ ReleaseDrawn(c, r)     \/ ReleaseShaderData(c, r)
  \/ ReleaseShaderArg(c, r) \/ ReleaseGlobalArg(c, r) \/ ReleaseRenderObject(c, r)

------------------------------------------------------------------------------
(* Activation                                                                *)

\* The state that activation works on.
Now == [mem |-> mem, vps |-> vps, decls |-> decls, shdrs |-> shdrs,
        rkeys |-> rkeys, pool |-> pool, faults |-> faults]

Become(s) ==
  /\ mem' = s.mem /\ vps' = s.vps /\ decls' = s.decls /\ shdrs' = s.shdrs
  /\ rkeys' = s.rkeys /\ pool' = s.pool /\ faults' = s.faults

\* A mutant of ResetEntry that leaves the objects' render keys.
ResetKeepsKeys(s, x) ==
  LET e == s.mem[x] IN
  CASE x \in Range(s.vps) \cup Range(s.decls) \cup Range(s.shdrs) -> [e EXCEPT !.act = None]
    [] x = active -> [e EXCEPT !.refs = @ - 1]
    [] OTHER      -> e

\* The indexes of what was active, and the objects' render keys, are taken back;
\* the passes lose the activation's reference.
ResetEntry(s, x) ==
  LET e == s.mem[x] IN
  CASE x \in Range(s.vps) \cup Range(s.decls) \cup Range(s.shdrs) -> [e EXCEPT !.act = None]
    [] x \in Range(objs) -> [e EXCEPT !.keys = <<>>]
    [] x = active        -> [e EXCEPT !.refs = @ - 1]
    [] OTHER             -> e

Deactivated(s) ==
  LET misplaced(array) ==
        \E i \in DOMAIN array : s.mem[array[i]].act # i - 1
  IN [s EXCEPT
        !.mem = [x \in DOMAIN s.mem |-> ResetEntry(s, x)],
        !.vps = <<>>, !.decls = <<>>, !.shdrs = <<>>, !.rkeys = <<>>,
        !.faults = @ \cup Fault(misplaced(s.vps), "ViewPortActivation")
                     \cup Fault(misplaced(s.decls), "VertexDeclActivation")
                     \cup Fault(misplaced(s.shdrs), "ShaderActivation")
                     \cup Fault(s.mem[active].refs = 1, "PassesReleased")]

\* A mutant of Indexed: the count after the item has been added.
IndexedLate(s, array, k) ==
  IF s.mem[k].act # None \/ Len(s[array]) = MaxActive[array] THEN s
  ELSE [s EXCEPT !.mem[k].act = Len(s[array]) + 1, ![array] = Append(@, k)]

\* Gives k the next index of an array, unless it has one.
Indexed(s, array, k) ==
  IF s.mem[k].act # None THEN s
  ELSE IF Len(s[array]) = MaxActive[array]
    THEN [s EXCEPT !.faults = @ \cup {"TooManyActive"}]
    ELSE [s EXCEPT !.mem[k].act = Len(s[array]), ![array] = Append(@, k)]

HasBuffer(s, data, decl) ==
  \E i \in DOMAIN s.mem[data].bufs : s.pool[s.mem[data].bufs[i]] = decl

\* The buffers without the one at m, whose place the last one takes.
Without(bufs, m) ==
  [i \in 1 .. Len(bufs) - 1 |-> IF i = m THEN bufs[Len(bufs)] ELSE bufs[i]]

\* VertexDataInternal: a buffer for the declaration, in place of one whose
\* declaration is inactive, or gone, when the vertex data is full.  (The copy of the
\* vertex data in the table points at the array of the temporary it was copied
\* from: the code reads and writes a dead stack frame.)
WithBuffer(s, data, decl) ==
  LET bufs  == s.mem[data].bufs
      b     == Len(s.pool) + 1
      full  == Len(bufs) = MaxBuffersPerData
      idle  == {i \in DOMAIN bufs : LET d == s.pool[bufs[i]]
                                    IN d \in DOMAIN s.mem => s.mem[d].act = None}
      kept  == IF full THEN Without(bufs, Min(idle)) ELSE bufs
  IN IF HasBuffer(s, data, decl) THEN s
     ELSE IF Len(s.pool) = MaxVertexBuffers
       THEN [s EXCEPT !.faults = @ \cup {"VertexBuffersFull"}]
     ELSE IF full /\ idle = {}
       THEN [s EXCEPT !.pool = Append(@, decl), !.faults = @ \cup {"VertexDataFull"}]
     ELSE [s EXCEPT !.pool = Append(@, decl), !.mem[data].bufs = Append(kept, b)]

\* The argument an object's render key uses for a parameter: the object's own,
\* or else the global one.
ArgumentFor(s, o, param) ==
  LET float  == param[1] = "fparam"
      kind   == IF float THEN "farg" ELSE "targ"
      deps   == s.mem[o].deps
      mine   == {i \in DOMAIN deps :
                   deps[i][2][1] = kind /\ s.mem[deps[i][2]].deps[1][2] = param}
      global == <<IF float THEN "gfarg" ELSE "gtarg", param[2]>>
  IN IF mine # {} THEN deps[Min(mine)][2]
     ELSE IF global \in live THEN s.mem[global].deps[1][2]
     ELSE None

\* The bits of a key, of 64, that the fields leave for the index.
IndexBits == 64 - BitsUsed(fields)

\* GetRenderKey: the fields' values in the order of the fields, and the index in
\* the bits that are left.
RenderKey(s, key, pass, index) ==
  LET value == [ViewPort |-> s.mem[key.viewport].act, RenderPass |-> pass - 1,
                VertexDecl |-> s.mem[key.decl].act, Shader |-> s.mem[key.shader].act,
                Depth |-> 0, ArbitraryNumber |-> 0]
  IN [values |-> [i \in 1 .. Len(fields) |-> value[fields[i][1]]], index |-> index]

\* A mutant of RenderIndex: a bit too few.
RenderIndexShort(key) == key.index % 2 ^ ((IndexBits - 1) % 32)

\* The index that PrepareDraw reads back from a key: the code masks the key's lower
\* 32 bits with 1u << IndexBits, less one, where x86 takes the shift modulo 32 (the
\* language leaves it undefined from 32 on).
RenderIndex(key) == key.index % 2 ^ (IndexBits % 32)

\* What PrepareDraw checks of the number of bits.
IndexBitsFit == IndexBits \in 1 .. 31

TypeBase(k) == (CHOOSE r \in Registrations : r.t = "type" /\ r.n = k[2]).base
PassVariant(k) ==
  (CHOOSE r \in Registrations : r.t = "pass" /\ r.n = k[2]).variant

\* What the object's key in a pass uses for the parameters of the shader.
Arguments(s, o, shader) ==
  LET ds     == s.mem[shader].deps
      params == {i \in DOMAIN ds : ds[i][1] \in {"vparam", "pparam"}}
  IN {ArgumentFor(s, o, ds[i][2]) : i \in params}

\* The render key of o in a pass of the active passes.  (The assertion on the
\* number of the object's render keys is the wrong way round: it always fails.
\* PushBack copies as many bytes of a key as a pointer has, its counts, and leaves
\* the rest of the slot as it was: rkeys holds the keys as they were built.)
WithRenderKey(s, o, shader, p, pass) ==
  LET args == Arguments(s, o, shader)
      key  == [object |-> o, viewport |-> Dep(s.mem[o].deps, "viewport"),
               pass |-> p, shader |-> shader,
               decl |-> Dep(s.mem[shader].deps, "decl"), args |-> args]
      sort == RenderKey(s, key, pass, Len(s.rkeys))
  IN [s EXCEPT
        !.rkeys = Append(@, key),
        !.mem[o].keys = Append(@, sort),
        !.faults = @ \cup Fault(None \in args, "ParameterNotSet")
                     \cup Fault(\E i \in DOMAIN fields :
                                  sort.values[i] >= 2 ^ fields[i][2], "FieldBits")
                     \cup Fault(Len(s.rkeys) >= MaxActive.rkeys, "RenderKeysFull")
                     \cup Fault(IndexBits < 32 /\ sort.index >= 2 ^ IndexBits, "KeyIndex")]

\* One object in one of the passes k: nothing, unless there is a shader.
ActivateInPass(s, o, k, pass) ==
  LET deps   == s.mem[o].deps
      type   == Dep(deps, "type")
      p      == s.mem[k].deps[pass][2]
      shader == <<"shader", LookupName(TypeBase(type), PassVariant(p))>>
  IN IF shader \notin live THEN s ELSE
  LET decl == Dep(s.mem[shader].deps, "decl")
      t    == Indexed(Indexed(s, "shdrs", shader), "decls", decl)
  IN WithRenderKey(WithBuffer(t, Dep(deps, "data"), decl), o, shader, p, pass)

ActivateObject(s, o, k) ==
  LET after[pass \in 0 .. Len(s.mem[k].deps)] ==
        IF pass = 0 THEN Indexed(s, "vps", Dep(s.mem[o].deps, "viewport"))
        ELSE ActivateInPass(after[pass - 1], o, k, pass)
  IN after[Len(s.mem[k].deps)]

ActivateObjects(s, k) ==
  LET after[i \in 0 .. Len(objs)] ==
        IF i = 0 THEN s ELSE ActivateObject(after[i - 1], objs[i], k)
  IN after[Len(objs)]

\* Ghost: what has been enqueued belongs to an activation that is over.
Outdated == [i \in DOMAIN enqueued |-> [enqueued[i] EXCEPT !.current = FALSE]]

\* What clients see to before an activation: every parameter of the shaders they
\* use is set, the pool, which gets no buffer back, has room, no vertex data is
\* drawn with more declarations at once than it has room for, and there are no more
\* render keys than gRenderKeys and the bits left for an index have room for.  Else
\* an assertion fails and activation follows a wild pointer, leaves a buffer out or
\* writes beyond an array.
Prepared(s) ==
  s.faults \cap {"ParameterNotSet", "VertexBuffersFull", "VertexDataFull",
                 "RenderKeysFull", "KeyIndex"} = {}

\* Nobody is in EnqueueRenderObject, which reads what activation writes.
NobodyEnqueues == \A c \in Clients : copies[c] = None

ActivateRenderPasses ==
  \E k \in live :
    /\ up /\ NobodyEnqueues /\ k[1] = "passes"
    /\ LET s == IF active = None THEN Now ELSE Deactivated(Now)
           t == ActivateObjects([s EXCEPT !.mem[k].refs = @ + 1], k)
       IN Prepared(t) /\ Become(t)
    /\ active' = k /\ enqueued' = Outdated
    /\ UNCHANGED <<scene, own, up, live, objs, fields, copies, device>>

DeactivateRenderPasses ==
  /\ up /\ NobodyEnqueues /\ active # None
  /\ Become(Deactivated(Now)) /\ active' = None /\ enqueued' = Outdated
  /\ UNCHANGED <<scene, own, up, live, objs, fields, copies, device>>

------------------------------------------------------------------------------
(* Drawing                                                                   *)

\* What a reserved slot holds until the keys are copied is no key.
Unwritten == [key |-> None, object |-> None, current |-> FALSE]

\* A mutant of EnqueueReserve: the count is read and written in two steps, between
\* which another client has reserved the same slots.
EnqueueReserveTwice(c) ==
  \E o \in live :
    /\ up /\ copies[c] = None /\ o[1] = "object" /\ mem[o].keys # <<>>
    /\ Len(enqueued) + Len(mem[o].keys) <= MaxEnqueuedRenderKeys
    /\ enqueued' = enqueued \o [i \in DOMAIN mem[o].keys |-> Unwritten]
    /\ \E at \in {Len(enqueued)} \cup {copies[d].at : d \in {e \in Clients : copies[e] # None}} :
         copies' = [copies EXCEPT ![c] = [at |-> at, object |-> o]]
    /\ UNCHANGED <<scene, own, up, live, mem, objs, vps, decls, shdrs, rkeys,
                   pool, active, fields, device, faults>>

\* EnqueueRenderObject reserves slots for the object's keys.  The count is reset
\* only by Initialize and Terminate, so that MaxEnqueuedRenderKeys bounds all the
\* keys enqueued between them.
EnqueueReserve(c) ==
  \E o \in live :
    /\ up /\ copies[c] = None /\ o[1] = "object" /\ mem[o].keys # <<>>
    /\ Len(enqueued) + Len(mem[o].keys) <= MaxEnqueuedRenderKeys
    /\ enqueued' = enqueued \o [i \in DOMAIN mem[o].keys |-> Unwritten]
    /\ copies' = [copies EXCEPT ![c] = [at |-> Len(enqueued), object |-> o]]
    /\ UNCHANGED <<scene, own, up, live, mem, objs, vps, decls, shdrs, rkeys,
                   pool, active, fields, device, faults>>

\* The slots that c has reserved.
Reserved(c) ==
  {copies[c].at + i : i \in DOMAIN mem[copies[c].object].keys}

\* EnqueueRenderObject copies the keys, to where they were to go when it reserved
\* the slots: PrepareDraw may have sorted them since.
EnqueueCopy(c) ==
  LET at == copies[c].at
      o  == copies[c].object
  IN
  /\ copies[c] # None
  /\ enqueued' = [i \in DOMAIN enqueued |->
                    IF i \in Reserved(c)
                    THEN [key |-> mem[o].keys[i - at], object |-> o, current |-> TRUE]
                    ELSE enqueued[i]]
  /\ copies' = [copies EXCEPT ![c] = None]
  /\ UNCHANGED <<scene, own, up, live, mem, objs, vps, decls, shdrs, rkeys,
                 pool, active, fields, device, faults>>

\* What ExecuteRenderKey activates.
Activates(key) == {key.viewport, key.pass, key.shader, key.decl} \cup key.args

Precedes(a, b) ==
  \/ \E i \in DOMAIN a.values :
       a.values[i] < b.values[i] /\ \A j \in 1 .. i - 1 : a.values[j] = b.values[j]
  \/ a.values = b.values /\ a.index < b.index

\* Sorts all keys ever enqueued, equal ones and those that are not copied yet in any
\* order, and executes the render keys at their RenderIndex, which for those of an
\* earlier activation are other keys or none, and for those not copied anything.
PrepareDraw ==
  /\ up
  /\ \E order \in Bijection(DOMAIN enqueued, DOMAIN enqueued) :
       /\ \A i, j \in DOMAIN enqueued :
            i < j /\ Unwritten \notin {enqueued[order[i]], enqueued[order[j]]}
              => ~Precedes(enqueued[order[j]].key, enqueued[order[i]].key)
       /\ enqueued' = [i \in DOMAIN enqueued |-> enqueued[order[i]]]
  /\ faults' = faults \cup Fault(~IndexBitsFit, "IndexBits")
  /\ UNCHANGED <<scene, own, up, live, mem, objs, vps, decls, shdrs, rkeys,
                 pool, active, fields, copies, device>>

Next ==
  \/ Initialize \/ Terminate \/ SetupRenderKey
  \/ \E c \in Clients : \E r \in scene[c] : Register(c, r) \/ Release(c, r)
  \/ ActivateRenderPasses \/ DeactivateRenderPasses
  \/ \E c \in Clients : EnqueueReserve(c) \/ EnqueueCopy(c)
  \/ PrepareDraw

Spec == Init /\ [][Next]_vars

------------------------------------------------------------------------------
(* Properties                                                                *)

TypeOK ==
  /\ live \subseteq DOMAIN mem /\ \A c \in Clients : own[c] \subseteq scene[c]
  /\ \A k \in DOMAIN mem :
       /\ mem[k].refs \in Nat /\ mem[k].act \in Nat \cup {None}
       /\ Keys(mem[k].deps) \subseteq DOMAIN mem
       /\ Range(mem[k].bufs) \subseteq DOMAIN pool
  /\ Range(objs) \cup Range(vps) \cup Range(decls) \cup Range(shdrs)
       \subseteq DOMAIN mem
  /\ active \in live \cup {None} /\ IsABag(device)

KeyOf(r) ==
  IF r.t = "shader" THEN <<"shader", FullName(r.n, r.variant)>> ELSE Find(r.t, r.n)

\* The clients' registrations of an item, and the references to it of items in the
\* tables.
Holders(k) == {h \in UNION {{c} \X own[c] : c \in Clients} : KeyOf(h[2]) = k}
Referrers(k) ==
  {x \in UNION {{y} \X DOMAIN mem[y].deps : y \in live} : mem[x[1]].deps[x[2]][2] = k}

\* The reference count of every entry is the number of registrations clients
\* hold on it, of references from items in the tables, and of activations; an
\* entry with a count stays, and the device has exactly the shaders in use.
CountsMatch ==
  /\ \A k \in live :
       /\ mem[k].refs = Cardinality(Holders(k)) + Cardinality(Referrers(k))
                        + IF active = k THEN 1 ELSE 0
       /\ mem[k].refs > 0
  /\ device = SetToBag(Shaders(live))

\* Clients that release in the reverse of the order they registered in, and make
\* no change during an activation, make no assertion fail: nothing is released
\* before what refers to it, however many clients share the items.  The exception
\* is the check of PrepareDraw on the bits left for the index, which fails only for
\* clients whose fields leave none or more than 31, as the default fields do.
ChecksHold == faults \subseteq Fault(~IndexBitsFit, "IndexBits")

\* Every render key of a registered object selects a render key made for that
\* object in the current activation, and so does what was enqueued in it and has
\* been copied, sorted or not; the items the render key was made of are registered,
\* and there is none without an activation.  If the fields leave the index a number
\* of bits that PrepareDraw's check allows, the index it reads back is that of the
\* render key.  Clients that enqueue at the same time copy to different slots.
KeysResolve ==
  LET selects(key, o) ==
        /\ key.index + 1 \in DOMAIN rkeys
        /\ IndexBitsFit => RenderIndex(key) = key.index
        /\ LET r == rkeys[key.index + 1] IN
           /\ r.object = o
           /\ Activates(r) \subseteq live
  IN /\ \A o \in live : \A i \in DOMAIN mem[o].keys :
          active # None /\ selects(mem[o].keys[i], o)
     /\ \A i \in DOMAIN enqueued :
          enqueued[i].current => selects(enqueued[i].key, enqueued[i].object)
     /\ \A c, d \in Clients :
          c # d /\ None \notin {copies[c], copies[d]} => Reserved(c) \cap Reserved(d) = {}

==============================================================================
