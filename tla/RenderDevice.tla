---------------------------- MODULE RenderDevice ----------------------------
(***************************************************************************)
(* yengine/render_device/render_device_dx9.cpp: the tables of resources behind *)
(* the ids of the render device, the Direct3D objects they own, and what is     *)
(* bound at the device.  The operators take a device and return one, so that    *)
(* callers can compose calls; the actions are the calls of any client.          *)
(*                                                                            *)
(* Assertions are guards, except for those that fail for every correct call:    *)
(* of FillVertexBufferInterleaved and FillIndexBuffer that the range exceeds    *)
(* the buffer, of CreateConstantBuffer that the size is no multiple of a        *)
(* register, of ActivateDrawPrimitive and the draws that the primitive is not   *)
(* valid or not set.                                                            *)
(***************************************************************************)
EXTENDS Integers, SequencesExt

CONSTANTS
  Size,               \* of each kind's table
  Points,             \* where a kind's resources are bound
  Payloads, Unfilled, BackBuffer,
  Declarations,       \* sequences of elements <<stream, instance divisor>>
  DrawPoints,         \* kPrimitiveDrawPoints: divide by, or subtract -n
  Mips, Total,        \* levels of a texture, elements of a buffer
  MemorySize,         \* in constant buffers
  KindSets,           \* the kinds of resource that clients use
  TargetsAligned      \* do clients create a target only when the next free
                      \* texture and the next free surface have the same id?

VARIABLES dev, kinds

Plain == {"viewport", "blend", "sampler"}        \* tables of values
Buffers == {"vb", "ib"}
Reinitialized == {"texture", "surface"} \cup Buffers
DeviceObjects == {"decl", "vs", "ps"} \cup Reinitialized \* tables of D3D objects
Copied == Plain \cup {"cb"}                      \* copied when activated
Kinds == DeviceObjects \cup Copied
NoID == -1
Gone == -2     \* bound is an object that no id denotes any more
Streams == {0, 1}

\* Kinds are bound at points of their own, the back buffer has a place, and a
\* declaration has an element.
DeviceAssumption ==
  /\ Size \in [Kinds -> Nat] /\ Size["surface"] > 0
  /\ DOMAIN Points = Kinds
  /\ \A j, k \in Kinds : j # k => Points[j] \cap Points[k] = {}
  /\ \A e \in Declarations : e # <<>> /\ e \in Seq(Streams \X Nat)
  /\ DrawPoints \subseteq Int /\ Total \in Nat /\ MemorySize \in Nat

\* What a slot's Init() leaves.
Vacant == [object |-> FALSE, usage |-> "Invalid", data |-> Unfilled,
          texture |-> NoID, count |-> 0]

\* A slot after its Release().
Released(k, s) == IF k \in Plain \/ (k \in DeviceObjects /\ ~s.object) THEN s ELSE Vacant

NewID(d, k) == IF d.free[k] # <<>> THEN Head(d.free[k])
               ELSE IF d.top[k] < Size[k] THEN d.top[k] ELSE NoID

\* AllocateID, whose slot is then s.
Put(d, k, s) ==
  LET id == NewID(d, k)
  IN [d EXCEPT !.used[k] = @ \cup {id},
               !.free[k] = IF @ = <<>> THEN @ ELSE Tail(@),
               !.top[k] = IF id = @ THEN @ + 1 ELSE @,
               !.at[k][id] = s,
               !.alive[k] = IF s.object THEN @ + 1 ELSE @]

ReleaseOne(d, k, id) ==
  LET lost(p) == k \in DeviceObjects /\ p \in Points[k] /\ d.bound[p] = id
  IN [d EXCEPT !.used[k] = @ \ {id},
               !.free[k] = <<id>> \o @,
               !.at[k][id] = Released(k, @),
               !.alive[k] = IF d.at[k][id].object THEN @ - 1 ELSE @,
               !.bound = [p \in DOMAIN @ |-> IF lost(p) THEN Gone ELSE @[p]]]

\* Mutant: a surface is released without its texture's id.
ReleaseSurfaceOnly(d, k, id) == ReleaseOne(d, k, id)

\* The release of a surface first releases its texture's id.
ReleaseID(d, k, id) ==
  LET s == d.at[k][id]
      owns == k = "surface" /\ s.object /\ s.texture \in d.used["texture"]
  IN ReleaseOne(IF owns THEN ReleaseOne(d, "texture", s.texture) ELSE d, k, id)

------------------------------------------------------------------------------
(* Initialize and Terminate                                                  *)

\* The back buffer's surface comes first.  Only four of the tables are cleared,
\* those that Terminate releases.
Initialized(d) ==
  LET clear(f, x) == [k \in Kinds |-> IF k \in Reinitialized THEN x ELSE f[k]]
      cleared == [d EXCEPT !.used = clear(@, {}), !.free = clear(@, <<>>),
                           !.top = clear(@, 0), !.memory = 0, !.points = 0,
                           !.stream = NoID, !.up = TRUE]
  IN Put(cleared, "surface", [Vacant EXCEPT !.object = TRUE, !.data = BackBuffer])

\* The tables keep their used slots, which no call looks at before Initialize.
Terminated(d) ==
  LET objects(k) == {i \in d.used[k] : d.at[k][i].object}
  IN [d EXCEPT
        !.up = FALSE,
        !.at = [k \in Kinds |-> [i \in 0 .. Size[k] - 1 |->
                  IF k \in Reinitialized /\ i \in d.used[k]
                  THEN Released(k, @[k][i]) ELSE @[k][i]]],
        !.alive = [k \in Kinds |-> IF k \in Reinitialized
                     THEN @[k] - Cardinality(objects(k)) ELSE @[k]],
        !.bound = [p \in DOMAIN @ |-> NoID],
        !.freq = [s \in Streams |-> 0]]

AllPoints == UNION {Points[k] : k \in Kinds}

Fresh ==
  [up |-> FALSE, used |-> [k \in Kinds |-> {}], free |-> [k \in Kinds |-> <<>>],
   top |-> [k \in Kinds |-> 0], alive |-> [k \in Kinds |-> 0],
   at |-> [k \in Kinds |-> [i \in 0 .. Size[k] - 1 |-> Vacant]],
   bound |-> [p \in AllPoints |-> NoID], freq |-> [s \in Streams |-> 0],
   memory |-> 0, points |-> 0, stream |-> NoID, drawn |-> 0]

------------------------------------------------------------------------------
(* Creation and filling                                                      *)

CreateState(d, k, x) == Put(d, k, [Vacant EXCEPT !.data = x])

\* The texture's id, not the surface's, is the index of the surface that is
\* written.
SurfaceWritten(texture, surface) == texture

CreateRenderTarget(d, x) ==
  LET texture == NewID(d, "texture")
      i == SurfaceWritten(texture, NewID(d, "surface"))
      d1 == Put(d, "texture", [Vacant EXCEPT !.object = TRUE, !.usage = "System"])
  IN [Put(d1, "surface", Vacant)
        EXCEPT !.at["surface"][i] = [@ EXCEPT !.object = TRUE, !.data = x,
                                              !.texture = texture],
               !.alive["surface"] = @ + 1]

MayCreateRenderTarget(d) ==
  LET texture == NewID(d, "texture")
  IN /\ NoID \notin {texture, NewID(d, "surface")}
     /\ texture < Size["surface"]
     /\ TargetsAligned => texture = NewID(d, "surface")

\* The instance divisor of each stream up to the last one an element uses; the
\* elements of a stream must agree.
Divisors(elements) ==
  LET of(s) == {e[2] : e \in {x \in ToSet(elements) : x[1] = s}}
  IN [s \in 0 .. Max({e[1] : e \in ToSet(elements)}) |-> Max({0} \cup of(s))]
Agree(elements) ==
  \A e, f \in ToSet(elements) : e[1] = f[1] => e[2] = f[2]

CreateVertexDeclaration(d, elements) ==
  Put(d, "decl", [Vacant EXCEPT !.object = TRUE, !.data = Divisors(elements)])

CreateShader(d, k, x) == Put(d, k, [Vacant EXCEPT !.object = TRUE, !.data = x])
CreateSamplerState(d, x) == CreateState(d, "sampler", x)

\* An immutable resource is filled when it is created.
Creatable(u, x) ==
  /\ u \in {"Immutable", "Static", "Dynamic"}
  /\ u = "Immutable" => x # Unfilled

Levels(x) == [m \in 1 .. Mips |-> x]
CreateTexture(d, u, x) ==
  Put(d, "texture", [Vacant EXCEPT !.object = TRUE, !.usage = u, !.data = Levels(x)])

\* Memory of constant buffers is not given back.
AllocateMemory(d) == [d EXCEPT !.memory = @ + 1]

CreateBuffer(d, k, u, x) ==
  LET count == IF k = "cb" \/ x = Unfilled THEN 0 ELSE Total
  IN Put(IF k = "cb" THEN AllocateMemory(d) ELSE d, k,
         [Vacant EXCEPT !.object = k # "cb", !.usage = u, !.data = x, !.count = count])

MayCreateBuffer(d, k) ==
  NewID(d, k) # NoID /\ (k = "cb" => d.memory + 1 < MemorySize)

Fillable(d, k, id) == d.at[k][id].usage \in {"Static", "Dynamic"}
SetViewPort(d, id, x) == [d EXCEPT !.at["viewport"][id].data = x]
FillTextureMip(d, id, m, x) == [d EXCEPT !.at["texture"][id].data[m] = x]
FillTexture(d, id, x) == [d EXCEPT !.at["texture"][id].data = Levels(x)]
ResetBuffer(d, k, id) == [d EXCEPT !.at[k][id].count = 0]
FillVertexBuffer(d, id, end, x) ==
  LET s == d.at["vb"][id]
  IN [d EXCEPT !.at["vb"][id] = [s EXCEPT !.data = x, !.count = Max({s.count, end})]]
FillIndexBuffer(d, id, end, x) ==
  LET s == d.at["ib"][id]
  IN [d EXCEPT !.at["ib"][id] = [s EXCEPT !.data = x, !.count = Max({s.count, end})]]
FillConstantBuffer(d, id, x) == [d EXCEPT !.at["cb"][id].data = x]

\* Any fill of a buffer up to an element; x is what was filled last.
FillBuffer(d, k, id, end, x) ==
  CASE k = "vb" -> FillVertexBuffer(d, id, end, x)
    [] k = "ib" -> FillIndexBuffer(d, id, end, x)
    [] k = "cb" -> FillConstantBuffer(d, id, x)

------------------------------------------------------------------------------
(* Activation and drawing                                                    *)

\* View ports, blend and sampler states and constants are copied to the device,
\* objects are referred to.
Bind(d, k, ps, id) ==
  LET s == d.at[k][id]
      bound == [p \in AllPoints |-> IF p \notin ps THEN d.bound[p]
                                    ELSE IF k \in Copied THEN s.data ELSE id]
  IN [d EXCEPT !.bound = bound]

\* Only the streams of the declaration get its divisors.
BindVertexDeclaration(d, id) ==
  LET divisors == d.at["decl"][id].data
  IN [Bind(d, "decl", Points["decl"], id)
        EXCEPT !.freq = [s \in Streams |->
                           IF s \in DOMAIN divisors THEN divisors[s] ELSE @[s]]]

BindVertexStream(d, id) == [Bind(d, "vb", Points["vb"], id) EXCEPT !.stream = id]

Activated(d, k, ps, id) ==
  CASE k = "decl" -> BindVertexDeclaration(d, id)
    [] k = "vb" -> BindVertexStream(d, id)
    [] OTHER -> Bind(d, k, ps, id)

Enough(points, n) == IF points < 0 THEN n + points > 0 ELSE n % points = 0
NumPrimitives(points, n) == IF points < 0 THEN n + points ELSE n \div points

------------------------------------------------------------------------------
(* The calls of clients                                                      *)

Init == dev = Initialized(Fresh) /\ kinds \in KindSets

Initialize == ~dev.up /\ dev' = Initialized(dev)

\* Clients have released their declarations and shaders.
Terminate ==
  /\ dev.up /\ \A k \in DeviceObjects \ Reinitialized : dev.used[k] = {}
  /\ dev' = Terminated(dev)

Create(k, x) ==
  /\ NewID(dev, k) # NoID
  /\ dev' = CASE k \in {"viewport", "blend"} -> CreateState(dev, k, x)
              [] k = "sampler" -> CreateSamplerState(dev, x)
              [] k \in {"vs", "ps"} -> CreateShader(dev, k, x)

CreateTarget(x) == MayCreateRenderTarget(dev) /\ dev' = CreateRenderTarget(dev, x)

CreateDeclaration(elements) ==
  /\ NewID(dev, "decl") # NoID /\ Agree(elements)
  /\ dev' = CreateVertexDeclaration(dev, elements)

CreateFilled(k, u, x) ==
  /\ Creatable(u, x) /\ MayCreateBuffer(dev, k)
  /\ dev' = IF k = "texture" THEN CreateTexture(dev, u, x)
            ELSE CreateBuffer(dev, k, u, x)

Fill(k, id, x) ==
  /\ k # "viewport" => Fillable(dev, k, id)
  /\ \/ k = "viewport" /\ dev' = SetViewPort(dev, id, x)
     \/ k = "texture" /\ (dev' = FillTexture(dev, id, x)
                          \/ \E m \in 1 .. Mips : dev' = FillTextureMip(dev, id, m, x))
     \/ k \in Buffers /\ dev' = ResetBuffer(dev, k, id)
     \/ k \in Buffers \cup {"cb"} /\
        \E end \in 1 .. Total : dev' = FillBuffer(dev, k, id, end, x)

\* Blend and sampler states cannot be released, nor the back buffer or the
\* textures of targets.
Release(k, id) ==
  /\ k \notin {"blend", "sampler"} /\ dev.at[k][id].usage # "System"
  /\ k = "surface" => id # 0
  /\ dev' = ReleaseID(dev, k, id)

Activate(k, p, id) == dev' = Activated(dev, k, {p}, id)

ActivateDrawPrimitive(points) == dev' = [dev EXCEPT !.points = points]

\* From the start of the stream, whose buffer was not released since.
Draw(n) ==
  /\ dev.points # 0 /\ dev.stream \in dev.used["vb"] /\ Enough(dev.points, n)
  /\ dev' = [dev EXCEPT !.drawn = NumPrimitives(dev.points, n)]

Calls(k) ==
  \/ \E x \in Payloads :
       \/ k \in {"viewport", "blend", "sampler", "vs", "ps"} /\ Create(k, x)
       \/ k = "surface" /\ CreateTarget(x)
       \/ k \in {"viewport", "texture", "vb", "ib", "cb"} /\
          \E id \in dev.used[k] : Fill(k, id, x)
  \/ \E u \in {"Immutable", "Static", "Dynamic"}, x \in Payloads \cup {Unfilled} :
       k \in {"texture", "vb", "ib", "cb"} /\ CreateFilled(k, u, x)
  \/ k = "decl" /\ \E e \in Declarations : CreateDeclaration(e)
  \/ \E id \in dev.used[k] : Release(k, id) \/ \E p \in Points[k] : Activate(k, p, id)

Next ==
  /\ UNCHANGED kinds
  /\ \/ Initialize
     \/ Terminate
     \/ dev.up /\ \E k \in kinds \cap Kinds : Calls(k)
     \/ dev.up /\ "draw" \in kinds
        /\ (\/ \E points \in DrawPoints : ActivateDrawPrimitive(points)
            \/ \E n \in 0 .. Total : Draw(n))

Spec == Init /\ [][Next]_<<dev, kinds>>

------------------------------------------------------------------------------
(* Properties                                                                *)

DeviceTypeOK ==
  /\ \A k \in Kinds :
       /\ dev.used[k] \subseteq 0 .. Size[k] - 1 /\ dev.top[k] \in 0 .. Size[k]
       /\ \A id \in dev.used[k] : dev.at[k][id].count \in 0 .. Total
  /\ dev.memory \in 0 .. MemorySize /\ dev.drawn \in 0 .. Total
  /\ dev.points \in DrawPoints \cup {0}

\* An id is in use or free, never both or neither; every D3D object that was
\* created and not released belongs to one slot in use; a target's surface and
\* its texture live and die together, and no two targets share one; and a bound
\* declaration has its divisors in all of its streams.
DeviceSlots ==
  dev.up =>
    /\ \A k \in Kinds :
         /\ dev.used[k] \cup ToSet(dev.free[k]) = 0 .. dev.top[k] - 1
         /\ Cardinality(dev.used[k]) + Len(dev.free[k]) = dev.top[k]
         /\ dev.alive[k] = Cardinality({i \in DOMAIN dev.at[k] : dev.at[k][i].object})
         /\ k \in DeviceObjects => \A i \in DOMAIN dev.at[k] :
                               dev.at[k][i].object <=> i \in dev.used[k]
    /\ \A t \in dev.used["texture"] : dev.at["texture"][t].usage = "System" <=>
         Cardinality({s \in dev.used["surface"] : dev.at["surface"][s].texture = t}) = 1
    /\ \A s \in dev.used["surface"] : s # 0 =>
         dev.at["surface"][s].texture \in dev.used["texture"]
    /\ \A p \in Points["decl"] : dev.bound[p] >= 0 =>
         LET divisors == dev.at["decl"][dev.bound[p]].data
         IN \A s \in DOMAIN divisors : dev.freq[s] = divisors[s]

\* The surface stored under the back buffer's id is the back buffer's.
BackBufferKept == dev.up => dev.at["surface"][0].data = BackBuffer

==============================================================================
