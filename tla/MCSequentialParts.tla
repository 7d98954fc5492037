-------------------------- MODULE MCSequentialParts --------------------------
(***************************************************************************)
(* The sequential parts of the engine, which do not share state: the containers, *)
(* and the device with the resources above it, with their bounds.               *)
(***************************************************************************)
EXTENDS Containers, FrameResources

CONSTANTS A, B,     \* payloads
          Parts

MCPoints ==
  [viewport |-> {"viewport"}, blend |-> {"blend"}, sampler |-> {"vsampler", "psampler"},
   decl |-> {"decl"}, vs |-> {"vshader"}, ps |-> {"pshader"}, vb |-> {"stream"},
   ib |-> {"indexes"}, surface |-> {"target0", "target1"}, texture |-> {"vtex", "ptex"},
   cb |-> {"v0", "v1"}]

\* Room for two of what a resource owns, and for what it takes beside that.
MCSize ==
  [viewport |-> 2, blend |-> 2, sampler |-> 2, decl |-> 2, vs |-> 2, ps |-> 2, vb |-> 2,
   ib |-> 2, surface |-> 3, texture |-> 3, cb |-> 3]

MCKindSets ==
  {{"texture", "surface"}, {"viewport", "sampler", "decl"}, {"vb", "draw"}, {"ib"}, {"cb"},
   {"vs", "ps", "blend"}}

MCKind ==
  [view |-> "viewport", tgt |-> "surface", tex |-> "texture", map |-> "texture", f |-> "cb", g |-> "cb",
   verts |-> "vb", inds |-> "ib", format |-> "decl", blending |-> "blend", shader |-> "vs"]

\* The floats share a register.
MCUses ==
  [view |-> {{"viewport"}}, tgt |-> {{"target0"}},
   tex |-> {{"vtex"}, {"ptex"}}, map |-> {{"ptex"}}, f |-> {{"v0", "v1"}}, g |-> {{"v1"}},
   verts |-> {{"stream"}}, inds |-> {{"indexes"}}, format |-> {{"decl"}},
   blending |-> {{"blend"}}, shader |-> {{"vshader"}}]

MCUsages ==
  [r \in DOMAIN MCKind |-> CASE r \in {"verts", "inds"} -> {"Static", "Dynamic"}
                           [] r = "g" -> {"Immutable"}
                           [] OTHER -> {"Dynamic"}]

MCResourceSets ==
  {{"view", "blending"}, {"tgt", "map"}, {"tex"}, {"f", "g"}, {"verts"}, {"inds"},
   {"format", "shader"}}

MCDeclarations ==
  {<< <<0, 0>> >>, << <<0, 1>>, <<1, 0>> >>, << <<1, 2>>, <<0, 1>> >>, << <<0, 1>>, <<0, 2>> >>}

MCSamplerOf == [vtex |-> "vsampler", ptex |-> "psampler"]
MCSamplerHash == [tex |-> A, map |-> B]
MCStates == [blend |-> {A, B}, sampler |-> {A, B}]

\* The device alone, at fewer points but with more elements and primitives.
RD == INSTANCE RenderDevice WITH
        Points <- [Points EXCEPT !.texture = {"ptex"}, !.surface = {"target0"}],
        Payloads <- {A}, DrawPoints <- {1, 3, -2}, Mips <- 1, Total <- 3

ASSUME ResourceAssumption == RD!DeviceAssumption /\ FrameAssumption

------------------------------------------------------------------------------
vars == <<containersVars, frameVars>>

\* A device that is not initialized, and no frame.
NoDevice == dev = RD!Fresh /\ kinds = None
NoFrame ==
  /\ inFrame = FALSE
  /\ resources = None /\ res = None /\ cache = None /\ filter = None /\ user = None

PartsInit ==
  /\ part \in Parts
  /\ ContainersInit
  /\ CASE part = "RenderDevice" -> RD!Init /\ NoFrame
       [] part = "FrameResources" -> FrameInit
       [] OTHER -> NoDevice /\ NoFrame

PartsNext ==
  /\ ContainersNext
  /\ CASE part = "RenderDevice" ->
            RD!Next /\ UNCHANGED <<resources, res, cache, filter, inFrame, user>>
       [] part = "FrameResources" -> FrameNext
       [] OTHER -> UNCHANGED frameVars

PartsSpec == PartsInit /\ [][PartsNext]_vars

------------------------------------------------------------------------------
(* Properties, with those of Containers, RenderDevice and FrameResources       *)

\* The variables of the part keep within their types and bounds.
TypeOK ==
  /\ ContainersTypeOK
  /\ part = "RenderDevice" => RD!DeviceTypeOK
  /\ part = "FrameResources" => FrameTypeOK

==============================================================================
