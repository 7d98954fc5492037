--------------------------- MODULE FrameResources ---------------------------
(***************************************************************************)
(* The resources of yengine/renderer that own ids of the render device: view   *)
(* ports, render targets, vertex declarations, shader arguments and buffers,    *)
(* most of them twice, so that a change does not touch what the device may       *)
(* still use; the cache of blend and sampler states; and the filter in front of  *)
(* the device, RenderDeviceState.                                               *)
(*                                                                            *)
(* They change between frames and are activated in them: a frame is a call of   *)
(* PrepareDraw, whose render keys activate resources in any order.               *)
(***************************************************************************)
EXTENDS RenderDevice

CONSTANTS
  Kind,          \* of each resource, the kind of its ids
  Uses,          \* of each, the sets of points an activation sets at once
  Usages,        \* and the usages that clients give it
  SamplerOf,     \* the sampler's point of a texture's
  SamplerHash,   \* the sampler state of each texture argument
  States,        \* the hashes of blend and of sampler states
  ResourceSets, Unused

VARIABLES
  resources,     \* those of this run
  res,
  cache,         \* RenderStateCache: the id of each state that was inserted
  filter,        \* RenderDeviceState: the id set last at each point
  inFrame,
  user           \* the resource activated last at each point in the frame

frameVars == <<dev, kinds, resources, res, cache, filter, inFrame, user>>

Two == {0, 1}
Unfiltered == [p \in AllPoints |-> NoID]
Unbound == [p \in AllPoints |-> Unused]

\* Resources are activated at points of their kind, declarations and vertex buffers
\* at all of them, and every texture's point has a sampler's of its own.
FrameAssumption ==
  /\ DeviceAssumption
  /\ Unused \notin DOMAIN Kind /\ \A R \in ResourceSets : R \subseteq DOMAIN Kind
  /\ \A r \in DOMAIN Kind :
       /\ Kind[r] \in Kinds \ {"sampler"}
       /\ \A points \in Uses[r] :
            /\ points \subseteq Points[Kind[r]]
            /\ Kind[r] \in {"decl", "vb"} => points = Points[Kind[r]]
  /\ \A p, q \in Points["texture"] :
       SamplerOf[p] \in Points["sampler"] /\ (SamplerOf[p] = SamplerOf[q] => p = q)

\* The constructors; view ports, targets and declarations are given their data.
NewResource(r, x) ==
  [ids |-> [i \in Two |-> NoID], active |-> 0, sampler |-> NoID,
   dirty |-> Kind[r] \in {"viewport", "surface"}, usage |-> "Invalid", data |-> x]

InitialData(r) ==
  CASE Kind[r] \in {"viewport", "surface"} -> Payloads
    [] Kind[r] = "decl" -> {e \in Declarations : Agree(e)}
    [] Kind[r] = "blend" -> {CHOOSE h \in States["blend"] : TRUE}
    [] OTHER -> {Unfilled}

FrameInit ==
  /\ dev = Initialized(Fresh) /\ kinds = {}
  /\ resources \in ResourceSets
  /\ \E data \in [resources -> UNION {InitialData(r) : r \in resources}] :
       /\ \A r \in resources : data[r] \in InitialData(r)
       /\ res = [r \in resources |-> NewResource(r, data[r])]
  /\ cache = [k \in {"blend", "sampler"} |-> [h \in {} |-> NoID]]
  /\ filter = Unfiltered /\ inFrame = FALSE /\ user = Unbound

------------------------------------------------------------------------------
(* Between frames                                                            *)

\* Release() of any resource: its ids, one after the other.
FreedOne(d, r, i) ==
  IF res[r].ids[i] = NoID THEN d ELSE ReleaseID(d, Kind[r], res[r].ids[i])
Freed(d, r) == FreedOne(FreedOne(d, r, 0), r, 1)

Steady == UNCHANGED <<kinds, resources>>

\* A resource that is released is destroyed, and may be constructed again.
ReleaseResource(r) ==
  /\ Kind[r] # "blend"
  /\ dev' = Freed(dev, r)
  /\ \E x \in InitialData(r) : res' = [res EXCEPT ![r] = NewResource(r, x)]
  /\ UNCHANGED cache

\* SetViewPort and SetRenderTarget.
SetResource(r, x) ==
  /\ Kind[r] \in {"viewport", "surface"}
  /\ res' = [res EXCEPT ![r].data = x, ![r].dirty = TRUE]
  /\ UNCHANGED <<dev, cache>>

\* Initialize: a buffer of another shape replaces the old ones when it is filled,
\* arguments only note the usage.
Shaped(s, k, u) ==
  [s EXCEPT !.usage = u, !.dirty = @ \/ (k \in Buffers /\ s.usage # u)]
InitializeResource(r, u) ==
  /\ Kind[r] \in Buffers \cup {"cb", "texture"}
  /\ res' = [res EXCEPT ![r] = Shaped(@, Kind[r], u)]
  /\ UNCHANGED <<dev, cache>>

\* The index that a fill writes to.
Flip(s) == 1 - s.active

\* What the device has after a fill of the buffer id, which is new or not.
FilledBuffer(d, k, id, x) == FillBuffer(d, k, id, Total, x)
FilledFloat(d, k, id, new, x) == IF new THEN d ELSE FillBuffer(d, k, id, Total, x)
FilledTexture(d, id, x) == FillTexture(d, id, x)

FillResource(r, x) ==
  LET k == Kind[r]
      s == IF res[r].dirty THEN [res[r] EXCEPT !.ids = [i \in Two |-> NoID]] ELSE res[r]
      d == IF res[r].dirty THEN Freed(dev, r) ELSE dev
      new == s.ids[Flip(s)] = NoID
      id == IF new THEN NewID(d, k) ELSE s.ids[Flip(s)]
      given == IF k = "cb" THEN x ELSE Unfilled
      made == CASE ~new -> d
                [] new /\ k = "texture" -> CreateTexture(d, s.usage, given)
                [] OTHER -> CreateBuffer(d, k, s.usage, given)
  IN
  /\ k \in Buffers \cup {"cb", "texture"}
  /\ IF new THEN Creatable(s.usage, given) /\ MayCreateBuffer(d, k)
     ELSE k \notin Buffers => s.usage \in {"Static", "Dynamic"}
  /\ (new /\ k = "cb") \/ Fillable(made, k, id)
  /\ dev' = CASE k \in Buffers -> FilledBuffer(made, k, id, x)
              [] k = "cb" -> FilledFloat(made, k, id, new, x)
              [] k = "texture" -> FilledTexture(made, id, x)
  /\ res' = [res EXCEPT ![r] = [s EXCEPT !.ids[Flip(s)] = id, !.active = Flip(s),
                                         !.dirty = FALSE, !.data = x]]
  /\ UNCHANGED cache

\* A shader is created when it is registered.
RegisterShader(r, x) ==
  /\ Kind[r] \in {"vs", "ps"} /\ res[r].ids[0] = NoID /\ NewID(dev, Kind[r]) # NoID
  /\ dev' = CreateShader(dev, Kind[r], x)
  /\ res' = [res EXCEPT ![r].ids[0] = NewID(dev, Kind[r]), ![r].data = x]
  /\ UNCHANGED cache

\* InsertBlendState and InsertSamplerState.
InsertState(k, h) ==
  /\ h \notin DOMAIN cache[k]
  /\ cache' = [cache EXCEPT ![k] = [g \in {h} \cup DOMAIN cache[k] |->
                                      IF g = h THEN NoID ELSE cache[k][g]]]
  /\ UNCHANGED <<dev, res>>

BeginFrame == inFrame' = TRUE /\ UNCHANGED <<dev, res, cache>>

------------------------------------------------------------------------------
(* In a frame                                                                *)

\* Calls of the filter, one after the other, on both the device and the filter.
Through(st, k, points, id) ==
  IF \A p \in points : st.filter[p] = id THEN st
  ELSE [dev |-> Activated(st.dev, k, points, id),
        filter |-> [p \in AllPoints |-> IF p \in points THEN id ELSE st.filter[p]]]

\* GetBlendStateID and GetSamplerStateID create the device's state when it is
\* first asked for.
StateID(k, h) == IF cache[k][h] = NoID THEN NewID(dev, k) ELSE cache[k][h]
WithState(k, h) ==
  IF cache[k][h] # NoID THEN dev
  ELSE IF k = "blend" THEN CreateState(dev, k, h) ELSE CreateSamplerState(dev, h)

\* A resource with the device that its id is good for.
Same(r) == [dev |-> dev, s |-> res[r]]

ReadyViewPort(r) ==
  LET s == res[r]
      i == Flip(s)
      new == s.ids[i] = NoID
      id == IF new THEN NewID(dev, "viewport") ELSE s.ids[i]
  IN IF ~s.dirty THEN Same(r)
     ELSE [dev |-> IF new THEN CreateState(dev, "viewport", s.data)
                   ELSE SetViewPort(dev, id, s.data),
           s |-> [s EXCEPT !.ids[i] = id, !.active = i, !.dirty = FALSE]]

ReadyRenderTarget(r) ==
  LET s == res[r]
      i == Flip(s)
      d == IF s.ids[i] = NoID THEN dev ELSE ReleaseID(dev, "surface", s.ids[i])
  IN IF ~s.dirty THEN Same(r)
     ELSE [dev |-> CreateRenderTarget(d, s.data),
           s |-> [s EXCEPT !.ids[i] = NewID(d, "surface"), !.active = i, !.dirty = FALSE]]

ReadyVertexDecl(r) ==
  LET s == res[r]
  IN IF s.ids[0] # NoID THEN Same(r)
     ELSE [dev |-> CreateVertexDeclaration(dev, s.data),
           s |-> [s EXCEPT !.ids[0] = NewID(dev, "decl")]]

ReadyTexture(r) ==
  LET s == res[r]
  IN IF s.sampler # NoID THEN Same(r)
     ELSE [dev |-> WithState("sampler", SamplerHash[r]),
           s |-> [s EXCEPT !.sampler = StateID("sampler", SamplerHash[r])]]

ReadyBlend(r) ==
  [dev |-> WithState("blend", res[r].data),
   s |-> [res[r] EXCEPT !.ids[0] = StateID("blend", res[r].data)]]

Ready(r) ==
  CASE Kind[r] = "viewport" -> ReadyViewPort(r)
    [] Kind[r] = "surface" -> ReadyRenderTarget(r)
    [] Kind[r] = "decl" -> ReadyVertexDecl(r)
    [] Kind[r] = "texture" -> ReadyTexture(r)
    [] Kind[r] = "blend" -> ReadyBlend(r)
    [] OTHER -> Same(r)

\* The tables have room for what the activation makes, states have been
\* inserted, and what is filled or registered has been.
MayActivate(r) ==
  LET k == Kind[r]
      s == res[r]
      d == IF s.dirty /\ s.ids[Flip(s)] # NoID
           THEN ReleaseID(dev, "surface", s.ids[Flip(s)]) ELSE dev
  IN CASE k = "surface" -> s.dirty => MayCreateRenderTarget(d)
       [] k \in {"viewport", "decl"} -> NewID(dev, k) # NoID
       [] k = "blend" -> s.data \in DOMAIN cache[k] /\ NewID(dev, k) # NoID
       [] k = "texture" -> /\ s.ids[s.active] # NoID /\ NewID(dev, "sampler") # NoID
                           /\ SamplerHash[r] \in DOMAIN cache["sampler"]
       [] OTHER -> s.ids[s.active] # NoID

ActivateResource(r, points) ==
  LET k == Kind[r]
      ready == Ready(r)
      samplers == {SamplerOf[p] : p \in points}
      st == [dev |-> ready.dev, filter |-> filter]
      sampled == IF k = "texture" THEN Through(st, "sampler", samplers, ready.s.sampler)
                 ELSE st
      done == Through(sampled, k, points, ready.s.ids[ready.s.active])
      caching == CASE k = "texture" -> [k2 |-> "sampler", h |-> SamplerHash[r],
                                        id |-> ready.s.sampler]
                   [] k = "blend" -> [k2 |-> k, h |-> ready.s.data, id |-> ready.s.ids[0]]
  IN
  /\ MayActivate(r)
  /\ dev' = done.dev /\ filter' = done.filter
  /\ res' = [res EXCEPT ![r] = ready.s]
  /\ cache' = IF k \notin {"texture", "blend"} THEN cache
              ELSE [cache EXCEPT ![caching.k2][caching.h] = caching.id]
  /\ user' = [p \in AllPoints |-> IF p \in points THEN r ELSE user[p]]
  /\ UNCHANGED inFrame

\* Mutant: one filter for all frames.
FrameFilterKept == filter

\* The next frame starts with a filter of its own.
FrameFilter == Unfiltered

EndFrame ==
  /\ inFrame' = FALSE /\ filter' = FrameFilter /\ user' = Unbound
  /\ UNCHANGED <<dev, res, cache>>

FrameNext ==
  /\ Steady
  /\ \/ /\ ~inFrame /\ UNCHANGED <<filter, user>>
        /\ \/ BeginFrame
           \/ /\ UNCHANGED inFrame
              /\ \/ \E r \in resources : ReleaseResource(r)
                 \/ \E r \in resources, x \in Payloads :
                      SetResource(r, x) \/ FillResource(r, x) \/ RegisterShader(r, x)
                 \/ \E r \in resources : \E u \in Usages[r] : InitializeResource(r, u)
                 \/ \E k \in {"blend", "sampler"} : \E h \in States[k] : InsertState(k, h)
     \/ /\ inFrame
        /\ \/ EndFrame
           \/ \E r \in resources : \E points \in Uses[r] : ActivateResource(r, points)

FrameSpec == FrameInit /\ [][FrameNext]_frameVars

------------------------------------------------------------------------------
(* Properties                                                                *)

FrameTypeOK ==
  /\ DeviceTypeOK
  /\ \A r \in resources : /\ res[r].active \in Two
                          /\ \A i \in Two : res[r].ids[i] \in dev.used[Kind[r]] \cup {NoID}

\* What the device shows of what is bound at p for resources of kind k.
Shown(k, p) == IF k \in Copied THEN dev.bound[p]
               ELSE IF dev.bound[p] < 0 THEN Unused ELSE dev.at[k][dev.bound[p]].data

Wanted(r) == CASE Kind[r] = "texture" -> Levels(res[r].data)
               [] Kind[r] = "decl" -> Divisors(res[r].data)
               [] OTHER -> res[r].data

\* Whatever the filter and the double buffering save of calls, at every point
\* at which a resource was activated last in the frame the device has the data
\* that the resource was given last.
LatestDataBound ==
  inFrame => \A p \in AllPoints : user[p] # Unused =>
    /\ Shown(Kind[user[p]], p) = Wanted(user[p])
    /\ Kind[user[p]] = "texture" =>
         dev.bound[SamplerOf[p]] = SamplerHash[user[p]]

==============================================================================
