----------------------------- MODULE DataLoader -----------------------------
(***************************************************************************)
(* yengine/data_loader/data_loader.cpp and shader_load.cpp: loaded data on a   *)
(* MemBuffer, released in any order and freed from the top of the stack.        *)
(*                                                                            *)
(* Initialize leaves gMaxDataLoads 0, so that the assertions on it fail at     *)
(* every load and release; the module is of a build without assertions, whose   *)
(* callers keep to the number of loads they asked Initialize for.               *)
(***************************************************************************)
EXTENDS MemBuffer, FiniteSetsExt

CONSTANTS
  MaxDataLoads, TableSize,     \* TableSize: gUsedIndexes and gLoadedData
  ShaderLoadSize, Variants     \* possible numbers of a shader's variants

VARIABLE
  loads     \* gLoadedData and gUsedIndexes, up to gNumUsedIndexes

loaderVars == <<bufferVars, loads>>

\* blocks holds what the loads that were not released allocated, two blocks each.
LoaderInit ==
  /\ usedBufferSize = TableSize /\ usedScratchPadSize = 0
  /\ pads = <<>> /\ blocks = <<>> /\ loads = <<>>

BlocksOf(id) == {2 * id - 1, 2 * id}

\* LoadData, after the ShaderLoad itself, allocates one id per variant.
LoadShader(variants) ==
  LET id == Len(loads) + 1
      at == Base + usedBufferSize
      size == ShaderLoadSize + variants
  IN
  /\ Len(loads) < MaxDataLoads /\ size <= FreeSpace
  /\ usedBufferSize' = usedBufferSize + size
  /\ loads' = Append(loads, [used |-> TRUE, size |-> size])
  /\ blocks' = [i \in (DOMAIN blocks) \cup BlocksOf(id) |->
                  IF i \notin BlocksOf(id) THEN blocks[i]
                  ELSE IF i = 2 * id THEN [at |-> at + ShaderLoadSize, size |-> variants]
                  ELSE [at |-> at, size |-> ShaderLoadSize]]
  /\ UNCHANGED <<usedScratchPadSize, pads>>

\* Mutant: the loop stops one load too late.
KeptLess(ls) == Max({0} \cup {i - 1 : i \in {j \in DOMAIN ls : ls[j].used}})

\* The number of loads that stay when those on top that are not used go.
Kept(ls) == Max({0} \cup {i \in DOMAIN ls : ls[i].used})

ReleaseLoadedData(id) ==
  LET released == [loads EXCEPT ![id].used = FALSE]
      kept == Kept(released)
      freed == [i \in 1 .. Len(loads) - kept |-> loads[kept + i].size]
  IN
  /\ loads[id].used
  /\ loads' = SubSeq(released, 1, kept)
  /\ usedBufferSize' = usedBufferSize - TotalOf(freed)
  /\ blocks' = [i \in (DOMAIN blocks) \ BlocksOf(id) |-> blocks[i]]
  /\ UNCHANGED <<usedScratchPadSize, pads>>

LoaderNext ==
  \/ \E n \in Variants : LoadShader(n)
  \/ \E id \in DOMAIN loads : ReleaseLoadedData(id)

LoaderTypeOK ==
  /\ BufferTypeOK /\ pads = <<>> /\ Len(loads) <= MaxDataLoads
  /\ loads # <<>> => loads[Len(loads)].used

==============================================================================
