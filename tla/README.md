# A TLA+ verification of YEngine

YEngine is a small game engine for Windows: `ycommon` holds lock-free and
sequential containers, a thread pool and a dependency tree of commands;
`yengine` builds a framework loop, a string table, a data loader and a renderer
on them. This directory models its containers, its thread pool and command tree,
its renderer and the DirectX 9 device under it, checks them with TLC and proves
part of them with TLAPS. File names below are relative to `src/`, and
`containers/` is `ycommon/containers/`.

## The system

| Component | State | Operations | What makes it correct |
|---|---|---|---|
| `AtomicQueue` | a ring `mBuffer`; words `mHead`, `mTail` of a slot number and an 8-bit lap counter | `Enqueue` (one thread), `Dequeue` (many) | a FIFO queue: nothing lost, repeated, torn or out of order; full and empty reported truly; lock-free |
| `AtomicMemPool` | `mUsedIndexes`; a stack of free slots threaded through the slots, its top a word with an 8-bit counter | `Allocate`, `Insert`, `Remove` (many threads) | no slot handed out twice, none lost; lock-free |
| `AtomicHashTable` | a word and a value per slot, `mCurrentEntries` | `Insert`, `Remove` by key or pointer, `GetValue`, `Clear` | lookups are true, values whole, counts right |
| `ThreadPool` | `mRunState`, `mSemaphore`, `mParentSemaphore`, an `AtomicQueue` of jobs, `mThreadsRunning`, the threads | `EnqueueRun`, `Start`, `Pause`, `Stop`, `Join`, the worker loop | jobs neither lost nor repeated, no lost wake-up, `Join` waits for what runs |
| `CommandTree` | nodes with children and dependency counts, `mNumNodesFinished`, `mReturnValue`, `mSemaphore`, its state | `ConstructTree`, `ExecuteCommands`, `CommandTreeThread` | dependencies respected, each command once, success means all done, the call returns |
| `Semaphore`, `Thread`, atomics | Windows objects | `Wait`, `Release(n)`; `Initialize`, `Run`, `Join`; compare-and-set, add | as used above |
| `HashTable` | keys and values by slot, `mCurrentEntries` | `Insert`, `Remove` by key or pointer, `GetValue`, `Clear` | a map |
| `MemPool` | a free list in the free slots, `mUsedIndexes` | `Allocate`, `Insert`, `Remove`, `Clear` | no slot twice or lost; links never touch a caller's data |
| `UnorderedArray` | items, their number, a callback | `PushBack`, `Remove`, `Clear` | owners know where their items are |
| `MemBuffer`, `DataLoader` | a stack in a block of memory; loads on it and a table of them | `Allocate`, `Free`, scratch pads; `LoadShader`, `ReleaseLoadedData` | allocations in use are disjoint, and stay so when loads are released out of order |
| `RefPointer` | a word of read and write counts | handles that read, write or do both | the counts are those of the live handles |
| `StringTable` | one `AtomicHashTable` | `AddString`, `StringLookup` | covered by the table, whose re-insertion flaw it can meet |
| `Renderer` | reference-counted tables of 17 kinds of items; active objects, view ports, declarations and shaders; render keys; what was enqueued | `Register*`, `Release*`, `SetupRenderKey`, `ActivateRenderPasses`, `EnqueueRenderObject`, `PrepareDraw` | counts exact, nothing released that is referred to, keys select what they were made for |
| Render state and buffers | two device ids for most resources; cached states; the id set last at each point | `Set`, `Initialize`, `Fill`, `Release`, `Activate` | a frame shows the data given last |
| `RenderDevice` | tables of resources behind ids, Direct3D objects, what is bound | `Create*`, `Fill*`, `Release*`, `Activate*`, draws | ids, objects and targets accounted for |
| `Framework`, platform services, utilities, `ytools`, build | | | not modelled, see the end |

How they interact: `CommandTree::ExecuteCommands` starts the pool, enqueues the
root commands and sleeps on the tree's semaphore. `ThreadPool` workers take jobs
from the `AtomicQueue`, sleep on `mSemaphore` when there is none, and run
`CommandTreeThread`, which itself calls `EnqueueRun` for every command it enables
and wakes the main thread after the last. The main thread then pauses and joins
the pool, sleeping on `mParentSemaphore`, which every worker releases after a job.

The renderer keeps every kind of item in a `MemPool` found through a `HashTable`,
and what is active in `UnorderedArray`s. A render object, when it is activated,
gets a render key for each render pass, and `PrepareDraw` sorts and executes the
keys: each key activates a view port, targets, a vertex declaration, shaders and
their arguments, all of which create, fill and release resources of the
`RenderDevice` on demand. `RenderStateCache` shares blend and sampler states
between them, and `RenderDeviceState` drops calls to the device that would set
what is set.

The renderer's part runs on one thread, but for `EnqueueRenderObject`, which clients
may call at the same time (it reserves slots with one atomic addition, 1869, and
copies its keys afterwards), and `PrepareDraw`, which `renderer.h:136` means for a
thread of its own. It is hard because of long sequences of calls: counts shared by clients that do not know of each other, indexes kept in
items across activations, ids given back and given out again, two ids that flip
while the device still shows one of them, calls dropped because nothing seems to
have changed. Nothing there waits, so that all its properties are safety.

The other hard part is concurrency. The containers rely on retry loops, on a
counter against ABA, on copies made before the compare-and-set that validates
them, and on decisions from values read at different instants. The pool and the
tree rely on semaphores that swallow releases at their maximum, on flags read
and acted on later, and on counts left clean for the next use. Timeouts end
`Join`, `Stop` and `ExecuteCommands` at any point and leave the rest running.
Nothing is persisted. `PROJECT.json` lists the hazards line by line, with the
properties that cover each, or why none does.

## The modules

Each action is one access to shared memory, so that every interleaving the
hardware can produce under sequential consistency is a behaviour of the model.
(The code issues its fences and interlocked operations around those accesses on
x86; weaker memory orders are not modelled.) Program counters are named after
what a thread does next. Names of variables and procedures are the code's.
Definitions marked `Mutant` are plausible bugs, each substituted for the
definition it follows to make sure that some property notices.

### FifoQueue

The promise of a bounded FIFO queue with several consumers: `Put`, `Take`, and
`Drop`, by which a consumer gives up its last item when it calls again.

### AtomicQueue, MCAtomicQueue, AtomicQueueProofs

`Enqueue` is `EnqueueReadHead`, `EnqueueReadTail` (with the test for a full ring),
`EnqueueCopyBegin`/`End` (a memcpy takes time: the slot is `Torn` in between) and
`EnqueuePublish`; `Dequeue` is `DequeueReadHead`, `DequeueReadTail` (with the test
for an empty ring), `DequeueCopy` and `DequeueCas`. A position keeps its whole lap
number, and the program sees `Word(position)`, in which the lap is reduced to the
counter. `MaxOvertake` states the assumption the program silently makes of the
scheduler: no consumer sleeps inside `Dequeue` while the tail gets that many laps
ahead of its head. Everything holds for `MaxOvertake <= CounterMod` (256 laps in
the program) and fails beyond. `Contents` and `Delivered` map the ring to
`FifoQueue`.

The comment of `atomic_number_mask.h` says the counter is bumped with every
change of the value; the queue bumps it once a lap only, and that is enough.

### AtomicMemPool, MCAtomicMemPool, AtomicMemPoolProofs

`Allocate` is `AllocReadUsed`, `AllocReadTop`, `AllocReadLink`, `AllocCas`, and
`AllocFresh` when the free stack was empty; `Remove` is `RemoveReadTop`,
`RemoveWriteLink`, `RemoveCas` and `RemoveReadTopAgain`. `own` is what the callers
hold, and they may write over the link in it at any time (`WriteItem`, which is
also the memcpy of `Insert`). `age` counts the changes of the top since a thread
read it; `MaxOvertake` bounds it, as in the queue.

### AtomicHashTable, MCAtomicHashTable, AtomicHashTableProofs

A key stands for its 64-bit hash. The header leaves concurrent insertion of one
key undefined, so that each key has one inserting thread; removal and lookup are
open to all. Removal by pointer is used by the inserter while its entry stands.
`missed` is a ghost that remembers whether the key looked for was absent at some
instant of the call. `AllowReinsert` says whether a key may be inserted while it
is in the table.

### ThreadPool, MCThreadPool, ThreadPoolProofs

`WorkerCheck` to `WorkerExit` are the worker loop, `EnqueueBegin` to
`EnqueueRelease` the enqueueing threads, and the rest the controlling thread.
The job queue is a sequence, which is what `AtomicQueue!ImplementsFifo` allows
for a single producer (`SerialEnqueue`). `Release` is the contract of
`ReleaseSemaphore`: it hands tokens to sleepers and does nothing at all if the
count would pass the maximum. A thread that Start finds alive stays as it is, and
the ghost `restarted` remembers it: such a pool may end with fewer workers, and
the two properties about workers being there are stated without it.

### CommandTree, MCCommandTree, CommandTreeProofs

Composes with `ThreadPool` (`INSTANCE ... WITH` the commands as jobs): a worker in
the pool's `routine` runs `CommandTreeThread`, from `NodeBegin` to `NodeEnd`, and
its return is the pool's `WorkerRoutine`. `ConstructTree` is assumed to be called
after a failure only when that left nothing queued, running or signalled
(`NothingLeft`): the program neither checks nor arranges it.

### Renderer, MCRenderer, RendererProofs

`mem` is the memory of all items by the key of their table (`<<kind, name>>`):
their reference count `refs`, what they refer to (`deps`, by role), their index
while active (`act`), vertex buffers and render keys. It keeps what an entry held
after its release, as the pools do, because a stale index there is what
activation may find. `live` are the entries in the tables. `Register` and
`Release` have one action for each of the ways in which the 17 pairs of functions
treat what they refer to; `ActivateRenderPasses` and `DeactivateRenderPasses`
are single steps: the loops over objects and over passes are a recursive function
each (`ActivateObjects`, `ActivateObject`), with one operator for each inner part
(`ActivateInPass`, `WithRenderKey`, `Indexed`, `WithBuffer`). `EnqueueRenderObject` is
two steps, `EnqueueReserve` and `EnqueueCopy`, with `copies` what each client has
reserved in between; other clients and `PrepareDraw` run there, activation does not,
since it writes what the copy reads (`NobodyEnqueues`: the code says and checks
nothing). `PrepareDraw` takes any
sorted order of the keys, since nothing says which of two equal ones comes first, with
the slots that are reserved and not copied anywhere. It selects render keys
by `RenderIndex`: a key has the values of the fields above `IndexBits` bits for
the index, and the code masks its lower 32 bits with `(1u << IndexBits) - 1`, where the
shift is modulo 32 on x86. It records the check at 1888 (`IndexBitsFit`), which
`ChecksHold` excepts only for fields that leave none or more than 31 bits, and
`KeysResolve` asks that the index be read back as it was written for all others.
`SetupRenderKey` is called before anything is drawn.
A client registers an
item after what it refers to and releases it before (`Registers`, `Releases`), as
the tests do; other clients do what they like with the same items, between
activations (`MayChange`). An assertion that fails is put in
`faults`, which `Initialize` empties, and the call goes on, as in a build without
assertions. Five of those of
activation are the clients' to avoid (`Prepared`): that every parameter of a shader
drawn with is set, that the pool of vertex buffers, which gets none back, has room,
that no vertex data is drawn with more declarations at once than it has room for,
that there are no more render keys than `gRenderKeys` has places, and that their
indexes fit the bits the fields leave (635).

Two assumptions say what clients are. `SceneAssumption`: of one name all describe the
same item, because a second registration adds a reference to what the first one
described and its release drops what it finds; no name is both a float and
a texture parameter, or a target and a back buffer; a shader has as many float as
texture parameters of its vertex shader (see below, `ReleaseShader`); and the clients'
items are finitely many. `LimitAssumption`: what can be registered fits the arrays of
active items and the fields of a render key; the code asserts it
when an activation exceeds them (1688, 1714, 1724; 625-628).

Names are kept with their terminator because the code's lookups disagree about
it: `Register*` hashes the size it is given, activation builds the name of a
shader without. With the names the tests use the shader is never found and an
object gets no render key; the scene `Drawn` uses a name for which it is.

### HashTable, MemPool, UnorderedArray, MemBuffer, DataLoader, RefPointer

Sequential, each with its callers' knowledge beside it: `held` are the keys and
values inserted, `taken` the slots given out and what was written there, `indexOf`
what the owners of items believe, `blocks` and `pads` what was allocated, `handle`
the handles. `MemPool` shares the memory of a free slot between link and data;
`HashTable` probes with a limit of `MaxTries`; `MemBuffer` counts the alignment it
adds and the scratch pads' space, and has each pad where the code puts it, which is
over the allocations (see below); `DataLoader` extends it with the table of loads, of which those at the top are
freed when their turn comes. In `RefPointer` counts wrap (`CountMod`); the
move constructors of handles, which copy, are left out because the compiler elides
them in their only use.

### RenderDevice

`dev` is one record: per kind of resource its table (`at`), the ids in use, the
stack of free ids, the Direct3D objects alive, and the resources bound at each
point. Operators take a device and return one, so that `FrameResources` composes
several calls in a step. Assertions are guards, except those that fail for every
correct call, which the module's head names. `TargetsAligned` says whether clients
create a target only when the next free texture and surface have the same id: the
code is right only then.

### FrameResources, FrameResourcesProofs

EXTENDS `RenderDevice` with the resources above it: `ids`, `active` and `dirty` of each,
`cache`, `filter` and, while a frame is drawn, `user`, a ghost that remembers which
resource was activated last at each point. What lies between two calls of
`PrepareDraw` changes resources, and a frame activates them in any order; the
filter starts each frame anew.

### Containers, MCSequentialParts, ContainersProofs

`Containers` instantiates the six sequential containers, with their constants and the
assumptions on them, and states their properties. They share no state: a behaviour is
one of one of them (`part`), and the others' variables stay `None`, so that the
state spaces add up instead of multiplying. `MCSequentialParts` extends it and
`FrameResources` with the bounds, and has two more parts: the device alone (`RD`, with bounds of
its own) and the resources above it. In the others the device is not initialized.

## The runs

| Run | Question | Bounds |
|---|---|---|
| `atomic_queue` | Is the ring a FIFO queue for every interleaving? | 2 consumers, 2 slots, 2 items, counter of 2 values, 3 laps: the counter comes round, a consumer is overtaken by as much as is allowed, two consumers race for one item |
| `atomic_mem_pool` | Is a slot ever handed out twice or lost? | 2 threads, 2 slots, counter of 3 values that wraps: one thread empties the pool and gives a slot back while the other sleeps before its compare-and-set |
| `atomic_hash_table` | Are lookups, values, counts and removals right while the table changes? | 3 threads, 3 slots, 2 tries, 3 keys of which two share a home and the third's home is their second try, removed by pointer |
| `atomic_hash_table_reinsert` | Does one `Remove` remove a key that was inserted twice? No | the same |
| `thread_pool` | Are jobs and wake-ups conserved under every order of calls? | 2 workers, 2 jobs enqueued again and again, queue of 2; any sequence of Start, Pause, Stop, Join with and without timeout |
| `thread_pool_join` | Is nothing running when `Join` has returned true? No | the same |
| `thread_pool_stop` | Does `Stop` return? No | the same |
| `command_tree` | Are commands run in order, once, and does the call return? | 2 workers; 4 commands: one with two dependencies, one command with two dependents, one that may fail; any number of executions, timeouts and reconstructions |
| `command_tree_producers` | Does the tree respect the queue's single producer? No | the same, without the assumption that it does |
| `renderer` | Are counts, device shaders and keys right, whatever order clients register, release, activate and draw in? | 2 clients, 5 scenes: an object that gets a render key; one that gets a key in each of two passes; two clients with one object each of the same name and a target drawn to twice; two activations with an object of the other client; two shaders that share a vertex shader and parameters. Two vertex buffers, one for each data; two enqueued keys, so that both clients can be in `EnqueueRenderObject`; the default key fields, which leave 40 bits for the index, and fields that leave one, which two render keys need |
| `sequential_parts` | Does any sequence of calls break one of the sequential parts? | hash table: 4 slots, 3 tries, 4 keys with two homes; pool of 4; array of 3 for 4 owners; buffer of 13 bytes at an odd address, alignments 2 and 4; 3 loads in a table of 2; 2 pointers, 6 handles, 2 objects; device: two slots per kind (three where another resource takes one), by sets of kinds that interact; frames: by sets of resources that interact, two payloads, static and dynamic buffers |
| `render_target_back_buffer` | Does the back buffer keep its surface? No | the device part, without `TargetsAligned` |

All runs are exhaustive: no state constraint is used. `MaxLaps` stops the
producer, nothing else is cut short; the counters of the pool and the table are
bounded by what is in them. Deadlock is checked except where the system may
stop: a pool whose `Stop` hangs, a tree after a timeout, a renderer or a container
whose clients call no more, a device whose memory of constant buffers, which is
never given back, is used up. Keys that share a home,
two ids of a kind and two clients of an item are enough for one to be released,
given out again and mistaken for the other; resources of kinds that share neither
points nor tables cannot disturb each other, so that the device and the frames
are run by sets of those that do. Two
workers or consumers are enough for every race of two; the properties of three
(the spurious failure of `Allocate`) are listed as hazards.

The five violations are disagreements of the code with its own words:

* `RemoveRemoves`: `Insert` takes a tombstone without looking for its own key
  further on, so that a key inserted again is in the table twice. `StringTable`
  inserts a string each time it is added.
* `JoinedMeansQuiet`: a worker dequeues a job and then counts itself; between the
  two `Pause` and `Join` return true.
* `StopReturns`: `Release(NumThreads)` is refused while a token is left.
* `OneProducer`: workers and the main thread enqueue together to a queue for one
  producer. `command_tree` therefore assumes that two calls of `Enqueue` never
  overlap, which the code does not ensure: its results hold only as far as that.
* `BackBufferKept`: a render target's surface is stored under its texture's id, and
  the first one replaces the back buffer. `sequential_parts` therefore assumes
  `TargetsAligned`: its results about targets hold only as far as that.

### Met while modelling, without a run

Places where the code, read closely, does not do what it seems meant to, for which
the repository says nothing that a run could refute, or which are modelled as they
are. Renderer (`yengine/renderer/renderer.cpp`):

* Names are registered with the size the caller gives; the tests include the
  terminator, activation looks for the name without, so that no render key is made.
* The assertion at 1843 is inverted. `TypedUnorderedArray::PushBack`
  (`containers/unordered_array.h:75-79`) passes the size of a pointer, so that an entry
  of `gRenderKeys` (1837) gets the first bytes of the key, its counts, and keeps what the slot held
  for the rest; `rkeys` holds the keys as they were built.
* The check at 1888 fails for the default fields, which leave 40 bits (`ChecksHold`
  excepts it by name). Without it the shift at 1890 is by 40, undefined for 32 bits; on
  x86 the mask is 255, and a key whose index is 256 or more, of the 1024 there may be,
  selects another render key. `KeysResolve` asks nothing of the index in that case.
* `PrepareDraw` may run while a client has reserved slots and not yet copied its keys:
  it sorts and executes what lies there, and the copy, which goes where the slots
  were, then overwrites keys the sort has put there. Its fence (1881) does not order that.
* `PrepareDraw` does not reset the number of enqueued keys (1880) and executes those
  of earlier frames at their old indexes (1897).
* `ReleaseShader` swaps the numbers of float and texture parameters (1509-1520); the
  shaders of the run have as many of the one as of the other.
* `gRenderObjArray` never shrinks: 128 insertions in all.
* A view port that is released and registered again during an activation fails
  the check at 755, which is why `MayChange` asks for no activation.
* `ClearVertexBuffer` does not give its slots back to the pool; vertex data
  are copied by value with a pointer to the original's buffer; eight view ports may
  be active and the default field has two bits for them.
* One name registered both as a float and a texture parameter cannot be released.
* `Terminate` does not release the device's shaders; `SetVertexData`,
  `AppendVertexData`, `SetShaderArg` and `ExecuteUploads` are declared and not defined.

Device and resources (`yengine/render_device/render_device_dx9.cpp` unless named):

* Inverted assertions at 891, 1059, 1073, 1151, 1629, 1637 and 1673.
* `GetFrameBufferDimensions` assigns the wrong way (1221-1224); the interleaved fill
  adds its index twice (1103); the index fill swaps its cases and counts in
  bytes (1180-1190); separate alpha blending overwrites the colour states (1390-1400).
* `gActivatedStreams` keeps an id that is released (1690-1697): `Draw` is modelled
  for callers that activated a live one.
* `Terminate` releases four of the tables; the memory of constant buffers is never
  given back; six functions of the interface have no definition.
* A texture argument can never be immutable; an argument's `Initialize` does not release
  buffers of another usage; two fills of one argument within a frame would meet the
  filter, and in the model fills happen between frames.

Containers: a `MemBuffer` scratch pad is placed at the start of the buffer plus the
pads' space after its own has been added (`mem_buffer.cpp:71-77`), so that it lies over
what `Allocate` returned, and runs past the end of the buffer when the pads take more than half of it;
`mem_buffer.h:4-7` says that pads come from the end. `OpenScratchPad` has that
address, and `AllocationsDisjoint` therefore claims nothing of where pads lie. No caller
and no test opens one. `PushBack` on
a full `UnorderedArray` writes at index -1 and copies the size of a pointer; handles of a
`RefPointer` that are moved from keep their pointer; `gMaxDataLoads` stays 0, so
that with assertions the loader accepts nothing (`data_loader.cpp:61`);
`CurrentSize` of a full `AtomicQueue` returns the item size (`atomic_queue.cpp:113`, it has no
caller); `AtomicMemPool::Allocate` may fail with three threads although slots are
free (`atomic_mem_pool.cpp:103`); keys of an `AtomicHashTable` that hash to 0, -1 or -2
collide with its marks (`atomic_hash_table.cpp:97`), and an insertion fails fatally
after `MAX_TRIES` (114); `HashTable::Insert` of a key that is held counts it twice and,
past a removed slot, stores it twice (`hash_table.cpp:94-103`): every caller looks it up first.

### Fairness

A thread inside a call keeps running (weak fairness of its steps), as an operating
system's scheduler grants; nobody is obliged to make a call; a job's routine and
a command return; a timeout is never certain. A lost compare-and-set needs no
fairness of its own: `SomeoneDequeues` and `SomeoneSucceeds` are lock-freedom, not
that every thread gets its turn. `ExecuteReturns` holds without the
help of a timeout.

## The proofs

`AtomicQueueProofs` proves for any number of consumers, items, slots, laps and
any counter, of `Spec` (no fairness needed):

* `TypeCorrect`: `TypeOK` is invariant.
* `InductiveInvariant`: `IInv` is, if `MaxOvertake <= CounterMod`. The safety
  properties are not inductive: that the producer overwrites nothing needs to
  know that its snapshot of the head is at or behind the head and at most a ring
  behind the tail (`ProducerInv`); that a compare-and-set validates a copy needs
  that the consumer's snapshot is at or behind the head, that while it *is* the
  head the queue is not empty and the copy is the slot's (`ConsumerInv`), and that
  every occupied slot holds an item. `IInvStep` has a step for each of the nine
  actions and under it one for each conjunct the action can disturb. It needs the
  width of the counter in one place: two positions less than `CounterMod` laps
  apart with the same word are the same (`ModWindow`, `WordDistinguishes`), so
  that a compare-and-set that succeeds moves the head the consumer has read.
* `RingShapeHolds`, `NoUnreadOverwrittenHolds`, `CasValidatesCopyHolds` and
  `ReportsAreTrueHolds`: from it, under the same assumption.

The assumptions are `QueueAssumption` (a ring has a slot, a counter two values,
`Torn` is no item), which the run evaluates, and `MaxOvertake <= CounterMod`,
which its bounds satisfy with equality.

It also proves `RingImplementsFifo`: under the same assumptions every
behaviour of `Spec` satisfies `ImplementsFifo`. `Contents` is the sequence of the items
in the occupied slots (`ContentsSlots`), so that `EnqueuePublish` appends to it
(`PublishPuts`), a compare-and-set that succeeds takes its first
(`CasTakes`, which needs `CasValidatesCopy`: what the consumer copied is what the slot
holds now), and every other step leaves it alone. `CallInv`, that a consumer in a
call has been given nothing yet, makes the start of a call the abstract one's.

`AtomicHashTableProofs` proves for any threads, keys, hash values, size of the table
and number of tries, from `TableAssumption`:

* `TypeCorrect`, whatever the callers do; and the rest if no key is inserted
  while it is in the table (`~AllowReinsert`): with it the run
  `AtomicHashTableReinsert` shows a key that is in the table twice.
* `InductiveInvariant`: the slot that an insertion has claimed stays a placeholder, and
  the key it inserts stays out of the table, until it publishes it (`ThreadInv`); no
  two insertions have claimed one slot (`ClaimsApart`); no key is in the table
  twice, and a pointer leads to its key (`TableInv`). `LocalSteps` has the
  steps that touch the caller's locals only, `SharedSteps` one for each of the others.
* `ValueWholeHolds`, `EntriesStayHolds` and `RemoveRemovesHolds`, from it.
* `CountMatchesHolds`, with `CountInv`: the sets of entries and of threads that have
  counted too early or not yet are finite, and each step moves the counter as it
  moves their sizes.
* `MissesAreTrueHolds`, with `LookupInv`, which is about the order of the probes: every
  entry is at a place of its key that is led to by places which have been taken
  (`PathInv`), as `Removed` is never `Empty` again (`StaysTaken`); an insertion
  has gone past such places only; and a lookup that has not missed its key has it
  still in front of it (`LookInv`), because only a removal, which the ghost
  sees (`OwnTake`, `OthersMissed`), takes an entry away.

`AtomicMemPoolProofs` proves for any threads, slots and counter, from `PoolAssumption`
and, as for the queue, `MaxOvertake <= CounterMod` (with one lap more the proof fails
where the run does):

* `InductiveInvariant`: every slot below `mUsedIndexes` has one owner or is free
  (`OwnInv`); the free slots are the values of an injective sequence that starts at the
  top and follows the links (`StackInv`); a thread about to compare and set has read
  a top which, while it is still the top, has had the link it read all the time
  (`TopInv`); every thread that saw room may still count `mUsedIndexes` up once
  (`RoomInv`). That `NoSlotLost` and
  `ExclusiveSlots` are not inductive is the ABA hazard: what has to be known is what a
  stale link is worth.
* `TypeCorrect`, `ExclusiveSlotsHolds`, `NoSlotLostHolds`. The last follows the stack with
  the recursive function `chain`. Induction over data is out of reach of the installed
  provers as a rule with an operator parameter; that `chain` is the sequence
  of `StackInv` (`ChainIsStack`) is proved by a least counterexample instead
  (`Smallest`): the finite sets are well-founded by strict inclusion.

`ThreadPoolProofs` proves for any workers, jobs, enqueueing threads and any order of
calls, from `PoolAssumption` alone:

* `InductiveInvariant`: the counts are those of the workers at the places of the loop
  between which they change (`CountInv`); a job is in the queue or with one thread
  (`JobInv`); what the controlling thread has done so far in a call agrees with the
  state (`CtlInv`); sleepers and tokens of a semaphore never exist together
  (`SleepInv`); workers are there unless `restarted` (`AliveInv`); and for a queue that is
  not empty somebody is awake, holds a token or is about to release one
  (`WakeInv`).
* `TypeCorrect`, `JobsConservedHolds`, `NoLostWakeupHolds`, `JoinWaitsForRunningHolds`.

`CommandTreeProofs` proves for any tree, workers, failing commands and number of
executions, with one producer or many (`SerialEnqueue`), from `TreeAssumption`, which
says what `ConstructTree` builds from the dependencies, and that they have no cycle:

* `TreeUsesPool`: every step of the tree is a step of the pool or leaves it alone. The
  pool's inductive invariant is taken from `ThreadPoolProofs` by `INSTANCE`, with the
  commands as jobs, and its lemma on steps is used for each action of the tree.
* `InductiveInvariant`: the dependencies credited to a command are those that have run
  and were counted for it, no matter in which order several workers add them, and a
  command is released only when all are (`DepInv`); whoever finds the count complete releases the command, once (`StartedInv`,
  `RootInv`); what has been started and has not been counted in `mNumNodesFinished`
  is with a worker or in the queue (`FinishInv`), so that one worker at most finds the
  last one finished and wakes the main thread (`TokenInv`); after that
  every count is clean for the next execution (`CleanInv`) and, once joined, nobody
  runs (`JoinedInv`).
* `TypeCorrect`, `DependencyOrderHolds`, `OncePerExecutionHolds`,
  `SuccessMeansAllDoneHolds`.

`ContainersProofs` proves of the sequential containers, one by one, for every value of
their constants under the assumptions `Containers` states, that `ContainersInv` is
inductive (`InductiveInvariant`) and, from it, `TypesKept` and the five properties of
the run `sequential_parts` that are about them:

* `LookupsFindInserted` (`HashTableIsMap`), with `TableInv`: every key held is at a place
  of its probe sequence, none before it is `Empty` (`Found`), and no other word is a
  key. `FirstTryFinds` says what the search of `Insert` and `GetValue` returns.
  A removal writes `Removed`, never `Empty`, and so stops no search. As in the run, a
  key is inserted only while it is not in the table: callers look it up first, the
  code does not check it. A key's hash is neither of the marks, and tries are no
  more than slots (`hash_table.cpp:43`).
* `SlotsAccounted` (`PoolSlotsAccounted`), with `PoolInv`: the free slots are an
  injective sequence that the links follow (`IsList`, `FreeIsList`), apart from
  the taken ones, so that neither a link nor an item is written over.
* `OwnersKeepTrack` (`ArrayIndexesTrack`), with `ArrayInv`: no owner has two items
  (`OneItemEach`), or `Remove` would lose one by overwriting the other.
* `NothingOverlaps` (`AllocationsDisjoint`), with `BufInv` and `LoaderInv`: the sums of
  what was taken (`Sums`) stand behind the size in use, and each block lies between
  two of them; the space of the scratch pads is the sum of the open ones'
  (`SizesOf`). It is about allocations and space: pads lie over allocations (see above),
  and nothing is claimed of that. For the loader the sums are of the loads, released ones below the top
  included, and every block left belongs to a load that is used (`OfLoad`): what
  `ReleaseLoadedData` frees at the top holds no block. `TotalIs`, that the recursive
  function `TotalOf` computes the last sum, is a least counterexample again.
  Alignments are assumed positive, not powers of 2, and the loader's tables to fit its
  buffer.
* `CountsAreOfHandles` (`RefCountsMatch`), with `RefInv`: acquisition, copy, assignment, move
  and release change a count as they change the set of open handles of that kind.
  The assumption that there are fewer handles than `CountMod`, the values of a
  count, is needed and nothing in the code checks it.

`RendererProofs` proves for any clients, registrations, fields and limits that satisfy
`SceneAssumption` and `LimitAssumption`, and any order of calls:

* `InductiveInvariant`. The invariant `IInv` is about the registrations of the scene in use,
  and has two halves, which break for different reasons.
  `RegistryInv` is about the tables. That a count is right is not inductive: a release
  drops references to what the entry *holds*, and registration adds references to what
  the names *denote* when it is called. `SceneInv` and `OwnInv` say that what a
  client holds it holds with all that this uses; `LiveInv` that an entry of
  the tables is held by a client, or is a shader of the device, and that what it uses is
  there too;
  `MemInv` that an entry refers to what its registrations denote (`Uses`), so that no matter whose
  registration came first, the last release drops what the first registration took; `ObjsInv`
  that what `gRenderObjArray` points at, released or not, is in memory; and
  `CountInv` is `CountsMatch` over these. `OwnAdded` and `OwnRemoved`
  are the two directions: each of the registrations and releases of the 17 kinds is
  an instance of one of them.
  `SessionInv` is about the activation: without one nothing has an index and no object a
  key (`IdleInv`); with one, the active items are those with an index, which is their
  place in the array, and every key selects a render key of its object whose items are
  registered. It follows from `ActState`, an invariant of the loops of
  `ActivateRenderPasses`: `IndexedKeeps`, `WithBufferKeeps` and `WithRenderKeyKeeps` show
  that each inner part keeps it, `ActivateInPassKeeps`, `ActivateObjectKeeps` and
  `ActivateObjectsKeeps` that both loops do. The loops are recursive functions; that they
  keep it is by a first pass, and a first object, after which it would not hold.
  That no array overflows and no index its field's bits is counted: active items
  are distinct, registered, and no more than clients may register. That a key's index is
  below two to the bits left is what `Prepared` asks, and then reading it back through
  the mask changes nothing (`IndexRead`, for `IndexBits` of 1 to 31); `Misfit` is the
  fault that other fields may leave in `faults`. `CopiesInv` is about
  `EnqueueRenderObject`: who is in it is so in an activation, with an
  object of the tables, and the slots reserved lie within those counted, apart from the others'
  (`ReservedRange`). No activation begins or ends meanwhile, so that the keys copied
  are of the current one.
* `TypeCorrect`, `CountsMatchHolds`, `ChecksHoldHolds` and `KeysResolveHolds`, from it.

TLC finds no state of the run `renderer` in which `IInv` does not hold. The proof
showed what the first model took for granted, which the assumptions now say: that a full
vertex data may have no idle buffer to give up (`VertexDataFull`), and that swapped counts
in `ReleaseShader` lose references unless both numbers are equal.

The containers' steps never read the constants `Variants`, `Sizes` and the like but as
sets of numbers, so that the theorems are of callers that ask for anything.

`FrameResourcesProofs` proves of the device (`Spec` of `RenderDevice`) and of the resources
above it (`FrameSpec`), for any sizes of the tables, resources, payloads and points under
`DeviceAssumption` and `FrameAssumption`, and with `TargetsAligned` (without it
`BackBufferKept` is violated):

* `DeviceInvariant`, of which `DeviceInv` says more than `DeviceSlots`, because that is not
  inductive. `TableInv`: the ids in use and the free stack, which has no id twice, are
  the ids given so far (`Ids`), so that what `NewID` gives, from the stack or fresh, is
  nobody's; the slots with an object are those in use, except after `Terminate`, which
  releases the objects of some tables and leaves their ids marked as used (`Owned`). `TargetInv`: a target's surface
  and texture have *one* id, and the system's textures are targets; only so does
  `ReleaseRenderTarget`, which releases both by one id, release what belongs together.
  `DeclInv`: a bound declaration is in use, or else the next activation of another would
  find the divisors of a declaration that is gone. There is one lemma for what each
  change of a table does (`PutKeeps`, `ReleaseKeeps`, `UpdateKeeps`, `BindKeeps`), and
  one for each call from these.
* `DeviceTypeCorrect`, `DeviceSlotsHold`, from it.
* `FrameInvariant`. `LatestDataBound` relates the last activation to what is bound now,
  across calls the filter drops. `FrameInv` has the device's invariant and: `ResInv`,
  that ids of resources are in use, are no others' (`Apart`; blend states alone
  are shared) and that the active one has the resource's data; `CacheInv`, that the ids in the caches
  are in use, with the state under whose hash they are filed; `BoundInv`, that what the filter
  remembers is what is bound and is in use; and `UserInv`, that it remembers
  the active ids of the resources activated last, which have not become dirty since.
  `Keeps` and `Spares` say which slots a change of one resource may touch: those of
  its own ids (`Own`), which are apart from the others', so that whatever a resource
  does the others keep what they have (`ResStep`). `Readied` says of every kind that
  its activation makes the resource usable without touching a slot that the filter remembers (`BoundKept`):
  a dirty view port goes to its other id and refills it, a dirty target releases its
  other id and takes a new one;
  `GoesThrough` that a call dropped by the filter would have changed nothing.
* `FrameTypeCorrect`, `FrameSlotsHold` (the resources keep to the device's rules) and
  `LatestDataBoundHolds`, from it.

The assumptions say that the tables have a place for the back buffer, that points belong to
one kind, that resources are activated at points of their kind, and declarations and vertex buffers at all of
them, and that no two textures share a sampler's point. The run `sequential_parts`
evaluates both. TLC finds none of its states in which `DeviceInv` or `FrameInv` does not hold.
The `TypeOK` of that run is what `TypesKept`, `DeviceTypeCorrect` and `FrameTypeCorrect` state
of its parts.

Only model-checked: that the violations can be reached, of a device without
`TargetsAligned` too (`BackBufferKept`); and liveness and what needs `ENABLED`, which
are out of the prover's reach.

## Not modelled

* `Framework`: a loop around `ExecuteCommands`; `SetCommandTree`, through which other
  threads would reach it, has no definition.
* The Direct3D 12 device, which is a stub, and the mock device, which serves the
  tests; of the DirectX 9 device the translation of formats and enumerations.
* Reading files in the data loader; the execution of draws, which is empty.
* Platform services and utilities: paths, and wrappers of single Windows calls.
* Asset compilers (`ytools`) and build scripts: programs that convert files once and
  keep no state between runs.

## The plan

Done: the concurrent core (`AtomicQueue`, `AtomicMemPool`, `AtomicHashTable`,
`ThreadPool`, `CommandTree`), the sequential containers, the renderer, its resources
and the device. The safety properties that hold are proved of all of
them, for every value of the constants that meets the assumptions. What remains is liveness, which TLC checks.

## Running it

    tlc -config AtomicQueue.cfg MCAtomicQueue      # and likewise the other runs
    tlapm AtomicQueueProofs.tla
    tlapm AtomicHashTableProofs.tla
    tlapm AtomicMemPoolProofs.tla
    tlapm ThreadPoolProofs.tla
    tlapm CommandTreeProofs.tla
    tlapm ContainersProofs.tla
    tlapm RendererProofs.tla
    tlapm FrameResourcesProofs.tla

Each `.cfg` names the module it belongs to; `PROJECT.json` pairs them.
