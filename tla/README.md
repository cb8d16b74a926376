# Verification of the Azul Game Engine

TLA+ models of the engine in `src/Libs/AzulEngine` and `src/Libs/Manager`, of the
game in `src/Engine` and of the part of `src/Converter` that makes its skeletons,
checked with TLC on small instances, with theorems about the entity registry, the
node manager, the scene lifecycle, placement, drawing, playback, the engine loop and
skeletons proved in TLAPS for instances of every size.

- [The system](#the-system)
- [Inventory](#inventory)
- [What is modelled, and how it corresponds to the code](#what-is-modelled)
- [The runs](#the-runs)
- [What is proved](#what-is-proved)
- [What is left out](#what-is-left-out)
- [Plan](#plan)

## The system

The engine draws animated scenes on Direct3D 11. `Engine::Run` is one thread: it
asks Windows for a message and, when there is none, runs a frame: `Game::Update`
(look at the digit keys, switch scenes, update the current scene),
`Game::Render`, a busy wait up to the next sixtieth of a second, and the flip.
A scene owns everything there is: its `Load` creates the singletons (the
managers of meshes, textures, shaders, cameras, images, glyphs, skeletons,
clips, animations; the systems; on first use the World) and fills them, its
`Unload` destroys them in another order. What moves and what is drawn are
components of entities in the World; the systems sweep the component pools once
a frame and follow the plain pointers the components hold into the managers. What
they animate was prepared by the Converter, which turns glTF files into meshes,
skeletons and clips long before the engine runs; the two meet only in the files.

There is no second thread and nothing is persisted. What is hard here is not
interleaving of threads but:

- **recycling**: entity slots, dense array cells and list nodes are reused, and
  handles, indices and pointers to their previous use may still be around;
- **order and completeness of setup and teardown** over a dozen singletons that
  point at each other, for every sequence of scenes the user can ask for;
- **the user**: a key may go down between any two steps, also in the middle of
  loading, and Windows keeps the press until the program asks for it;
- **two lifetimes in one feature**: function statics outlive the objects they
  drive (the blend of scene 2);
- **time**: one clock, read by two timers, paces the frames and moves what is in
  them, and a frame may take any time at all;
- **agreement by index**: four programs (two tools, a system, two shaders) number
  the joints of a skeleton each for itself and meet in flat arrays.

## Inventory

| Component | State | Operations | Interacts with | Hard behaviour | What makes it correct |
|---|---|---|---|---|---|
| ECS registry: `World`, `ComponentPool`, `Entity` (`ECS/`) | generations and free list of slots; per type a sparse and two dense arrays with capacities | `Create`, `Destroy`, `IsAlive`, `Add`, `TryGet`, `Has`, `Pool` | systems read the dense arrays, factories create | recycled slots, stale handles, swap with the last, growth | sparse and dense arrays inverse; no component of a dead entity; a stale handle finds nothing |
| `WorldMan` | the one World, made on first use | `GetWorld`, `Destroy` | everybody | use after `Destroy` makes a new, empty World | a frame finds the World of its own scene |
| Manager library: `ManBase`, `DLinkMan`, `DLink`, `DLinkIterator` | two intrusive lists, counters, growth step, compare strategy | `baseAddToFront`, `baseAddToEnd`, `baseFind`, `baseRemove`, `baseSetReserve` | base class of all managers | relinking at head, tail and only node; refill when dry; recycled nodes | lists linked both ways, counters exact, a node never handed out twice |
| Concrete managers: `MeshNodeMan`, `TexNodeMan`, `ShaderObjectNodeMan`, `CameraNodeMan`, `ImageMan`, `GlyphMan`, `SkelMan`, `ClipMan`, `AnimMan`, `JointTableMan`, `HierarchyTableMan` | an instance or none, its nodes, current cameras | `Create`, `Destroy`, `Add`, `Find`, `SetCurrent` | found by name from scenes, factories, systems | `Find` in an empty manager dereferences null; `Create` twice asserts | no call asserts, whichever scenes came before |
| Scene lifecycle: `GameMan`, `Game`, `GameSceneContext`, `scene1`..`scene5` | state, active scene, loaded flag; per scene nothing but scene 2's statics | `LoadContent`, `SetState`, `Update`, `Render`, `UnloadContent` | creates and destroys all of the above | several keys in one frame, a key during loading, quitting | frames run the loaded scene on live objects; nothing outlives a scene; no press is lost |
| Blend of scene 2: `AnimMan::BlendAnimation`, `ComputeBlend_TwoAnim`, the caption | five function statics; copies in `AnimMan`, the blend and the mixer; caption state | SPACE, `Update`, `Load`, `Unload` | `BlendSystem`, `Text2D` | a ramp turned around half way; the scene left and entered in between | no jump; caption names the drawn pose; a ramp arrives |
| Factories: `Text2D`, `Renderable3D`, `AnimMan::Add` | none | create entities with their components | World, managers | half-built entities when a find fails | components point only into live managers |
| Systems: `SystemMan`, `LocalToWorldSystem`, `RotateSystem`, `AnimationSystem`, `BlendSystem`, `SkinningSystem` | list of systems | `Run`: one sweep per pool in a fixed order | World, animation | order (placement before spin, sampling before skinning) | a drawn matrix and pose are those of this frame |
| Drawing: `RenderSystem`, `SpriteRenderSystem` | order array, last shader; the pipeline state of the device | gather, insertion sort, draw | cameras, shaders, textures | pipeline state left behind by the previous draw; hoisted binds | every draw sees its own shader, texture, blend and rasterizer state |
| Playback: `TimerController`, `Clip`, `Skeleton`, `Anim`, `Mixer*`, `WorldCompute*` | clip time, key frame list | advance, wrap, find the two key frames, dispatch | systems, GPU | first and last key, one-key clips, frames longer than a clip | the two keys enclose the time |
| Engine loop: `Engine::Run`, `WndProc`, frame sync | two timers, the frame's target time | message or frame, busy wait, flip | Windows, Game, the display | a frame longer than its slot, a wait that oversleeps | waiting costs no vertical blank; a frame is told its length |
| Time: `AnimTime`, `AnimTimer` | a tick count | arithmetic, `Tic`/`Toc` | everything timed | a timer restarted by another reader | in the engine loop: no time is negative, no tick counted twice |
| `Profiler` | sums and counts over 60 frames | add, count, end frame | `SystemMan` | a switch in mid-window | averages over the frames counted |
| `Camera` math, `BoundingSphere`, `Libs/Math` | matrices and vectors | numeric | - | floating point | numeric tests of the library |
| Loading: `Libs/File`, `ProtoBuf`, `*Proto` classes | buffers | read, parse | managers | file and parse errors end in assertions | - |
| Direct3D wrappers: `Buffer*`, `State*`, `Shader*`, `Mesh*`, `TextureObject`, `StateDirectXMan` | one COM object each | create, bind, release | device | reference counts inside Direct3D | released before the device |
| `Libs/PCSTree` | parent, child, sibling and thread links | insert, remove, iterate | not used by the engine any more (README.md: "The previous object-oriented model ... has been replaced") | threads kept in step with the links | both iterators visit the tree |
| `Converter`: `Skeleton`, `ConvertJoint`, `ConvertSkin`, and the shaders that use what they write | parents, depths, the hierarchy table | climb to the root, pad, pick the joints; concatenate, skin | the engine, by files only | nodes in any order, padding, three rules to choose a skin | each matrix drawn is that of the joint it is used for |
| `Libs/PugiXml`, `Shared`, test frameworks | - | - | vendored code | - | - |

## What is modelled

### The ECS registry: `World`, over `EntityStore`

`World.tla` has one variable per member: the slot arrays (`poGeneration`,
`mSlotCap`, `mSlotCount`, `poFreeList`, `mFreeCap`), the set of pools that exist,
and per component type the sparse and dense arrays with their capacities. An
array is a function over exactly the allocated indices, so that TLC reports an
access out of bounds as an error. The actions are the operations:
`CreateRecycled` and `CreateFresh` (the two branches of `World::Create`),
`Destroy` (every pool drops the entity, swapping its last component into the
hole; the generation is bumped; the slot is pushed) and `DestroyStale` (the early
return), `Add` (growth of both arrays, then the append), `Write` and `Miss` (the
two outcomes of `TryGet`; `Miss` also of `Has`). Callers use any handle that was
ever issued, alive or not.

`Holds` and `Has` differ on purpose, as in the code: `ComponentPool::Remove` does
not compare the generation of the handle with that of the owner,
`ComponentPool::Has` and `TryGet` do. Only `World::Destroy` calls `Remove`, after
`IsAlive`, and `AddNeverAsserts` and `OwnersAlive` say that this is enough.

`EntityStore.tla` is what the registry promises: a set of live handles, a set of
dead ones, and per type a partial function from live handles to values. Handles
are issued once and die once; a component changes only when its owner writes it.
`World!ImplementsStore` is the refinement.

### The manager library: `ManBase` over `DLinkMan`, and `NodePool`

`DLinkMan.tla` is pointer surgery: a memory is a record of the two heads and the
`pNext` and `pPrev` of every node, and each list operation is a function from
memory to memory, branch by branch as in `DLinkMan.cpp`. `ManBase.tla` is the
state machine over it: `AddFront`, `AddEnd`, `BaseRemove`, `SetReserve`, with the
counters, the refill of a dry spare list by `mDeltaGrow`, and the payload reduced
to a name or `Washed`. `Filled` writes the loop of `proFillReservedPool` in closed
form; `MCManBase` has TLC compare it with the loop. `BaseFind` is the search as
written, with its outcome on a miss. `NodePool.tla` is the promise: a sequence of
nodes in use with names; a node joins at either end only if it was not in use.

### The scene lifecycle: `GameSceneContext` over `Scenes`

`Scenes.tla` lists what each scene's `Load` and `Unload` call, in the order of
the code, and what a call needs, creates, and keeps pointers to (`Text2D::Add`
keeps a mesh, a shader and the texture of an image in the World;
`AnimMan::Add` builds an animation that keeps its clip and skeleton, and so on).
`GameSceneContext.tla` runs them: `Start` is `wWinMain` up to `LoadContent`,
`Perform` is one call, `SetState` with `Enter` and `Loaded` is
`GameSceneContext::SetState` around the calls, `KeyUp`/`KeyDown`/`KeysRead` are the
five `GetAsyncKeyState` tests of `Game::Update`, `Update` and `Render` the rest of
a frame, `Quit` and `Close` the way out through `UnloadContent` and the
destructors. `Press` is the user: it may happen between any two steps and sets a
latch that reading the key clears.

A manager is reduced to none, empty or filled, which is all its callers can
trip over; a pointer is a pair <<holder, target>> that moves from `keeps` to
`dangling` when the target is destroyed. `ManBase::~ManBase` deletes the compare
strategy all managers share as a static; `posDefaultCompareStrategy` follows it.

### The engine loop and the blend: `FrameSync`, `AnimBlend`, `BlendLoop`

`FrameSync.tla` is `Engine::Run` with the part of `Game::Update` that measures time.
`Tic`, `Dispatch` and `Begin` are the top of the loop, a message or a frame; `TestKey`
the five key tests, each of which may load a scene; `Work` the update and the
drawing; `Sync` computes the target (`TargetTime`, the snap to the next sixtieth of a
second less 15000 ticks); `Spin` is a round of the busy wait that the clock notices,
`Present` the flip. All timers read one clock (`AnimTimer::privGetSystemTime`), so a
timer is the time since its `Tic`: `EngineLoopTime` and `interval` run on together and
are reset apart. How long a step takes is a choice from sets that are constants. The
display is not code of the repository: it is taken to run at 60 Hz, `Present` to
return at its next blank (`blank` is how long the last one was ago at `Tic`).

`AnimBlend.tla` has the operations of scene 2: the statics of `BlendAnimation`, the
three copies of the blend on its way to the GPU, and the caption with its own change
detector. Floats are points of a grid; the thresholds 0.01 and 0.99 of the caption
separate the end points from all others. `sElapsedSec`, which counts for ever in the
code, stops one tick past the ramp. A frame may be as long as it likes.

`BlendLoop.tla` composes them: `SwitchScene` loads and unloads scene 2 inside a key
test, `UpdateScene` gives `AnimBlend`'s `Update` the `tDelta` that `Begin` measured,
before the switch, and `KeyDown` is SPACE between any two steps. What a scene takes to
load is counted in the next frame's `tDelta`, as in the code.

`NoBlankLost` is what the cushion is for, and it says how far it reaches: a frame that
begins within the cushion after a blank is flipped before the first blank after its
drawing ended, so the wait by itself costs none. A message handled before the frame
takes from the cushion, and one that takes longer may cost a blank. Such a late frame
loses one at most, as long as a round of the wait is no longer than the cushion, and the
loss does not add up: `Present` ends at a blank. TLC reaches both cases, a wait that costs
a blank and one that costs none. `FramesApart` is the other side: no frame but the first is
told a length under a sixtieth of a second less the cushion and the time of `PeekMessage`.

### Playback: `Playback`, over `Player`

From `AnimMan::Add` to the pose a mesh is drawn with. `AddClip` and `AddBlend` are the
overloads of `Add`: what they append to the three component pools, and the timers,
mixers and buffers they make. `BeginFrame` is the scene's `Update` up to
`SystemMan::Run`; `SampleClip`, `SampleBlend` and `Skin` are one round each of the loops
in `AnimationSystem`, `BlendSystem` and `SkinningSystem`, `EndSweep` goes on to the next
system in the order of `SystemMan::Create`, `DrawSkin` is a skinned draw call, `Present`
the flip. A clip is its number of key frames; `KeyTime` spaces them by a 24th of a
second, as `Clip::Set` does with the numbers that the Converter gives them.

The compute shaders know slots, not animations: `gpu.slot` says what is bound where,
by whomever, and `gpu.data` what each animation's buffers hold. `Mixed` and `World`
bind exactly what the code binds before each `Dispatch`; everything else stays as an
earlier dispatch, perhaps of another animation, left it. A pose is a key frame or
`<<from, to, num, den>>`, a point between two poses, so that poses are equal only if the
shaders would compute the same.

`Player.tla` is the promise, with no sweeps, mixers, slots or buffers: clocks advance
together once between two pictures, and a picture shows each mesh in the pose its
clips have at the time of its clocks. `ImplementsPlayer` maps a timer to its clock,
or to the value it will get in this frame if the sweep has not reached it yet
(`ClockBar`, `Pending`).

### Drawing: `RenderPass`

One frame of `RenderSystem::Draw` and `SpriteRenderSystem::Draw`. The pipeline of
Direct3D is a record `dev`: the shader bound, for each constant slot the shader
whose buffer is in it, texture, mesh, bone matrices, and the two modes that draws
switch (alpha blending, wire rasterizer). `buffers` holds what was transferred to
each shader's own buffers last. `SlotsOf` are the `ActivateCBV` methods,
`Transferred` the `Transfer` calls of each branch; slots are shared between
shaders, so binding one takes slots from another. `BeginFrame` finds any pools;
`Gather`, `Insert`, `DrawObject`, `DrawSprite` are one round each of the loops,
`Position` is where the inner loop of the sort stops. A draw executes `Picture`, a
function of what is bound; `Required` is the picture the object should make, with
no reference to the pipeline. Nothing left by an earlier frame may be relied on:
`Present` fills the pipeline with `Earlier`, except for the two modes, which
`SetDefaultTargetMode` sets back.

Data are identities: an object's matrix, colour and texture are all its id, and a
slot that gets a camera gets one of two. `RenderComponent`s whose shader does not
fit their kind do not occur: the scenes and `AnimMan::Add` give every kind its
shader (`ShaderOf`).

### Where objects stand: `PlaceSweep`, over `World`

`LocalToWorldSystem` and `RotateSystem` on the registry itself: `PlaceSweep.tla` extends
`World.tla`, so its sweeps go over the same dense arrays that recycling and swapping
rearrange. `CreateEntity`, `DestroyEntity`, `AddComponent` and `Move` are scene code
between frames; whoever adds a component writes it at once (`FillTransform`,
`FillRotate`), into a cell that may still hold its last owner's data: `AnimMan` leaves
the world matrix as it finds it. `LocalToWorld` and `RotateSweep` are the sweeps, in the
order of `SystemMan::Create`. A world matrix is known by what it was composed of, a
placement and an angle; angles count steps of the one speed the cubes have.

`EveryPlaceIsOwn`: when the systems are through, every transform's matrix is made of
its own placement and, if its owner rotates, its own present angle. It is false if
the systems run in the other order, or if removal leaves one sparse entry behind.

### The rig: `Rig`

The way of a skeleton from a glTF file to the GPU. `Visit`, `ClimbDepth`, `DepthKnown`,
`ClimbRow`, `RowKnown` and `Pick` are the loops of `SKEL::CreateHierarchy`, a round each:
parents, depths, the path of every node turned around and padded with -1, and the
rows of the joints copied one behind the other as unsigned numbers. The engine hands
the array on untouched. `Dispatch` starts a thread for every joint of the compute
shader `WorldA`; threads run in any order, `Concatenate` is a round and `WriteBone` the
end of one. `Draw` is the vertex shader, which pairs these matrices with the inverse
bind matrices that `ConvertSkin` wrote from the mesh's own skin (`meshSkinPairs`). The
three tools choose a skin each by its own rule (`skinIndex`, `jointSkinIndex`,
`meshSkinPairs`).

A product of matrices is the sequence of the nodes multiplied. `SkinFollowsSkeleton`
says that the matrix for the k-th joint of a mesh's skin is the product along the
way from that joint to the root; it holds for files whose skinned meshes list the
same joints (`OneRig`), as all files in `Assets` do. `IsFile` is what the glTF standard
says of any file; files that break it (a node that is its own ancestor) are not
considered.

### The tree library: `PCSTree`, over `OrderedTree`

The threaded tree of `Libs/PCSTree`, which the engine has left behind but which is
still built and tested. `mem` holds the six links of every node, `InsertRoot`,
`InsertOnlyChild` and `InsertFirstChild` are the three cases of `Insert`, `RemoveLast`
and `RemoveInner` the leaf cases of `Remove`. `Removed` is its recursion: a node with a
child has the child removed and starts again, so the nodes below it go leaf by leaf
(`FirstLeaf`), and it goes last. What a loop or recursion over the links gets to is a
`Closure`, the least set that the links do not lead out of: the nodes below a node
(`Reached`), above it (`Up`, whose size is the level) and its younger siblings (`Younger`).
`GetInfo` writes, because it counts the levels again. `walk` is an iterator
with its caller's loop: `First`, a `Step` per round, `Leave` at any time; nobody
changes the tree during a walk. A node is made, hung in, removed with all below it,
and deleted (`life`); a removed node is not hung in again.

Memory that the code reads without having written it is a choice: `FreshThread` for
the threads of a new node, `FreshDone` for the flag of a forward iterator, with
`Wild` for a pointer to nowhere. The constructor of the forward iterator does not set
`bDone` (`PCSTreeForwardIterator.cpp:9`), so a loop may end before its first node.
`pcs_tree` takes the constructors that set the
threads, and either flag; it shows the links, the threads, the order of both walks
and, with `OrderedTree` (the parent of each node, which sibling is before which, and
counts; no links), that the counts are right after every call although only two branches
of the code count levels. The mapping reads parents and siblings off the links of the
nodes that are reached from the root (`ParentBar`, `BeforeBar`); a step of the code that
lost a node would change them where `OrderedTree` does not. The preorder that a walk is
held to is defined by the family links alone: after a node comes its first child or else,
of the nearest node upward that has a next sibling, that sibling (`Following`). `WalksInOrder` says what a reverse walk really does: the root's reverse thread is the
last node, so the threads are a ring, and a loop that waits for `IsDone` goes round
for ever once the root has had a child (`PCSTreeReverseIterator.cpp:31, 63`).

## The runs

| Run | Question | Instance | Why it is enough |
|---|---|---|---|
| `world_slots` | do the arrays stay consistent and refine the store? | 1 component type, 3 slots, first capacity 1, generations up to 2 | arrays grow from 0 to 1, 2 and 4; a hole in the middle, at the end, and the only cell; every slot recycled; the free list three deep |
| `world_pools` | does destroying an entity clean every pool, and do the sweeps find their own cells? | transforms and rotations, 2 slots, generations up to 2, 2 placements, 2 steps of a turn | an entity in both pools, one, or none, with an earlier owner of the slot in the other; the two pools in different order; a recycled cell with another's matrix in it |
| `world_wrap` | what if a generation wraps? | generations modulo 2 | violation: see below |
| `man_lists` | do lists, counters and payloads stay in step? | 4 nodes, 2 names, reserve and growth up to 2 | first, middle, last and only node; refills by one and two; a reserve raised while nodes are spare |
| `man_find_miss` | what does a failed search return? | 2 nodes | violation: see below |
| `scenes` | does every sequence of scenes work? | all 5 scenes, all 5 keys, any moment | complete: the state space is finite as it stands, nothing is bounded |
| `render_pass` | does every draw see its own state, in the right order? | up to 3 objects out of 9 (all kinds, alpha or not, two layers, switched off), 2 sprites of no or two quads | every ordered pair of kinds drawn after each other, with a third before or between; the sort moves past two; texts without and with characters |
| `blend` | is the blend smooth and the caption right in a loop that keeps in step with the display? | 5 ticks from blank to blank, 2 of them cushion; frames of 0, 3 or 6 ticks of work, messages of 1, loading of 9; a ramp of 9 ticks over 6 grid points | frames shorter and longer than their slot, and ones that end inside the cushion; every phase of the display; the ramp turned around on and between grid lines, scene 2 left at every point of it, a frame longer than the ramp |
| `playback` | is every mesh drawn in the pose of this frame? | 2 animations, up to 2 meshes each; clips of 1 and 3 key frames, 2 ticks apart; frames of 1, 2, 3 or 5 ticks; 3 blend factors | a blend with or without a single clip before or after it in every slot, two blends, two meshes on one animation; times at, between and past key frames; a frame longer than the clip |
| `pcs_tree` | do links, threads and counts survive every insertion and removal? | 4 nodes | all trees of up to four nodes, every subtree removed: a first, middle, last and only child, with and without children; walks in both directions after any such history |
| `pcs_wild_thread` | what does uninitialized memory do to a walk? | 2 nodes | violation: see below |
| `rig` | does every joint get its own matrix? | all forests of 3 nodes in any numbering, all lists of joints, 4 layouts of 2 skins on 2 meshes; unsigneds of 8 bits | a child numbered before its parent, joints that skip their parents, rows of every length with and without padding, several roots; first and last skin of the file; all orders of 3 threads |

Three runs show disagreements between the code and what it says of itself:

- `man_find_miss`: `ManBase::baseFind` (`ManBase.cpp:136-156`) returns the last node
  it compared when nothing matches, not null. `MeshNodeMan::Find` has a branch for
  null that only an empty manager reaches, `Text2D::Add` asserts on it. Scene 1 adds
  images on a texture it never loads and gets another texture for it.
- `world_wrap`: the generation is an `unsigned` that is incremented without a check,
  so after 2^32 recyclings of a slot its first handle is alive again, where
  `README.md:50` says a stale handle is detectable. `StaleStaysDead` proves that
  nothing short of a wrap does this.
- `pcs_wild_thread`: `PCSNode::PCSNode(const char*)` (`PCSNode.cpp:48`) leaves the two
  threads uninitialized, and `Insert` writes the forward thread of a first child only
  if something follows its parent. The last node's thread then leads anywhere, where
  "maintain forward/reverse chain" (`PCSTree.cpp:72`) promises a chain.

Every property of a passing run comes with a mutant: a definition of the model
changed as a plausible bug would change the code (a dropped generation check, the
two writes of a swap in the other order, an `Unload` that forgets the World, a key
read that forgets all keys). The mutants stand before the definitions they vary,
marked `Mutant`.

One type invariant per module is checked, where another invariant does not imply it:
`LinksAgree` holds that of `PCSTree`, `TypesOK` those of both halves of `BlendLoop`, and
`GameSceneContext` has none: its states are finite without any bound, TLC sees all of them.

**Deadlock** is checked everywhere but in `scenes`: the program may end.

**Fairness.** `scenes` assumes that the thread goes on (`WF_vars(Program)`), where
`Idle`, a step of the program, is taken when `PeekMessage` finds nothing: the
message queue is empty again and again. A queue that is never empty starves
`Update` in the code as well. `blend` assumes the same in two parts: the thread goes on
(`WF_vars(Program)`), and among its rounds there are always more in which `PeekMessage`
finds nothing (`SF_vars` of `Begin`; strong, because messages come in between). That a
frame advances the blend is not assumed, it follows from the busy wait. `rig` assumes
`WF_vars(Next)`: the tool runs to its end, the device runs a dispatch to its end, and frames
go on. `playback` assumes `WF_vars(Next)`: `Engine::Run` runs frames for ever, and
loading a scene ends. Nobody is assumed to press a key or to quit.

## What is proved

`WorldProofs.tla` proves for any number of component types, slots, values and any
first capacity, about `Spec` of `World.tla`:

| Theorem | Property |
|---|---|
| `TypeCorrect` | `TypeOK`: every array is as long as its capacity says |
| `PoolsStayInverse` | `SparseDenseInverse` |
| `OwnersStayAlive` | `OwnersAlive`: no system meets a component of a dead entity |
| `FreeListStaysDistinct` | `FreeListDistinct`: no slot is handed to two callers |
| `AddAssertionHolds` | `AddNeverAsserts`: the assertion in `ComponentPool::Add` |
| `StaleStaysDead` | `DestroyedStaysDead`, while generations do not wrap |
| `ArraysAreTheStore` | `ImplementsStore`: the refinement of `EntityStore`, while generations do not wrap |

The argument. None of the properties is inductive by itself. The sparse array of a
pool is right after a swap only if the owner of the last component has a sparse
entry that points to it (inverse); `Destroy` clears a slot in every pool only if
whatever entry it finds belongs to the entity destroyed, which is so because all
owners are alive and a slot has one live handle; and a recycled slot has no
components left only if slots on the free list are distinct and their current
handle has not been issued. The invariant is therefore the conjunction
`TypeOK /\ SparseDenseInverse /\ OwnersAlive /\ FreeListDistinct`; one lemma per
action shows it is preserved, and the theorems follow. The lemmas on `Grown` (a
grown array is long enough and no shorter than before) and on removal from one
pool are stated once and cited.

The refinement needs no more than that invariant. Each of the two `Create` moves one
handle from not yet issued to live, `Destroy` one from live to dead, and nothing else
touches a handle (`StoreRecycled`, `StoreFresh`, `StoreDestroy`). The components are
followed cell by cell: growing moves none (`StoreAdd`), a write reaches one
(`StoreWrite`), and after a swap every other owner reads the value it had through its
new sparse entry, also when the owner removed is the last one itself (`DropOne`). That
`Destroy` drops the component from every pool that holds one uses `OwnersAlive`: a pool
with components is among those `World` visits (`DropsAll`).

Assumed are only the named assumptions on the constants in `World.tla`, which TLC
evaluates on every run of that module, and, for `StaleStaysDead` and
`ArraysAreTheStore`, that generations stay below the modulus; `world_wrap` shows what
happens when they do not.

The same module proves about `PlaceSpec` of `PlaceSweep.tla`, for any number of entities,
placements and steps of a turn:

| Theorem | Property |
|---|---|
| `PlacesAreOwn` | `EveryPlaceIsOwn` |
| `SweepsKeepRegistry` | `OwnersAlive` and `AddNeverAsserts`, now with the sweeps among the steps |

It stands on the invariant above: the sweeps write cells in place and keep it
(`SweepKeepsWorld`), and because owners are alive and the arrays inverse, a rotating
entity's two cells find each other and no third one (`TurnedByOwner`). Added are what
cells hold (`CellsOf`: a cell in use holds a component of its type, unless it was added
a moment ago and is about to be written) and what is true between the two sweeps
(`AllPlain`).

`RenderPassProofs.tla` proves about `Spec` of `RenderPass.tla`, for pools and texts of any
size, any layers and any kinds:

| Theorem | Property |
|---|---|
| `TypeCorrect` | `TypeOK`: loop variables, array and pipeline |
| `DrawsAreOwn` | `EveryDrawIsItsOwn`: each draw finds its own state bound |
| `LayersAscend` | `DrawnInLayerOrder`: the sort sorts and is stable |
| `FramesAreComplete` | `FrameIsComplete`: nothing is lost, repeated or under an object |

`EveryDrawIsItsOwn` speaks of the last draw only; what carries it from draw to draw
is `Hoisted`: as long as a pass remembers a shader, every slot that shader uses
holds its own buffer, and between draws both modes are off. Then `BoundIs` (the
hoisted bind is as good as a bind), `AllTransferred` (each branch transfers every
constant its shader reads) and a comparison of the modes give the picture
required. `Clean` says what a frame finds, because the types of what the pipeline
holds depend on the pools, which change there.

`DrawnInLayerOrder` needs the loop invariant of the insertion sort, `Sorting`: up
to `k` the array is in order, from `k` on it is as gathered, so ascending in the
pool. `PositionIs` shows that the inner loop stops where it should (the least
element of a set of naturals exists because `<` is well-founded), `InsertStep`
that one round preserves `Sorting`, and `Drawing` ties what was drawn to the array.

`FrameIsComplete` adds two facts: `Enabled`, the array holds the enabled objects
that the first loop has reached, and a round of the sort only permutes it
(`InsertKeeps`); and `QuadsDone`, what was drawn after the objects are the quads the
2D pass has passed, each once and in its order.

`PlaybackProofs.tla` proves about `Spec` of `Playback.tla`, for any set of clips, any number
of animations and meshes, and frames of any length:

| Theorem | Property |
|---|---|
| `TypeCorrect` | `TypeOK`: among the types, that no timer leaves the range of its clip |
| `MixersEnclose` | `KeysEnclose`: the key search finds two key frames around the time |
| `SweepsArePlayer` | `ImplementsPlayer`: every mesh is shown in the pose of this frame, every clock ticks once |

`KeysEnclose` says what the mixers were given, `tCurr` moves on; they agree because a
sweep writes both in one round. The invariant adds to `TypeOK`: `Owned`, each animation
is in the pool of its kind, so that the two sampling sweeps together reach all;
`Sampled`, a mixer with key frames has those of the timer's present time; and
`InTurn`, which mixers have key frames when a sweep is at round `i`. The arithmetic is
in two lemmas: `BucketIs` (the loop of `AnimateBones` stops at the first key past the
time, or at the last) and `BonesEnclose` (for a time within the clip, the key before it
exists, and time and factor lie between).

`ImplementsPlayer` is two arguments over the same invariant. The clocks: when a frame
begins every animation is pending, so `ClockBar` has all the new times at once, and a
round of a sampling sweep puts into a timer the time its clock has already. That needs
`Once`, no array holds an animation twice, or a second round would tick again. The
pictures (`Pictures`): the mixers C of the blends sampled so far have this frame's factor
(`JoinedInTurn`), the bone buffers of the meshes skinned so far hold their pictures
(`SkinnedInTurn`), and what is drawn so far are those (`DrawnInTurn`). A round of the skinning
sweep (`ExecuteIs`) starts from slots about which nothing is assumed: `MixedIs` and
`WorldIs` show that a dispatch reads only slots it has bound itself. That the mix of
the two keys is the pose at that time is integer division (`MixIsPose`, `DivMod`).
`NamesAssumption` says that a clip and an animation do not have one name; in the code
their buffers are different objects.

`BlendLoopProofs.tla` proves about `LoopSpec` of `FrameSync.tla`, for frames, cushions and times
of any length, and about `Spec` of `BlendLoop.tla`, for any ramp and grid:

| Theorem | Property |
|---|---|
| `LoopTypeCorrect` | `LoopTypeOK`: no time is negative, nor is the target of the wait |
| `BlanksAreKept` | `NoBlankLost` |
| `FramesStayApart` | `FramesApart` |
| `RunsTheLoop` | `Spec => LoopSpec`: with scene 2 in it the loop is still that loop |
| `TypesCorrect` | `TypesOK`: the types of both halves; the blend stays between its clips |
| `CaptionIsRight` | `CaptionNamesPose` |
| `BlendIsSmooth` | `BlendNeverJumps` |

The loop's invariant ties the two timers together (`TimersTogether`: inside a frame the
scenes' timer is behind the loop's by no more than `PeekMessage` took), keeps the first `interval` after a flip from being short
(`FrameBehind`), and says of the wait that its target is `TargetTime` of what was
worked and that it has passed it by less than a round (`Waiting`). `TargetIs` is the
arithmetic of the snap: the target lies in the slot after the one drawing ended in.
For the blend, `OnRamp` says that a running ramp is where its elapsed time puts it
between start and target, `Told` that the caption and its change detector agree with
the pose of the last frame; `RampedMoves` compares two points of a ramp without dividing.

`GameSceneContextProofs.tla` proves about `Spec` of `GameSceneContext.tla`, for the calls of all
five scenes and every order of keys, frames and requests to quit:

| Theorem | Property |
|---|---|
| `CallsSucceed` | `CallSucceeds` |
| `FramesFindLiveObjects` | `FrameFindsLiveObjects` |
| `TheRightSceneRuns` | `RightSceneRuns` |
| `ScenesLeaveNothing` | `NothingOutlivesScene` |

A Load and an Unload are lists of calls, and what makes one safe is a fact about the
calls that are left and what exists when they start. `WellLoaded` says it of a Load:
each call creates what no one has, uses what exists or an earlier call of the rest
creates, and finds what was added; `WellUnloaded` of an Unload: each singleton is
destroyed once and used only before. `LoadIs` and `UnloadIs` go through the calls of the
five scenes; `LoadRest` and `UnloadRest` show that a call that is made hands the fact on
to the rest. The invariant `GInv` has one of them while a scene loads or unloads,
`Ready` between the two (exactly the scene's own singletons exist, both cameras are set,
nothing dangles) and `Blank` before the first scene and after the last.

`ManBaseProofs.tla` proves about `Spec` of `ManBase.tla`, for any number of nodes and names and
any growth:

| Theorem | Property |
|---|---|
| `TypesKept` | `TypeOK`: no counter goes below zero, no node beyond the bound |
| `ListsAreLinked` | `ListsLinked` |
| `CountersCount` | `CountersExact` |
| `SpareNodesAreWashed` | `SpareMeansWashed` |
| `TheListsAreThePool` | `ImplementsPool`: the refinement of `NodePool` |

`Chain` chooses what an iterator visits, and the prover has no induction along `pNext`.
So the proof names the sequence of a list: `Own(m, l, s)` says that memory `m` holds `s`
as list `l`, linked both ways and each node once. `OneChain` shows that it determines `s`
(the first place where two chains of one list differ would have a predecessor where they
agree), hence that `Chain` has only one choice (`ChainIs`). Each operation of `DLinkMan` is
described link by link (`AddToFrontIs`, `AddToEndIs`, `RemoveIs`, `RemoveFromFrontIs`,
`FilledIs`), then by what it does to the sequence (`FrontOwn`, `EndOwn`, `OutOwn`,
`FreshOwn`), then together with the other list, which keeps its own because no node is on
both (`TwoFront`, `TwoEnd`, `TwoRemove`, `FilledOwns`). The invariant `PInv` has both
sequences under a quantifier and says of them at once what the four properties say apart:
none of those is inductive, since a relinking is right only for a node whose neighbours
are on its own list, and a counter only if the list is. With the sequences named, each
action is `NodePool`'s own.

`RigProofs.tla` proves about `Spec` of `Rig.tla`, for files with any number of nodes, skins and
meshes and joint lists of any length:

| Theorem | Property |
|---|---|
| `TypeCorrect` | `TypeOK`: among the types, that rows fill the table exactly |
| `SkinIsRight` | `SkinFollowsSkeleton` |
| `TablesStayTogether` | `TablesAgree` |

The prover has no induction over paths, and none is needed: a climb is a sequence of
nodes in which each is followed by its parent, and the climb of each node is in the
state until its row is made of it. The invariant says what each loop has made when it
is at round `i` (`ParentsRight`, `DepthRight`, `EntryRight`, `RowsRight`, `DataRight`) and what
a thread has multiplied (`ThreadsRight`): the last `at` nodes of its path
(`ProductGoesOn`). Two climbs from one node agree as far as both go (`ClimbFollows`), so
the second fits into the depth that the first measured; rows found by multiplying do
not overlap (`CellsAreApart`), and -1 comes back from its journey as an unsigned
(`IntsSurvive`).

`PCSTreeProofs.tla` proves about `Spec` of `PCSTree.tla`, for any number of nodes and any mixture
of insertions, removals of subtrees and walks:

| Theorem | Property |
|---|---|
| `AlwaysATree` | the inductive invariant: the nodes that are in form one threaded tree |
| `TypeCorrect` | `TypeOK`: among the types, that no count passes the number of nodes |
| `LinksAlwaysAgree` | `LinksAgree` |
| `WalksAreInOrder` | `WalksInOrder`, over nodes whose constructor sets the threads |
| `ForwardAlwaysEnds` | the property that `pcs_wild_thread` refutes for other nodes, proved for these |
| `LinksAreTheTree` | `ImplementsOrderedTree`: the refinement of `OrderedTree` |

A node knows four neighbours in the family and two in the threads, and a removal mends
them while the subtree is half taken apart; nothing local is inductive. The invariant
`IInv` says that there are three functions of the nodes for which the links are right
(`Shape`), as the prover has no induction along links: a height that falls from parent to
child, an order that grows from sibling to sibling, and for each node what comes after all
that is below it. The threads are stated with the last one. `Hung` says what an insertion
writes, and gives the new functions (`HungShape`); `Gone` what a removed leaf leaves behind.
The branches of the code are shown to do one of the two (`InsertOnlyHung`,
`InsertFirstHung`, `RemoveLeaf`'s cases), so the tree is argued about twice only.

`Removed` is a recursive function, and the theorems that would say that one exists take
operators as parameters. So it is built by hand: sequences of trees, each a leaf smaller
than the one before it, exist for every length and agree where they overlap
(`TreesExist`, `AfterExists`, `RemovedIs`); that k leaves may go (`Midway`) holds for all k
up to the size of the subtree, or there would be a least k for which it does not.

The walks: `After` of the specification, made of the way up, is the third function
(`TreeIsThreaded`), and an iterator stands where the threads have led it (`Walked`). Nodes
made by the constructor that takes a name are left out by assumption (`FreshThread`
contains nothing but null); `AlwaysATree`, `LinksAlwaysAgree` and `LinksAreTheTree` need no
such assumption, as the family links are not made of threads. They do rest on `Wild` being
no node's address: what is written through such a pointer (`SetForward`, `SetReverse`) is
taken to land outside the tree.

The refinement. `ReachedAll` shows that the nodes in are those reached from the root,
`YoungerIs` and `KidsYounger` that the siblings after a node are those the order function
says, `HangIs` and `CutIs` what an insertion and a removal do to the mapping. The counts
need `LevelsRight`, the levels counted are the highest level of a node: it is kept by the
branches that do not count, a first child before another is as deep as that one
(`HungLevels`), and a leaf removed beside a next sibling leaves one as deep (`LeafCounts`).

Only model-checked: all liveness, since fairness and ENABLED are out of the prover's reach:
`PressAnswered`, `RampCompletes`, `DrawnForEver`, `QuitFreesAll`, `ClipsLoop`.

## What is left out

- Matrices, quaternions, bounding spheres, camera movement: floating-point
  algebra. Its tests are `src/Libs/Math/Test`.
- Files, protocol buffers, XML: pure input. A failed read ends in an assertion
  before any state of the engine changes.
- The wrappers of Direct3D objects: each is one COM object created in its
  constructor and released in its destructor; that they are gone before the
  device is `NothingOutlivesScene`.
- `InstanceRenderer`: excluded from the build (`premake5.lua`).
- `Remove` of the concrete managers: no code of the engine calls it. `BaseRemove`
  models the library's side of it.
- Copying a `PCSNode`, and hanging a removed one in again: it keeps its threads, with
  the effect `pcs_wild_thread` shows.
- Several Worlds: handles of one World used on the next. Generations start over,
  so such a handle could look alive; scene 2, the only holder of a handle across
  calls, resets it in `Unload`.
- The Converter's meshes, textures and clips: copied from the file accessor by
  accessor. Clips meet a skeleton by position alone, and those of Mousey come from
  files that are not in the repository.
- Rounding: angles of the cubes and the caption's thresholds are exact, a matrix is
  what it was made of.
- `Profiler`: sums that nothing reads. `AnimTime` beyond what the engine calls: 64 bits
  of ticks, which no run of the program exhausts.
- `Shared`, `PugiXml`: vendored code. They and the other libraries copied into the
  repository (`json.hpp`, `tiny_gltf.h`, `stb_image.h`, protobuf, abseil) are nearly all
  of its lines; what is modelled are the engine's own.

## Plan

Done: `World`, `EntityStore`, `WorldProofs`; `DLinkMan`, `ManBase`, `NodePool`,
`ManBaseProofs`; `Scenes`, `GameSceneContext`, `GameSceneContextProofs`; `AnimBlend`,
`FrameSync`, `BlendLoop`, `BlendLoopProofs`; `RenderPass`, `RenderPassProofs`; `Player`,
`Playback`, `PlaybackProofs`; `PlaceSweep`; `OrderedTree`, `PCSTree`, `PCSTreeProofs`;
`Rig`, `RigProofs`.

Next, in this order:

1. A frame as a whole: `PlaceSweep`, `Playback` and `RenderPass` in one module, so that
   the matrices and bones `RenderPass` takes as given are those of this frame.
2. `AnimMan`'s and the other managers' own lists and finds over `ManBase`; the factories
   with the values they write.
