-------------------------------- MODULE Playback --------------------------------
(***************************************************************************)
(* How a clip becomes the pose of a mesh: AnimMan::Add builds timers,      *)
(* mixers and components; the sweeps of AnimationSystem and BlendSystem    *)
(* advance the timers and look up the key frames; the SkinningSystem       *)
(* dispatches the compute shaders of every ComputeBlend; the draw calls    *)
(* bind what they left in the bone buffer.                                 *)
(*                                                                         *)
(* A compute shader knows its inputs and outputs only as slots of the      *)
(* pipeline, which all animations share.  A buffer is named after its      *)
(* owner: a key frame buffer <<clip, key>>, an animation's own buffers     *)
(* <<id, name>>.                                                           *)
(***************************************************************************)
EXTENDS Integers, Sequences

CONSTANTS
  NumFrames,        \* key frames of each clip
  Film,             \* ticks of AnimTime::Duration::FILM_24_FRAME
  Full,             \* blend factors are 0..Full for the code's 0.0f..1.0f
  Deltas,           \* bound: ticks a frame may take, loading included
  MaxSkinEntities,  \* AnimNode::MAX_SKIN_ENTITIES
  MaxAnims,         \* bound: calls of AnimMan::Add in a scene
  None

Clips == DOMAIN NumFrames

ASSUME FramesAssumption == NumFrames \in [Clips -> Nat \ {0}]
ASSUME NoneAssumption ==
  None \notin Clips /\ None \notin Clips \X Int /\ None \notin 1..MaxAnims
ASSUME NamesAssumption == Clips \cap (1..MaxAnims) = {}
ASSUME TicksAssumption == Film \in Nat \ {0} /\ Deltas \subseteq Nat \ {0}
ASSUME FullAssumption == Full \in Nat \ {0} /\ Full % 2 = 0
ASSUME BoundsAssumption == MaxSkinEntities \in Nat \ {0} /\ MaxAnims \in Nat

VARIABLES
  anims,               \* the clips of each animation's Anims, B = None for one
  animPool, blendPool, skinPool,   \* the dense arrays: animations, by number
  poBlendComputeBlend, \* the animation BlendAnimation pushes the factor to
  tCurr,               \* per animation, the times of its TimerControllers
  mixer,               \* per animation, its mixers A, B and C on the CPU side
  mBlendTs,            \* per animation, the factor in its ComputeBlend
  sweep, i,            \* the system that runs, and its loop variable
  tDelta,              \* the argument of the sweeps
  gpu,                 \* slot: what is bound where; data: what buffers hold
  drawn, shown         \* the frame being drawn; the frame on the screen

scene == <<anims, animPool, blendPool, skinPool, poBlendComputeBlend>>
vars == <<scene, tCurr, mixer, mBlendTs, sweep, i, tDelta, gpu, drawn, shown>>

------------------------------------------------------------------------------
(* Clips and timers.                                                       *)

\* Clip::Set, with the numbers that the Converter gives to the key frames.
KeyTime(key) == (key - 1) * Film
TotalTime(c) == KeyTime(NumFrames[c])

\* Mutant: a timer stops at the end of its clip.
TimerStops(t, d, tMax) == IF t + d > tMax THEN tMax ELSE t + d

\* Mutant: a timer looks whether it is past the end before it advances.
TimerLooksFirst(t, d, tMax) == IF t > tMax THEN 0 ELSE t + d

\* TimerController::Update, with tMin = 0 as AnimMan::Add makes them.
TimerUpdate(t, d, tMax) ==
  IF t + d < 0 THEN tMax ELSE IF t + d > tMax THEN 0 ELSE t + d

\* Mutant: the loop also stops on a frame that is reached exactly.
StopsOnFrame(c, t) == {key \in 1..NumFrames[c] : key = NumFrames[c] \/ t <= KeyTime(key)}

\* Where the loop of AnimateBones stops: at the last frame or a later one.
StopsAt(c, t) == {key \in 1..NumFrames[c] : key = NumFrames[c] \/ t < KeyTime(key)}

Bucket(c, t) == CHOOSE key \in StopsAt(c, t) : \A other \in StopsAt(c, t) : key <= other

\* Clip::AnimateBones: the key frames to mix, and how far to go from A to B.
AnimateBones(c, t) ==
  LET pB == Bucket(c, t)
      pA == pB - 1
  IN  IF NumFrames[c] > 1
        THEN [a |-> <<c, pA>>, b |-> <<c, pB>>,
              num |-> t - KeyTime(pA), den |-> KeyTime(pB) - KeyTime(pA)]
        ELSE [a |-> <<c, 1>>, b |-> <<c, 1>>, num |-> 0, den |-> 1]

Unsampled == [a |-> None, b |-> None, num |-> 0, den |-> 1]

------------------------------------------------------------------------------
(* The compute pipeline.                                                   *)

\* What a mixer shader makes of two poses: x, y or a point between.
Mix(x, y, num, den) ==
  IF num = 0 \/ x = y THEN x ELSE IF num = den THEN y ELSE <<x, y, num, den>>

\* The slots each shader reads and writes, from the #defines it starts with.
Reads == [MixerA |-> <<"KeyAa", "KeyAb">>, MixerB |-> <<"KeyBa", "KeyBb">>,
          MixerC |-> <<"MixerOutAx", "MixerOutBx">>]
Writes == [MixerA |-> "MixerOutAx", MixerB |-> "MixerOutBx", MixerC |-> "MixerOutCx",
           WorldA |-> "BoneWorldOut", WorldC |-> "BoneWorldOut"]
Constants == [MixerA |-> "csMixerA", MixerB |-> "csMixerB", MixerC |-> "csMixerC"]
Local == [WorldA |-> "MixerOutAx", WorldC |-> "MixerOutCx"]

\* HierarchyTable stands for csWorld too: they are always bound together.
Slots == {"KeyAa", "KeyAb", "KeyBa", "KeyBb", "HierarchyTable", "MixerOutAx",
          "MixerOutBx", "MixerOutCx", "BoneWorldOut", "csMixerA", "csMixerB", "csMixerC"}
Buffers == {"MixerA", "MixerB", "MixerC", "UAVWorldMat", "BoneWorld"}

\* What a buffer holds: key frame buffers never change, a table is its owner's.
Content(data, buf) == IF buf[1] \in Clips THEN buf ELSE data[buf[1]][buf[2]]
Filled(data, buf, x) == [data EXCEPT ![buf[1]][buf[2]] = x]

\* Dispatch runs a shader on whatever is bound.
DispatchMixer(g, shader) ==
  LET s == g.slot
      x == Content(g.data, s[Reads[shader][1]])
      y == Content(g.data, s[Reads[shader][2]])
      ts == s[Constants[shader]]
  IN  [g EXCEPT !.data = Filled(g.data, s[Writes[shader]], Mix(x, y, ts[1], ts[2]))]

DispatchWorld(g, shader) ==
  LET s == g.slot
      pose == Content(g.data, s[Local[shader]])
  IN  [g EXCEPT !.data = Filled(g.data, s[Writes[shader]],
                                [anim |-> s["HierarchyTable"], pose |-> pose])]

\* privMixerExecute, one mixer of it: binds all it needs, then dispatches.
Mixed(g, id, shader) ==
  LET m == mixer[id][shader]
  IN  DispatchMixer([g EXCEPT !.slot = [@ EXCEPT ![Reads[shader][1]] = m.a,
                                                 ![Reads[shader][2]] = m.b,
                                                 ![Writes[shader]] = <<id, shader>>,
                                                 ![Constants[shader]] = <<m.num, m.den>>]],
                    shader)

\* privWorldComputeExecute: the same for the world matrices, then CopyResource
\* from the buffer the shader wrote to the one a vertex shader may read.
World(g, id, shader) ==
  LET local == IF shader = "WorldA" THEN "MixerA" ELSE "MixerC"
      done == DispatchWorld([g EXCEPT !.slot = [@ EXCEPT ![Local[shader]] = <<id, local>>,
                                                         !["HierarchyTable"] = id,
                                                         !["BoneWorldOut"] = <<id, "UAVWorldMat">>]],
                            shader)
  IN  [done EXCEPT !.data[id]["BoneWorld"] = done.data[id]["UAVWorldMat"]]

\* ComputeBlend_OneAnim::Execute and ComputeBlend_TwoAnim::Execute: each
\* dispatch starts from the pipeline that the one before has left.
OneAnimExecute(id) ==
  \E a \in {Mixed(gpu, id, "MixerA")} : gpu' = World(a, id, "WorldA")

TwoAnimExecute(id) ==
  \E a \in {Mixed(gpu, id, "MixerA")} : \E b \in {Mixed(a, id, "MixerB")} :
  \E c \in {Mixed(b, id, "MixerC")} : gpu' = World(c, id, "WorldC")

------------------------------------------------------------------------------
Init ==
  /\ anims = <<>> /\ animPool = <<>> /\ blendPool = <<>> /\ skinPool = <<>>
  /\ poBlendComputeBlend = None
  /\ tCurr = <<>> /\ mixer = <<>> /\ mBlendTs = <<>>
  /\ sweep = "load" /\ i = 1 /\ tDelta = 0
  /\ gpu = [slot |-> [s \in Slots |-> None], data |-> <<>>]
  /\ drawn = <<>> /\ shown = <<>>

\* What every AnimMan::Add makes: Anims, timers at zero, mixers that point to no
\* key frames yet, buffers that hold nothing, and one skin entity per mesh.
NewAnim(a, b, numMeshes) ==
  /\ sweep = "load" /\ Len(anims) < MaxAnims
  /\ anims' = Append(anims, [A |-> a, B |-> b])
  /\ tCurr' = Append(tCurr, [A |-> 0, B |-> 0])
  /\ mixer' = Append(mixer, [MixerA |-> Unsampled, MixerB |-> Unsampled, MixerC |-> Unsampled])
  /\ mBlendTs' = Append(mBlendTs, Full \div 2)
  /\ gpu' = [gpu EXCEPT !.data = Append(@, [buf \in Buffers |-> None])]
  /\ skinPool' = skinPool \o [k \in 1..numMeshes |-> Len(anims) + 1]
  /\ UNCHANGED <<sweep, i, tDelta, drawn, shown>>

\* AnimMan::Add with one clip, for one mesh or for several.
AddClip(c, numMeshes) ==
  /\ NewAnim(c, None, numMeshes)
  /\ animPool' = Append(animPool, Len(anims) + 1)
  /\ UNCHANGED <<blendPool, poBlendComputeBlend>>

\* AnimMan::Add with two clips (of one skeleton, so that their tables agree).
AddBlend(c1, c2) ==
  /\ NewAnim(c1, c2, 1)
  /\ blendPool' = Append(blendPool, Len(anims) + 1)
  /\ poBlendComputeBlend' = Len(anims) + 1
  /\ UNCHANGED animPool

Loaded ==
  /\ sweep = "load" /\ sweep' = "idle"
  /\ UNCHANGED <<scene, tCurr, mixer, mBlendTs, i, tDelta, gpu, drawn, shown>>

\* The scene's Update: BlendAnimation pushes the factor of this frame (AnimBlend
\* says which), then SystemMan::Run begins.  A scene without a blend has none to
\* push.
BeginFrame(d, ts) ==
  /\ sweep = "idle" /\ sweep' = "clips" /\ i' = 1 /\ tDelta' = d
  /\ mBlendTs' = IF poBlendComputeBlend = None THEN mBlendTs
                 ELSE [mBlendTs EXCEPT ![poBlendComputeBlend] = ts]
  /\ UNCHANGED <<scene, tCurr, mixer, gpu, drawn, shown>>

Updated(id, voice) ==
  TimerUpdate(tCurr[id][voice], tDelta, TotalTime(anims[id][voice]))

\* AnimationSystem::Update, one round of the loop.
SampleClip ==
  /\ sweep = "clips" /\ i <= Len(animPool) /\ i' = i + 1
  /\ LET id == animPool[i]
     IN  /\ tCurr' = [tCurr EXCEPT ![id].A = Updated(id, "A")]
         /\ mixer' = [mixer EXCEPT ![id].MixerA = AnimateBones(anims[id].A, tCurr'[id].A)]
  /\ UNCHANGED <<scene, mBlendTs, sweep, tDelta, gpu, drawn, shown>>

\* AnimateMixerC: mixer C reads what mixers A and B write.
MixerC(id) == [a |-> <<id, "MixerA">>, b |-> <<id, "MixerB">>,
               num |-> mBlendTs[id], den |-> Full]

\* BlendSystem::Update, one round of the loop.
SampleBlend ==
  /\ sweep = "blends" /\ i <= Len(blendPool) /\ i' = i + 1
  /\ LET id == blendPool[i]
     IN  /\ tCurr' = [tCurr EXCEPT ![id] = [A |-> Updated(id, "A"), B |-> Updated(id, "B")]]
         /\ mixer' = [mixer EXCEPT ![id] =
              [MixerA |-> AnimateBones(anims[id].A, tCurr'[id].A),
               MixerB |-> AnimateBones(anims[id].B, tCurr'[id].B),
               MixerC |-> MixerC(id)]]
  /\ UNCHANGED <<scene, mBlendTs, sweep, tDelta, gpu, drawn, shown>>

\* SkinningSystem::Update, one round of the loop.
Skin ==
  /\ sweep = "skins" /\ i <= Len(skinPool) /\ i' = i + 1
  /\ LET id == skinPool[i]
     IN  IF anims[id].B = None THEN OneAnimExecute(id) ELSE TwoAnimExecute(id)
  /\ UNCHANGED <<scene, tCurr, mixer, mBlendTs, sweep, tDelta, drawn, shown>>

\* A skinned draw: BindWorldBoneArray, and the vertex shader reads what is there.
DrawSkin ==
  /\ sweep = "draw" /\ i <= Len(skinPool) /\ i' = i + 1
  /\ drawn' = Append(drawn, gpu.data[skinPool[i]]["BoneWorld"])
  /\ UNCHANGED <<scene, tCurr, mixer, mBlendTs, sweep, tDelta, gpu, shown>>

\* Mutant: the SkinningSystem was added before the BlendSystem.
AfterSkinsFirst == [clips |-> "skins", skins |-> "blends", blends |-> "draw"]

\* SystemMan::Create's order of the systems, then Game::Render.
After == [clips |-> "blends", blends |-> "skins", skins |-> "draw"]

Pool == [clips |-> animPool, blends |-> blendPool, skins |-> skinPool, draw |-> skinPool]

EndSweep ==
  /\ sweep \in DOMAIN After /\ i > Len(Pool[sweep])
  /\ sweep' = After[sweep] /\ i' = 1
  /\ UNCHANGED <<scene, tCurr, mixer, mBlendTs, tDelta, gpu, drawn, shown>>

Present ==
  /\ sweep = "draw" /\ i > Len(skinPool)
  /\ sweep' = "idle" /\ i' = 1 /\ tDelta' = 0
  /\ shown' = drawn /\ drawn' = <<>>
  /\ UNCHANGED <<scene, tCurr, mixer, mBlendTs, gpu>>

Load ==
  \/ \E c \in Clips, n \in 1..MaxSkinEntities : AddClip(c, n)
  \/ \E c1, c2 \in Clips : AddBlend(c1, c2)
  \/ Loaded

Next ==
  \/ Load
  \/ \E d \in Deltas, ts \in 0..Full : BeginFrame(d, ts)
  \/ SampleClip \/ SampleBlend \/ Skin \/ EndSweep
  \/ DrawSkin \/ Present

Spec == Init /\ [][Next]_vars

\* Engine::Run runs frames for ever.
FairSpec == Spec /\ WF_vars(Next)

------------------------------------------------------------------------------
Voices(id) == IF anims[id].B = None THEN {"A"} ELSE {"A", "B"}
MixerOf == [A |-> "MixerA", B |-> "MixerB"]

\* A mixer points to key frames of clips, to the results of other mixers, or to
\* nothing yet.
Mixer ==
  LET buffer == (Clips \X Int) \union ((1..MaxAnims) \X Buffers) \union {None}
  IN  [a : buffer, b : buffer, num : Int, den : Int]

\* The state has the types of the code's members, and no timer is outside the
\* range that TimerController keeps it in.
TypeOK ==
  /\ anims \in Seq([A : Clips, B : Clips \union {None}]) /\ Len(anims) <= MaxAnims
  /\ animPool \in Seq(1..MaxAnims) /\ blendPool \in Seq(1..MaxAnims)
  /\ skinPool \in Seq(1..MaxAnims)
  /\ poBlendComputeBlend \in (1..Len(anims)) \union {None}
  /\ tCurr \in Seq([A : Nat, B : Nat]) /\ Len(tCurr) = Len(anims)
  /\ mixer \in Seq([MixerA : Mixer, MixerB : Mixer, MixerC : Mixer]) /\ Len(mixer) = Len(anims)
  /\ mBlendTs \in Seq(0..Full) /\ Len(mBlendTs) = Len(anims)
  /\ \A id \in 1..Len(anims) : \A v \in Voices(id) :
       tCurr[id][v] <= TotalTime(anims[id][v])
  /\ sweep \in {"load", "idle", "clips", "blends", "skins", "draw"}
  /\ i \in Nat \ {0} /\ tDelta \in Deltas \union {0}

\* Whatever a frame takes, the two key frames that a mixer is given are key frames
\* of its clip, and enclose the time of its timer: Clip::AnimateBones steps one
\* back from where its loop stops, which is nowhere if the loop stops at once.
\* When the compute shaders run, every mixer has been given some.
KeysEnclose ==
  \A id \in 1..Len(anims) : \A v \in Voices(id) :
    LET m == mixer[id][MixerOf[v]]
    IN  IF m = Unsampled THEN sweep \notin {"skins", "draw"}
        ELSE /\ {m.a[2], m.b[2]} \subseteq 1..NumFrames[anims[id][v]]
             /\ KeyTime(m.a[2]) <= tCurr[id][v] /\ tCurr[id][v] <= KeyTime(m.b[2])
             /\ 0 <= m.num /\ m.num <= m.den /\ m.den > 0

\* Every clip starts over again and again (TimerController::Update), whichever
\* lengths the frames have.
ClipsLoop ==
  \A id \in 1..MaxAnims :
    (id \in DOMAIN anims /\ sweep # "load")
      ~> (id \in DOMAIN anims /\ sweep = "draw" /\ tCurr[id]["A"] = 0)

\* Animations that the sweeps of this frame have yet to reach.
Pending ==
  LET rest(p) == {p[k] : k \in i..Len(p)}
  IN  CASE sweep = "clips" -> rest(animPool) \union {blendPool[k] : k \in DOMAIN blendPool}
        [] sweep = "blends" -> rest(blendPool)
        [] OTHER -> {}

\* A clock of Player ticks when the frame begins, a timer when its turn comes.
ClockBar ==
  [id \in DOMAIN anims |-> [v \in {"A", "B"} |->
     IF v \notin Voices(id) THEN 0
     ELSE IF id \in Pending THEN Updated(id, v) ELSE tCurr[id][v]]]

Player == INSTANCE Player WITH
  meshes <- skinPool, clock <- ClockBar, factor <- mBlendTs,
  ticked <- sweep \notin {"load", "idle"}

\* The sweeps, the shared slots and the shared buffers show exactly the poses that
\* Player shows: every mesh, also when several share an animation, has the pose of
\* its own clips at the time and blend factor of this very frame, and a clock
\* advances once a frame (AnimMan.cpp: "it must be sampled ONCE per frame").
ImplementsPlayer == Player!Spec
=================================================================================
