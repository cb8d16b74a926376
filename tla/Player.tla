--------------------------------- MODULE Player ---------------------------------
(***************************************************************************)
(* What the animation of a scene promises.  An animation has a clock for   *)
(* each of its clips, which runs through the clip and starts over.  All    *)
(* clocks advance together, exactly once between two pictures, and a       *)
(* picture shows every mesh in the pose that its animation has at the time *)
(* of its clocks.  No sweeps, no mixers, no compute shaders, no buffers.   *)
(***************************************************************************)
EXTENDS Integers, Sequences

CONSTANTS
  NumFrames,        \* key frames of each clip
  Film,             \* ticks from one key frame to the next
  Full,             \* the blend factor that shows the second clip alone
  Deltas,           \* ticks a frame may take
  MaxSkinEntities,  \* meshes one animation may move
  None

VARIABLES
  anims,    \* the clips A and B of each animation, B = None if it has one
  meshes,   \* the animation that moves each mesh
  clock,    \* per animation, the times in its clips A and B
  factor,   \* per animation, the part of clip B in 0..Full
  ticked,   \* the clocks have advanced since the last picture
  shown     \* the last picture: every mesh's animation and pose

vars == <<anims, meshes, clock, factor, ticked, shown>>

Clips == DOMAIN NumFrames
End(c) == (NumFrames[c] - 1) * Film

\* The way from pose x to pose y, after num of den parts.
Between(x, y, num, den) ==
  IF num = 0 \/ x = y THEN x ELSE IF num = den THEN y ELSE <<x, y, num, den>>

\* Clip c at time t: on a key frame or between two.
PoseAt(c, t) ==
  LET key == t \div Film + 1
  IN  IF t % Film = 0 THEN <<c, key>>
      ELSE Between(<<c, key>>, <<c, key + 1>>, t % Film, Film)

Pose(id) ==
  LET a == PoseAt(anims[id].A, clock[id].A)
  IN  IF anims[id].B = None THEN a
      ELSE Between(a, PoseAt(anims[id].B, clock[id].B), factor[id], Full)

\* A clock that passes the end of its clip starts over.
Advanced(c, t, d) == IF c = None \/ t + d > End(c) THEN 0 ELSE t + d

Init ==
  /\ anims = <<>> /\ meshes = <<>> /\ clock = <<>> /\ factor = <<>>
  /\ ticked = FALSE /\ shown = <<>>

Add(a, b, n) ==
  /\ anims' = Append(anims, [A |-> a, B |-> b])
  /\ meshes' = meshes \o [k \in 1..n |-> Len(anims) + 1]
  /\ clock' = Append(clock, [A |-> 0, B |-> 0])
  /\ factor' = Append(factor, Full \div 2)
  /\ UNCHANGED <<ticked, shown>>

\* A frame begins: every clock advances, and an animation may be given a new
\* blend factor.
Tick(d) ==
  /\ ~ticked /\ ticked' = TRUE
  /\ clock' = [id \in DOMAIN clock |->
                 [v \in {"A", "B"} |-> Advanced(anims[id][v], clock[id][v], d)]]
  /\ \/ UNCHANGED factor
     \/ \E id \in DOMAIN factor, f \in 0..Full : factor' = [factor EXCEPT ![id] = f]
  /\ UNCHANGED <<anims, meshes, shown>>

\* A frame ends with a picture.
Show ==
  /\ ticked /\ ticked' = FALSE
  /\ shown' = [k \in DOMAIN meshes |-> [anim |-> meshes[k], pose |-> Pose(meshes[k])]]
  /\ UNCHANGED <<anims, meshes, clock, factor>>

Next ==
  \/ \E a \in Clips, b \in Clips \union {None}, n \in 1..MaxSkinEntities : Add(a, b, n)
  \/ \E d \in Deltas : Tick(d)
  \/ Show

Spec == Init /\ [][Next]_vars
=================================================================================
