------------------------------ MODULE PlaceSweep ------------------------------
(***************************************************************************)
(* Where the 3D objects of a frame stand: the two systems that sweep the   *)
(* transforms (Libs/AzulEngine/src/System/LocalToWorldSystem.cpp and       *)
(* RotateSystem.cpp, in the order of SystemMan.cpp) over the registry of   *)
(* World, between scene code that makes, moves and destroys entities.      *)
(*                                                                         *)
(* The data of a transform is a placement (pos, scale and rot together)    *)
(* and the world matrix last written for it, which is known by what it was *)
(* composed of: a placement and a turn about Z.  An angle counts in steps  *)
(* of the speed all cubes share, and Turns steps are a full turn.          *)
(***************************************************************************)
EXTENDS World

CONSTANTS
  T, R,         \* TransformComponent and RotateComponent
  Placement,    \* what pos, scale and rot may hold
  Origin,       \* the placement of a new entity: pos 0, scale 1, no rotation
  Turns         \* steps of a full turn

ASSUME SweptAssumption == T \in C /\ R \in C /\ T # R
ASSUME PlacementAssumption == Origin \in Placement
ASSUME TurnsAssumption == Turns \in Nat \ {0}

VARIABLES
  ran,          \* systems that have run in this frame
  filling       \* the component just added and not yet written, or none

placeVars == <<vars, ran, filling>>

Angle == 0..(Turns - 1)
Transform == [at : Placement, world : (Placement \X Angle) \cup {Garbage}]
Rotate == [angle : Angle]

ASSUME StoredAssumption == Transform \cup Rotate \subseteq Value

\* Scale * Rot * spin * Trans, by what it is made of.
Composed(place, angle) == <<place, angle>>

------------------------------------------------------------------------------
(* Scene code.                                                             *)

Idle == ran = 0 /\ filling = <<>>

\* World::Create and World::Destroy, from a scene.
CreateEntity ==
  /\ Idle
  /\ CreateRecycled \/ CreateFresh
  /\ UNCHANGED <<ran, filling>>

DestroyEntity ==
  /\ Idle
  /\ \E e \in Handle : Issued(e) /\ Destroy(e)
  /\ UNCHANGED <<ran, filling>>

\* Renderable3D::Add and AnimMan::privCreateSkinEntity give an entity its
\* transform, a scene its rotation; whoever added the component writes it at
\* once (FillTransform, FillRotate).
AddComponent ==
  /\ Idle
  /\ \E c \in {T, R}, e \in Handle :
       Live(e) /\ Add(c, e) /\ filling' = <<c, e>>
  /\ UNCHANGED ran

\* What the world matrix of the cell handed out by Add holds: nothing ever
\* written, or that of the component that had the cell before.
WorldFound(e) ==
  LET cell == denseData[T][sparse[T][e.index]]
  IN  IF cell = Garbage THEN Garbage ELSE cell.world

\* The placement is the origin.  Renderable3D::Add writes the world matrix
\* too; AnimMan leaves it to the first sweep.
FillTransform ==
  /\ filling # <<>> /\ filling[1] = T
  /\ LET e == filling[2]
     IN  \E w \in {Composed(Origin, 0), WorldFound(e)} :
           Write(T, e, [at |-> Origin, world |-> w])
  /\ filling' = <<>>
  /\ UNCHANGED ran

\* Scenes 4 and 5 start the cubes at an angle of their own.
FillRotate ==
  /\ filling # <<>> /\ filling[1] = R
  /\ \E a \in Angle : Write(R, filling[2], [angle |-> a])
  /\ filling' = <<>>
  /\ UNCHANGED ran

\* Renderable3D::SetTrans, SetScale and the setters of AnimMan: the placement
\* changes and the world matrix stays.
Move ==
  /\ Idle
  /\ \E e \in Handle, p \in Placement :
       /\ Live(e) /\ Has(T, e)
       /\ Write(T, e, [denseData[T][sparse[T][e.index]] EXCEPT !.at = p])
  /\ UNCHANGED <<ran, filling>>

------------------------------------------------------------------------------
(* SystemMan::Run.                                                         *)

\* Mutant: the plain matrix last.
SystemsSwapped == <<"Rotate", "LocalToWorld">>

\* The systems SystemMan::Create adds that touch transforms, in run order.
Systems == <<"LocalToWorld", "Rotate">>

Runs(system) ==
  /\ filling = <<>>
  /\ ran < Len(Systems) /\ Systems[ran + 1] = system
  /\ ran' = ran + 1

Kept == <<slotVars, sparse, sparseCap, denseOwner, denseCount, denseCap, filling>>

\* LocalToWorldSystem::Update: every cell of the transform pool.
LocalToWorld ==
  /\ Runs("LocalToWorld")
  /\ denseData' = [denseData EXCEPT ![T] =
       [s \in DOMAIN @ |->
          IF s < denseCount[T]
          THEN [@[s] EXCEPT !.world = Composed(denseData[T][s].at, 0)]
          ELSE @[s]]]
  /\ Pool(T)
  /\ UNCHANGED Kept

\* The cells of the rotate pool whose owner also has a transform; the others
\* are passed over, and their angle stays.
Turning == {r \in 0..(denseCount[R] - 1) : Has(T, denseOwner[R][r])}

\* The transform cell the owner of rotate cell r has.
Turned(r) == sparse[T][denseOwner[R][r].index]

AngleNext(r) == (denseData[R][r].angle + 1) % Turns

\* RotateSystem::Update: the angle advances and the world matrix is written
\* again, with the turn in it.
RotateSweep ==
  /\ Runs("Rotate")
  /\ denseData' = [denseData EXCEPT
       ![R] = [r \in DOMAIN @ |->
                 IF r \in Turning THEN [angle |-> AngleNext(r)] ELSE @[r]],
       ![T] = [s \in DOMAIN @ |->
                 IF \E r \in Turning : Turned(r) = s
                 THEN LET r == CHOOSE r \in Turning : Turned(r) = s
                      IN  [@[s] EXCEPT !.world =
                             Composed(denseData[T][s].at, AngleNext(r))]
                 ELSE @[s]]]
  /\ poPools' = poPools \cup {R} \cup (IF denseCount[R] > 0 THEN {T} ELSE {})
  /\ UNCHANGED Kept

\* RenderSystem::Draw reads the world matrices, and the next frame begins.
Draw ==
  /\ ran = Len(Systems)
  /\ ran' = 0
  /\ UNCHANGED <<vars, filling>>

------------------------------------------------------------------------------
PlaceInit == Init /\ ran = 0 /\ filling = <<>>

PlaceNext ==
  \/ CreateEntity \/ DestroyEntity
  \/ AddComponent \/ FillTransform \/ FillRotate \/ Move
  \/ LocalToWorld \/ RotateSweep \/ Draw

PlaceSpec == PlaceInit /\ [][PlaceNext]_placeVars

------------------------------------------------------------------------------
(* Properties.                                                             *)

\* RenderSystem.cpp:79: what is drawn stands at its own present placement,
\* turned by its own present angle if it rotates and not at all otherwise,
\* whatever entities were made, moved and destroyed, whichever cells the
\* components were moved to, and whatever a recycled cell held before.
EveryPlaceIsOwn ==
  ran = Len(Systems) =>
    \A s \in 0..(denseCount[T] - 1) :
      LET e == denseOwner[T][s]
      IN  denseData[T][s].world =
            Composed(denseData[T][s].at,
                     IF Has(R, e) THEN denseData[R][sparse[R][e.index]].angle
                     ELSE 0)
==============================================================================
