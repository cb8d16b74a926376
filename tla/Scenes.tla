--------------------------------- MODULE Scenes ---------------------------------
(***************************************************************************)
(* What the five scenes of the game do to the engine when they are loaded, *)
(* updated, drawn and unloaded: Engine/src/scene1.cpp to scene5.cpp, with  *)
(* the factories they call (Text2D, Renderable3D, AnimMan::Add).           *)
(*                                                                         *)
(* A scene is a sequence of calls on the engine's singletons, in the order *)
(* of its code.  Equal calls in a row (seven meshes added, five pairs of a *)
(* character and its caption) are written once: the first one leaves the   *)
(* singletons as the others find them.  A call is a record:                *)
(*   op     what it does: create and destroy a singleton, add to it, make  *)
(*          a camera current, or just use it;                              *)
(*   on     the singletons it does that to;                                *)
(*   finds  the managers it looks an object up in and dereferences;        *)
(*   keeps  pairs <<holder, target>>: objects of holder keep a pointer to  *)
(*          an object of target.                                           *)
(* World stands for the components of its entities.                        *)
(***************************************************************************)
EXTENDS Naturals, Sequences

Scene == 1..5

Manager == {"Camera", "Mesh", "Tex", "Shader", "System", "Image", "Glyph",
            "Skel", "Clip", "Anim", "JointTable", "HierarchyTable", "World"}

CameraType == {"PERSPECTIVE_3D", "ORTHOGRAPHIC_2D"}

Call(op, on, finds, keeps) ==
  [op |-> op, on |-> on, finds |-> finds, keeps |-> keeps]

Create(m) == Call("create", {m}, {}, {})
Destroy(m) == Call("destroy", {m}, {}, {})
Add(m) == Call("add", {m}, {}, {})

\* op on each of a sequence of managers.
Each(op(_), ms) == [i \in 1..Len(ms) |-> op(ms[i])]

SetCurrent(type) == Call(type, {"Camera"}, {"Camera"}, {})
SetMoveSpeed == Call("use", {"Camera"}, {}, {})

\* The two cameras every scene sets up.
Cameras == <<Add("Camera"), SetCurrent("PERSPECTIVE_3D"),
             Add("Camera"), SetCurrent("ORTHOGRAPHIC_2D")>>

\* ImageMan::Add and GlyphMan::Add look their texture up and keep it.
AddTextured(m) == Call("add", {m}, {"Tex"}, {<<m, "Tex">>})

\* Text2D::Add: a sprite and a text component.
AddText ==
  Call("add", {"World"}, {"Mesh", "Shader", "Image"},
       {"World"} \X {"Mesh", "Shader", "Tex"})

\* AnimMan::Add: the clip is read, an animation is built on it and on its
\* skeleton, an entity samples it, the skin entities draw it, and the node that
\* owns the animation joins the manager.
AddCharacter ==
  Call("add", {"Clip", "World", "Anim"},
       {"Skel", "HierarchyTable", "Mesh", "Shader", "Tex"},
       ({"Anim"} \X {"Clip", "Skel"})
         \cup ({"World"} \X {"Anim", "Mesh", "Shader", "Tex"}))

\* Renderable3D::Add and the assets the scene gives the component.
AddRenderable(assets) ==
  Call("add", {"World"}, assets, {"World"} \X assets)

Animated == <<"Camera", "Mesh", "Tex", "Shader", "System", "Image", "Glyph",
              "Skel", "Clip", "Anim", "JointTable", "HierarchyTable">>
Plain == SubSeq(Animated, 1, 5)

UnloadAnimated ==
  Each(Destroy, <<"HierarchyTable", "JointTable", "Anim", "Clip", "Skel",
                  "Glyph", "Image", "System", "World", "Shader", "Tex", "Mesh",
                  "Camera">>)
UnloadPlain ==
  <<SetMoveSpeed>>
    \o Each(Destroy, <<"System", "World", "Shader", "Tex", "Mesh", "Camera">>)

Load1 ==
  Each(Create, Animated) \o Cameras
    \o Each(Add, <<"Mesh", "JointTable", "HierarchyTable", "Skel", "Shader",
                   "Tex">>)
    \o <<AddTextured("Image"), Add("Tex"), AddTextured("Glyph"), AddText,
         AddCharacter, AddText>>

Load2 ==
  Each(Create, Animated) \o Cameras
    \o Each(Add, <<"Mesh", "JointTable", "HierarchyTable", "Shader", "Tex">>)
    \o <<AddTextured("Image"), Add("Tex"), AddTextured("Glyph"), AddText,
         Add("Skel"), AddCharacter, AddText>>

Load3 ==
  Each(Create, Plain) \o <<SetMoveSpeed>> \o Cameras
    \o Each(Add, <<"Mesh", "Shader", "Tex">>)
    \o <<AddRenderable({"Mesh", "Shader", "Tex"})>>

\* Scenes 4 and 5 differ in how many cubes they draw.
LoadCubes ==
  Each(Create, Plain) \o <<SetMoveSpeed>> \o Cameras
    \o Each(Add, <<"Mesh", "Shader">>)
    \o <<AddRenderable({"Mesh", "Shader"})>>

\* Mutant: the glyphs are added before their texture manager has a texture.
LoadGlyphFirst(s) ==
  Each(Create, Animated) \o Cameras \o <<AddTextured("Glyph")>>

Load(s) ==
  CASE s = 1 -> Load1 [] s = 2 -> Load2 [] s = 3 -> Load3
    [] s \in {4, 5} -> LoadCubes

\* Mutant: the scenes without animation forget the World.
UnloadKeepingWorld(s) ==
  IF s \in {1, 2} THEN UnloadAnimated
  ELSE SelectSeq(UnloadPlain, LAMBDA c : c # Destroy("World"))

\* Mutant: the animated scenes forget one of their managers.
UnloadKeepingClips(s) ==
  IF s \in {1, 2} THEN SelectSeq(UnloadAnimated, LAMBDA c : c # Destroy("Clip"))
  ELSE UnloadPlain

Unload(s) == IF s \in {1, 2} THEN UnloadAnimated ELSE UnloadPlain

\* The singletons that must be there for one Update of the scene:
\* CameraNodeMan::Update and SystemMan::Run, in scene 2 also
\* AnimMan::BlendAnimation, and the shaders SkinningSystem looks up.
UpdateNeeds(s) ==
  {"Camera", "System"} \cup (IF s \in {1, 2} THEN {"Shader"} ELSE {})
    \cup (IF s = 2 THEN {"Anim"} ELSE {})

\* RenderSystem and SpriteRenderSystem: the current cameras, and a glyph per
\* character of a text.
RenderNeeds(s) ==
  {"Camera"} \cup (IF s \in {1, 2} THEN {"Glyph"} ELSE {})
==============================================================================
