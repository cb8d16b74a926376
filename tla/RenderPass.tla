-------------------------------- MODULE RenderPass -------------------------------
(***************************************************************************)
(* One frame of drawing: RenderSystem::Draw and SpriteRenderSystem::Draw   *)
(* on the state of the Direct3D pipeline.                                  *)
(*                                                                         *)
(* The pipeline is one set of global variables.  A draw call takes its     *)
(* shader, its constants, its texture and its modes from whatever is bound *)
(* at that moment, and the code rebinds a shader only when it differs from *)
(* the last one, sets a mode only when it needs it, and sets it back       *)
(* afterwards.  Shaders share constant slots: a slot holds a buffer of the *)
(* shader that was bound last among those that use the slot, and a buffer  *)
(* holds what was transferred to it last.                                  *)
(*                                                                         *)
(* What a frame may find on the pipeline is called Earlier: the model lets *)
(* no draw rely on anything that an earlier frame or pass has left there.  *)
(***************************************************************************)
EXTENDS Integers, Sequences

CONSTANTS
  Renderables,   \* what a RenderComponent may be: kind, layer, drawEnable, alpha
  Texts,         \* what a sprite entity may be: the quads it draws, each with
                 \* alpha or not (a plain sprite draws one, a text one a glyph)
  MaxPool, MaxSprites,   \* bounds: components in each pool
  Earlier, None          \* model values

\* The kinds of MaterialKindIs3D: no RenderComponent is made with another.
Kinds == {"FlatTexture", "ColorByVertex", "ConstColorLight", "Wireframe",
          "SkinLightTexture"}
Renderable == [kind : Kinds, layer : Int, drawEnable : BOOLEAN, alpha : BOOLEAN]

ASSUME RenderablesAssumption == Renderables \subseteq Renderable
ASSUME TextsAssumption == Texts \subseteq Seq(BOOLEAN)
ASSUME BoundsAssumption == MaxPool \in Nat /\ MaxSprites \in Nat

VARIABLES
  renders, sprites,   \* the dense arrays of the two pools
  pass,               \* idle, gather, sort, draw3D, draw2D, drawn
  order,              \* RenderSystem::Draw's array, and its length n
  k,                  \* the loop variable of the pass
  glyph,              \* SpriteRenderSystem::DrawText's loop variable
  pLastShader,        \* the hoisted bind of the pass, or None
  dev,                \* the pipeline: shader, constant slots, texture, modes
  buffers,            \* the constant buffers of every shader
  last,               \* the last draw call, as the pipeline executed it
  drawn               \* the objects drawn in this frame, in order

pools == <<renders, sprites>>
gpu == <<dev, buffers, last, drawn>>
vars == <<pools, pass, order, k, glyph, pLastShader, gpu>>

------------------------------------------------------------------------------
(* Shaders, their constant slots, and what each material needs.            *)

\* vsView stands for vsProjection too: both are always set together.
Slots == {"vsWorld", "vsView", "vsLightColor", "vsLightPos",
          "psSpriteUVMatrix", "psSpriteColorScale", "psColor"}

\* ActivateCBV of each shader class: the slots it puts its own buffers in.
SlotsOf ==
  [ColorByVertex    |-> {"vsWorld", "vsView"},
   FlatTexture      |-> {"vsWorld", "vsView", "psSpriteUVMatrix"},
   ConstColor       |-> {"vsWorld", "vsView", "psColor"},
   ConstColorLight  |-> {"vsWorld", "vsView", "vsLightColor", "vsLightPos", "psColor"},
   SkinLightTexture |-> {"vsWorld", "vsView", "vsLightColor", "vsLightPos"},
   Sprite           |-> {"vsWorld", "vsView", "psSpriteUVMatrix", "psSpriteColorScale"}]

Shaders == DOMAIN SlotsOf
ASSUME ValuesAssumption == None \notin Shaders /\ Earlier \notin Shaders

\* The shader the scenes and the AnimMan give to each kind.
ShaderOf == [kind \in Kinds |-> IF kind = "Wireframe" THEN "ConstColor" ELSE kind]

\* The Transfer calls of each branch, as the slots of the buffers they fill.
Transferred ==
  [ColorByVertex    |-> {"vsWorld", "vsView"},
   FlatTexture      |-> {"vsWorld", "vsView", "psSpriteUVMatrix"},
   Wireframe        |-> {"vsWorld", "vsView", "psColor"},
   ConstColorLight  |-> {"vsWorld", "vsView", "vsLightPos", "vsLightColor", "psColor"},
   SkinLightTexture |-> {"vsWorld", "vsView", "vsLightPos", "vsLightColor"},
   Sprite           |-> {"vsWorld", "vsView", "psSpriteUVMatrix", "psSpriteColorScale"}]

Sampled(shader) == shader \in {"FlatTexture", "SkinLightTexture", "Sprite"}
\* The current camera: ORTHOGRAPHIC_2D for sprites, PERSPECTIVE_3D for the rest.
Camera(kind) == <<"camera", IF kind = "Sprite" THEN 2 ELSE 3, 0>>
\* What goes into a slot for object id of that kind: its own data or a camera.
Datum(id, kind, slot) == IF slot = "vsView" THEN Camera(kind) ELSE id

------------------------------------------------------------------------------
(* The pipeline.                                                           *)

\* ActivateShader and ActivateCBV.
Activated(d, shader) ==
  [shader |-> shader,
   bound |-> [c \in Slots |-> IF c \in SlotsOf[shader] THEN shader ELSE d.bound[c]],
   texture |-> d.texture, mesh |-> d.mesh, bones |-> d.bones,
   alpha |-> d.alpha, wire |-> d.wire]

Filled(shader, id, kind) ==
  [s \in Shaders |-> [c \in Slots |->
     IF s = shader /\ c \in Transferred[kind] THEN Datum(id, kind, c)
                                              ELSE buffers[s][c]]]

\* RenderIndexBuffer: the picture that pipeline d with constant buffers b makes.
Picture(id, d, b) ==
  [id |-> id, shader |-> d.shader, mesh |-> d.mesh,
   inputs |-> [c \in SlotsOf[d.shader] |->
                 IF d.bound[c] \in Shaders THEN b[d.bound[c]][c] ELSE Earlier],
   texture |-> IF Sampled(d.shader) THEN d.texture ELSE None,
   bones |-> IF d.shader = "SkinLightTexture" THEN d.bones ELSE None,
   alpha |-> d.alpha, wire |-> d.wire]

\* The picture object id has to make, whatever was drawn before it.
Required(id, kind, alpha) ==
  LET shader == IF kind = "Sprite" THEN kind ELSE ShaderOf[kind]
  IN  [id |-> id, shader |-> shader, mesh |-> id,
       inputs |-> [c \in SlotsOf[shader] |-> Datum(id, kind, c)],
       texture |-> IF Sampled(shader) THEN id ELSE None,
       bones |-> IF kind = "SkinLightTexture" THEN id ELSE None,
       alpha |-> kind \in {"FlatTexture", "Sprite"} /\ alpha,
       wire |-> kind = "Wireframe"]

Object3D(i) == <<"3D", i, 0>>
Quad(i, g) == <<"2D", i, g>>

------------------------------------------------------------------------------
Untouched ==
  [shader |-> Earlier, bound |-> [c \in Slots |-> Earlier],
   texture |-> Earlier, mesh |-> Earlier, bones |-> Earlier,
   alpha |-> FALSE, wire |-> FALSE]

\* Between two frames.
Init ==
  /\ renders = <<>> /\ sprites = <<>>
  /\ pass = "idle" /\ order = <<>> /\ k = 0 /\ glyph = 0
  /\ pLastShader = None
  /\ dev = Untouched
  /\ buffers = [s \in Shaders |-> [c \in Slots |-> Earlier]]
  /\ last = None /\ drawn = <<>>

\* Game::Render up to the first loop, with whatever the scene has put into the
\* pools.  SetDefaultTargetMode has set both modes back.
BeginFrame(r, s) ==
  /\ pass = "idle" /\ pass' = "gather"
  /\ renders' = r /\ sprites' = s
  /\ k' = 1
  /\ UNCHANGED <<order, glyph, pLastShader, gpu>>

\* One round of the first loop.
Gather ==
  /\ pass = "gather" /\ k <= Len(renders)
  /\ order' = IF renders[k].drawEnable THEN Append(order, k) ELSE order
  /\ k' = k + 1
  /\ UNCHANGED <<pools, pass, glyph, pLastShader, gpu>>

Gathered ==
  /\ pass = "gather" /\ k > Len(renders)
  /\ pass' = "sort" /\ k' = 2
  /\ UNCHANGED <<pools, order, glyph, pLastShader, gpu>>

Layer(i) == renders[i].layer

\* Mutant: passes objects of its own layer, too.
PositionUnstable(a) ==
  CHOOSE p \in 1..a :
    /\ p = 1 \/ Layer(order[p - 1]) < Layer(order[a])
    /\ \A b \in p..(a - 1) : Layer(order[b]) >= Layer(order[a])

\* Where the inner loop stops: past everything of a greater layer.
Position(a) ==
  CHOOSE p \in 1..a :
    /\ p = 1 \/ Layer(order[p - 1]) <= Layer(order[a])
    /\ \A b \in p..(a - 1) : Layer(order[b]) > Layer(order[a])

\* One round of the insertion sort: order[k] goes where it belongs, what is in
\* between moves up.
Insert ==
  /\ pass = "sort" /\ k <= Len(order)
  /\ order' = [b \in 1..Len(order) |->
                 IF b < Position(k) \/ b > k THEN order[b]
                 ELSE IF b = Position(k) THEN order[k] ELSE order[b - 1]]
  /\ k' = k + 1
  /\ UNCHANGED <<pools, pass, glyph, pLastShader, gpu>>

\* Mutant: counts from zero.
SortedFromZero ==
  /\ pass = "sort" /\ k > Len(order)
  /\ pass' = "draw3D" /\ k' = 0
  /\ UNCHANGED <<pools, order, glyph, pLastShader, gpu>>

Sorted ==
  /\ pass = "sort" /\ k > Len(order)
  /\ pass' = "draw3D" /\ k' = 1
  /\ UNCHANGED <<pools, order, glyph, pLastShader, gpu>>

\* The branches of DrawObject up to the draw call: texture, mesh, bones, modes.
Prepared(d, id, r) ==
  [shader |-> d.shader, bound |-> d.bound,
   texture |-> IF r.kind \in {"FlatTexture", "SkinLightTexture"} THEN id
               ELSE d.texture,
   mesh |-> id,
   bones |-> IF r.kind = "SkinLightTexture" THEN id ELSE d.bones,
   alpha |-> (r.kind = "FlatTexture" /\ r.alpha) \/ d.alpha,
   wire |-> r.kind = "Wireframe" \/ (d.wire /\ r.kind # "SkinLightTexture")]

\* Mutant: a wireframe leaves the rasterizer as it is.
RestoredBlendOnly(d, kind) ==
  [d EXCEPT !.alpha = @ /\ kind \notin {"FlatTexture", "SkinLightTexture"}]

\* RestoreState of each branch.
Restored(d, kind) ==
  [shader |-> d.shader, bound |-> d.bound,
   texture |-> d.texture, mesh |-> d.mesh, bones |-> d.bones,
   alpha |-> d.alpha /\ kind \notin {"FlatTexture", "SkinLightTexture"},
   wire |-> d.wire /\ kind # "Wireframe"]

\* The hoisted bind: nothing is bound while the shader stays the same.
Bound(shader) == IF shader = pLastShader THEN dev ELSE Activated(dev, shader)

\* One object of the 3D pass.
DrawObject ==
  /\ pass = "draw3D" /\ k <= Len(order)
  /\ LET r == renders[order[k]]
         id == Object3D(order[k])
         shader == ShaderOf[r.kind]
         d == Prepared(Bound(shader), id, r)
     IN  /\ buffers' = Filled(shader, id, r.kind)
         /\ last' = Picture(id, d, buffers')
         /\ dev' = Restored(d, r.kind)
         /\ pLastShader' = shader
         /\ drawn' = Append(drawn, id)
  /\ k' = k + 1
  /\ UNCHANGED <<pools, pass, order, glyph>>

\* Mutant: the loop stops before the last object.
EndObjectsEarly ==
  /\ pass = "draw3D" /\ k >= Len(order)
  /\ pass' = "draw2D" /\ k' = 1 /\ glyph' = 1
  /\ pLastShader' = None
  /\ UNCHANGED <<pools, order, gpu>>

\* The 2D pass has a hoisted shader of its own.
EndObjects ==
  /\ pass = "draw3D" /\ k > Len(order)
  /\ pass' = "draw2D" /\ k' = 1 /\ glyph' = 1
  /\ pLastShader' = None
  /\ UNCHANGED <<pools, order, gpu>>

\* DrawSprite for the next quad of an entity, on a pipeline with its shader.
SpritePrepared(d, id, alpha) ==
  [shader |-> d.shader, bound |-> d.bound,
   texture |-> id, mesh |-> id, bones |-> d.bones,
   alpha |-> alpha \/ d.alpha, wire |-> d.wire]

DrawSprite ==
  /\ pass = "draw2D" /\ k <= Len(sprites) /\ glyph <= Len(sprites[k])
  /\ LET id == Quad(k, glyph)
         d == SpritePrepared(Bound("Sprite"), id, sprites[k][glyph])
     IN  /\ buffers' = Filled("Sprite", id, "Sprite")
         /\ last' = Picture(id, d, buffers')
         /\ dev' = [d EXCEPT !.alpha = FALSE]
         /\ pLastShader' = "Sprite"
         /\ drawn' = Append(drawn, id)
  /\ glyph' = glyph + 1
  /\ UNCHANGED <<pools, pass, order, k>>

\* The text, or the sprite, is done.
NextSprite ==
  /\ pass = "draw2D" /\ k <= Len(sprites) /\ glyph > Len(sprites[k])
  /\ k' = k + 1 /\ glyph' = 1
  /\ UNCHANGED <<pools, pass, order, pLastShader, gpu>>

EndFrame ==
  /\ pass = "draw2D" /\ k > Len(sprites)
  /\ pass' = "drawn"
  /\ UNCHANGED <<pools, order, k, glyph, pLastShader, gpu>>

\* The frame is shown, the scene goes on, the next frame finds Earlier state.
Present ==
  /\ pass = "drawn" /\ pass' = "idle"
  /\ renders' = <<>> /\ sprites' = <<>>
  /\ order' = <<>> /\ k' = 0 /\ glyph' = 0
  /\ pLastShader' = None
  /\ dev' = Untouched
  /\ buffers' = [s \in Shaders |-> [c \in Slots |-> Earlier]]
  /\ last' = None /\ drawn' = <<>>

\* The sequences over S that are no longer than n.
UpTo(S, n) == UNION {[1..m -> S] : m \in 0..n}

Next ==
  \/ \E r \in UpTo(Renderables, MaxPool), s \in UpTo(Texts, MaxSprites) :
       BeginFrame(r, s)
  \/ Gather \/ Gathered \/ Insert \/ Sorted \/ DrawObject \/ EndObjects
  \/ DrawSprite \/ NextSprite \/ EndFrame \/ Present

Spec == Init /\ [][Next]_vars

------------------------------------------------------------------------------
Objects == {Object3D(i) : i \in 1..Len(renders)}
Quads == UNION {{Quad(i, g) : g \in 1..Len(sprites[i])} : i \in 1..Len(sprites)}
Ids == Objects \cup Quads
Values == Ids \cup {Earlier} \cup {Camera(kind) : kind \in {"Sprite", "Wireframe"}}

Device ==
  [shader : Shaders \cup {Earlier}, bound : [Slots -> Shaders \cup {Earlier}],
   texture : Values, mesh : Values, bones : Values,
   alpha : BOOLEAN, wire : BOOLEAN]

TypeOK ==
  /\ renders \in Seq(Renderable) /\ sprites \in Seq(Seq(BOOLEAN))
  /\ pass \in {"idle", "gather", "sort", "draw3D", "draw2D", "drawn"}
  /\ order \in Seq(1..Len(renders))
  /\ k \in Nat /\ glyph \in Nat
  /\ pass = "gather" => k \in 1..(Len(renders) + 1)
  /\ pass = "sort" => k \in 2..(Len(order) + 2)
  /\ pass = "draw3D" => k \in 1..(Len(order) + 1)
  /\ pass = "draw2D" => k \in 1..(Len(sprites) + 1) /\ glyph > 0
  /\ pLastShader \in Shaders \cup {None}
  /\ dev \in Device
  /\ buffers \in [Shaders -> [Slots -> Values]]
  /\ drawn \in Seq(Ids)

\* What the last draw call drew.
RequiredOf(id) ==
  IF id[1] = "3D" THEN Required(id, renders[id[2]].kind, renders[id[2]].alpha)
  ELSE Required(id, "Sprite", sprites[id[2]][id[3]])

\* Every draw call finds its own shader, constants, texture and modes on the
\* pipeline, whatever the objects before it have left there: binding a shader
\* only when it changes (RenderSystem.cpp:71, SpriteRenderSystem.cpp:117) and
\* setting a mode only for those who need it is as good as setting everything.
EveryDrawIsItsOwn == last # None => last = RequiredOf(last.id)

\* Objects are drawn by ascending layer, and in pool order within a layer (the
\* stable sort of RenderSystem.cpp:48-59): an alpha-blended background comes
\* first and nothing flickers between frames.
DrawnInLayerOrder ==
  \A m, n \in 1..Len(drawn) :
    m < n /\ drawn[m][1] = "3D" /\ drawn[n][1] = "3D" =>
      LET i == drawn[m][2]
          j == drawn[n][2]
      IN  Layer(i) < Layer(j) \/ (Layer(i) = Layer(j) /\ i < j)

\* A frame draws every enabled object once and then every quad of every sprite
\* once, in pool order: the sort loses and repeats nothing, and no quad is drawn
\* under an object.
FrameIsComplete ==
  pass = "drawn" =>
    /\ {drawn[m] : m \in 1..Len(drawn)} =
         {id \in Objects : renders[id[2]].drawEnable} \cup Quads
    /\ \A m, n \in 1..Len(drawn) :
         m < n => /\ drawn[m] # drawn[n]
                  /\ drawn[m] \in Quads =>
                       /\ drawn[n] \in Quads
                       /\ \/ drawn[m][2] < drawn[n][2]
                          \/ drawn[m][2] = drawn[n][2] /\ drawn[m][3] < drawn[n][3]
==============================================================================
