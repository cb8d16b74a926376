----------------------------- MODULE RenderPassProofs ----------------------------
(***************************************************************************)
(* Binding a shader only when it changes draws what binding it every time  *)
(* would draw: RenderPass!EveryDrawIsItsOwn, for pools and texts of any    *)
(* size and objects of any kinds and layers.                               *)
(*                                                                         *)
(* What makes it true is Hoisted: as long as a pass remembers a shader,    *)
(* every constant slot that shader uses holds its own buffer, and between  *)
(* two draws both modes are off.  The types of what the pipeline holds     *)
(* depend on the pools, which change only while the pipeline is clean.     *)
(*                                                                         *)
(* Objects are drawn by layer and, within a layer, in pool order           *)
(* (DrawnInLayerOrder), each that is enabled, and then every quad once, in *)
(* its order (FrameIsComplete).  The loop invariant of the insertion sort  *)
(* is Sorting: up to k the array is in order, and from k on it is as it    *)
(* was gathered, so that what comes later in it also comes later in the    *)
(* pool.  That is why stopping at an equal layer is enough for the sort to *)
(* be stable.                                                              *)
(***************************************************************************)
EXTENDS RenderPass, WellFoundedInduction, TLAPS

Hoisted ==
  /\ pLastShader # None =>
       /\ dev.shader = pLastShader
       /\ \A c \in SlotsOf[pLastShader] : dev.bound[c] = pLastShader
  /\ dev.alpha = FALSE /\ dev.wire = FALSE

Clean ==
  pass = "idle" =>
    /\ order = <<>> /\ drawn = <<>> /\ last = None /\ pLastShader = None
    /\ dev = Untouched
    /\ buffers = [s \in Shaders |-> [c \in Slots |-> Earlier]]

IInv == TypeOK /\ Hoisted /\ Clean /\ EveryDrawIsItsOwn

------------------------------------------------------------------------------
(* Facts about the tables of the shaders.                                  *)

\* Every shader class uses known slots only.
LEMMA SlotsKnown == \A s \in Shaders : SlotsOf[s] \subseteq Slots
BY DEF SlotsOf, Shaders, Slots

\* Each branch of DrawObject, and DrawSprite, transfers every constant that its
\* shader reads.
LEMMA AllTransferred ==
  /\ \A kind \in Kinds : /\ ShaderOf[kind] \in Shaders
                         /\ SlotsOf[ShaderOf[kind]] \subseteq Transferred[kind]
  /\ SlotsOf["Sprite"] \subseteq Transferred["Sprite"]
<1>1. ASSUME NEW kind \in Kinds
      PROVE  /\ ShaderOf[kind] \in Shaders
             /\ SlotsOf[ShaderOf[kind]] \subseteq Transferred[kind]
  <2>1. CASE kind = "FlatTexture" BY <2>1 DEF ShaderOf, SlotsOf, Transferred, Kinds, Shaders
  <2>2. CASE kind = "ColorByVertex" BY <2>2 DEF ShaderOf, SlotsOf, Transferred, Kinds, Shaders
  <2>3. CASE kind = "ConstColorLight" BY <2>3 DEF ShaderOf, SlotsOf, Transferred, Kinds, Shaders
  <2>4. CASE kind = "Wireframe" BY <2>4 DEF ShaderOf, SlotsOf, Transferred, Kinds, Shaders
  <2>5. CASE kind = "SkinLightTexture" BY <2>5 DEF ShaderOf, SlotsOf, Transferred, Kinds, Shaders
  <2> QED BY <2>1, <2>2, <2>3, <2>4, <2>5 DEF Kinds
<1>2. SlotsOf["Sprite"] \subseteq Transferred["Sprite"]
  BY DEF SlotsOf, Transferred, Shaders
<1> QED BY <1>1, <1>2

\* The hoisted bind leaves the pipeline with the shader and its own buffers bound,
\* and nothing else changed.
LEMMA BoundIs ==
  ASSUME TypeOK, Hoisted, NEW s \in Shaders
  PROVE  LET d == Bound(s)
         IN  /\ d \in Device
             /\ d.shader = s
             /\ \A c \in SlotsOf[s] : d.bound[c] = s
             /\ d.alpha = FALSE /\ d.wire = FALSE
<1>1. CASE s = pLastShader
  BY <1>1, ValuesAssumption DEF Bound, Hoisted, TypeOK
<1>2. CASE s # pLastShader
  <2>1. Bound(s) = Activated(dev, s) BY <1>2 DEF Bound
  <2>2. dev \in Device BY DEF TypeOK
  <2>3. Activated(dev, s).bound =
          [c \in Slots |-> IF c \in SlotsOf[s] THEN s ELSE dev.bound[c]]
    BY <2>2 DEF Activated, Device
  <2>4. Activated(dev, s) \in Device
    BY <2>2 DEF Activated, Device
  <2> QED BY <2>1, <2>2, <2>3, <2>4, SlotsKnown DEF Activated, Device, Hoisted
<1> QED BY <1>1, <1>2

\* A draw call through shader s, all of whose slots hold its own buffers, reads
\* what was transferred to s for that object.
LEMMA InputsAreOwn ==
  ASSUME TypeOK, NEW s \in Shaders, NEW id, NEW kind, NEW d,
         SlotsOf[s] \subseteq Transferred[kind],
         d.shader = s, \A c \in SlotsOf[s] : d.bound[c] = s
  PROVE  Picture(id, d, Filled(s, id, kind)).inputs
           = [c \in SlotsOf[s] |-> Datum(id, kind, c)]
<1>1. \A c \in SlotsOf[s] : Filled(s, id, kind)[s][c] = Datum(id, kind, c)
  BY SlotsKnown DEF Filled
<1> QED BY <1>1 DEF Picture

\* An object's own data, and either camera, are values.
LEMMA DatumIsValue ==
  ASSUME NEW id \in Ids, NEW kind, NEW c
  PROVE  Datum(id, kind, c) \in Values
BY DEF Datum, Camera, Values

\* Transfers leave every constant buffer with values.
LEMMA FilledType ==
  ASSUME TypeOK, NEW s, NEW id \in Ids, NEW kind
  PROVE  Filled(s, id, kind) \in [Shaders -> [Slots -> Values]]
BY DatumIsValue DEF TypeOK, Filled

------------------------------------------------------------------------------
(* The two steps that draw.                                                *)

\* RenderSystem::Draw's loop body: the branch of each kind makes the picture the
\* object requires and leaves the modes off.
LEMMA DrawObjectStep == IInv /\ DrawObject => IInv'
<1> SUFFICES ASSUME IInv, DrawObject PROVE IInv'
  OBVIOUS
<1> DEFINE i == order[k]
           r == renders[i]
           id == Object3D(i)
           s == ShaderOf[r.kind]
           b == Bound(s)
           d == Prepared(b, id, r)
<1>0. TypeOK /\ Hoisted BY DEF IInv
<1>1. /\ i \in 1..Len(renders) /\ r \in Renderable /\ r.kind \in Kinds
      /\ id \in Objects /\ id \in Ids
  <2>1. k \in 1..Len(order) /\ order \in Seq(1..Len(renders))
        /\ renders \in Seq(Renderable)
    BY <1>0 DEF TypeOK, DrawObject
  <2>2. i \in 1..Len(renders) BY <2>1
  <2>3. r \in Renderable BY <2>1, <2>2
  <2>4. r.kind \in Kinds BY <2>3 DEF Renderable
  <2> QED BY <2>2, <2>3, <2>4 DEF Objects, Ids
<1>2. s \in Shaders /\ SlotsOf[s] \subseteq Transferred[r.kind]
  BY <1>1, AllTransferred
<1>3. /\ b \in Device /\ b.shader = s /\ \A c \in SlotsOf[s] : b.bound[c] = s
      /\ b.alpha = FALSE /\ b.wire = FALSE
  BY <1>0, <1>2, BoundIs
<1>4. /\ buffers' = Filled(s, id, r.kind) /\ last' = Picture(id, d, buffers')
      /\ dev' = Restored(d, r.kind) /\ pLastShader' = s
      /\ drawn' = Append(drawn, id) /\ k' = k + 1
      /\ UNCHANGED <<renders, sprites, pass, order, glyph>>
      /\ pass = "draw3D"
  BY DEF DrawObject, pools
<1>5. d \in Device
  <2>1. id \in Values BY <1>1 DEF Values
  <2>2. ((r.kind = "FlatTexture" /\ r.alpha) \/ b.alpha) \in BOOLEAN OBVIOUS
  <2>3. (r.kind = "Wireframe" \/ (b.wire /\ r.kind # "SkinLightTexture")) \in BOOLEAN
    OBVIOUS
  <2> QED BY <1>3, <2>1, <2>2, <2>3 DEF Prepared, Device
<1>6. d.shader = s /\ d.bound = b.bound
  BY <1>3 DEF Prepared
<1>7. dev' \in Device
  BY <1>4, <1>5 DEF Restored, Device
<1>8. Ids' = Ids /\ Values' = Values /\ Device' = Device
  BY <1>4 DEF Ids, Objects, Quads, Values, Device
<1>9. TypeOK'
  <2>1. buffers' \in [Shaders -> [Slots -> Values']]
    BY <1>0, <1>1, <1>4, <1>8, FilledType
  <2>2. drawn' \in Seq(Ids')
    BY <1>0, <1>1, <1>4, <1>8 DEF TypeOK
  <2>3. k \in 1..Len(order)
    BY <1>0 DEF TypeOK, DrawObject
  <2>4. pLastShader' \in Shaders \cup {None}
    BY <1>2, <1>4
  <2>5. /\ pass' = "draw3D" /\ k' \in Nat /\ k' \in 1..(Len(order') + 1)
        /\ glyph' \in Nat /\ order' \in Seq(1..Len(renders'))
        /\ renders' \in Seq(Renderable) /\ sprites' \in Seq(Seq(BOOLEAN))
    BY <1>0, <1>4, <2>3 DEF TypeOK
  <2> HIDE DEF i, r, id, s, b, d
  <2> QED BY <1>7, <1>8, <2>1, <2>2, <2>4, <2>5 DEF TypeOK
<1>10. Hoisted'
  <2>1. dev'.alpha = FALSE
    BY <1>3, <1>4 DEF Restored, Prepared
  <2>2. dev'.wire = FALSE
    BY <1>3, <1>4 DEF Restored, Prepared
  <2>3. dev'.shader = s /\ dev'.bound = b.bound
    BY <1>3, <1>4, <1>6 DEF Restored
  <2> QED BY <1>3, <1>4, <2>1, <2>2, <2>3 DEF Hoisted
<1>11. EveryDrawIsItsOwn'
  <2>1. RequiredOf(last.id)' = Required(id, r.kind, r.alpha)
    <3>1. last'.id = id BY <1>4 DEF Picture
    <3>2. id[1] = "3D" /\ id[2] = i BY DEF Object3D
    <3>3. RequiredOf(last.id)' = Required(last'.id, renders'[last'.id[2]].kind,
                                          renders'[last'.id[2]].alpha)
      BY <3>1, <3>2 DEF RequiredOf
    <3> QED BY <1>4, <3>1, <3>2, <3>3
  <2>2. Picture(id, d, buffers').inputs = [c \in SlotsOf[s] |-> Datum(id, r.kind, c)]
    <3>1. \A c \in SlotsOf[s] : d.bound[c] = s BY <1>3, <1>6
    <3> HIDE DEF d, b, r, id, s
    <3>2. Picture(id, d, Filled(s, id, r.kind)).inputs
            = [c \in SlotsOf[s] |-> Datum(id, r.kind, c)]
      BY <1>0, <1>2, <1>6, <3>1, InputsAreOwn
    <3> QED BY <1>4, <3>2
  <2>3. (IF Sampled(d.shader) THEN d.texture ELSE None)
          = (IF Sampled(s) THEN id ELSE None)
    BY <1>1, <1>6 DEF Prepared, Sampled, ShaderOf, Kinds
  <2>4. (IF d.shader = "SkinLightTexture" THEN d.bones ELSE None)
          = (IF r.kind = "SkinLightTexture" THEN id ELSE None)
    BY <1>1, <1>6 DEF Prepared, ShaderOf, Kinds
  <2>5. d.alpha = (r.kind \in {"FlatTexture", "Sprite"} /\ r.alpha)
    BY <1>1, <1>3 DEF Prepared, Kinds
  <2>6. d.wire = (r.kind = "Wireframe")
    BY <1>3 DEF Prepared
  <2>7. d.mesh = id
    BY DEF Prepared
  <2>8. r.kind # "Sprite"
    BY <1>1 DEF Kinds
  <2>9. Picture(id, d, buffers') = Required(id, r.kind, r.alpha)
    BY <1>4, <1>6, <2>2, <2>3, <2>4, <2>5, <2>6, <2>7, <2>8 DEF Picture, Required
  <2> QED BY <1>4, <2>1, <2>9 DEF EveryDrawIsItsOwn
<1>12. Clean'
  BY <1>4 DEF Clean
<1> QED BY <1>9, <1>10, <1>11, <1>12 DEF IInv

\* DrawSprite: a quad makes the picture it requires and leaves blending off.
LEMMA DrawSpriteStep == IInv /\ DrawSprite => IInv'
<1> SUFFICES ASSUME IInv, DrawSprite PROVE IInv'
  OBVIOUS
<1> DEFINE a == sprites[k][glyph]
           id == Quad(k, glyph)
           b == Bound("Sprite")
           d == SpritePrepared(b, id, a)
<1>0. TypeOK /\ Hoisted BY DEF IInv
<1>1. a \in BOOLEAN /\ id \in Ids
  <2>1. k \in 1..Len(sprites) /\ sprites \in Seq(Seq(BOOLEAN))
    BY <1>0 DEF TypeOK, DrawSprite
  <2>2. sprites[k] \in Seq(BOOLEAN) BY <2>1
  <2>3. glyph \in 1..Len(sprites[k])
    BY <1>0, <2>1, <2>2 DEF TypeOK, DrawSprite
  <2> QED BY <2>1, <2>2, <2>3 DEF Quads, Ids
<1>2. "Sprite" \in Shaders /\ SlotsOf["Sprite"] \subseteq Transferred["Sprite"]
  BY AllTransferred DEF Shaders, SlotsOf
<1>3. /\ b \in Device /\ b.shader = "Sprite"
      /\ \A c \in SlotsOf["Sprite"] : b.bound[c] = "Sprite"
      /\ b.alpha = FALSE /\ b.wire = FALSE
  BY <1>0, <1>2, BoundIs
<1>4. /\ buffers' = Filled("Sprite", id, "Sprite") /\ last' = Picture(id, d, buffers')
      /\ dev' = [d EXCEPT !.alpha = FALSE] /\ pLastShader' = "Sprite"
      /\ drawn' = Append(drawn, id) /\ glyph' = glyph + 1
      /\ UNCHANGED <<renders, sprites, pass, order, k>>
      /\ pass = "draw2D"
  BY DEF DrawSprite, pools
<1>5. d \in Device /\ d.shader = "Sprite" /\ d.bound = b.bound
  <2>1. id \in Values BY <1>1 DEF Values
  <2>2. (a \/ b.alpha) \in BOOLEAN OBVIOUS
  <2> QED BY <1>3, <2>1, <2>2 DEF SpritePrepared, Device
<1>6. /\ dev' \in Device /\ dev'.shader = "Sprite" /\ dev'.bound = b.bound
      /\ dev'.alpha = FALSE /\ dev'.wire = FALSE
  BY <1>3, <1>4, <1>5 DEF SpritePrepared, Device
<1>7. Ids' = Ids /\ Values' = Values /\ Device' = Device
  BY <1>4 DEF Ids, Objects, Quads, Values, Device
<1>8. TypeOK'
  <2>1. buffers' \in [Shaders -> [Slots -> Values']]
    BY <1>0, <1>1, <1>4, <1>7, FilledType
  <2>2. drawn' \in Seq(Ids')
    BY <1>0, <1>1, <1>4, <1>7 DEF TypeOK
  <2>3. glyph' \in Nat /\ glyph' > 0
    BY <1>0, <1>4 DEF TypeOK
  <2> QED BY <1>0, <1>2, <1>4, <1>6, <1>7, <2>1, <2>2, <2>3 DEF TypeOK
<1>9. Hoisted'
  BY <1>3, <1>4, <1>6 DEF Hoisted
<1>10. EveryDrawIsItsOwn'
  <2>1. RequiredOf(last.id)' = Required(id, "Sprite", a)
    <3>1. last'.id = id BY <1>4 DEF Picture
    <3>2. id[1] # "3D" /\ id[2] = k /\ id[3] = glyph BY DEF Quad
    <3>3. RequiredOf(last.id)'
            = Required(last'.id, "Sprite", sprites'[last'.id[2]][last'.id[3]])
      BY <3>1, <3>2 DEF RequiredOf
    <3> QED BY <1>4, <3>1, <3>2, <3>3
  <2>2. Picture(id, d, buffers').inputs
          = [c \in SlotsOf["Sprite"] |-> Datum(id, "Sprite", c)]
    <3>1. \A c \in SlotsOf["Sprite"] : d.bound[c] = "Sprite" BY <1>3, <1>5
    <3> HIDE DEF d, b, id
    <3>2. Picture(id, d, Filled("Sprite", id, "Sprite")).inputs
            = [c \in SlotsOf["Sprite"] |-> Datum(id, "Sprite", c)]
      BY <1>0, <1>2, <1>5, <3>1, InputsAreOwn
    <3> QED BY <1>4, <3>2
  <2>3. d.texture = id /\ d.mesh = id /\ d.wire = FALSE /\ d.alpha = a
    BY <1>1, <1>3 DEF SpritePrepared
  <2>4. Picture(id, d, buffers') = Required(id, "Sprite", a)
    BY <1>1, <1>5, <2>2, <2>3 DEF Picture, Required, Sampled
  <2> QED BY <1>4, <2>1, <2>4 DEF EveryDrawIsItsOwn
<1>11. Clean'
  BY <1>4 DEF Clean
<1> QED BY <1>8, <1>9, <1>10, <1>11 DEF IInv

------------------------------------------------------------------------------
(* The insertion sort.                                                     *)

\* The inner loop stops somewhere in the sorted part: behind the last object of
\* no greater layer, or at the front.
LEMMA PositionIs ==
  ASSUME TypeOK, NEW a \in 1..Len(order)
  PROVE  /\ Position(a) \in 1..a
         /\ Position(a) = 1 \/ Layer(order[Position(a) - 1]) <= Layer(order[a])
         /\ \A b \in Position(a)..(a - 1) : Layer(order[b]) > Layer(order[a])
<1> DEFINE T == {p \in 1..a : \A b \in p..(a - 1) : Layer(order[b]) > Layer(order[a])}
<1>1. Len(order) \in Nat /\ \A b \in 1..Len(order) : Layer(order[b]) \in Int
  <2>1. order \in Seq(1..Len(renders)) /\ renders \in Seq(Renderable)
    BY DEF TypeOK
  <2>2. ASSUME NEW b \in 1..Len(order) PROVE Layer(order[b]) \in Int
    <3>1. order[b] \in 1..Len(renders) BY <2>1
    <3>2. renders[order[b]] \in Renderable BY <2>1, <3>1
    <3> QED BY <3>2 DEF Layer, Renderable
  <2> QED BY <2>1, <2>2
<1>2. a \in T /\ T \subseteq Nat
  BY <1>1
<1>3. PICK x \in T : \A y \in T : <<y, x>> \notin OpToRel(<, Nat)
  <2> HIDE DEF T
  <2> QED BY <1>2, WFMin, NatLessThanWellFounded, Zenon
<1>4. \A y \in T : ~(y < x)
  BY <1>2, <1>3 DEF OpToRel
<1>5. x = 1 \/ Layer(order[x - 1]) <= Layer(order[a])
  <2> SUFFICES ASSUME x # 1 PROVE Layer(order[x - 1]) <= Layer(order[a])
    OBVIOUS
  <2>1. x \in 2..a /\ x - 1 \in 1..a /\ x - 1 < x BY <1>1
  <2>2. x - 1 \notin T BY <1>4, <2>1
  <2>3. PICK b \in (x - 1)..(a - 1) : ~(Layer(order[b]) > Layer(order[a]))
    BY <2>1, <2>2
  <2>4. b = x - 1 BY <2>1, <2>3, <1>1
  <2> QED BY <1>1, <2>1, <2>3, <2>4
<1>6. \E p \in 1..a :
        /\ p = 1 \/ Layer(order[p - 1]) <= Layer(order[a])
        /\ \A b \in p..(a - 1) : Layer(order[b]) > Layer(order[a])
  BY <1>5
<1> QED BY <1>6 DEF Position

------------------------------------------------------------------------------
(* The steps that draw nothing.                                            *)

\* What a step that leaves pools, pipeline and pictures alone has to show.
LEMMA QuietStep ==
  ASSUME IInv, UNCHANGED <<renders, sprites, dev, buffers, last, drawn>>,
         pass' \in {"gather", "sort", "draw3D", "draw2D", "drawn"},
         order' \in Seq(1..Len(renders)), k' \in Nat, glyph' \in Nat,
         pass' = "gather" => k' \in 1..(Len(renders) + 1),
         pass' = "sort" => k' \in 2..(Len(order') + 2),
         pass' = "draw3D" => k' \in 1..(Len(order') + 1),
         pass' = "draw2D" => k' \in 1..(Len(sprites) + 1) /\ glyph' > 0,
         pLastShader' \in {pLastShader, None}
  PROVE  IInv'
<1>1. TypeOK /\ Hoisted /\ EveryDrawIsItsOwn BY DEF IInv
<1>2. Ids' = Ids /\ Values' = Values /\ Device' = Device
  BY DEF Ids, Objects, Quads, Values, Device
<1>3. TypeOK' BY <1>1, <1>2 DEF TypeOK
<1>4. Hoisted' BY <1>1 DEF Hoisted
<1>5. Clean' BY DEF Clean
<1>6. EveryDrawIsItsOwn'
  <2>1. RequiredOf(last.id)' = RequiredOf(last.id) BY DEF RequiredOf
  <2> QED BY <1>1, <2>1 DEF EveryDrawIsItsOwn
<1> QED BY <1>3, <1>4, <1>5, <1>6 DEF IInv

\* An untouched pipeline is a pipeline, for any pools.
LEMMA UntouchedType ==
  /\ Untouched \in Device
  /\ [s \in Shaders |-> [c \in Slots |-> Earlier]] \in [Shaders -> [Slots -> Values]]
BY DEF Untouched, Device, Values

\* Between two frames the invariant holds.
LEMMA InitHolds == Init => IInv
<1> SUFFICES ASSUME Init PROVE IInv
  OBVIOUS
<1> USE DEF Init
<1>1. TypeOK BY UntouchedType DEF TypeOK
<1>2. Hoisted BY DEF Hoisted, Untouched
<1>3. Clean BY DEF Clean
<1>4. EveryDrawIsItsOwn BY DEF EveryDrawIsItsOwn
<1> QED BY <1>1, <1>2, <1>3, <1>4 DEF IInv

\* A frame may begin with any pools.
LEMMA BeginFrameStep ==
  ASSUME IInv, NEW r \in UpTo(Renderables, MaxPool), NEW s \in UpTo(Texts, MaxSprites),
         BeginFrame(r, s)
  PROVE  IInv'
<1>1. /\ pass = "idle" /\ pass' = "gather" /\ renders' = r /\ sprites' = s /\ k' = 1
      /\ UNCHANGED <<order, glyph, pLastShader, dev, buffers, last, drawn>>
  BY DEF BeginFrame, gpu
<1>2. TypeOK /\ Hoisted /\ Clean BY DEF IInv
<1>3. /\ order = <<>> /\ drawn = <<>> /\ last = None /\ pLastShader = None
      /\ dev = Untouched /\ buffers = [z \in Shaders |-> [c \in Slots |-> Earlier]]
  BY <1>1, <1>2 DEF Clean
<1>4. r \in Seq(Renderable) /\ s \in Seq(Seq(BOOLEAN))
  <2>1. PICK m \in 0..MaxPool : r \in [1..m -> Renderables] BY DEF UpTo
  <2>2. PICK n \in 0..MaxSprites : s \in [1..n -> Texts] BY DEF UpTo
  <2> QED BY <2>1, <2>2, RenderablesAssumption, TextsAssumption, BoundsAssumption
<1>5. (Untouched \in Device)' /\ buffers' \in [Shaders -> [Slots -> Values']]
  BY <1>1, <1>3 DEF Untouched, Device, Values
<1>6. TypeOK'
  <2>1. Len(r) \in Nat BY <1>4
  <2>2. (Untouched \in Device)' => dev' \in Device'
    BY <1>1, <1>3 DEF Untouched
  <2> QED BY <1>1, <1>2, <1>3, <1>4, <1>5, <2>1, <2>2 DEF TypeOK
<1>7. Hoisted' BY <1>1, <1>2 DEF Hoisted
<1>8. Clean' BY <1>1 DEF Clean
<1>9. EveryDrawIsItsOwn' BY <1>1, <1>3 DEF EveryDrawIsItsOwn
<1> QED BY <1>6, <1>7, <1>8, <1>9 DEF IInv

\* A round of the insertion sort leaves indices of the pool in the array.
LEMMA InsertType ==
  ASSUME TypeOK, Insert
  PROVE  order' \in Seq(1..Len(renders)) /\ Len(order') = Len(order)
<1>1. /\ order \in Seq(1..Len(renders)) /\ k \in 1..Len(order)
  BY DEF TypeOK, Insert
<1>2. Position(k) \in 1..k BY <1>1, PositionIs
<1>3. order' = [b \in 1..Len(order) |->
                 IF b < Position(k) \/ b > k THEN order[b]
                 ELSE IF b = Position(k) THEN order[k] ELSE order[b - 1]]
  BY DEF Insert
<1> HIDE DEF Insert
<1>4. \A b \in 1..Len(order) : order'[b] \in 1..Len(renders)
  BY <1>1, <1>2, <1>3
<1>5. order' \in [1..Len(order) -> 1..Len(renders)]
  BY <1>3, <1>4
<1>6. Len(order) \in Nat /\ DOMAIN order' = 1..Len(order)
  BY <1>1, <1>5
<1>7. order' \in Seq(1..Len(renders))
  BY <1>5, <1>6
<1> QED BY <1>6, <1>7

\* Every step preserves the invariant.
LEMMA NextStep == IInv /\ [Next]_vars => IInv'
<1> SUFFICES ASSUME IInv, [Next]_vars PROVE IInv'
  OBVIOUS
<1>0. TypeOK BY DEF IInv
<1> USE DEF pools, gpu
<1>1. ASSUME NEW r \in UpTo(Renderables, MaxPool), NEW s \in UpTo(Texts, MaxSprites),
             BeginFrame(r, s)
      PROVE  IInv'
  BY <1>1, BeginFrameStep
<1>2. CASE Gather
  <2>1. order' \in Seq(1..Len(renders))
    <3>1. k \in 1..Len(renders) /\ order \in Seq(1..Len(renders))
      BY <1>0, <1>2 DEF Gather, TypeOK
    <3>2. Append(order, k) \in Seq(1..Len(renders)) BY <3>1
    <3> QED BY <1>2, <3>1, <3>2 DEF Gather
  <2> QED BY <1>0, <1>2, <2>1, QuietStep DEF Gather, TypeOK
<1>3. CASE Gathered
  BY <1>0, <1>3, QuietStep DEF Gathered, TypeOK
<1>4. CASE Insert
  BY <1>0, <1>4, InsertType, QuietStep DEF Insert, TypeOK
<1>5. CASE Sorted
  BY <1>0, <1>5, QuietStep DEF Sorted, TypeOK
<1>6. CASE DrawObject BY <1>6, DrawObjectStep
<1>7. CASE EndObjects
  BY <1>0, <1>7, QuietStep DEF EndObjects, TypeOK
<1>8. CASE DrawSprite BY <1>8, DrawSpriteStep
<1>9. CASE NextSprite
  BY <1>0, <1>9, QuietStep DEF NextSprite, TypeOK
<1>10. CASE EndFrame
  BY <1>0, <1>10, QuietStep DEF EndFrame, TypeOK
<1>11. CASE Present
  <2>1. /\ (Untouched \in Device)'
        /\ buffers' \in [Shaders -> [Slots -> Values']]
    BY <1>11 DEF Present, Untouched, Device, Values
  <2>2. (Untouched \in Device)' => dev' \in Device'
    BY <1>11 DEF Present, Untouched
  <2>3. TypeOK' BY <1>11, <2>1, <2>2 DEF Present, TypeOK
  <2>4. Hoisted' BY <1>11 DEF Present, Hoisted, Untouched
  <2>5. Clean' BY <1>11 DEF Present, Clean, Untouched
  <2>6. EveryDrawIsItsOwn' BY <1>11 DEF Present, EveryDrawIsItsOwn
  <2> QED BY <2>3, <2>4, <2>5, <2>6 DEF IInv
<1>12. CASE UNCHANGED vars
  <2>1. RequiredOf(last.id)' = RequiredOf(last.id)
    BY <1>12 DEF vars, RequiredOf
  <2>2. Ids' = Ids /\ Values' = Values /\ Device' = Device
    BY <1>12 DEF vars, Ids, Objects, Quads, Values, Device
  <2>3. TypeOK' BY <1>0, <1>12, <2>2 DEF vars, TypeOK
  <2> QED BY <1>12, <2>1, <2>3 DEF vars, IInv, Hoisted, Clean, EveryDrawIsItsOwn
<1> QED
  BY <1>1, <1>2, <1>3, <1>4, <1>5, <1>6, <1>7, <1>8, <1>9, <1>10, <1>11, <1>12
  DEF Next

\* The types hold in every reachable state, and with them the bounds of the loop
\* variables (RenderSystem.cpp:35-83, SpriteRenderSystem.cpp:30-52).
THEOREM TypeCorrect == Spec => []TypeOK
<1>1. IInv => TypeOK BY DEF IInv
<1> QED BY InitHolds, NextStep, <1>1, PTL DEF Spec

\* However many objects of whatever kinds are in the pools, in whatever order,
\* each draw call finds its own shader, constants, texture and modes bound: the
\* hoisted bind (RenderSystem.cpp:71) and the modes set and set back per object
\* draw the pictures that setting everything every time would draw.
THEOREM DrawsAreOwn == Spec => []EveryDrawIsItsOwn
<1>1. IInv => EveryDrawIsItsOwn BY DEF IInv
<1> QED BY InitHolds, NextStep, <1>1, PTL DEF Spec

------------------------------------------------------------------------------
(* The order of drawing.                                                   *)

InOrder(i, j) == Layer(i) < Layer(j) \/ (Layer(i) = Layer(j) /\ i < j)

Gathering ==
  pass = "gather" =>
    /\ drawn = <<>>
    /\ \A m \in 1..Len(order) : order[m] < k
    /\ \A m, n \in 1..Len(order) : m < n => order[m] < order[n]

Sorting ==
  pass = "sort" =>
    /\ drawn = <<>>
    /\ \A m, n \in 1..Len(order) :
         m < n => IF n < k THEN InOrder(order[m], order[n]) ELSE order[m] < order[n]

Drawing ==
  pass \in {"draw3D", "draw2D", "drawn"} =>
    /\ \A m, n \in 1..Len(order) : m < n => InOrder(order[m], order[n])
    /\ pass = "draw3D" => Len(drawn) = k - 1
    /\ pass # "draw3D" => Len(drawn) >= Len(order)
    /\ \A m \in 1..Len(drawn) :
         IF m <= Len(order) THEN drawn[m] = Object3D(order[m]) ELSE drawn[m][1] = "2D"

OInv == IInv /\ Gathering /\ Sorting /\ Drawing

------------------------------------------------------------------------------
\* The array holds indices of the pool, and every object has a layer.
LEMMA LayersAreNumbers ==
  ASSUME TypeOK
  PROVE  /\ Len(order) \in Nat
         /\ \A m \in 1..Len(order) : order[m] \in Int /\ Layer(order[m]) \in Int
<1>1. order \in Seq(1..Len(renders)) /\ renders \in Seq(Renderable)
  BY DEF TypeOK
<1>2. ASSUME NEW m \in 1..Len(order)
      PROVE  order[m] \in Int /\ Layer(order[m]) \in Int
  <2>1. order[m] \in 1..Len(renders) BY <1>1
  <2>2. renders[order[m]] \in Renderable BY <1>1, <2>1
  <2> QED BY <2>1, <2>2 DEF Layer, Renderable
<1> QED BY <1>1, <1>2

\* A round of the insertion sort lengthens the part that is in order by one and
\* leaves the rest as gathered.
LEMMA InsertStep == OInv /\ Insert => Sorting'
<1> SUFFICES ASSUME OInv, Insert PROVE Sorting'
  OBVIOUS
<1> DEFINE p == Position(k)
<1>1. TypeOK /\ Sorting BY DEF OInv, IInv
<1>2. /\ k \in 1..Len(order) /\ k' = k + 1 /\ pass = "sort"
      /\ UNCHANGED <<renders, drawn>>
      /\ order' = [b \in 1..Len(order) |->
                     IF b < p \/ b > k THEN order[b]
                     ELSE IF b = p THEN order[k] ELSE order[b - 1]]
  BY <1>1 DEF TypeOK, Insert, pools, gpu
<1>3. /\ p \in 1..k
      /\ p = 1 \/ Layer(order[p - 1]) <= Layer(order[k])
      /\ \A b \in p..(k - 1) : Layer(order[b]) > Layer(order[k])
  BY <1>1, <1>2, PositionIs
<1>4. /\ Len(order) \in Nat
      /\ \A m \in 1..Len(order) : order[m] \in Int /\ Layer(order[m]) \in Int
  BY <1>1, LayersAreNumbers
<1>5. Len(order') = Len(order)
  BY <1>1, InsertType
<1>6. \A i : Layer(i)' = Layer(i)
  BY <1>2 DEF Layer
<1>7. \A m, n \in 1..Len(order) :
        m < n => IF n < k THEN InOrder(order[m], order[n]) ELSE order[m] < order[n]
  BY <1>1, <1>2 DEF Sorting
<1> HIDE DEF p
<1>8. ASSUME NEW m \in 1..Len(order), NEW n \in 1..Len(order), m < n, n > k
      PROVE  order'[m] < order'[n]
  <2>1. order'[n] = order[n] BY <1>2, <1>8
  <2>2. PICK j \in 1..Len(order) : j < n /\ order'[m] = order[j]
    BY <1>2, <1>3, <1>4, <1>8
  <2> QED BY <1>2, <1>4, <1>7, <1>8, <2>1, <2>2
<1>9. ASSUME NEW m \in 1..Len(order), NEW n \in 1..Len(order), m < n, n <= k
      PROVE  InOrder(order'[m], order'[n])
  <2>1. CASE n < p
    BY <1>2, <1>3, <1>4, <1>7, <1>9, <2>1
  <2>2. CASE n = p
    <3>1. order'[m] = order[m] /\ order'[n] = order[k]
      BY <1>2, <1>3, <1>4, <1>9, <2>2
    <3>2. order[m] < order[k] BY <1>2, <1>3, <1>4, <1>7, <1>9, <2>2
    <3>3. p - 1 \in 1..Len(order) /\ p - 1 < k /\ (m = p - 1 \/ m < p - 1)
      BY <1>2, <1>3, <1>4, <1>9, <2>2
    <3>4. Layer(order[m]) <= Layer(order[p - 1])
      BY <1>4, <1>7, <3>3 DEF InOrder
    <3>5. Layer(order[m]) <= Layer(order[k])
      BY SMTT(30), <1>2, <1>3, <1>4, <1>9, <2>2, <3>3, <3>4
    <3> QED BY <1>2, <1>4, <3>1, <3>2, <3>5 DEF InOrder
  <2>3. CASE n > p
    <3>1. order'[n] = order[n - 1] /\ n - 1 \in p..(k - 1) /\ n - 1 \in 1..Len(order)
      BY <1>2, <1>3, <1>4, <1>9, <2>3
    <3>2. CASE m = p
      BY <1>2, <1>3, <1>4, <1>9, <3>1, <3>2 DEF InOrder
    <3>3. CASE m < p
      BY <1>2, <1>3, <1>4, <1>7, <1>9, <3>1, <3>3
    <3>4. CASE m > p
      <4>1. order'[m] = order[m - 1] /\ m - 1 \in 1..Len(order)
        BY <1>2, <1>3, <1>4, <1>9, <2>3, <3>4
      <4>2. m - 1 < n - 1 /\ n - 1 < k BY <1>2, <1>3, <1>4, <1>9, <3>1
      <4> QED BY <1>7, <3>1, <4>1, <4>2
    <3> QED BY <1>3, <3>2, <3>3, <3>4
  <2> QED BY <1>3, <2>1, <2>2, <2>3
<1>10. ASSUME NEW m \in 1..Len(order'), NEW n \in 1..Len(order'), m < n
       PROVE  IF n < k' THEN InOrder(order[m], order[n])' ELSE order'[m] < order'[n]
  <2>1. InOrder(order[m], order[n])' <=> InOrder(order'[m], order'[n])
    BY <1>6 DEF InOrder
  <2>2. m \in 1..Len(order) /\ n \in 1..Len(order) BY <1>5
  <2>3. CASE n <= k
    <3>1. InOrder(order'[m], order'[n]) BY <1>9, <1>10, <2>2, <2>3
    <3> QED BY <1>2, <1>4, <2>1, <2>2, <2>3, <3>1
  <2>4. CASE n > k
    <3>1. order'[m] < order'[n] BY <1>8, <1>10, <2>2, <2>4
    <3> QED BY <1>2, <1>4, <2>2, <2>4, <3>1
  <2> QED BY <1>2, <1>4, <2>2, <2>3, <2>4
<1> QED BY <1>1, <1>2, <1>10 DEF Sorting

\* The other steps that the array or the pictures take part in.
LEMMA OrderStep == OInv /\ [Next]_vars => OInv'
<1> SUFFICES ASSUME OInv, [Next]_vars PROVE OInv'
  OBVIOUS
<1>0. IInv /\ TypeOK /\ Clean /\ Gathering /\ Sorting /\ Drawing
  BY DEF OInv, IInv
<1>1. IInv' BY <1>0, NextStep
<1> SUFFICES Gathering' /\ Sorting' /\ Drawing'
  BY <1>1 DEF OInv
<1>2. /\ Len(order) \in Nat
      /\ \A m \in 1..Len(order) : order[m] \in Int /\ Layer(order[m]) \in Int
  BY <1>0, LayersAreNumbers
<1>3. ASSUME UNCHANGED renders
      PROVE  \A i, j : InOrder(i, j)' <=> InOrder(i, j)
  BY <1>3 DEF InOrder, Layer
<1> USE DEF pools, gpu
<1>4. ASSUME NEW r, NEW s, BeginFrame(r, s)
      PROVE  Gathering' /\ Sorting' /\ Drawing'
  BY <1>0, <1>4 DEF BeginFrame, Clean, Gathering, Sorting, Drawing
<1>5. CASE Gather
  <2>1. k \in 1..Len(renders) /\ order \in Seq(1..Len(renders)) /\ pass = "gather"
    BY <1>0, <1>5 DEF Gather, TypeOK
  <2>2. Gathering'
    <3>1. CASE renders[k].drawEnable
      <4>1. order' = Append(order, k) /\ k' = k + 1 /\ drawn' = drawn
        BY <1>5, <3>1 DEF Gather
      <4>2. /\ Len(order') = Len(order) + 1 /\ order'[Len(order) + 1] = k
            /\ \A m \in 1..Len(order) : order'[m] = order[m]
        BY <2>1, <4>1
      <4>3. \A m \in 1..Len(order) : order[m] < k
        BY <1>0, <2>1 DEF Gathering
      <4>4. \A m, n \in 1..Len(order) : m < n => order[m] < order[n]
        BY <1>0, <2>1 DEF Gathering
      <4>5. \A m \in 1..Len(order') : order'[m] < k'
        BY <1>2, <2>1, <4>1, <4>2, <4>3
      <4>6. \A m, n \in 1..Len(order') : m < n => order'[m] < order'[n]
        <5> SUFFICES ASSUME NEW m \in 1..Len(order'), NEW n \in 1..Len(order'), m < n
                     PROVE  order'[m] < order'[n]
          OBVIOUS
        <5>1. m \in 1..Len(order) /\ order'[m] = order[m] BY <1>2, <4>2
        <5>2. CASE n = Len(order) + 1 BY <4>2, <4>3, <5>1, <5>2
        <5>3. CASE n \in 1..Len(order) BY <4>2, <4>4, <5>1, <5>3
        <5> QED BY <1>2, <4>2, <5>2, <5>3
      <4> QED BY <1>0, <2>1, <4>1, <4>5, <4>6 DEF Gathering
    <3>2. CASE ~renders[k].drawEnable
      BY <1>0, <1>2, <1>5, <2>1, <3>2 DEF Gather, Gathering
    <3> QED BY <3>1, <3>2
  <2> QED BY <1>5, <2>2 DEF Gather, Sorting, Drawing
<1>6. CASE Gathered
  <2>1. \A m, n \in 1..Len(order) : m < n => order[m] < order[n]
    BY <1>0, <1>6 DEF Gathered, Gathering
  <2>2. Sorting'
    BY <1>0, <1>2, <1>6, <2>1 DEF Gathered, Gathering, Sorting
  <2> QED BY <1>6, <2>2 DEF Gathered, Gathering, Drawing
<1>7. CASE Insert
  <2>1. Sorting' BY <1>7, InsertStep
  <2> QED BY <1>7, <2>1 DEF Insert, Gathering, Drawing
<1>8. CASE Sorted
  <2>1. pass = "sort" /\ k > Len(order) /\ k \in Nat
    BY <1>0, <1>8 DEF Sorted, TypeOK
  <2>2. \A m, n \in 1..Len(order) : m < n => InOrder(order[m], order[n])
    BY <1>0, <1>2, <2>1 DEF Sorting
  <2>3. drawn = <<>> BY <1>0, <2>1 DEF Sorting
  <2>4. /\ pass' = "draw3D" /\ k' = 1
        /\ UNCHANGED <<renders, order, drawn>>
    BY <1>8 DEF Sorted
  <2>5. Drawing' BY <1>3, <2>2, <2>3, <2>4 DEF Drawing
  <2> QED BY <2>4, <2>5 DEF Gathering, Sorting
<1>9. CASE DrawObject
  <2>1. /\ pass = "draw3D" /\ k \in 1..Len(order) /\ k' = k + 1
        /\ drawn' = Append(drawn, Object3D(order[k]))
        /\ UNCHANGED <<renders, order, pass>>
    BY <1>0, <1>9 DEF DrawObject, TypeOK
  <2>2. drawn \in Seq(Ids) /\ Len(drawn) = k - 1
    BY <1>0, <2>1 DEF TypeOK, Drawing
  <2>3. /\ Len(drawn') = k /\ drawn'[k] = Object3D(order[k])
        /\ \A m \in 1..(k - 1) : drawn'[m] = drawn[m]
    BY <2>1, <2>2
  <2>4. \A m \in 1..(k - 1) : drawn[m] = Object3D(order[m])
    BY <1>0, <1>2, <2>1, <2>2 DEF Drawing
  <2>5. \A m \in 1..Len(drawn') : m <= Len(order) /\ drawn'[m] = Object3D(order[m])
    BY <1>2, <2>1, <2>3, <2>4
  <2>6. \A m, n \in 1..Len(order) : m < n => InOrder(order[m], order[n])
    BY <1>0, <2>1 DEF Drawing
  <2>7. \A m : Object3D(order[m])' = Object3D(order[m])
    BY <2>1 DEF Object3D
  <2>8. Drawing'
    BY <1>2, <1>3, <2>1, <2>3, <2>5, <2>6, <2>7 DEF Drawing
  <2> QED BY <2>1, <2>8 DEF Gathering, Sorting
<1>10. CASE EndObjects
  <2>1. /\ pass = "draw3D" /\ k = Len(order) + 1 /\ pass' = "draw2D"
        /\ UNCHANGED <<renders, order, drawn>>
    BY SMTT(30), <1>0, <1>2, <1>10 DEF EndObjects, TypeOK
  <2>2. Len(drawn) = Len(order) BY <1>0, <1>2, <2>1 DEF Drawing
  <2>3. Drawing'
    BY <1>0, <1>2, <1>3, <2>1, <2>2 DEF Drawing, Object3D
  <2> QED BY <2>1, <2>3 DEF Gathering, Sorting
<1>11. CASE DrawSprite
  <2>1. /\ pass = "draw2D" /\ drawn' = Append(drawn, Quad(k, glyph))
        /\ UNCHANGED <<renders, order, pass>>
    BY <1>11 DEF DrawSprite
  <2>2. drawn \in Seq(Ids) /\ Len(drawn) >= Len(order)
    BY <1>0, <2>1 DEF TypeOK, Drawing
  <2>3. /\ Len(drawn') = Len(drawn) + 1 /\ Len(drawn) \in Nat
        /\ drawn'[Len(drawn) + 1][1] = "2D"
        /\ \A m \in 1..Len(drawn) : drawn'[m] = drawn[m]
    BY <2>1, <2>2 DEF Quad
  <2>4. \A m \in 1..Len(drawn) :
          IF m <= Len(order) THEN drawn[m] = Object3D(order[m]) ELSE drawn[m][1] = "2D"
    BY <1>0, <2>1 DEF Drawing
  <2>5. \A m \in 1..Len(drawn') :
          IF m <= Len(order) THEN drawn'[m] = Object3D(order[m]) ELSE drawn'[m][1] = "2D"
    BY <1>2, <2>2, <2>3, <2>4
  <2>6. \A m, n \in 1..Len(order) : m < n => InOrder(order[m], order[n])
    BY <1>0, <2>1 DEF Drawing
  <2>7. \A m : Object3D(order[m])' = Object3D(order[m])
    BY <2>1 DEF Object3D
  <2>8. Drawing'
    BY <1>2, <1>3, <2>1, <2>2, <2>3, <2>5, <2>6, <2>7 DEF Drawing
  <2> QED BY <2>1, <2>8 DEF Gathering, Sorting
<1>12. CASE NextSprite
  BY <1>0, <1>3, <1>12 DEF NextSprite, Gathering, Sorting, Drawing, Object3D
<1>13. CASE EndFrame
  BY <1>0, <1>3, <1>13 DEF EndFrame, Gathering, Sorting, Drawing, Object3D
<1>14. CASE Present
  BY <1>14 DEF Present, Gathering, Sorting, Drawing
<1>15. CASE UNCHANGED vars
  BY <1>0, <1>3, <1>15 DEF vars, Gathering, Sorting, Drawing, Object3D
<1> QED
  BY <1>4, <1>5, <1>6, <1>7, <1>8, <1>9, <1>10, <1>11, <1>12, <1>13, <1>14, <1>15
  DEF Next

\* The drawing passes draw in the order that the sort has left.
LEMMA OrderIsDrawn == OInv => DrawnInLayerOrder
<1> SUFFICES ASSUME OInv, NEW m \in 1..Len(drawn), NEW n \in 1..Len(drawn),
                    m < n, drawn[m][1] = "3D", drawn[n][1] = "3D"
             PROVE  InOrder(drawn[m][2], drawn[n][2])
  BY DEF DrawnInLayerOrder, InOrder
<1>1. TypeOK /\ Clean /\ Gathering /\ Sorting /\ Drawing BY DEF OInv, IInv
<1>2. pass \in {"draw3D", "draw2D", "drawn"}
  <2>1. drawn # <<>> OBVIOUS
  <2> QED BY <1>1, <2>1 DEF TypeOK, Clean, Gathering, Sorting
<1>3. Len(order) \in Nat BY <1>1, LayersAreNumbers
<1>4. /\ m <= Len(order) /\ drawn[m] = Object3D(order[m])
      /\ n <= Len(order) /\ drawn[n] = Object3D(order[n])
  BY <1>1, <1>2 DEF Drawing
<1>5. InOrder(order[m], order[n])
  BY <1>1, <1>2, <1>3, <1>4 DEF Drawing
<1> QED BY <1>4, <1>5 DEF Object3D

\* RenderSystem::Draw draws the objects of every frame by ascending layer, and
\* those of one layer in pool order: the insertion sort of RenderSystem.cpp:48-59
\* sorts, and is stable, for pools of any size.
THEOREM LayersAscend == Spec => []DrawnInLayerOrder
<1>1. Init => OInv
  <2>1. Init => Gathering /\ Sorting /\ Drawing
    BY DEF Init, Gathering, Sorting, Drawing
  <2> QED BY <2>1, InitHolds DEF OInv
<1> QED BY <1>1, OrderStep, OrderIsDrawn, PTL DEF Spec

------------------------------------------------------------------------------
(* All of a frame is drawn.                                                *)

\* The first loop has gathered the enabled objects up to k; the sort loses none.
Enabled ==
  pass # "idle" =>
    \A i \in 1..Len(renders) :
      renders[i].drawEnable /\ (pass = "gather" => i < k)
        <=> \E m \in 1..Len(order) : order[m] = i

\* The 2D pass has drawn quad g of sprite i.
Passed(i, g) == pass = "drawn" \/ i < k \/ (i = k /\ g < glyph)

\* One quad before the other.
Earlier2D(id, jd) == id[2] < jd[2] \/ (id[2] = jd[2] /\ id[3] < jd[3])

QuadsDone ==
  pass \in {"draw2D", "drawn"} =>
    /\ \A m \in 1..Len(drawn) :
         m > Len(order) =>
           \E i \in 1..Len(sprites) : \E g \in 1..Len(sprites[i]) :
             drawn[m] = Quad(i, g) /\ Passed(i, g)
    /\ \A i \in 1..Len(sprites) : \A g \in 1..Len(sprites[i]) :
         Passed(i, g) => \E m \in 1..Len(drawn) : drawn[m] = Quad(i, g)
    /\ \A m, n \in 1..Len(drawn) : Len(order) < m /\ m < n => Earlier2D(drawn[m], drawn[n])

CInv == Enabled /\ QuadsDone

------------------------------------------------------------------------------
\* Where a quad is in its tuple.
LEMMA QuadIs ==
  /\ \A i, g : Quad(i, g)[1] = "2D" /\ Quad(i, g)[2] = i /\ Quad(i, g)[3] = g
  /\ \A i : Object3D(i)[1] = "3D" /\ Object3D(i)[2] = i
BY DEF Quad, Object3D

LEMMA QuadsAre ==
  ASSUME TypeOK
  PROVE  /\ Len(sprites) \in Nat /\ \A i \in 1..Len(sprites) : Len(sprites[i]) \in Nat
         /\ \A id \in Quads : /\ id[2] \in 1..Len(sprites) /\ id[3] \in 1..Len(sprites[id[2]])
                              /\ id = Quad(id[2], id[3])
         /\ \A i \in 1..Len(sprites) : \A g \in 1..Len(sprites[i]) : Quad(i, g) \in Quads
<1>1. sprites \in Seq(Seq(BOOLEAN)) BY DEF TypeOK
<1>2. Len(sprites) \in Nat /\ \A i \in 1..Len(sprites) : sprites[i] \in Seq(BOOLEAN) BY <1>1
<1>3. \A i \in 1..Len(sprites) : Len(sprites[i]) \in Nat BY <1>2
<1>4. ASSUME NEW id \in Quads
      PROVE  /\ id[2] \in 1..Len(sprites) /\ id[3] \in 1..Len(sprites[id[2]])
             /\ id = Quad(id[2], id[3])
  <2>1. \E i \in 1..Len(sprites) : \E g \in 1..Len(sprites[i]) : id = Quad(i, g)
    BY DEF Quads
  <2>2. PICK i \in 1..Len(sprites) : \E g \in 1..Len(sprites[i]) : id = Quad(i, g)
    BY <2>1
  <2>3. PICK g \in 1..Len(sprites[i]) : id = Quad(i, g)
    BY <2>2
  <2> QED BY <2>3, QuadIs
<1>5. \A i \in 1..Len(sprites) : \A g \in 1..Len(sprites[i]) : Quad(i, g) \in Quads
  BY DEF Quads
<1> QED BY <1>2, <1>3, <1>4, <1>5

\* A round of the insertion sort loses and repeats nothing.
LEMMA InsertKeeps ==
  ASSUME TypeOK, Insert
  PROVE  \A i : (\E m \in 1..Len(order') : order'[m] = i) <=> (\E m \in 1..Len(order) : order[m] = i)
<1> DEFINE p == Position(k)
<1>1. /\ k \in 1..Len(order) /\ Len(order) \in Nat
      /\ order' = [b \in 1..Len(order) |->
                     IF b < p \/ b > k THEN order[b]
                     ELSE IF b = p THEN order[k] ELSE order[b - 1]]
  BY DEF TypeOK, Insert
<1>2. p \in 1..k BY <1>1, PositionIs
<1>3. Len(order') = Len(order) BY InsertType
<1> HIDE DEF p
<1>4. ASSUME NEW m \in 1..Len(order) PROVE \E n \in 1..Len(order) : order'[m] = order[n]
  <2>1. CASE m < p \/ m > k BY <1>1, <2>1
  <2>2. CASE m = p BY <1>1, <1>2, <2>2
  <2>3. CASE p < m /\ m <= k
    <3>1. m - 1 \in 1..Len(order) /\ order'[m] = order[m - 1] BY <1>1, <1>2, <2>3
    <3> QED BY <3>1
  <2> QED BY <1>1, <1>2, <2>1, <2>2, <2>3
<1>5. ASSUME NEW m \in 1..Len(order) PROVE \E n \in 1..Len(order) : order'[n] = order[m]
  <2>1. CASE m < p \/ m > k BY <1>1, <2>1
  <2>2. CASE m = k
    <3>1. p \in 1..Len(order) /\ order'[p] = order[k] BY <1>1, <1>2
    <3> QED BY <2>2, <3>1
  <2>3. CASE p <= m /\ m < k
    <3>1. m + 1 \in 1..Len(order) /\ m + 1 > p /\ m + 1 <= k /\ (m + 1) - 1 = m
      BY <1>1, <1>2, <2>3
    <3>2. order'[m + 1] = order[m] BY <1>1, <1>2, <3>1
    <3> QED BY <3>1, <3>2
  <2> QED BY <1>1, <1>2, <2>1, <2>2, <2>3
<1> QED BY <1>3, <1>4, <1>5

\* The array keeps holding the enabled objects.
LEMMA EnabledStep == OInv /\ CInv /\ [Next]_vars => Enabled'
<1> SUFFICES ASSUME OInv, CInv, [Next]_vars PROVE Enabled'
  OBVIOUS
<1>0. IInv /\ TypeOK /\ Clean /\ Gathering /\ Drawing /\ Enabled
  BY DEF OInv, IInv, CInv
<1>1. Len(order) \in Nat /\ Len(renders) \in Nat BY <1>0, LayersAreNumbers DEF TypeOK
<1> USE DEF pools, gpu
<1>2. ASSUME NEW r, NEW s, BeginFrame(r, s) PROVE Enabled'
  <2>1. pass' = "gather" /\ k' = 1 /\ order' = <<>> /\ \A m \in 1..Len(order') : FALSE
    BY <1>0, <1>2 DEF BeginFrame, Clean
  <2> QED BY <2>1 DEF Enabled
<1>3. CASE Gather
  <2>1. /\ pass = "gather" /\ pass' = "gather" /\ k \in 1..Len(renders) /\ k' = k + 1
        /\ renders' = renders /\ order \in Seq(1..Len(renders))
        /\ order' = IF renders[k].drawEnable THEN Append(order, k) ELSE order
    BY <1>0, <1>3 DEF Gather, TypeOK
  <2>2. \A i \in 1..Len(renders) :
          renders[i].drawEnable /\ i < k <=> \E m \in 1..Len(order) : order[m] = i
    BY <1>0, <2>1 DEF Enabled
  <2>3. ASSUME NEW i \in 1..Len(renders)
        PROVE  renders[i].drawEnable /\ i < k + 1 <=> \E m \in 1..Len(order') : order'[m] = i
    <3>1. CASE renders[k].drawEnable
      <4>1. /\ Len(order') = Len(order) + 1 /\ order'[Len(order) + 1] = k
            /\ \A m \in 1..Len(order) : order'[m] = order[m]
        BY <2>1, <3>1
      <4>2. (\E m \in 1..Len(order') : order'[m] = i) <=> (\E m \in 1..Len(order) : order[m] = i) \/ i = k
        <5>1. \A m \in 1..Len(order') : m \in 1..Len(order) \/ m = Len(order) + 1 BY <1>1, <4>1
        <5>2. Len(order) + 1 \in 1..Len(order') /\ \A m \in 1..Len(order) : m \in 1..Len(order')
          BY <1>1, <4>1
        <5> QED BY <4>1, <5>1, <5>2
      <4>3. i < k + 1 <=> i < k \/ i = k BY <2>1
      <4> QED BY <2>2, <3>1, <4>2, <4>3
    <3>2. CASE ~renders[k].drawEnable
      <4>1. i < k + 1 <=> i < k \/ i = k BY <2>1
      <4> QED BY <2>1, <2>2, <3>2, <4>1
    <3> QED BY <3>1, <3>2
  <2> QED BY <2>1, <2>3 DEF Enabled
<1>4. CASE Gathered
  <2>1. /\ pass = "gather" /\ pass' = "sort" /\ order' = order /\ renders' = renders
        /\ \A i \in 1..Len(renders) : i < k
    BY <1>0, <1>1, <1>4 DEF Gathered, TypeOK
  <2> QED BY <1>0, <2>1 DEF Enabled
<1>5. CASE Insert
  <2>1. \A i : (\E m \in 1..Len(order') : order'[m] = i) <=> (\E m \in 1..Len(order) : order[m] = i)
    BY <1>0, <1>5, InsertKeeps
  <2>2. pass = "sort" /\ pass' = "sort" /\ renders' = renders BY <1>5 DEF Insert
  <2>3. \A i \in 1..Len(renders) : renders[i].drawEnable <=> \E m \in 1..Len(order) : order[m] = i
    BY <1>0, <2>2 DEF Enabled
  <2> QED BY <2>1, <2>2, <2>3 DEF Enabled
<1>6. CASE Sorted \/ EndObjects \/ NextSprite \/ EndFrame
  <2>1. /\ pass \notin {"idle", "gather"} /\ pass' # "gather" /\ order' = order /\ renders' = renders
    BY <1>6 DEF Sorted, EndObjects, NextSprite, EndFrame
  <2> QED BY <1>0, <2>1 DEF Enabled
<1>7. CASE DrawObject \/ DrawSprite
  <2>1. /\ pass \notin {"idle", "gather"} /\ pass' = pass /\ order' = order /\ renders' = renders
    BY <1>7 DEF DrawObject, DrawSprite
  <2> QED BY <1>0, <2>1 DEF Enabled
<1>8. CASE Present
  BY <1>8 DEF Present, Enabled
<1>9. CASE UNCHANGED vars
  BY <1>0, <1>9 DEF vars, Enabled
<1> QED
  BY <1>2, <1>3, <1>4, <1>5, <1>6, <1>7, <1>8, <1>9 DEF Next

\* The 2D pass draws quad after quad.
LEMMA QuadsStep == OInv /\ CInv /\ [Next]_vars => QuadsDone'
<1> SUFFICES ASSUME OInv, CInv, [Next]_vars PROVE QuadsDone'
  OBVIOUS
<1>0. IInv /\ TypeOK /\ Drawing /\ QuadsDone
  BY DEF OInv, IInv, CInv
<1>1. Len(order) \in Nat /\ k \in Nat /\ glyph \in Nat /\ drawn \in Seq(Ids) /\ Len(drawn) \in Nat
  BY <1>0, LayersAreNumbers DEF TypeOK
<1>2. /\ Len(sprites) \in Nat /\ \A i \in 1..Len(sprites) : Len(sprites[i]) \in Nat
      /\ \A id \in Quads : /\ id[2] \in 1..Len(sprites) /\ id[3] \in 1..Len(sprites[id[2]])
                           /\ id = Quad(id[2], id[3])
      /\ \A i \in 1..Len(sprites) : \A g \in 1..Len(sprites[i]) : Quad(i, g) \in Quads
  BY <1>0, QuadsAre
<1> USE DEF pools, gpu
<1>3. CASE EndObjects
  <2>1. /\ pass = "draw3D" /\ k = Len(order) + 1 /\ pass' = "draw2D" /\ k' = 1 /\ glyph' = 1
        /\ UNCHANGED <<renders, sprites, order, drawn>>
    BY SMTT(30), <1>0, <1>1, <1>3 DEF EndObjects, TypeOK
  <2>2. Len(drawn) = Len(order) BY <1>0, <1>1, <2>1 DEF Drawing
  <2>3. \A i \in 1..Len(sprites) : \A g \in 1..Len(sprites[i]) : ~Passed(i, g)'
    BY <1>2, <2>1 DEF Passed
  <2>4. \A m \in 1..Len(drawn) : ~(Len(order) < m)
    BY <1>1, <2>2
  <2> QED BY <1>1, <2>1, <2>3, <2>4 DEF QuadsDone
<1>4. CASE DrawSprite
  <2> DEFINE q == Quad(k, glyph)
  <2>1. /\ pass = "draw2D" /\ pass' = "draw2D" /\ k \in 1..Len(sprites) /\ glyph \in 1..Len(sprites[k])
        /\ k' = k /\ glyph' = glyph + 1 /\ drawn' = Append(drawn, q)
        /\ UNCHANGED <<renders, sprites, order>>
    BY <1>0, <1>1, <1>2, <1>4 DEF DrawSprite, TypeOK
  <2>2. q \in Quads /\ q[2] = k /\ q[3] = glyph BY <1>2, <2>1, QuadIs
  <2>3. Quads' = Quads BY <2>1 DEF Quads
  <2>4. /\ Len(drawn') = Len(drawn) + 1 /\ drawn'[Len(drawn) + 1] = q
        /\ \A m \in 1..Len(drawn) : drawn'[m] = drawn[m]
    BY <1>1, <2>1
  <2> HIDE DEF q
  <2>5. \A i, g \in Nat : Passed(i, g)' <=> Passed(i, g) \/ (i = k /\ g = glyph)
    BY <1>1, <2>1 DEF Passed
  <2>6. \A m \in 1..Len(drawn') : m \in 1..Len(drawn) \/ m = Len(drawn) + 1
    BY <1>1, <2>4
  <2>7. Len(drawn) + 1 \in 1..Len(drawn') /\ \A m \in 1..Len(drawn) : m \in 1..Len(drawn')
    BY <1>1, <2>4
  <2>8. /\ \A m \in 1..Len(drawn) :
             m > Len(order) =>
               \E i \in 1..Len(sprites) : \E g \in 1..Len(sprites[i]) :
                 drawn[m] = Quad(i, g) /\ Passed(i, g)
        /\ \A i \in 1..Len(sprites) : \A g \in 1..Len(sprites[i]) :
             Passed(i, g) => \E m \in 1..Len(drawn) : drawn[m] = Quad(i, g)
        /\ \A m, n \in 1..Len(drawn) : Len(order) < m /\ m < n => Earlier2D(drawn[m], drawn[n])
    BY <1>0, <2>1 DEF QuadsDone
  <2>9. ASSUME NEW m \in 1..Len(drawn'), m > Len(order)
        PROVE  \E i \in 1..Len(sprites) : \E g \in 1..Len(sprites[i]) :
                 drawn'[m] = Quad(i, g) /\ Passed(i, g)'
    <3>1. CASE m \in 1..Len(drawn)
      <4>1. PICK i \in 1..Len(sprites) : \E g \in 1..Len(sprites[i]) :
              drawn[m] = Quad(i, g) /\ Passed(i, g)
        BY <2>8, <2>9, <3>1
      <4>2. PICK g \in 1..Len(sprites[i]) : drawn[m] = Quad(i, g) /\ Passed(i, g)
        BY <4>1
      <4>3. i \in Nat /\ g \in Nat BY <1>2
      <4>4. Passed(i, g)' BY <2>5, <4>2, <4>3
      <4> QED BY <2>4, <3>1, <4>2, <4>4
    <3>2. CASE m = Len(drawn) + 1
      <4>1. drawn'[m] = Quad(k, glyph) BY <2>4, <3>2 DEF q
      <4>2. PICK i \in 1..Len(sprites) : i = k BY <2>1
      <4>3. PICK g \in 1..Len(sprites[i]) : g = glyph BY <2>1, <4>2
      <4>4. i \in Nat /\ g \in Nat BY <1>2
      <4>5. Passed(i, g)' BY <2>5, <4>2, <4>3, <4>4
      <4> QED BY <4>1, <4>2, <4>3, <4>5
    <3> QED BY <2>6, <3>1, <3>2
  <2>10. ASSUME NEW i \in 1..Len(sprites'), NEW g \in 1..Len(sprites'[i]), Passed(i, g)'
         PROVE  \E m \in 1..Len(drawn') : drawn'[m] = Quad(i, g)
    <3>1. i \in 1..Len(sprites) /\ g \in 1..Len(sprites[i]) /\ i \in Nat /\ g \in Nat
      BY <1>2, <2>1
    <3>2. Passed(i, g) \/ (i = k /\ g = glyph) BY <2>5, <2>10, <3>1
    <3>3. CASE Passed(i, g)
      BY <2>4, <2>7, <2>8, <3>1, <3>3
    <3>4. CASE i = k /\ g = glyph
      BY <2>4, <2>7, <3>4 DEF q
    <3> QED BY <3>2, <3>3, <3>4
  <2>11. ASSUME NEW m \in 1..Len(drawn'), NEW n \in 1..Len(drawn'), Len(order') < m, m < n
         PROVE  Earlier2D(drawn'[m], drawn'[n])
    <3>1. m \in 1..Len(drawn) /\ drawn'[m] = drawn[m] BY <1>1, <2>4, <2>6, <2>11
    <3>2. CASE n \in 1..Len(drawn)
      BY <2>1, <2>4, <2>8, <2>11, <3>1, <3>2
    <3>3. CASE n = Len(drawn) + 1
      <4>1. PICK i \in 1..Len(sprites) : \E g \in 1..Len(sprites[i]) :
              drawn[m] = Quad(i, g) /\ Passed(i, g)
        BY <2>1, <2>8, <2>11, <3>1
      <4>2. PICK g \in 1..Len(sprites[i]) : drawn[m] = Quad(i, g) /\ Passed(i, g)
        BY <4>1
      <4>3. drawn[m][2] = i /\ drawn[m][3] = g BY <4>2, QuadIs
      <4>4. i < k \/ (i = k /\ g < glyph) BY <2>1, <4>2 DEF Passed
      <4> QED BY <2>2, <2>4, <3>1, <3>3, <4>3, <4>4 DEF Earlier2D
    <3> QED BY <2>6, <3>2, <3>3
  <2>12. /\ \A m \in 1..Len(drawn') :
              m > Len(order') =>
                \E i \in 1..Len(sprites') : \E g \in 1..Len(sprites'[i]) :
                  drawn'[m] = Quad(i, g) /\ Passed(i, g)'
         /\ \A i \in 1..Len(sprites') : \A g \in 1..Len(sprites'[i]) :
              Passed(i, g)' => \E m \in 1..Len(drawn') : drawn'[m] = Quad(i, g)
         /\ \A m, n \in 1..Len(drawn') : Len(order') < m /\ m < n => Earlier2D(drawn'[m], drawn'[n])
    <3>1. order' = order /\ sprites' = sprites BY <2>1
    <3> QED BY <2>9, <2>10, <2>11, <3>1
  <2> QED BY <2>12 DEF QuadsDone, Earlier2D, Quad
<1>5. CASE NextSprite
  <2>1. /\ pass = "draw2D" /\ pass' = "draw2D" /\ k \in 1..Len(sprites) /\ glyph > Len(sprites[k])
        /\ k' = k + 1 /\ glyph' = 1 /\ UNCHANGED <<renders, sprites, order, drawn>>
    BY <1>0, <1>1, <1>2, <1>5 DEF NextSprite, TypeOK
  <2>2. ASSUME NEW i \in 1..Len(sprites), NEW g \in 1..Len(sprites[i])
        PROVE  (i < k + 1 \/ (i = k + 1 /\ g < 1)) <=> (i < k \/ (i = k /\ g < glyph))
    <3>1. i \in Nat /\ g \in Nat /\ g >= 1 /\ g <= Len(sprites[i]) /\ Len(sprites[i]) \in Nat BY <1>2
    <3>2. i = k => g < glyph BY <1>1, <2>1, <3>1
    <3> QED BY <1>1, <3>1, <3>2
  <2>3. Quads' = Quads BY <2>1 DEF Quads
  <2>4. \A i \in 1..Len(sprites) : \A g \in 1..Len(sprites[i]) : Passed(i, g)' <=> Passed(i, g)
    BY <2>1, <2>2 DEF Passed
  <2>5. /\ \A m \in 1..Len(drawn) :
             m > Len(order) =>
               \E i \in 1..Len(sprites) : \E g \in 1..Len(sprites[i]) :
                 drawn[m] = Quad(i, g) /\ Passed(i, g)
        /\ \A i \in 1..Len(sprites) : \A g \in 1..Len(sprites[i]) :
             Passed(i, g) => \E m \in 1..Len(drawn) : drawn[m] = Quad(i, g)
        /\ \A m, n \in 1..Len(drawn) : Len(order) < m /\ m < n => Earlier2D(drawn[m], drawn[n])
    BY <1>0, <2>1 DEF QuadsDone
  <2>6. /\ \A m \in 1..Len(drawn) :
             m > Len(order) =>
               \E i \in 1..Len(sprites) : \E g \in 1..Len(sprites[i]) :
                 drawn[m] = Quad(i, g) /\ Passed(i, g)'
        /\ \A i \in 1..Len(sprites) : \A g \in 1..Len(sprites[i]) :
             Passed(i, g)' => \E m \in 1..Len(drawn) : drawn[m] = Quad(i, g)
    BY <2>4, <2>5
  <2>7. /\ \A m \in 1..Len(drawn') :
             m > Len(order') =>
               \E i \in 1..Len(sprites') : \E g \in 1..Len(sprites'[i]) :
                 drawn'[m] = Quad(i, g) /\ Passed(i, g)'
        /\ \A i \in 1..Len(sprites') : \A g \in 1..Len(sprites'[i]) :
             Passed(i, g)' => \E m \in 1..Len(drawn') : drawn'[m] = Quad(i, g)
        /\ \A m, n \in 1..Len(drawn') : Len(order') < m /\ m < n => Earlier2D(drawn'[m], drawn'[n])
    <3>1. order' = order /\ sprites' = sprites /\ drawn' = drawn BY <2>1
    <3> QED BY Zenon, <2>5, <2>6, <3>1
  <2> QED BY <2>7 DEF QuadsDone, Earlier2D, Quad
<1>6. CASE EndFrame
  <2>1. /\ pass = "draw2D" /\ pass' = "drawn" /\ k > Len(sprites)
        /\ UNCHANGED <<renders, sprites, order, drawn>>
    BY <1>6 DEF EndFrame
  <2>2. Quads' = Quads BY <2>1 DEF Quads
  <2>3. \A i \in 1..Len(sprites) : \A g \in 1..Len(sprites[i]) : Passed(i, g)
    BY <1>1, <1>2, <2>1 DEF Passed
  <2>4. /\ \A m \in 1..Len(drawn) :
             m > Len(order) =>
               \E i \in 1..Len(sprites) : \E g \in 1..Len(sprites[i]) : drawn[m] = Quad(i, g)
        /\ \A i \in 1..Len(sprites) : \A g \in 1..Len(sprites[i]) :
             \E m \in 1..Len(drawn) : drawn[m] = Quad(i, g)
        /\ \A m, n \in 1..Len(drawn) : Len(order) < m /\ m < n => Earlier2D(drawn[m], drawn[n])
    BY <1>0, <2>1, <2>3 DEF QuadsDone
  <2>5. pass' = "drawn" /\ order' = order /\ sprites' = sprites /\ drawn' = drawn BY <2>1
  <2>6. \A i, g : Passed(i, g)' BY <2>5 DEF Passed
  <2>7. /\ \A m \in 1..Len(drawn') :
             m > Len(order') =>
               \E i \in 1..Len(sprites') : \E g \in 1..Len(sprites'[i]) :
                 drawn'[m] = Quad(i, g) /\ Passed(i, g)'
        /\ \A i \in 1..Len(sprites') : \A g \in 1..Len(sprites'[i]) :
             Passed(i, g)' => \E m \in 1..Len(drawn') : drawn'[m] = Quad(i, g)
        /\ \A m, n \in 1..Len(drawn') : Len(order') < m /\ m < n => Earlier2D(drawn'[m], drawn'[n])
    BY Zenon, <2>4, <2>5, <2>6
  <2> QED BY <2>7 DEF QuadsDone, Earlier2D, Quad
<1>7. CASE pass' \notin {"draw2D", "drawn"}
  BY <1>7 DEF QuadsDone
<1>8. CASE UNCHANGED vars
  <2>1. UNCHANGED <<pass, k, glyph, sprites, order, drawn>> BY <1>8 DEF vars
  <2>2. QuadsDone' <=> QuadsDone BY <2>1 DEF QuadsDone, Passed, Earlier2D, Quad
  <2> QED BY <1>0, <2>2
<1>9. CASE \/ \E r \in UpTo(Renderables, MaxPool), s \in UpTo(Texts, MaxSprites) : BeginFrame(r, s)
           \/ Gather \/ Gathered \/ Insert \/ Sorted \/ DrawObject \/ Present
  <2>1. pass' \notin {"draw2D", "drawn"}
    BY <1>9 DEF BeginFrame, Gather, Gathered, Insert, Sorted, DrawObject, Present
  <2> QED BY <1>7, <2>1
<1> QED
  BY <1>3, <1>4, <1>5, <1>6, <1>8, <1>9 DEF Next

\* What is in the frame when it ends.
LEMMA AllIsDrawn == OInv /\ CInv => FrameIsComplete
<1> SUFFICES ASSUME OInv, CInv, pass = "drawn" PROVE FrameIsComplete
  BY DEF FrameIsComplete
<1>0. IInv /\ TypeOK /\ Drawing /\ Enabled /\ QuadsDone
  BY DEF OInv, IInv, CInv
<1>1. /\ Len(order) \in Nat /\ drawn \in Seq(Ids) /\ Len(drawn) \in Nat /\ Len(renders) \in Nat
      /\ \A m \in 1..Len(order) : order[m] \in 1..Len(renders)
      /\ \A m \in 1..Len(order) : order[m] \in Int /\ Layer(order[m]) \in Int
  BY <1>0, LayersAreNumbers DEF TypeOK
<1>2. /\ Len(drawn) >= Len(order)
      /\ \A m \in 1..Len(order) : m \in 1..Len(drawn) /\ drawn[m] = Object3D(order[m])
  BY <1>0, <1>1 DEF Drawing
<1>3. \A m \in 1..Len(drawn) : m > Len(order) => drawn[m] \in Quads
  <2>1. ASSUME NEW m \in 1..Len(drawn), m > Len(order) PROVE drawn[m] \in Quads
    <3>1. PICK i \in 1..Len(sprites) : \E g \in 1..Len(sprites[i]) : drawn[m] = Quad(i, g)
      BY <1>0, <2>1 DEF QuadsDone
    <3>2. PICK g \in 1..Len(sprites[i]) : drawn[m] = Quad(i, g) BY <3>1
    <3> QED BY <1>0, <3>2, QuadsAre
  <2> QED BY <2>1
<1>4. /\ \A id \in Quads : /\ id[2] \in 1..Len(sprites) /\ id[3] \in 1..Len(sprites[id[2]])
                           /\ id = Quad(id[2], id[3])
      /\ Len(sprites) \in Nat /\ \A i \in 1..Len(sprites) : Len(sprites[i]) \in Nat
  BY <1>0, QuadsAre
<1>5. \A m \in 1..Len(drawn) : m \in 1..Len(order) \/ m > Len(order) BY <1>1
<1> DEFINE enabled == {id \in Objects : renders[id[2]].drawEnable}
<1>6. ASSUME NEW m \in 1..Len(drawn) PROVE drawn[m] \in enabled \cup Quads
  <2>1. CASE m > Len(order) BY <1>3, <2>1
  <2>2. CASE m \in 1..Len(order)
    <3>1. drawn[m] = Object3D(order[m]) /\ order[m] \in 1..Len(renders) /\ drawn[m][2] = order[m]
      BY <1>1, <1>2, <2>2, QuadIs
    <3>2. renders[order[m]].drawEnable BY <1>0, <2>2, <3>1 DEF Enabled
    <3> QED BY <3>1, <3>2 DEF Objects
  <2> QED BY <1>5, <2>1, <2>2
<1>7. ASSUME NEW id \in enabled PROVE \E m \in 1..Len(drawn) : drawn[m] = id
  <2>1. PICK i \in 1..Len(renders) : id = Object3D(i) BY DEF Objects
  <2>2. renders[i].drawEnable BY <2>1, QuadIs
  <2>3. PICK m \in 1..Len(order) : order[m] = i BY <1>0, <2>2 DEF Enabled
  <2> QED BY <1>2, <2>1, <2>3
<1>8. ASSUME NEW id \in Quads PROVE \E m \in 1..Len(drawn) : drawn[m] = id
  <2>1. PICK i \in 1..Len(sprites) : \E g \in 1..Len(sprites[i]) : id = Quad(i, g)
    BY <1>4
  <2>2. PICK g \in 1..Len(sprites[i]) : id = Quad(i, g) BY <2>1
  <2>3. Passed(i, g) BY DEF Passed
  <2>4. \E m \in 1..Len(drawn) : drawn[m] = Quad(i, g) BY <1>0, <2>3 DEF QuadsDone
  <2> QED BY <2>2, <2>4
<1> HIDE DEF enabled
<1>9. {drawn[m] : m \in 1..Len(drawn)} = enabled \cup Quads
  BY <1>6, <1>7, <1>8
<1>10. \A id \in Quads : id[1] = "2D" BY <1>4, QuadIs
<1>11. ASSUME NEW m \in 1..Len(drawn), NEW n \in 1..Len(drawn), m < n
       PROVE  /\ drawn[m] # drawn[n]
              /\ drawn[m] \in Quads =>
                   /\ drawn[n] \in Quads
                   /\ \/ drawn[m][2] < drawn[n][2]
                      \/ drawn[m][2] = drawn[n][2] /\ drawn[m][3] < drawn[n][3]
  <2>1. CASE m > Len(order)
    <3>1. n > Len(order) BY <1>1, <1>11, <2>1
    <3>2. drawn[m] \in Quads /\ drawn[n] \in Quads BY <1>3, <2>1, <3>1
    <3>3. Earlier2D(drawn[m], drawn[n]) BY <1>0, <1>11, <2>1 DEF QuadsDone
    <3>4. drawn[m][2] \in Nat /\ drawn[n][2] \in Nat /\ drawn[m][3] \in Nat /\ drawn[n][3] \in Nat
      <4>1. drawn[m][2] \in Nat /\ drawn[n][2] \in Nat BY <1>4, <3>2
      <4>2. Len(sprites[drawn[m][2]]) \in Nat /\ Len(sprites[drawn[n][2]]) \in Nat BY <1>4, <3>2
      <4> QED BY <1>4, <3>2, <4>1, <4>2
    <3>5. drawn[m] # drawn[n] BY <3>3, <3>4 DEF Earlier2D
    <3> QED BY <3>2, <3>3, <3>5 DEF Earlier2D
  <2>2. CASE m \in 1..Len(order)
    <3>1. drawn[m][1] = "3D" /\ drawn[m][2] = order[m] BY <1>2, <2>2, QuadIs
    <3>2. drawn[m] \notin Quads BY <1>10, <3>1
    <3>3. CASE n \in 1..Len(order)
      <4>1. InOrder(order[m], order[n]) BY <1>0, <1>11, <2>2, <3>3 DEF Drawing
      <4>2. order[m] # order[n] BY <1>1, <2>2, <3>3, <4>1 DEF InOrder
      <4>3. drawn[n][2] = order[n] BY <1>2, <3>3, QuadIs
      <4> QED BY <3>1, <3>2, <4>2, <4>3
    <3>4. CASE n > Len(order)
      BY <1>3, <3>2, <3>4
    <3> QED BY <1>5, <3>3, <3>4
  <2> QED BY <1>5, <2>1, <2>2
<1> QED BY <1>9, <1>11 DEF FrameIsComplete, enabled

\* A frame draws every enabled object once and then every quad of every sprite
\* once, in pool order, for pools and texts of any size: the gathering loop and
\* the sort (RenderSystem.cpp:35-59) lose and repeat nothing, and no quad is
\* drawn under an object.
THEOREM FramesAreComplete == Spec => []FrameIsComplete
<1>1. Init => OInv /\ CInv
  <2>1. Init => Gathering /\ Sorting /\ Drawing /\ CInv
    BY DEF Init, Gathering, Sorting, Drawing, CInv, Enabled, QuadsDone
  <2> QED BY <2>1, InitHolds DEF OInv
<1>2. OInv /\ CInv /\ [Next]_vars => OInv' /\ CInv'
  BY OrderStep, EnabledStep, QuadsStep DEF CInv
<1> QED BY <1>1, <1>2, AllIsDrawn, PTL DEF Spec
==============================================================================
