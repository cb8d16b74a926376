------------------------- MODULE GameSceneContextProofs -------------------------
(***************************************************************************)
(* No call of a scene fails, no frame meets a dead object, and Unload      *)
(* undoes Load: for every order of key presses and every moment to quit.   *)
(*                                                                         *)
(* The Load and the Unload of a scene are lists of calls.  What makes one  *)
(* of them safe is a property of the rest of the list and of what exists   *)
(* when it starts (WellLoaded, WellUnloaded): the lists of the five scenes *)
(* have it (LoadIs, UnloadIs), and every call hands it on to the rest of   *)
(* its list (LoadRest, UnloadRest).  The invariant GInv says it of the     *)
(* calls that are left, and of a scene between its Load and its Unload     *)
(* that exactly its own singletons exist.                                  *)
(***************************************************************************)
EXTENDS GameSceneContext, SequenceTheorems, TLAPS

\* What a call may be, whatever the scene.
Ops == {"create", "destroy", "add", "use"} \cup CameraType
Calls == [op : Ops, on : SUBSET Manager, finds : SUBSET Manager,
          keeps : SUBSET (Manager \X Manager)]

\* The singletons of a scene.
Mine(s) == IF s \in {1, 2} THEN Manager
           ELSE {"World", "Camera", "Mesh", "Tex", "Shader", "System"}

\* Calls that succeed one after the other when the singletons have exist and
\* those of full have an object: each creates what no one has, uses what is
\* there, and looks up where something was added.
WellLoaded(L, have, full) ==
  /\ L \in Seq(Calls)
  /\ \A i \in 1..Len(L) :
       /\ L[i].op # "destroy"
       /\ L[i].op = "create" =>
            \A m \in L[i].on : m \notin have /\ \A j \in 1..(i - 1) : m \notin L[j].on
       /\ L[i].op # "create" =>
            \A m \in L[i].on \ {"World"} :
              m \in have \/ \E j \in 1..(i - 1) : L[j].op = "create" /\ m \in L[j].on
       /\ \A m \in L[i].finds : m \in full \/ \E j \in 1..(i - 1) : L[j].op = "add" /\ m \in L[j].on
       /\ \A p \in L[i].keeps : L[i].op = "add" /\ p[1] \in L[i].on

\* Calls that leave nothing of the singletons in have: each is destroyed once,
\* and used only before.
WellUnloaded(U, have) ==
  /\ U \in Seq(Calls)
  /\ \A i \in 1..Len(U) :
       /\ U[i].op \in {"destroy", "use"} /\ U[i].finds = {} /\ U[i].keeps = {}
       /\ \A m \in U[i].on :
            m \in have /\ \A j \in 1..(i - 1) : U[j].op = "destroy" => m \notin U[j].on
  /\ \A m \in have : \E i \in 1..Len(U) : U[i].op = "destroy" /\ m \in U[i].on

------------------------------------------------------------------------------
(* The lists of calls of the scenes.                                       *)

\* Every call that the scenes make is one.
LEMMA CallsAre ==
  /\ \A m \in Manager : Create(m) \in Calls /\ Destroy(m) \in Calls /\ Add(m) \in Calls
  /\ \A type \in CameraType : SetCurrent(type) \in Calls
  /\ SetMoveSpeed \in Calls
  /\ AddTextured("Image") \in Calls /\ AddTextured("Glyph") \in Calls
  /\ AddText \in Calls /\ AddCharacter \in Calls
  /\ \A assets \in SUBSET Manager : AddRenderable(assets) \in Calls
<1>1. {"Mesh", "Shader", "Tex", "World", "Camera", "Anim", "Image", "Clip", "Skel",
        "HierarchyTable", "Glyph"} \subseteq Manager
  BY DEF Manager
<1> DEFINE Typed(c) == c \in Calls
<1>2. \A m \in Manager : Create(m) \in Calls /\ Destroy(m) \in Calls /\ Add(m) \in Calls
  BY DEF Create, Destroy, Add, Call, Calls, Ops
<1>3. \A type \in CameraType : SetCurrent(type) \in Calls
  BY <1>1 DEF SetCurrent, Call, Calls, Ops
<1>4. SetMoveSpeed \in Calls
  BY <1>1 DEF SetMoveSpeed, Call, Calls, Ops
<1>5. AddTextured("Image") \in Calls /\ AddTextured("Glyph") \in Calls
  BY <1>1 DEF AddTextured, Call, Calls, Ops
<1>6. AddText \in Calls
  BY <1>1 DEF AddText, Call, Calls, Ops
<1>7. AddCharacter \in Calls
  BY <1>1 DEF AddCharacter, Call, Calls, Ops
<1>8. \A assets \in SUBSET Manager : AddRenderable(assets) \in Calls
  BY <1>1 DEF AddRenderable, Call, Calls, Ops
<1> QED
  BY <1>2, <1>3, <1>4, <1>5, <1>6, <1>7, <1>8

\* A row of the same call on one singleton after the other.
LEMMA EachIs ==
  ASSUME NEW ms \in Seq(Manager)
  PROVE  /\ Each(Create, ms) \in Seq(Calls) /\ Each(Add, ms) \in Seq(Calls)
             /\ Each(Destroy, ms) \in Seq(Calls)
         /\ Len(Each(Create, ms)) = Len(ms) /\ Len(Each(Add, ms)) = Len(ms)
             /\ Len(Each(Destroy, ms)) = Len(ms)
         /\ \A i \in 1..Len(ms) : /\ Each(Create, ms)[i] = Create(ms[i])
                                  /\ Each(Add, ms)[i] = Add(ms[i])
                                  /\ Each(Destroy, ms)[i] = Destroy(ms[i])
<1>1. Len(ms) \in Nat /\ \A i \in 1..Len(ms) : ms[i] \in Manager
  OBVIOUS
<1>2. /\ Each(Create, ms) \in [1..Len(ms) -> Calls]
      /\ Each(Add, ms) \in [1..Len(ms) -> Calls]
      /\ Each(Destroy, ms) \in [1..Len(ms) -> Calls]
  BY <1>1, CallsAre DEF Each
<1> QED
  BY <1>1, <1>2 DEF Each

\* The singletons of the scenes, each of them once.
LEMMA AnimatedIs ==
  /\ Animated \in Seq(Manager) /\ Len(Animated) = 12
  /\ Plain \in Seq(Manager) /\ Len(Plain) = 5 /\ \A i \in 1..5 : Plain[i] = Animated[i]
  /\ \A i, j \in 1..12 : Animated[i] = Animated[j] => i = j
  /\ \A i \in 1..12 : Animated[i] # "World"
<1>1. Animated \in Seq(Manager) /\ Len(Animated) = 12
  BY DEF Animated, Manager
<1>2. \A i \in 1..5 : Animated[i] \in Manager
  BY DEF Animated, Manager
<1>3. /\ Plain \in Seq(Manager) /\ Len(Plain) = IF 1 <= 5 THEN 5 - 1 + 1 ELSE 0
      /\ \A i \in 1..5 - 1 + 1 : Plain[i] = Animated[1 + i - 1]
  BY <1>2, SubSeqProperties DEF Plain
<1>4. Plain \in Seq(Manager) /\ Len(Plain) = 5 /\ \A i \in 1..5 : Plain[i] = Animated[i]
  BY <1>3
<1>5. /\ \A i, j \in 1..12 : Animated[i] = Animated[j] => i = j
      /\ \A i \in 1..12 : Animated[i] # "World"
  BY DEF Animated
<1> QED
  BY <1>1, <1>4, <1>5

\* Both cameras are added and set current.
LEMMA CamerasAre ==
  /\ Cameras \in Seq(Calls) /\ Len(Cameras) = 4
  /\ Cameras[1] = Add("Camera") /\ Cameras[2] = SetCurrent("PERSPECTIVE_3D")
  /\ Cameras[3] = Add("Camera") /\ Cameras[4] = SetCurrent("ORTHOGRAPHIC_2D")
  BY CallsAre DEF Cameras, CameraType, Manager

\* Two sequences of calls, one after the other.
LEMMA Joined ==
  ASSUME NEW s \in Seq(Calls), NEW t \in Seq(Calls)
  PROVE  /\ s \o t \in Seq(Calls) /\ Len(s \o t) = Len(s) + Len(t)
         /\ \A i \in 1..Len(s) : (s \o t)[i] = s[i]
         /\ \A i \in 1..Len(t) : (s \o t)[Len(s) + i] = t[i]
<1>1. /\ s \o t \in Seq(Calls) /\ Len(s \o t) = Len(s) + Len(t)
      /\ \A i \in 1..(Len(s) + Len(t)) :
              (s \o t)[i] = IF i <= Len(s) THEN s[i] ELSE t[i - Len(s)]
  BY ConcatProperties
<1>2. Len(s) \in Nat /\ Len(t) \in Nat
  OBVIOUS
<1>3. \A i \in 1..Len(s) : (s \o t)[i] = s[i]
  BY <1>1, <1>2
<1>4. ASSUME NEW i \in 1..Len(t) PROVE (s \o t)[Len(s) + i] = t[i]
  <2>1. Len(s) + i \in 1..(Len(s) + Len(t)) /\ ~(Len(s) + i <= Len(s)) /\ Len(s) + i - Len(s) = i
    BY <1>2
  <2> QED
    BY <1>1, <2>1
<1> QED
  BY <1>1, <1>3, <1>4

\* Four of them.
Row(w, a, b, c, d) ==
  /\ w \in Seq(Calls) /\ Len(w) = Len(a) + Len(b) + Len(c) + Len(d)
  /\ \A i \in 1..Len(a) : w[i] = a[i]
  /\ \A i \in 1..Len(b) : w[Len(a) + i] = b[i]
  /\ \A i \in 1..Len(c) : w[Len(a) + Len(b) + i] = c[i]
  /\ \A i \in 1..Len(d) : w[Len(a) + Len(b) + Len(c) + i] = d[i]

\* A Load has four parts: each keeps its calls in their order.
LEMMA JoinedFour ==
  ASSUME NEW a \in Seq(Calls), NEW b \in Seq(Calls), NEW c \in Seq(Calls), NEW d \in Seq(Calls)
  PROVE  Row(a \o b \o c \o d, a, b, c, d)
<1> DEFINE w == a \o b \o c \o d
<1>10. w = a \o b \o c \o d
  OBVIOUS
<1> HIDE DEF w
<1> DEFINE k == Len(a)
           l == Len(b)
           m == Len(c)
           n == Len(d)
<1>1. k \in Nat /\ l \in Nat /\ m \in Nat /\ n \in Nat
  OBVIOUS
<1> DEFINE u == a \o b
           v == u \o c
<1> HIDE DEF u, v
<1>2. /\ u \in Seq(Calls) /\ Len(u) = Len(a) + Len(b)
      /\ \A i \in 1..Len(a) : u[i] = a[i]
      /\ \A i \in 1..Len(b) : u[Len(a) + i] = b[i]
  BY Joined, Zenon DEF u
<1>3. /\ v \in Seq(Calls) /\ Len(v) = Len(u) + Len(c)
      /\ \A i \in 1..Len(u) : v[i] = u[i]
      /\ \A i \in 1..Len(c) : v[Len(u) + i] = c[i]
  BY <1>2, Joined, Zenon DEF v
<1> DEFINE z == v \o d
<1> HIDE DEF z
<1>4. /\ z \in Seq(Calls) /\ Len(z) = Len(v) + Len(d)
      /\ \A i \in 1..Len(v) : z[i] = v[i]
      /\ \A i \in 1..Len(d) : z[Len(v) + i] = d[i]
  BY <1>3, Joined, Zenon DEF z
<1>0. z = w
  BY <1>10 DEF u, v, z
<1> HIDE DEF k, l, m, n
<1>5. Len(u) = k + l /\ Len(v) = k + l + m /\ w \in Seq(Calls) /\ Len(w) = k + l + m + n
  BY <1>0, <1>2, <1>3, <1>4 DEF k, l, m, n
<1>6. ASSUME NEW i \in 1..k PROVE w[i] = a[i]
  <2>1. i \in 1..Len(a) /\ i \in 1..Len(u) /\ i \in 1..Len(v)
    BY <1>1, <1>5 DEF k, l, m, n
  <2> QED
    BY <2>1, <1>2, <1>3, <1>0, <1>4, Zenon DEF k, l, m, n
<1>7. ASSUME NEW i \in 1..l PROVE w[k + i] = b[i]
  <2>1. i \in 1..Len(b) /\ k + i \in 1..Len(u) /\ k + i \in 1..Len(v)
    BY <1>1, <1>5 DEF k, l, m, n
  <2> QED
    BY <2>1, <1>2, <1>3, <1>0, <1>4, Zenon DEF k, l, m, n
<1>8. ASSUME NEW i \in 1..m PROVE w[k + l + i] = c[i]
  <2>1. i \in 1..Len(c) /\ k + l + i \in 1..Len(v)
    BY <1>1, <1>5 DEF k, l, m, n
  <2> QED
    BY <2>1, <1>3, <1>0, <1>4, <1>5, Zenon DEF k, l, m, n
<1>9. ASSUME NEW i \in 1..n PROVE w[k + l + m + i] = d[i]
  BY <1>0, <1>4, <1>5, Zenon DEF k, l, m, n
<1> QED
  BY <1>5, <1>6, <1>7, <1>8, <1>9, Zenon DEF k, l, m, n, w, Row

\* The creations of the scenes without animation.
LEMMA PlainThenMove ==
  LET a == Each(Create, Plain) \o <<SetMoveSpeed>>
  IN  /\ a \in Seq(Calls) /\ Len(a) = 6
      /\ \A i \in 1..5 : a[i] = Create(Animated[i])
      /\ a[6] = SetMoveSpeed
<1> DEFINE p == Each(Create, Plain)
           q == <<SetMoveSpeed>>
           a == p \o q
<1>1. p \in Seq(Calls) /\ Len(p) = 5 /\ \A i \in 1..5 : p[i] = Create(Animated[i])
  <2>1. p \in Seq(Calls) /\ Len(p) = 5 /\ \A i \in 1..5 : p[i] = Create(Plain[i])
    BY AnimatedIs, EachIs
  <2> QED
    BY <2>1, AnimatedIs
<1>2. q \in Seq(Calls) /\ Len(q) = 1 /\ q[1] = SetMoveSpeed
  BY CallsAre
<1> HIDE DEF p, q, a
<1>3. /\ a \in Seq(Calls) /\ Len(a) = Len(p) + Len(q)
      /\ \A i \in 1..Len(p) : a[i] = p[i]
      /\ \A i \in 1..Len(q) : a[Len(p) + i] = q[i]
  BY <1>1, <1>2, Joined, Zenon DEF a
<1>4. a \in Seq(Calls) /\ Len(a) = 6 /\ (\A i \in 1..5 : a[i] = Create(Animated[i]))
        /\ a[6] = SetMoveSpeed
  BY <1>1, <1>2, <1>3
<1> QED
  BY <1>4 DEF a, p, q

\* The calls of Load of scene 1, one by one.
LEMMA Load1Is ==
  /\ Load1 \in Seq(Calls) /\ Len(Load1) = 28
  /\ \A i \in 1..12 : Load1[i] = Create(Animated[i])
  /\ Load1[13] = Add("Camera") /\ Load1[14] = SetCurrent("PERSPECTIVE_3D")
  /\ Load1[15] = Add("Camera") /\ Load1[16] = SetCurrent("ORTHOGRAPHIC_2D")
  /\ Load1[17] = Add("Mesh") /\ Load1[18] = Add("JointTable")
  /\ Load1[19] = Add("HierarchyTable") /\ Load1[20] = Add("Skel")
  /\ Load1[21] = Add("Shader") /\ Load1[22] = Add("Tex")
  /\ Load1[23] = AddTextured("Image") /\ Load1[24] = Add("Tex")
  /\ Load1[25] = AddTextured("Glyph") /\ Load1[26] = AddText
  /\ Load1[27] = AddCharacter /\ Load1[28] = AddText
<1> DEFINE a == Each(Create, Animated)
           ms == <<"Mesh", "JointTable", "HierarchyTable", "Skel", "Shader", "Tex">>
           b == Each(Add, ms)
           c == <<AddTextured("Image"), Add("Tex"), AddTextured("Glyph"), AddText, AddCharacter,
               AddText>>
<1>1. a \in Seq(Calls) /\ Len(a) = 12 /\ \A i \in 1..12 : a[i] = Create(Animated[i])
  BY AnimatedIs, EachIs
<1>2. ms \in Seq(Manager) /\ Len(ms) = 6
  BY DEF Manager
<1>3. b \in Seq(Calls) /\ Len(b) = 6 /\ \A i \in 1..6 : b[i] = Add(ms[i])
  BY <1>2, EachIs
<1>4. c \in Seq(Calls) /\ Len(c) = 6
  BY CallsAre DEF Manager
<1>5. Load1 = a \o Cameras \o b \o c
  BY DEF Load1
<1> HIDE DEF a, b, c, ms
<1>6. /\ Cameras \in Seq(Calls) /\ Len(Cameras) = 4
      /\ Cameras[1] = Add("Camera") /\ Cameras[2] = SetCurrent("PERSPECTIVE_3D")
      /\ Cameras[3] = Add("Camera") /\ Cameras[4] = SetCurrent("ORTHOGRAPHIC_2D")
  BY CamerasAre
<1>7. Row(Load1, a, Cameras, b, c)
  BY <1>1, <1>3, <1>4, <1>5, <1>6, JoinedFour
<1>8. /\ Load1 \in Seq(Calls) /\ Len(Load1) = 28
      /\ \A i \in 1..12 : Load1[i] = a[i]
      /\ \A i \in 1..4 : Load1[12 + i] = Cameras[i]
      /\ \A i \in 1..6 : Load1[16 + i] = b[i]
      /\ \A i \in 1..6 : Load1[22 + i] = c[i]
  BY <1>1, <1>3, <1>4, <1>6, <1>7 DEF Row
<1>9. /\ Load1[13] = Cameras[1] /\ Load1[14] = Cameras[2] /\ Load1[15] = Cameras[3]
      /\ Load1[16] = Cameras[4] /\ Load1[17] = Add(ms[1]) /\ Load1[18] = Add(ms[2])
      /\ Load1[19] = Add(ms[3]) /\ Load1[20] = Add(ms[4]) /\ Load1[21] = Add(ms[5])
      /\ Load1[22] = Add(ms[6]) /\ Load1[23] = c[1] /\ Load1[24] = c[2]
      /\ Load1[25] = c[3] /\ Load1[26] = c[4] /\ Load1[27] = c[5]
      /\ Load1[28] = c[6]
  BY <1>3, <1>8
<1>10. /\ ms[1] = "Mesh" /\ ms[2] = "JointTable" /\ ms[3] = "HierarchyTable"
       /\ ms[4] = "Skel" /\ ms[5] = "Shader" /\ ms[6] = "Tex"
       /\ c[1] = AddTextured("Image") /\ c[2] = Add("Tex") /\ c[3] = AddTextured("Glyph")
       /\ c[4] = AddText /\ c[5] = AddCharacter /\ c[6] = AddText
  BY DEF ms, c
<1> QED
  BY <1>1, <1>6, <1>8, <1>9, <1>10

\* The calls of Load of scene 2, one by one.
LEMMA Load2Is ==
  /\ Load2 \in Seq(Calls) /\ Len(Load2) = 28
  /\ \A i \in 1..12 : Load2[i] = Create(Animated[i])
  /\ Load2[13] = Add("Camera") /\ Load2[14] = SetCurrent("PERSPECTIVE_3D")
  /\ Load2[15] = Add("Camera") /\ Load2[16] = SetCurrent("ORTHOGRAPHIC_2D")
  /\ Load2[17] = Add("Mesh") /\ Load2[18] = Add("JointTable")
  /\ Load2[19] = Add("HierarchyTable") /\ Load2[20] = Add("Shader")
  /\ Load2[21] = Add("Tex") /\ Load2[22] = AddTextured("Image")
  /\ Load2[23] = Add("Tex") /\ Load2[24] = AddTextured("Glyph")
  /\ Load2[25] = AddText /\ Load2[26] = Add("Skel")
  /\ Load2[27] = AddCharacter /\ Load2[28] = AddText
<1> DEFINE a == Each(Create, Animated)
           ms == <<"Mesh", "JointTable", "HierarchyTable", "Shader", "Tex">>
           b == Each(Add, ms)
           c == <<AddTextured("Image"), Add("Tex"), AddTextured("Glyph"), AddText, Add("Skel"),
               AddCharacter, AddText>>
<1>1. a \in Seq(Calls) /\ Len(a) = 12 /\ \A i \in 1..12 : a[i] = Create(Animated[i])
  BY AnimatedIs, EachIs
<1>2. ms \in Seq(Manager) /\ Len(ms) = 5
  BY DEF Manager
<1>3. b \in Seq(Calls) /\ Len(b) = 5 /\ \A i \in 1..5 : b[i] = Add(ms[i])
  BY <1>2, EachIs
<1>4. c \in Seq(Calls) /\ Len(c) = 7
  BY CallsAre DEF Manager
<1>5. Load2 = a \o Cameras \o b \o c
  BY DEF Load2
<1> HIDE DEF a, b, c, ms
<1>6. /\ Cameras \in Seq(Calls) /\ Len(Cameras) = 4
      /\ Cameras[1] = Add("Camera") /\ Cameras[2] = SetCurrent("PERSPECTIVE_3D")
      /\ Cameras[3] = Add("Camera") /\ Cameras[4] = SetCurrent("ORTHOGRAPHIC_2D")
  BY CamerasAre
<1>7. Row(Load2, a, Cameras, b, c)
  BY <1>1, <1>3, <1>4, <1>5, <1>6, JoinedFour
<1>8. /\ Load2 \in Seq(Calls) /\ Len(Load2) = 28
      /\ \A i \in 1..12 : Load2[i] = a[i]
      /\ \A i \in 1..4 : Load2[12 + i] = Cameras[i]
      /\ \A i \in 1..5 : Load2[16 + i] = b[i]
      /\ \A i \in 1..7 : Load2[21 + i] = c[i]
  BY <1>1, <1>3, <1>4, <1>6, <1>7 DEF Row
<1>9. /\ Load2[13] = Cameras[1] /\ Load2[14] = Cameras[2] /\ Load2[15] = Cameras[3]
      /\ Load2[16] = Cameras[4] /\ Load2[17] = Add(ms[1]) /\ Load2[18] = Add(ms[2])
      /\ Load2[19] = Add(ms[3]) /\ Load2[20] = Add(ms[4]) /\ Load2[21] = Add(ms[5])
      /\ Load2[22] = c[1] /\ Load2[23] = c[2] /\ Load2[24] = c[3]
      /\ Load2[25] = c[4] /\ Load2[26] = c[5] /\ Load2[27] = c[6]
      /\ Load2[28] = c[7]
  BY <1>3, <1>8
<1>10. /\ ms[1] = "Mesh" /\ ms[2] = "JointTable" /\ ms[3] = "HierarchyTable"
       /\ ms[4] = "Shader" /\ ms[5] = "Tex" /\ c[1] = AddTextured("Image")
       /\ c[2] = Add("Tex") /\ c[3] = AddTextured("Glyph") /\ c[4] = AddText
       /\ c[5] = Add("Skel") /\ c[6] = AddCharacter /\ c[7] = AddText
  BY DEF ms, c
<1> QED
  BY <1>1, <1>6, <1>8, <1>9, <1>10

\* The calls of Load of scene 3, one by one.
LEMMA Load3Is ==
  /\ Load3 \in Seq(Calls) /\ Len(Load3) = 14
  /\ \A i \in 1..5 : Load3[i] = Create(Animated[i])
  /\ Load3[6] = SetMoveSpeed
  /\ Load3[7] = Add("Camera") /\ Load3[8] = SetCurrent("PERSPECTIVE_3D")
  /\ Load3[9] = Add("Camera") /\ Load3[10] = SetCurrent("ORTHOGRAPHIC_2D")
  /\ Load3[11] = Add("Mesh") /\ Load3[12] = Add("Shader")
  /\ Load3[13] = Add("Tex") /\ Load3[14] = AddRenderable({"Mesh", "Shader", "Tex"})
<1> DEFINE a == Each(Create, Plain) \o <<SetMoveSpeed>>
           ms == <<"Mesh", "Shader", "Tex">>
           b == Each(Add, ms)
           c == <<AddRenderable({"Mesh", "Shader", "Tex"})>>
<1>1. a \in Seq(Calls) /\ Len(a) = 6 /\ (\A i \in 1..5 : a[i] = Create(Animated[i]))
        /\ a[6] = SetMoveSpeed
  BY PlainThenMove
<1>2. ms \in Seq(Manager) /\ Len(ms) = 3
  BY DEF Manager
<1>3. b \in Seq(Calls) /\ Len(b) = 3 /\ \A i \in 1..3 : b[i] = Add(ms[i])
  BY <1>2, EachIs
<1>4. c \in Seq(Calls) /\ Len(c) = 1
  BY CallsAre DEF Manager
<1>5. Load3 = a \o Cameras \o b \o c
  BY DEF Load3
<1> HIDE DEF a, b, c, ms
<1>6. /\ Cameras \in Seq(Calls) /\ Len(Cameras) = 4
      /\ Cameras[1] = Add("Camera") /\ Cameras[2] = SetCurrent("PERSPECTIVE_3D")
      /\ Cameras[3] = Add("Camera") /\ Cameras[4] = SetCurrent("ORTHOGRAPHIC_2D")
  BY CamerasAre
<1>7. Row(Load3, a, Cameras, b, c)
  BY <1>1, <1>3, <1>4, <1>5, <1>6, JoinedFour
<1>8. /\ Load3 \in Seq(Calls) /\ Len(Load3) = 14
      /\ \A i \in 1..6 : Load3[i] = a[i]
      /\ \A i \in 1..4 : Load3[6 + i] = Cameras[i]
      /\ \A i \in 1..3 : Load3[10 + i] = b[i]
      /\ \A i \in 1..1 : Load3[13 + i] = c[i]
  BY <1>1, <1>3, <1>4, <1>6, <1>7 DEF Row
<1>9. /\ Load3[7] = Cameras[1] /\ Load3[8] = Cameras[2] /\ Load3[9] = Cameras[3]
      /\ Load3[10] = Cameras[4] /\ Load3[11] = Add(ms[1]) /\ Load3[12] = Add(ms[2])
      /\ Load3[13] = Add(ms[3]) /\ Load3[14] = c[1]
  BY <1>3, <1>8
<1>10. /\ ms[1] = "Mesh" /\ ms[2] = "Shader" /\ ms[3] = "Tex"
       /\ c[1] = AddRenderable({"Mesh", "Shader", "Tex"})
  BY DEF ms, c
<1> QED
  BY <1>1, <1>6, <1>8, <1>9, <1>10

\* The calls of Load of scene 4 and 5, one by one.
LEMMA LoadCubesIs ==
  /\ LoadCubes \in Seq(Calls) /\ Len(LoadCubes) = 13
  /\ \A i \in 1..5 : LoadCubes[i] = Create(Animated[i])
  /\ LoadCubes[6] = SetMoveSpeed
  /\ LoadCubes[7] = Add("Camera") /\ LoadCubes[8] = SetCurrent("PERSPECTIVE_3D")
  /\ LoadCubes[9] = Add("Camera") /\ LoadCubes[10] = SetCurrent("ORTHOGRAPHIC_2D")
  /\ LoadCubes[11] = Add("Mesh") /\ LoadCubes[12] = Add("Shader")
  /\ LoadCubes[13] = AddRenderable({"Mesh", "Shader"})
<1> DEFINE a == Each(Create, Plain) \o <<SetMoveSpeed>>
           ms == <<"Mesh", "Shader">>
           b == Each(Add, ms)
           c == <<AddRenderable({"Mesh", "Shader"})>>
<1>1. a \in Seq(Calls) /\ Len(a) = 6 /\ (\A i \in 1..5 : a[i] = Create(Animated[i]))
        /\ a[6] = SetMoveSpeed
  BY PlainThenMove
<1>2. ms \in Seq(Manager) /\ Len(ms) = 2
  BY DEF Manager
<1>3. b \in Seq(Calls) /\ Len(b) = 2 /\ \A i \in 1..2 : b[i] = Add(ms[i])
  BY <1>2, EachIs
<1>4. c \in Seq(Calls) /\ Len(c) = 1
  BY CallsAre DEF Manager
<1>5. LoadCubes = a \o Cameras \o b \o c
  BY DEF LoadCubes
<1> HIDE DEF a, b, c, ms
<1>6. /\ Cameras \in Seq(Calls) /\ Len(Cameras) = 4
      /\ Cameras[1] = Add("Camera") /\ Cameras[2] = SetCurrent("PERSPECTIVE_3D")
      /\ Cameras[3] = Add("Camera") /\ Cameras[4] = SetCurrent("ORTHOGRAPHIC_2D")
  BY CamerasAre
<1>7. Row(LoadCubes, a, Cameras, b, c)
  BY <1>1, <1>3, <1>4, <1>5, <1>6, JoinedFour
<1>8. /\ LoadCubes \in Seq(Calls) /\ Len(LoadCubes) = 13
      /\ \A i \in 1..6 : LoadCubes[i] = a[i]
      /\ \A i \in 1..4 : LoadCubes[6 + i] = Cameras[i]
      /\ \A i \in 1..2 : LoadCubes[10 + i] = b[i]
      /\ \A i \in 1..1 : LoadCubes[12 + i] = c[i]
  BY <1>1, <1>3, <1>4, <1>6, <1>7 DEF Row
<1>9. /\ LoadCubes[7] = Cameras[1] /\ LoadCubes[8] = Cameras[2] /\ LoadCubes[9] = Cameras[3]
      /\ LoadCubes[10] = Cameras[4] /\ LoadCubes[11] = Add(ms[1]) /\ LoadCubes[12] = Add(ms[2])
      /\ LoadCubes[13] = c[1]
  BY <1>3, <1>8
<1>10. /\ ms[1] = "Mesh" /\ ms[2] = "Shader" /\ c[1] = AddRenderable({"Mesh", "Shader"})
  BY DEF ms, c
<1> QED
  BY <1>1, <1>6, <1>8, <1>9, <1>10

\* What the calls do.
LEMMA CallFields ==
  ASSUME NEW op, NEW on, NEW finds, NEW kept
  PROVE  /\ Call(op, on, finds, kept).op = op /\ Call(op, on, finds, kept).on = on
         /\ Call(op, on, finds, kept).finds = finds /\ Call(op, on, finds, kept).keeps = kept
  BY DEF Call

\* The same of every call of the scenes.
LEMMA FieldsAre ==
  /\ \A m : Create(m).op = "create" /\ Create(m).on = {m} /\ Create(m).finds = {}
      /\ Create(m).keeps = {}
  /\ \A m : Destroy(m).op = "destroy" /\ Destroy(m).on = {m} /\ Destroy(m).finds = {}
      /\ Destroy(m).keeps = {}
  /\ \A m : Add(m).op = "add" /\ Add(m).on = {m} /\ Add(m).finds = {} /\ Add(m).keeps = {}
  /\ \A type : /\ SetCurrent(type).op = type /\ SetCurrent(type).on = {"Camera"}
               /\ SetCurrent(type).finds = {"Camera"} /\ SetCurrent(type).keeps = {}
  /\ SetMoveSpeed.op = "use" /\ SetMoveSpeed.on = {"Camera"} /\ SetMoveSpeed.finds = {}
      /\ SetMoveSpeed.keeps = {}
  /\ \A m : /\ AddTextured(m).op = "add" /\ AddTextured(m).on = {m}
            /\ AddTextured(m).finds = {"Tex"} /\ AddTextured(m).keeps = {<<m, "Tex">>}
  /\ AddText.op = "add" /\ AddText.on = {"World"} /\ AddText.finds = {"Mesh", "Shader", "Image"}
  /\ AddText.keeps = {"World"} \X {"Mesh", "Shader", "Tex"}
  /\ AddCharacter.op = "add" /\ AddCharacter.on = {"Clip", "World", "Anim"}
  /\ AddCharacter.finds = {"Skel", "HierarchyTable", "Mesh", "Shader", "Tex"}
  /\ AddCharacter.keeps = ({"Anim"} \X {"Clip", "Skel"}) \cup ({"World"} \X {"Anim", "Mesh",
      "Shader", "Tex"})
  /\ \A assets : /\ AddRenderable(assets).op = "add" /\ AddRenderable(assets).on = {"World"}
                 /\ AddRenderable(assets).finds = assets
                     /\ AddRenderable(assets).keeps = {"World"} \X assets
<1>1. \A m : Create(m).op = "create" /\ Create(m).on = {m} /\ Create(m).finds = {}
        /\ Create(m).keeps = {}
  BY CallFields DEF Create
<1>2. \A m : Destroy(m).op = "destroy" /\ Destroy(m).on = {m} /\ Destroy(m).finds = {}
        /\ Destroy(m).keeps = {}
  BY CallFields DEF Destroy
<1>3. \A m : Add(m).op = "add" /\ Add(m).on = {m} /\ Add(m).finds = {} /\ Add(m).keeps = {}
  BY CallFields DEF Add
<1>4. \A type : /\ SetCurrent(type).op = type /\ SetCurrent(type).on = {"Camera"}
               /\ SetCurrent(type).finds = {"Camera"} /\ SetCurrent(type).keeps = {}
  BY CallFields DEF SetCurrent
<1>5. SetMoveSpeed.op = "use" /\ SetMoveSpeed.on = {"Camera"} /\ SetMoveSpeed.finds = {}
        /\ SetMoveSpeed.keeps = {}
  BY CallFields DEF SetMoveSpeed
<1>6. \A m : /\ AddTextured(m).op = "add" /\ AddTextured(m).on = {m}
            /\ AddTextured(m).finds = {"Tex"} /\ AddTextured(m).keeps = {<<m, "Tex">>}
  BY CallFields DEF AddTextured
<1>7. /\ AddText.op = "add" /\ AddText.on = {"World"} /\ AddText.finds = {"Mesh", "Shader", "Image"}
      /\ AddText.keeps = {"World"} \X {"Mesh", "Shader", "Tex"}
  BY CallFields DEF AddText
<1>8. /\ AddCharacter.op = "add" /\ AddCharacter.on = {"Clip", "World", "Anim"}
      /\ AddCharacter.finds = {"Skel", "HierarchyTable", "Mesh", "Shader", "Tex"}
      /\ AddCharacter.keeps = ({"Anim"} \X {"Clip", "Skel"}) \cup ({"World"} \X {"Anim", "Mesh",
          "Shader", "Tex"})
  <2> DEFINE k == ({"Anim"} \X {"Clip", "Skel"}) \cup ({"World"} \X {"Anim", "Mesh", "Shader",
      "Tex"})
             on == {"Clip", "World", "Anim"}
             f == {"Skel", "HierarchyTable", "Mesh", "Shader", "Tex"}
  <2>1. AddCharacter = Call("add", on, f, k)
    BY DEF AddCharacter
  <2> HIDE DEF k, on, f
  <2>2. AddCharacter.op = "add" /\ AddCharacter.on = on /\ AddCharacter.finds = f
          /\ AddCharacter.keeps = k
    BY <2>1, CallFields
  <2> QED
    BY <2>2 DEF k, on, f
<1>9. \A assets : /\ AddRenderable(assets).op = "add" /\ AddRenderable(assets).on = {"World"}
                 /\ AddRenderable(assets).finds = assets
                     /\ AddRenderable(assets).keeps = {"World"} \X assets
  <2> SUFFICES ASSUME NEW assets
               PROVE  /\ AddRenderable(assets).op = "add" /\ AddRenderable(assets).on = {"World"}
                      /\ AddRenderable(assets).finds = assets
                          /\ AddRenderable(assets).keeps = {"World"} \X assets
    OBVIOUS
  <2> DEFINE k == {"World"} \X assets
  <2>1. AddRenderable(assets) = Call("add", {"World"}, assets, k)
    BY DEF AddRenderable
  <2> HIDE DEF k
  <2>2. /\ AddRenderable(assets).op = "add" /\ AddRenderable(assets).on = {"World"}
        /\ AddRenderable(assets).finds = assets /\ AddRenderable(assets).keeps = k
    BY <2>1, CallFields
  <2> QED
    BY <2>2 DEF k
<1> QED
  BY <1>1, <1>2, <1>3, <1>4, <1>5, <1>6, <1>7, <1>8, <1>9

\* A call after the creation of the singletons ms that finds what it looks for.
Fits(L, ms, i) ==
  /\ L[i].op \in {"add", "use"} \cup CameraType
  /\ L[i].on \subseteq {"World"} \cup ms
  /\ \A m \in L[i].finds : \E j \in 1..(i - 1) : L[j].op = "add" /\ m \in L[j].on
  /\ \A p \in L[i].keeps : L[i].op = "add" /\ p[1] \in L[i].on

\* A Load of a scene with the singletons ms: it succeeds when there are none,
\* makes just these, and sets both cameras.
LoadOf(L, ms) ==
  /\ WellLoaded(L, {}, {})
  /\ \A i \in 1..Len(L) : L[i].on \subseteq ms
  /\ \A m \in ms : \E i \in 1..Len(L) : L[i].op \in {"create", "add"} /\ m \in L[i].on
  /\ \A type \in CameraType : \E i \in 1..Len(L) : L[i].op = type

\* What is enough for that: creations first, of singletons that differ, and then
\* calls that find what they look for.
LEMMA LoadShape ==
  ASSUME NEW L \in Seq(Calls), NEW c \in 1..12, c < Len(L),
         \A i \in 1..c : L[i] = Create(Animated[i]),
         \A i \in (c + 1)..Len(L) : Fits(L, {Animated[j] : j \in 1..c}, i),
         NEW w \in 1..Len(L), L[w].op = "add", "World" \in L[w].on,
         NEW x \in 1..Len(L), L[x] = SetCurrent("PERSPECTIVE_3D"),
         NEW y \in 1..Len(L), L[y] = SetCurrent("ORTHOGRAPHIC_2D")
  PROVE  LoadOf(L, {"World"} \cup {Animated[j] : j \in 1..c})
<1>1. \A i \in 1..c : /\ L[i].op = "create" /\ L[i].on = {Animated[i]}
                      /\ L[i].finds = {} /\ L[i].keeps = {}
  BY FieldsAre
<1>2. \A i \in (c + 1)..Len(L) : L[i].op # "create" /\ L[i].op # "destroy"
  BY DEF CameraType, Fits
<1> SUFFICES ASSUME NEW i \in 1..Len(L)
             PROVE  /\ L[i].op # "destroy"
                    /\ L[i].op = "create"
                        => \A m \in L[i].on : \A j \in 1..(i - 1) : m \notin L[j].on
                    /\ L[i].op # "create" =>
                         \A m \in L[i].on \ {"World"} :
                           \E j \in 1..(i - 1) : L[j].op = "create" /\ m \in L[j].on
                    /\ \A m \in L[i].finds : \E j \in 1..(i - 1) : L[j].op = "add" /\ m \in L[j].on
                    /\ \A p \in L[i].keeps : L[i].op = "add" /\ p[1] \in L[i].on
  <2>1. SUFFICES WellLoaded(L, {}, {})
    <3>1. \A m \in {"World"} \cup {Animated[j] : j \in 1..c} :
            \E i \in 1..Len(L) : L[i].op \in {"create", "add"} /\ m \in L[i].on
      BY <1>1
    <3>2. \A i \in 1..Len(L) : L[i].on \subseteq {"World"} \cup {Animated[j] : j \in 1..c}
      BY <1>1 DEF Fits
    <3>3. L[x].op = "PERSPECTIVE_3D" /\ L[y].op = "ORTHOGRAPHIC_2D"
      BY FieldsAre
    <3>4. \A type \in CameraType : \E i \in 1..Len(L) : L[i].op = type
      BY <3>3 DEF CameraType
    <3> QED
      BY <3>1, <3>2, <3>4 DEF LoadOf
  <2> QED
    BY DEF WellLoaded
<1>3. CASE i \in 1..c
  <2>1. ASSUME NEW j \in 1..(i - 1) PROVE Animated[i] \notin L[j].on
    <3>1. j \in 1..c /\ j \in 1..12 /\ i \in 1..12 /\ j # i
      BY <1>3, 1 <= c, c <= 12
    <3>2. Animated[i] # Animated[j]
      BY <3>1, AnimatedIs
    <3> QED
      BY <1>1, <3>1, <3>2
  <2> QED
    BY <1>1, <1>3, <2>1
<1>4. c \in Nat /\ Len(L) \in Nat /\ i \in Nat
  OBVIOUS
<1>5. CASE i \in (c + 1)..Len(L)
  <2>1. ASSUME NEW m \in L[i].on \ {"World"}
        PROVE  \E j \in 1..(i - 1) : L[j].op = "create" /\ m \in L[j].on
    <3>1. PICK j \in 1..c : m = Animated[j]
      BY <1>5 DEF Fits
    <3>2. i \in Nat /\ c < i /\ j \in Nat /\ 1 <= j /\ j <= c
      BY <1>5, <1>4
    <3>3. j \in 1..(i - 1)
      BY <3>2
    <3> QED
      BY <1>1, <3>1, <3>3
  <2> QED
    BY <1>2, <1>5, <2>1 DEF Fits
<1>6. i \in 1..c \/ i \in (c + 1)..Len(L)
  BY <1>4
<1> QED
  BY <1>3, <1>5, <1>6

\* Each kind of call fits after the creations and additions that it needs.
LEMMA FitsAdd ==
  ASSUME NEW L, NEW ms, NEW i \in Nat, NEW m \in ms, L[i] = Add(m)
  PROVE  Fits(L, ms, i)
  BY FieldsAre DEF Fits

LEMMA FitsMoveSpeed ==
  ASSUME NEW L, NEW ms, NEW i \in Nat, "Camera" \in ms, L[i] = SetMoveSpeed
  PROVE  Fits(L, ms, i)
  BY FieldsAre DEF Fits

LEMMA FitsCurrent ==
  ASSUME NEW L, NEW ms, NEW i \in Nat, "Camera" \in ms,
         NEW type \in CameraType, L[i] = SetCurrent(type),
         NEW j \in 1..(i - 1), L[j] = Add("Camera")
  PROVE  Fits(L, ms, i)
  BY FieldsAre DEF Fits

LEMMA FitsTextured ==
  ASSUME NEW L, NEW ms, NEW i \in Nat, NEW m \in ms, L[i] = AddTextured(m),
         NEW j \in 1..(i - 1), L[j] = Add("Tex")
  PROVE  Fits(L, ms, i)
  BY FieldsAre DEF Fits

LEMMA FitsText ==
  ASSUME NEW L, NEW ms, NEW i \in Nat, L[i] = AddText,
         NEW j \in 1..(i - 1), L[j] = Add("Mesh"),
         NEW k \in 1..(i - 1), L[k] = Add("Shader"),
         NEW l \in 1..(i - 1), L[l] = AddTextured("Image")
  PROVE  Fits(L, ms, i)
  BY FieldsAre DEF Fits

LEMMA FitsCharacter ==
  ASSUME NEW L, NEW ms, NEW i \in Nat, L[i] = AddCharacter, {"Clip", "Anim"} \subseteq ms,
         NEW j \in 1..(i - 1), L[j] = Add("Mesh"),
         NEW k \in 1..(i - 1), L[k] = Add("Shader"),
         NEW l \in 1..(i - 1), L[l] = Add("Tex"),
         NEW m \in 1..(i - 1), L[m] = Add("Skel"),
         NEW n \in 1..(i - 1), L[n] = Add("HierarchyTable")
  PROVE  Fits(L, ms, i)
<1>1. /\ L[i].op = "add" /\ L[i].on = {"Clip", "World", "Anim"}
      /\ L[i].finds = {"Skel", "HierarchyTable", "Mesh", "Shader", "Tex"}
      /\ L[i].keeps = ({"Anim"} \X {"Clip", "Skel"}) \cup ({"World"} \X {"Anim", "Mesh", "Shader",
          "Tex"})
  BY FieldsAre, Zenon
<1>2. \A p \in L[i].keeps : p[1] \in L[i].on
  BY <1>1
<1>3. /\ L[j].op = "add" /\ L[j].on = {"Mesh"} /\ L[k].op = "add" /\ L[k].on = {"Shader"}
      /\ L[l].op = "add" /\ L[l].on = {"Tex"} /\ L[m].op = "add" /\ L[m].on = {"Skel"}
      /\ L[n].op = "add" /\ L[n].on = {"HierarchyTable"}
  BY FieldsAre
<1> QED
  BY <1>1, <1>2, <1>3 DEF Fits

LEMMA FitsRenderable ==
  ASSUME NEW L, NEW ms, NEW i \in Nat, NEW assets, L[i] = AddRenderable(assets),
         \A m \in assets : \E j \in 1..(i - 1) : L[j] = Add(m)
  PROVE  Fits(L, ms, i)
<1>1. /\ L[i].op = "add" /\ L[i].on = {"World"} /\ L[i].finds = assets
          /\ L[i].keeps = {"World"} \X assets
  BY FieldsAre
<1>2. \A m \in assets : \E j \in 1..(i - 1) : L[j].op = "add" /\ m \in L[j].on
  BY FieldsAre
<1> QED
  BY <1>1, <1>2 DEF Fits

\* The managers that the animated scenes create.
LEMMA AnimatedAll ==
  /\ \A m \in Manager \ {"World"} : \E i \in 1..12 : m = Animated[i]
  /\ \A m \in Mine(3) \ {"World"} : \E i \in 1..5 : m = Animated[i]
<1>1. /\ Animated[1] = "Camera" /\ Animated[2] = "Mesh" /\ Animated[3] = "Tex"
          /\ Animated[4] = "Shader"
      /\ Animated[5] = "System" /\ Animated[6] = "Image" /\ Animated[7] = "Glyph"
          /\ Animated[8] = "Skel"
      /\ Animated[9] = "Clip" /\ Animated[10] = "Anim" /\ Animated[11] = "JointTable"
          /\ Animated[12] = "HierarchyTable"
  BY DEF Animated
<1> QED
  BY <1>1 DEF Manager, Mine

\* Load of scene 1 succeeds.
LEMMA Load1Well == LoadOf(Load1, {"World"} \cup {Animated[j] : j \in 1..12})
<1> DEFINE ms == {Animated[j] : j \in 1..12}
<1>1. \A m \in Manager \ {"World"} : m \in ms
  BY AnimatedAll
<1>2. /\ "Camera" \in ms /\ "Mesh" \in ms /\ "JointTable" \in ms /\ "HierarchyTable" \in ms
      /\ "Skel" \in ms /\ "Shader" \in ms /\ "Tex" \in ms /\ "Image" \in ms /\ "Glyph" \in ms
      /\ "Clip" \in ms /\ "Anim" \in ms
  BY <1>1 DEF Manager
<1> HIDE DEF ms
<1>3. /\ Fits(Load1, ms, 13) /\ Fits(Load1, ms, 15) /\ Fits(Load1, ms, 17) /\ Fits(Load1, ms, 18)
      /\ Fits(Load1, ms, 19) /\ Fits(Load1, ms, 20) /\ Fits(Load1, ms, 21) /\ Fits(Load1, ms, 22)
      /\ Fits(Load1, ms, 24)
  <2>1. Fits(Load1, ms, 13)
    BY <1>2, Load1Is, FitsAdd
  <2>2. Fits(Load1, ms, 15)
    BY <1>2, Load1Is, FitsAdd
  <2>3. Fits(Load1, ms, 17)
    BY <1>2, Load1Is, FitsAdd
  <2>4. Fits(Load1, ms, 18)
    BY <1>2, Load1Is, FitsAdd
  <2>5. Fits(Load1, ms, 19)
    BY <1>2, Load1Is, FitsAdd
  <2>6. Fits(Load1, ms, 20)
    BY <1>2, Load1Is, FitsAdd
  <2>7. Fits(Load1, ms, 21)
    BY <1>2, Load1Is, FitsAdd
  <2>8. Fits(Load1, ms, 22)
    BY <1>2, Load1Is, FitsAdd
  <2>9. Fits(Load1, ms, 24)
    BY <1>2, Load1Is, FitsAdd
  <2> QED
    BY <2>1, <2>2, <2>3, <2>4, <2>5, <2>6, <2>7, <2>8, <2>9
<1>4. Fits(Load1, ms, 14) /\ Fits(Load1, ms, 16)
  <2>1. /\ 13 \in 1..(14 - 1) /\ 15 \in 1..(16 - 1) /\ "PERSPECTIVE_3D" \in CameraType
        /\ "ORTHOGRAPHIC_2D" \in CameraType
    BY DEF CameraType
  <2> QED
    BY <1>2, <2>1, Load1Is, FitsCurrent
<1>5. Fits(Load1, ms, 23) /\ Fits(Load1, ms, 25)
  <2>1. 22 \in 1..(23 - 1) /\ 22 \in 1..(25 - 1)
    OBVIOUS
  <2> QED
    BY <1>2, <2>1, Load1Is, FitsTextured
<1>6. Fits(Load1, ms, 26) /\ Fits(Load1, ms, 28)
  <2>1. /\ 17 \in 1..(26 - 1) /\ 21 \in 1..(26 - 1) /\ 23 \in 1..(26 - 1)
        /\ 17 \in 1..(28 - 1) /\ 21 \in 1..(28 - 1) /\ 23 \in 1..(28 - 1)
    OBVIOUS
  <2> QED
    BY <2>1, Load1Is, FitsText
<1>7. Fits(Load1, ms, 27)
  <2>1. /\ 17 \in 1..(27 - 1) /\ 21 \in 1..(27 - 1) /\ 22 \in 1..(27 - 1)
        /\ 20 \in 1..(27 - 1) /\ 19 \in 1..(27 - 1)
    OBVIOUS
  <2>2. {"Clip", "Anim"} \subseteq ms
    BY <1>2
  <2> QED
    BY <2>1, <2>2, Load1Is, FitsCharacter
<1>8. \A i \in (12 + 1)..Len(Load1) : Fits(Load1, ms, i)
  <2>1. \A i \in (12 + 1)..28 : i \in {13, 14, 15, 16, 17, 18, 19, 20, 21, 22, 23, 24, 25, 26, 27,
          28}
    OBVIOUS
  <2> QED
    BY <1>3, <1>4, <1>5, <1>6, <1>7, <2>1, Load1Is
<1>9. 12 \in 1..12 /\ 12 < Len(Load1)
  BY Load1Is
<1>10. 26 \in 1..Len(Load1) /\ Load1[26].op = "add" /\ "World" \in Load1[26].on
  BY Load1Is, FieldsAre
<1>11. 14 \in 1..Len(Load1) /\ 16 \in 1..Len(Load1)
  BY Load1Is
<1> USE DEF ms
<1> QED
  BY <1>8, <1>9, <1>10, <1>11, Load1Is, LoadShape

\* Load of scene 2 succeeds.
LEMMA Load2Well == LoadOf(Load2, {"World"} \cup {Animated[j] : j \in 1..12})
<1> DEFINE ms == {Animated[j] : j \in 1..12}
<1>1. \A m \in Manager \ {"World"} : m \in ms
  BY AnimatedAll
<1>2. /\ "Camera" \in ms /\ "Mesh" \in ms /\ "JointTable" \in ms /\ "HierarchyTable" \in ms
      /\ "Skel" \in ms /\ "Shader" \in ms /\ "Tex" \in ms /\ "Image" \in ms /\ "Glyph" \in ms
      /\ "Clip" \in ms /\ "Anim" \in ms
  BY <1>1 DEF Manager
<1> HIDE DEF ms
<1>3. /\ Fits(Load2, ms, 13) /\ Fits(Load2, ms, 15) /\ Fits(Load2, ms, 17) /\ Fits(Load2, ms, 18)
      /\ Fits(Load2, ms, 19) /\ Fits(Load2, ms, 20) /\ Fits(Load2, ms, 21) /\ Fits(Load2, ms, 23)
      /\ Fits(Load2, ms, 26)
  <2>1. Fits(Load2, ms, 13)
    BY <1>2, Load2Is, FitsAdd
  <2>2. Fits(Load2, ms, 15)
    BY <1>2, Load2Is, FitsAdd
  <2>3. Fits(Load2, ms, 17)
    BY <1>2, Load2Is, FitsAdd
  <2>4. Fits(Load2, ms, 18)
    BY <1>2, Load2Is, FitsAdd
  <2>5. Fits(Load2, ms, 19)
    BY <1>2, Load2Is, FitsAdd
  <2>6. Fits(Load2, ms, 20)
    BY <1>2, Load2Is, FitsAdd
  <2>7. Fits(Load2, ms, 21)
    BY <1>2, Load2Is, FitsAdd
  <2>8. Fits(Load2, ms, 23)
    BY <1>2, Load2Is, FitsAdd
  <2>9. Fits(Load2, ms, 26)
    BY <1>2, Load2Is, FitsAdd
  <2> QED
    BY <2>1, <2>2, <2>3, <2>4, <2>5, <2>6, <2>7, <2>8, <2>9
<1>4. Fits(Load2, ms, 14) /\ Fits(Load2, ms, 16)
  <2>1. /\ 13 \in 1..(14 - 1) /\ 15 \in 1..(16 - 1) /\ "PERSPECTIVE_3D" \in CameraType
        /\ "ORTHOGRAPHIC_2D" \in CameraType
    BY DEF CameraType
  <2> QED
    BY <1>2, <2>1, Load2Is, FitsCurrent
<1>5. Fits(Load2, ms, 22) /\ Fits(Load2, ms, 24)
  <2>1. 21 \in 1..(22 - 1) /\ 21 \in 1..(24 - 1)
    OBVIOUS
  <2> QED
    BY <1>2, <2>1, Load2Is, FitsTextured
<1>6. Fits(Load2, ms, 25) /\ Fits(Load2, ms, 28)
  <2>1. /\ 17 \in 1..(25 - 1) /\ 20 \in 1..(25 - 1) /\ 22 \in 1..(25 - 1)
        /\ 17 \in 1..(28 - 1) /\ 20 \in 1..(28 - 1) /\ 22 \in 1..(28 - 1)
    OBVIOUS
  <2> QED
    BY <2>1, Load2Is, FitsText
<1>7. Fits(Load2, ms, 27)
  <2>1. /\ 17 \in 1..(27 - 1) /\ 20 \in 1..(27 - 1) /\ 21 \in 1..(27 - 1)
        /\ 26 \in 1..(27 - 1) /\ 19 \in 1..(27 - 1)
    OBVIOUS
  <2>2. {"Clip", "Anim"} \subseteq ms
    BY <1>2
  <2> QED
    BY <2>1, <2>2, Load2Is, FitsCharacter
<1>8. \A i \in (12 + 1)..Len(Load2) : Fits(Load2, ms, i)
  <2>1. \A i \in (12 + 1)..28 : i \in {13, 14, 15, 16, 17, 18, 19, 20, 21, 22, 23, 24, 25, 26, 27,
          28}
    OBVIOUS
  <2> QED
    BY <1>3, <1>4, <1>5, <1>6, <1>7, <2>1, Load2Is
<1>9. 12 \in 1..12 /\ 12 < Len(Load2)
  BY Load2Is
<1>10. 25 \in 1..Len(Load2) /\ Load2[25].op = "add" /\ "World" \in Load2[25].on
  BY Load2Is, FieldsAre
<1>11. 14 \in 1..Len(Load2) /\ 16 \in 1..Len(Load2)
  BY Load2Is
<1> USE DEF ms
<1> QED
  BY <1>8, <1>9, <1>10, <1>11, Load2Is, LoadShape

\* Load of scene 3 succeeds.
LEMMA Load3Well == LoadOf(Load3, {"World"} \cup {Animated[j] : j \in 1..5})
<1> DEFINE ms == {Animated[j] : j \in 1..5}
<1>1. \A m \in Mine(3) \ {"World"} : m \in ms
  BY AnimatedAll
<1>2. "Camera" \in ms /\ "Mesh" \in ms /\ "Shader" \in ms /\ "Tex" \in ms
  BY <1>1 DEF Mine
<1> HIDE DEF ms
<1>3. /\ Fits(Load3, ms, 7) /\ Fits(Load3, ms, 9) /\ Fits(Load3, ms, 11) /\ Fits(Load3, ms, 12)
      /\ Fits(Load3, ms, 13)
  <2>1. Fits(Load3, ms, 7)
    BY <1>2, Load3Is, FitsAdd
  <2>2. Fits(Load3, ms, 9)
    BY <1>2, Load3Is, FitsAdd
  <2>3. Fits(Load3, ms, 11)
    BY <1>2, Load3Is, FitsAdd
  <2>4. Fits(Load3, ms, 12)
    BY <1>2, Load3Is, FitsAdd
  <2>5. Fits(Load3, ms, 13)
    BY <1>2, Load3Is, FitsAdd
  <2> QED
    BY <2>1, <2>2, <2>3, <2>4, <2>5
<1>4. Fits(Load3, ms, 8) /\ Fits(Load3, ms, 10)
  <2>1. /\ 7 \in 1..(8 - 1) /\ 9 \in 1..(10 - 1) /\ "PERSPECTIVE_3D" \in CameraType
        /\ "ORTHOGRAPHIC_2D" \in CameraType
    BY DEF CameraType
  <2> QED
    BY <1>2, <2>1, Load3Is, FitsCurrent
<1>5. Fits(Load3, ms, 6)
  BY <1>2, Load3Is, FitsMoveSpeed
<1>6. Fits(Load3, ms, 14)
  <2> DEFINE assets == {"Mesh", "Shader", "Tex"}
  <2>1. \A m \in assets : \E j \in 1..(14 - 1) : Load3[j] = Add(m)
    BY Load3Is
  <2>2. Load3[14] = AddRenderable(assets) /\ 14 \in Nat
    BY Load3Is
  <2> HIDE DEF assets
  <2> QED
    BY <2>1, <2>2, FitsRenderable
<1>8. \A i \in (5 + 1)..Len(Load3) : Fits(Load3, ms, i)
  <2>1. \A i \in (5 + 1)..14 : i \in {6, 7, 8, 9, 10, 11, 12, 13, 14}
    OBVIOUS
  <2> QED
    BY <1>3, <1>4, <1>5, <1>6, <2>1, Load3Is
<1>9. 5 \in 1..12 /\ 5 < Len(Load3)
  BY Load3Is
<1>10. 14 \in 1..Len(Load3) /\ Load3[14].op = "add" /\ "World" \in Load3[14].on
  BY Load3Is, FieldsAre
<1>11. 8 \in 1..Len(Load3) /\ 10 \in 1..Len(Load3)
  BY Load3Is
<1> USE DEF ms
<1> QED
  BY <1>8, <1>9, <1>10, <1>11, Load3Is, LoadShape

\* Load of scene 4 and 5 succeeds.
LEMMA LoadCubesWell == LoadOf(LoadCubes, {"World"} \cup {Animated[j] : j \in 1..5})
<1> DEFINE ms == {Animated[j] : j \in 1..5}
<1>1. \A m \in Mine(3) \ {"World"} : m \in ms
  BY AnimatedAll
<1>2. "Camera" \in ms /\ "Mesh" \in ms /\ "Shader" \in ms /\ "Tex" \in ms
  BY <1>1 DEF Mine
<1> HIDE DEF ms
<1>3. Fits(LoadCubes, ms, 7) /\ Fits(LoadCubes, ms, 9) /\ Fits(LoadCubes, ms, 11)
        /\ Fits(LoadCubes, ms, 12)
  BY <1>2, LoadCubesIs, FitsAdd
<1>4. Fits(LoadCubes, ms, 8) /\ Fits(LoadCubes, ms, 10)
  <2>1. /\ 7 \in 1..(8 - 1) /\ 9 \in 1..(10 - 1) /\ "PERSPECTIVE_3D" \in CameraType
        /\ "ORTHOGRAPHIC_2D" \in CameraType
    BY DEF CameraType
  <2> QED
    BY <1>2, <2>1, LoadCubesIs, FitsCurrent
<1>5. Fits(LoadCubes, ms, 6)
  BY <1>2, LoadCubesIs, FitsMoveSpeed
<1>6. Fits(LoadCubes, ms, 13)
  <2> DEFINE assets == {"Mesh", "Shader"}
  <2>1. \A m \in assets : \E j \in 1..(13 - 1) : LoadCubes[j] = Add(m)
    BY LoadCubesIs
  <2>2. LoadCubes[13] = AddRenderable(assets) /\ 13 \in Nat
    BY LoadCubesIs
  <2> HIDE DEF assets
  <2> QED
    BY <2>1, <2>2, FitsRenderable
<1>8. \A i \in (5 + 1)..Len(LoadCubes) : Fits(LoadCubes, ms, i)
  <2>1. \A i \in (5 + 1)..13 : i \in {6, 7, 8, 9, 10, 11, 12, 13}
    OBVIOUS
  <2> QED
    BY <1>3, <1>4, <1>5, <1>6, <2>1, LoadCubesIs
<1>9. 5 \in 1..12 /\ 5 < Len(LoadCubes)
  BY LoadCubesIs
<1>10. 13 \in 1..Len(LoadCubes) /\ LoadCubes[13].op = "add" /\ "World" \in LoadCubes[13].on
  BY LoadCubesIs, FieldsAre
<1>11. 8 \in 1..Len(LoadCubes) /\ 10 \in 1..Len(LoadCubes)
  BY LoadCubesIs
<1> USE DEF ms
<1> QED
  BY <1>8, <1>9, <1>10, <1>11, LoadCubesIs, LoadShape

\* So does the Load of every scene, and it makes the singletons of the scene.
LEMMA LoadIs == ASSUME NEW s \in Scene PROVE LoadOf(Load(s), Mine(s))
<1>1. s \in {1, 2} => Mine(s) = {"World"} \cup {Animated[j] : j \in 1..12}
  <2>1. \A j \in 1..12 : Animated[j] \in Manager
    BY DEF Animated, Manager
  <2> QED
    BY <2>1, AnimatedAll DEF Mine, Manager
<1>2. s \notin {1, 2} => Mine(s) = {"World"} \cup {Animated[j] : j \in 1..5}
  <2>1. \A j \in 1..5 : Animated[j] \in Mine(3)
    BY DEF Animated, Mine
  <2>2. "World" \in Mine(3)
    BY DEF Mine
  <2>3. s \notin {1, 2} => Mine(s) = Mine(3)
    BY DEF Mine
  <2> QED
    BY <2>1, <2>2, <2>3, AnimatedAll
<1>3. s \in {1, 2, 3, 4, 5}
  BY DEF Scene
<1>4. CASE s = 1
  BY <1>1, <1>4, Load1Well DEF Load
<1>5. CASE s = 2
  BY <1>1, <1>5, Load2Well DEF Load
<1>6. CASE s = 3
  BY <1>2, <1>6, Load3Well DEF Load
<1>7. CASE s \in {4, 5}
  BY <1>2, <1>7, LoadCubesWell DEF Load
<1> QED
  BY <1>3, <1>4, <1>5, <1>6, <1>7

\* An Unload of a scene with the singletons ms.
UnloadOf(U, ms) ==
  /\ WellUnloaded(U, ms)
  /\ \E i \in 1..Len(U) : U[i].op = "destroy" /\ U[i].on = {"Camera"}

\* Unload of scenes 1 and 2 destroys everything once.
LEMMA UnloadAnimatedIs == UnloadOf(UnloadAnimated, Manager)
<1> DEFINE ms == <<"HierarchyTable", "JointTable", "Anim", "Clip", "Skel",
                   "Glyph", "Image", "System", "World", "Shader", "Tex", "Mesh", "Camera">>
<1>1. ms \in Seq(Manager) /\ Len(ms) = 13
  BY DEF Manager
<1>2. \A i, j \in 1..13 : ms[i] = ms[j] => i = j
  OBVIOUS
<1>3. /\ ms[1] = "HierarchyTable" /\ ms[2] = "JointTable" /\ ms[3] = "Anim" /\ ms[4] = "Clip"
          /\ ms[5] = "Skel"
      /\ ms[6] = "Glyph" /\ ms[7] = "Image" /\ ms[8] = "System" /\ ms[9] = "World"
          /\ ms[10] = "Shader"
      /\ ms[11] = "Tex" /\ ms[12] = "Mesh" /\ ms[13] = "Camera"
  OBVIOUS
<1>4. UnloadAnimated = Each(Destroy, ms)
  BY DEF UnloadAnimated
<1> HIDE DEF ms
<1>5. \A m \in Manager : \E i \in 1..13 : ms[i] = m
  BY <1>3 DEF Manager
<1> DEFINE U == UnloadAnimated
<1>6. U \in Seq(Calls) /\ Len(U) = 13 /\ \A i \in 1..13 : U[i] = Destroy(ms[i])
  BY <1>1, <1>4, EachIs
<1> HIDE DEF U
<1>7. \A i \in 1..13 : U[i].op = "destroy" /\ U[i].on = {ms[i]} /\ U[i].finds = {}
        /\ U[i].keeps = {}
  <2>1. \A m : Destroy(m).op = "destroy" /\ Destroy(m).on = {m} /\ Destroy(m).finds = {}
          /\ Destroy(m).keeps = {}
    BY FieldsAre, Zenon
  <2> QED
    BY <1>6, <2>1
<1>8. \A i \in 1..13 : ms[i] \in Manager
  BY DEF ms, Manager
<1>10. WellUnloaded(U, Manager)
  <2>1. ASSUME NEW i \in 1..13
        PROVE  \A m \in U[i].on : m \in Manager /\ \A j \in 1..(i - 1) : U[j].op = "destroy"
                 => m \notin U[j].on
    <3>1. \A j \in 1..(i - 1) : j \in 1..13 /\ ms[i] # ms[j]
      BY <1>2
    <3> QED
      BY <1>7, <1>8, <3>1
  <2>2. \A m \in Manager : \E i \in 1..13 : U[i].op = "destroy" /\ m \in U[i].on
    BY <1>5, <1>7
  <2> QED
    BY <1>6, <1>7, <2>1, <2>2 DEF WellUnloaded
<1>11. U[13].op = "destroy" /\ U[13].on = {"Camera"}
  BY <1>3, <1>7
<1> QED
  BY <1>6, <1>10, <1>11 DEF UnloadOf, U

\* So does Unload of the scenes without animation.
LEMMA UnloadPlainIs == UnloadOf(UnloadPlain, Mine(3))
<1> DEFINE ms == <<"System", "World", "Shader", "Tex", "Mesh", "Camera">>
           p == <<SetMoveSpeed>>
           q == Each(Destroy, ms)
           U == p \o q
<1>1. ms \in Seq(Manager) /\ Len(ms) = 6
  BY DEF Manager
<1>2. \A i, j \in 1..6 : ms[i] = ms[j] => i = j
  OBVIOUS
<1>3. ms[1] = "System" /\ ms[2] = "World" /\ ms[3] = "Shader" /\ ms[4] = "Tex" /\ ms[5] = "Mesh"
        /\ ms[6] = "Camera"
  OBVIOUS
<1>4. UnloadPlain = U
  BY DEF UnloadPlain
<1> HIDE DEF ms
<1>5. (\A m \in Mine(3) : \E i \in 1..6 : ms[i] = m) /\ (\A i \in 1..6 : ms[i] \in Mine(3))
  BY <1>3 DEF Mine
<1>6. p \in Seq(Calls) /\ Len(p) = 1 /\ p[1] = SetMoveSpeed
  BY CallsAre
<1>7. q \in Seq(Calls) /\ Len(q) = 6 /\ \A i \in 1..6 : q[i] = Destroy(ms[i])
  BY <1>1, EachIs
<1> HIDE DEF p, q, U
<1>8. /\ U \in Seq(Calls) /\ Len(U) = Len(p) + Len(q)
      /\ \A i \in 1..Len(p) : U[i] = p[i]
      /\ \A i \in 1..Len(q) : U[Len(p) + i] = q[i]
  BY <1>6, <1>7, Joined, Zenon DEF U
<1>9. U \in Seq(Calls) /\ Len(U) = 7 /\ U[1] = SetMoveSpeed
        /\ \A i \in 1..6 : U[1 + i] = Destroy(ms[i])
  BY <1>6, <1>7, <1>8
<1>10. \A i \in 2..7 : /\ U[i].op = "destroy" /\ U[i].on = {ms[i - 1]}
                       /\ U[i].finds = {} /\ U[i].keeps = {}
  <2>1. ASSUME NEW i \in 2..7 PROVE U[i] = Destroy(ms[i - 1])
    <3>1. i - 1 \in 1..6 /\ 1 + (i - 1) = i
      OBVIOUS
    <3> QED
      BY <1>9, <3>1
  <2> QED
    BY <2>1, FieldsAre
<1>11. U[1].op = "use" /\ U[1].on = {"Camera"} /\ U[1].finds = {} /\ U[1].keeps = {}
  BY <1>9, FieldsAre
<1>12. WellUnloaded(U, Mine(3))
  <2>1. ASSUME NEW i \in 2..7
        PROVE  \A m \in U[i].on : m \in Mine(3) /\ \A j \in 1..(i - 1) : U[j].op = "destroy"
                 => m \notin U[j].on
    <3>1. \A j \in 2..(i - 1) : j \in 2..7 /\ ms[i - 1] # ms[j - 1]
      BY <1>2
    <3>2. i - 1 \in 1..6 /\ \A j \in 1..(i - 1) : j = 1 \/ j \in 2..(i - 1)
      OBVIOUS
    <3> QED
      BY <1>5, <1>10, <1>11, <3>1, <3>2
  <2>2. \A m \in Mine(3) : \E i \in 1..7 : U[i].op = "destroy" /\ m \in U[i].on
    <3>1. \A i \in 1..6 : 1 + i \in 2..7 /\ 1 + i \in 1..7 /\ (1 + i) - 1 = i
      OBVIOUS
    <3> QED
      BY <1>5, <1>10, <3>1
  <2>3. "Camera" \in Mine(3) /\ 1..(1 - 1) = {}
    BY DEF Mine
  <2>4. \A i \in 1..7 : i = 1 \/ i \in 2..7
    OBVIOUS
  <2> QED
    BY <1>9, <1>10, <1>11, <2>1, <2>2, <2>3, <2>4 DEF WellUnloaded
<1>13. U[7].op = "destroy" /\ U[7].on = {"Camera"}
  BY <1>3, <1>10
<1>14. UnloadOf(U, Mine(3))
  BY <1>9, <1>12, <1>13 DEF UnloadOf
<1> QED
  BY <1>4, <1>14

\* And so does the Unload of every scene.
LEMMA UnloadIs == ASSUME NEW s \in Scene PROVE UnloadOf(Unload(s), Mine(s))
  BY UnloadAnimatedIs, UnloadPlainIs DEF Unload, Mine

------------------------------------------------------------------------------
(* The invariant.                                                          *)

Have == {m \in Manager : Exists(m)}

\* Nothing is left of any scene.
Blank == Have = {} /\ current = {} /\ keeps = {} /\ dangling = {} /\ ~posDefaultCompareStrategy

\* In the middle of the Load of the scene s.
Loading(s) ==
  /\ WellLoaded(todo, Have, {m \in Manager : mgr[m] = "filled"})
  /\ \A m \in Manager :
       m \in Mine(s) <=>
         \/ Exists(m)
         \/ \E i \in 1..Len(todo) : todo[i].op \in {"create", "add"} /\ m \in todo[i].on
  /\ dangling = {} /\ \A p \in keeps : p[1] \in Have
  /\ current \subseteq CameraType
  /\ \A type \in CameraType : type \in current \/ \E i \in 1..Len(todo) : todo[i].op = type

\* In the middle of an Unload.
Unloading ==
  /\ WellUnloaded(todo, Have)
  /\ \A p \in keeps \cup dangling : p[1] \in Have
  /\ current # {} => "Camera" \in Have
  /\ posDefaultCompareStrategy =>
       \E i \in 1..Len(todo) : todo[i].op = "destroy" /\ todo[i].on \notin {{"System"}, {"World"}}

\* Between the Load and the Unload of the scene s.
Ready(s) ==
  /\ Have = Mine(s)
  /\ dangling = {} /\ \A p \in keeps : p[1] \in Have
  /\ current = CameraType

\* Whatever the game does, it is in one of these phases.
GInv ==
  /\ DOMAIN mgr = Manager
  /\ next \in Scene /\ digit \in 1..6 /\ latched \subseteq Digit
  /\ pc \in {"start", "loading", "unloading", "peek", "keys", "update", "render", "closing", "over"}
  /\ device <=> pc \notin {"start", "over"}
  /\ pc = "start" => ~isLoaded
  /\ pc \in {"start", "over"} => todo = <<>> /\ Blank
  /\ pc = "loading" => pState \in Scene /\ activeScene = pState /\ Loading(pState)
  /\ pc \in {"unloading", "closing"} => Unloading
  /\ pc \in {"peek", "keys", "update", "render"} =>
       todo = <<>> /\ isLoaded /\ pState \in Scene /\ activeScene = pState /\ Ready(pState)

\* The calls that are left when the first one was made.
LEMMA Rest ==
  ASSUME NEW s \in Seq(Calls), s # <<>>
  PROVE  /\ Len(s) \in Nat /\ Len(s) >= 1 /\ Head(s) = s[1] /\ s[1] \in Calls
         /\ Tail(s) \in Seq(Calls) /\ Len(Tail(s)) = Len(s) - 1
         /\ \A i \in 1..(Len(s) - 1) : Tail(s)[i] = s[i + 1]
         /\ \A i \in 1..Len(s) : i = 1 \/ (i - 1 \in 1..(Len(s) - 1) /\ Tail(s)[i - 1] = s[i])
<1>1. /\ Len(s) \in Nat /\ Len(s) >= 1 /\ Head(s) = s[1] /\ s[1] \in Calls
      /\ Tail(s) \in Seq(Calls) /\ Len(Tail(s)) = Len(s) - 1
      /\ \A i \in 1..(Len(s) - 1) : Tail(s)[i] = s[i + 1]
  BY HeadTailProperties
<1>2. ASSUME NEW i \in 1..Len(s), i # 1 PROVE i - 1 \in 1..(Len(s) - 1) /\ Tail(s)[i - 1] = s[i]
  <2>1. i - 1 \in 1..(Len(s) - 1) /\ (i - 1) + 1 = i
    BY <1>1, <1>2
  <2> QED
    BY <1>1, <2>1
<1> QED
  BY <1>1, <1>2

\* The rest of a Load finds what its first call has made as well.
LEMMA LoadRest ==
  ASSUME NEW L, NEW have, NEW full, NEW have2, NEW full2,
         WellLoaded(L, have, full), L # <<>>,
         have2 = have \cup IF L[1].op \in {"create", "add"} THEN L[1].on ELSE {},
         full \subseteq full2, L[1].op = "add" => L[1].on \subseteq full2
  PROVE  WellLoaded(Tail(L), have2, full2)
<1> DEFINE T == Tail(L)
           n == Len(L) - 1
<1>1. L \in Seq(Calls)
  BY DEF WellLoaded
<1>2. /\ Len(L) \in Nat /\ Len(L) >= 1 /\ L[1] \in Calls
      /\ T \in Seq(Calls) /\ Len(T) = n
      /\ \A i \in 1..n : T[i] = L[i + 1]
  BY <1>1, Rest
<1>3. n \in Nat
  BY <1>2
<1> HIDE DEF T, n
<1> SUFFICES ASSUME NEW i \in 1..n
             PROVE  /\ T[i].op # "destroy"
                    /\ T[i].op = "create" => \A m \in T[i].on : m \notin have2
                        /\ \A j \in 1..(i - 1) : m \notin T[j].on
                    /\ T[i].op # "create" =>
                         \A m \in T[i].on \ {"World"} :
                           m \in have2 \/ \E j \in 1..(i - 1) : T[j].op = "create" /\ m \in T[j].on
                    /\ \A m \in T[i].finds : m \in full2 \/ \E j \in 1..(i - 1) : T[j].op = "add"
                        /\ m \in T[j].on
                    /\ \A p \in T[i].keeps : T[i].op = "add" /\ p[1] \in T[i].on
  BY <1>2 DEF WellLoaded, T
<1>4. /\ i + 1 \in 1..Len(L) /\ (i + 1) - 1 = i /\ T[i] = L[i + 1]
      /\ \A j \in 1..(i - 1) : j + 1 \in 1..i /\ T[j] = L[j + 1]
      /\ \A j \in 1..i : j = 1 \/ (j - 1 \in 1..(i - 1) /\ T[j - 1] = L[j])
  <2>1. \A j \in 1..(i - 1) : j \in 1..n
    BY <1>3
  <2>2. ASSUME NEW j \in 1..i, j # 1 PROVE j - 1 \in 1..(i - 1) /\ T[j - 1] = L[j]
    <3>1. j - 1 \in 1..(i - 1) /\ j - 1 \in 1..n /\ (j - 1) + 1 = j
      BY <1>3, <2>2
    <3> QED
      BY <1>2, <3>1
  <2> QED
    BY <1>2, <1>3, <2>1, <2>2 DEF n
<1>5. 1 \in 1..i
  BY <1>3
<1>6. /\ L[i + 1].op # "destroy"
      /\ L[i + 1].op = "create" => \A m \in L[i + 1].on : m \notin have
          /\ \A j \in 1..i : m \notin L[j].on
      /\ L[i + 1].op # "create" =>
           \A m \in L[i + 1].on \ {"World"} :
             m \in have \/ \E j \in 1..i : L[j].op = "create" /\ m \in L[j].on
      /\ \A m \in L[i + 1].finds : m \in full \/ \E j \in 1..i : L[j].op = "add" /\ m \in L[j].on
      /\ \A p \in L[i + 1].keeps : L[i + 1].op = "add" /\ p[1] \in L[i + 1].on
  BY <1>4 DEF WellLoaded
<1>7. ASSUME T[i].op = "create", NEW m \in T[i].on
      PROVE  m \notin have2 /\ \A j \in 1..(i - 1) : m \notin T[j].on
  BY <1>4, <1>5, <1>6, <1>7
<1>8. ASSUME T[i].op # "create", NEW m \in T[i].on \ {"World"}
      PROVE  m \in have2 \/ \E j \in 1..(i - 1) : T[j].op = "create" /\ m \in T[j].on
  <2>1. CASE m \in have
    BY <2>1
  <2>2. CASE \E j \in 1..i : L[j].op = "create" /\ m \in L[j].on
    <3>1. PICK j \in 1..i : L[j].op = "create" /\ m \in L[j].on
      BY <2>2
    <3>2. CASE j = 1
      BY <3>1, <3>2
    <3>3. CASE j # 1
      BY <1>4, <3>1, <3>3
    <3> QED
      BY <3>2, <3>3
  <2> QED
    BY <1>4, <1>6, <1>8, <2>1, <2>2
<1>9. ASSUME NEW m \in T[i].finds
      PROVE  m \in full2 \/ \E j \in 1..(i - 1) : T[j].op = "add" /\ m \in T[j].on
  <2>1. CASE m \in full
    BY <2>1
  <2>2. CASE \E j \in 1..i : L[j].op = "add" /\ m \in L[j].on
    <3>1. PICK j \in 1..i : L[j].op = "add" /\ m \in L[j].on
      BY <2>2
    <3>2. CASE j = 1
      BY <3>1, <3>2
    <3>3. CASE j # 1
      BY <1>4, <3>1, <3>3
    <3> QED
      BY <3>2, <3>3
  <2> QED
    BY <1>4, <1>6, <2>1, <2>2
<1> QED
  BY <1>4, <1>6, <1>7, <1>8, <1>9

\* The rest of an Unload does not need what its first call has destroyed.
LEMMA UnloadRest ==
  ASSUME NEW U, NEW have, NEW have2, WellUnloaded(U, have), U # <<>>,
         have2 = have \ IF U[1].op = "destroy" THEN U[1].on ELSE {}
  PROVE  WellUnloaded(Tail(U), have2)
<1> DEFINE T == Tail(U)
           n == Len(U) - 1
<1>1. U \in Seq(Calls)
  BY DEF WellUnloaded
<1>2. /\ Len(U) \in Nat /\ Len(U) >= 1 /\ U[1] \in Calls
      /\ T \in Seq(Calls) /\ Len(T) = n
      /\ \A i \in 1..n : T[i] = U[i + 1]
      /\ \A i \in 1..Len(U) : i = 1 \/ (i - 1 \in 1..n /\ T[i - 1] = U[i])
  BY <1>1, Rest
<1>3. n \in Nat
  BY <1>2
<1> HIDE DEF T, n
<1>4. ASSUME NEW i \in 1..n
      PROVE  /\ T[i].op \in {"destroy", "use"} /\ T[i].finds = {} /\ T[i].keeps = {}
             /\ \A m \in T[i].on : m \in have2 /\ \A j \in 1..(i - 1) : T[j].op = "destroy"
                 => m \notin T[j].on
  <2>1. i + 1 \in 1..Len(U) /\ T[i] = U[i + 1] /\ (i + 1) - 1 = i /\ 1 \in 1..i
    BY <1>2, <1>3 DEF n
  <2>2. \A j \in 1..(i - 1) : j + 1 \in 1..i /\ T[j] = U[j + 1]
    BY <1>2, <1>3
  <2>3. /\ U[i + 1].op \in {"destroy", "use"} /\ U[i + 1].finds = {} /\ U[i + 1].keeps = {}
        /\ \A m \in U[i + 1].on : m \in have /\ \A j \in 1..i : U[j].op = "destroy"
            => m \notin U[j].on
    BY <2>1 DEF WellUnloaded
  <2> QED
    BY <2>1, <2>2, <2>3
<1>5. ASSUME NEW m \in have2 PROVE \E i \in 1..n : T[i].op = "destroy" /\ m \in T[i].on
  <2>1. PICK i \in 1..Len(U) : U[i].op = "destroy" /\ m \in U[i].on
    BY <1>5 DEF WellUnloaded
  <2>2. i # 1
    BY <1>5, <2>1
  <2> QED
    BY <1>2, <2>1, <2>2
<1> QED
  BY <1>2, <1>4, <1>5 DEF WellUnloaded, T

\* The game starts with nothing loaded.
LEMMA InitHolds == Init => GInv
  BY DigitAssumption DEF Init, GInv, Blank, Have, Exists, Scene

\* A call of a Load keeps what the rest of it needs.
LEMMA PerformLoads ==
  ASSUME NEW s, Loading(s), Perform, DOMAIN mgr = Manager
  PROVE  Loading(s)' /\ DOMAIN mgr' = Manager
<1> DEFINE c == todo[1]
<1>1. WellLoaded(todo, Have, {m \in Manager : mgr[m] = "filled"}) /\ todo \in Seq(Calls)
        /\ todo # <<>>
  BY DEF Loading, WellLoaded, Perform
<1>2. /\ Len(todo) \in Nat /\ Len(todo) >= 1 /\ Head(todo) = c /\ c \in Calls
      /\ \A i \in 1..Len(todo) : i = 1
          \/ (i - 1 \in 1..Len(Tail(todo)) /\ Tail(todo)[i - 1] = todo[i])
      /\ Len(Tail(todo)) = Len(todo) - 1
      /\ \A i \in 1..Len(Tail(todo)) : Tail(todo)[i] = todo[i + 1] /\ i + 1 \in 1..Len(todo)
  BY <1>1, Rest
<1> HIDE DEF c
<1>3. /\ c.op \in Ops /\ c.on \subseteq Manager /\ c.op # "destroy"
      /\ c.op = "create" => \A m \in c.on : m \notin Have
      /\ \A p \in c.keeps : c.op = "add" /\ p[1] \in c.on
  BY <1>1, <1>2 DEF WellLoaded, c, Calls
<1>4. /\ mgr' = [m \in Manager |-> IF m \notin c.on THEN mgr[m]
                                  ELSE CASE c.op = "create" -> "empty"
                                         [] c.op = "destroy" -> "none"
                                         [] c.op = "add" -> "filled"
                                         [] OTHER -> mgr[m]]
      /\ current' = current \cup ({c.op} \cap CameraType)
      /\ keeps' = keeps \cup c.keeps
      /\ dangling' = dangling
      /\ todo' = Tail(todo)
  BY <1>2, <1>3 DEF Perform
<1>5. ASSUME NEW m \in Manager
      PROVE  mgr'[m] = IF m \notin c.on THEN mgr[m]
                       ELSE CASE c.op = "create" -> "empty"
                              [] c.op = "add" -> "filled"
                              [] OTHER -> mgr[m]
  BY <1>3, <1>4
<1>6. Have' = Have \cup IF c.op \in {"create", "add"} THEN c.on ELSE {}
  BY <1>3, <1>5 DEF Have, Exists
<1>7. /\ {m \in Manager : mgr[m] = "filled"} \subseteq {m \in Manager : mgr'[m] = "filled"}
      /\ c.op = "add" => c.on \subseteq {m \in Manager : mgr'[m] = "filled"}
  BY <1>3, <1>5 DEF Have, Exists
<1>8. WellLoaded(Tail(todo), Have', {m \in Manager : mgr'[m] = "filled"})
  BY <1>1, <1>6, <1>7, LoadRest DEF c
<1>9. ASSUME NEW m \in Manager
      PROVE  m \in Mine(s) <=> m \in Have' \/ \E i \in 1..Len(Tail(todo)) :
                                Tail(todo)[i].op \in {"create", "add"} /\ m \in Tail(todo)[i].on
  <2>1. m \in Mine(s) <=> m \in Have \/ \E i \in 1..Len(todo) : todo[i].op \in {"create", "add"}
          /\ m \in todo[i].on
    BY DEF Loading, Have
  <2>2. ASSUME NEW i \in 1..Len(todo), todo[i].op \in {"create", "add"}, m \in todo[i].on, i # 1
        PROVE  \E j \in 1..Len(Tail(todo)) : Tail(todo)[j].op \in {"create", "add"}
                 /\ m \in Tail(todo)[j].on
    <3>1. i - 1 \in 1..Len(Tail(todo)) /\ Tail(todo)[i - 1] = todo[i]
      BY <1>2, <2>2
    <3> QED
      BY <2>2, <3>1
  <2>3. ASSUME NEW i \in 1..Len(Tail(todo)), Tail(todo)[i].op \in {"create", "add"},
                 m \in Tail(todo)[i].on
        PROVE  \E j \in 1..Len(todo) : todo[j].op \in {"create", "add"} /\ m \in todo[j].on
    BY <1>2, <2>3
  <2>4. 1 \in 1..Len(todo)
    BY <1>2
  <2> QED
    BY <1>6, <2>1, <2>2, <2>3, <2>4 DEF c
<1>10. \A p \in keeps' : p[1] \in Have'
  BY <1>3, <1>4, <1>6 DEF Loading
<1>11. ASSUME NEW type \in CameraType
       PROVE  type \in current' \/ \E i \in 1..Len(Tail(todo)) : Tail(todo)[i].op = type
  <2>1. type \in current \/ \E i \in 1..Len(todo) : todo[i].op = type
    BY DEF Loading
  <2>2. CASE type \in current
    BY <1>4, <2>2
  <2>3. CASE \E i \in 1..Len(todo) : todo[i].op = type
    <3>1. PICK i \in 1..Len(todo) : todo[i].op = type
      BY <2>3
    <3>2. CASE i = 1
      BY <1>4, <3>1, <3>2 DEF c
    <3>3. CASE i # 1
      BY <1>2, <3>1, <3>3
    <3> QED
      BY <3>2, <3>3
  <2> QED
    BY <2>1, <2>2, <2>3
<1>12. dangling' = {} /\ current' \subseteq CameraType /\ DOMAIN mgr' = Manager
  BY <1>4 DEF Loading
<1>13. \A m \in Manager : Exists(m)' <=> m \in Have'
  BY DEF Have
<1> QED
  BY <1>4, <1>8, <1>9, <1>10, <1>11, <1>12, <1>13 DEF Loading

\* A call of an Unload keeps what the rest of it needs.
LEMMA PerformUnloads ==
  ASSUME Unloading, Perform, DOMAIN mgr = Manager
  PROVE  Unloading' /\ DOMAIN mgr' = Manager
<1> DEFINE c == todo[1]
           gone == IF c.op = "destroy" THEN c.on ELSE {}
<1>1. WellUnloaded(todo, Have) /\ todo \in Seq(Calls) /\ todo # <<>>
  BY DEF Unloading, WellUnloaded, Perform
<1>2. /\ Len(todo) \in Nat /\ Len(todo) >= 1 /\ Head(todo) = c /\ c \in Calls
      /\ \A i \in 1..Len(todo) : i = 1
          \/ (i - 1 \in 1..Len(Tail(todo)) /\ Tail(todo)[i - 1] = todo[i])
  BY <1>1, Rest
<1> HIDE DEF c
<1>3. c.on \subseteq Manager /\ c.op \in {"destroy", "use"} /\ c.keeps = {}
  BY <1>1, <1>2 DEF WellUnloaded, c, Calls
<1>4. /\ mgr' = [m \in Manager |-> IF m \notin c.on THEN mgr[m]
                                  ELSE CASE c.op = "create" -> "empty"
                                         [] c.op = "destroy" -> "none"
                                         [] c.op = "add" -> "filled"
                                         [] OTHER -> mgr[m]]
      /\ current' = IF "Camera" \in gone THEN {} ELSE current \cup ({c.op} \cap CameraType)
      /\ posDefaultCompareStrategy' =
              IF c.on \in {{"System"}, {"World"}} THEN posDefaultCompareStrategy
              ELSE CASE c.op = "create" -> TRUE
                     [] c.op = "destroy" -> FALSE
                     [] OTHER -> posDefaultCompareStrategy
      /\ \A p \in keeps' \cup dangling' : p \in keeps \cup dangling /\ p[1] \notin gone
      /\ todo' = Tail(todo)
  BY <1>2, <1>3 DEF Perform
<1>5. ASSUME NEW m \in Manager PROVE mgr'[m] = IF m \in gone THEN "none" ELSE mgr[m]
  BY <1>3, <1>4
<1>6. Have' = Have \ gone
  BY <1>5 DEF Have, Exists
<1>7. WellUnloaded(Tail(todo), Have')
  BY <1>1, <1>6, UnloadRest DEF c
<1>8. \A p \in keeps' \cup dangling' : p[1] \in Have'
  BY <1>4, <1>6 DEF Unloading
<1>9. current' # {} => "Camera" \in Have'
  BY <1>3, <1>4, <1>6 DEF Unloading, CameraType
<1>10. ASSUME posDefaultCompareStrategy'
       PROVE  \E i \in 1..Len(Tail(todo)) : Tail(todo)[i].op = "destroy"
                /\ Tail(todo)[i].on \notin {{"System"}, {"World"}}
  <2>1. posDefaultCompareStrategy /\ ~(c.op = "destroy" /\ c.on \notin {{"System"}, {"World"}})
    BY <1>3, <1>4, <1>10
  <2>2. PICK i \in 1..Len(todo) : todo[i].op = "destroy"
          /\ todo[i].on \notin {{"System"}, {"World"}}
    BY <2>1 DEF Unloading
  <2>3. i # 1
    BY <2>1, <2>2 DEF c
  <2> QED
    BY <1>2, <2>2, <2>3
<1> QED
  BY <1>4, <1>7, <1>8, <1>9, <1>10 DEF Unloading

\* After the last call of a Load the scene is ready.
LEMMA LoadedReady ==
  ASSUME NEW s, s \in Scene, Loading(s), todo = <<>>
  PROVE  Ready(s)
<1>1. Len(todo) = 0 /\ \A i \in 1..Len(todo) : FALSE
  OBVIOUS
<1>2. Mine(s) \subseteq Manager
  BY DEF Mine, Manager
<1> QED
  BY <1>1, <1>2 DEF Loading, Ready, Have

\* After the last call of an Unload nothing is left.
LEMMA UnloadedBlank ==
  ASSUME Unloading, todo = <<>>
  PROVE  Blank
<1>1. Len(todo) = 0 /\ \A i \in 1..Len(todo) : FALSE
  OBVIOUS
<1>2. Have = {}
  BY <1>1 DEF Unloading, WellUnloaded
<1> QED
  BY <1>1, <1>2 DEF Unloading, Blank

\* The Unload of the scene that is ready, and that of none.
LEMMA UnloadBegins ==
  ASSUME NEW s \in Scene, Ready(s)
  PROVE  /\ WellUnloaded(Unload(s), Have)
         /\ \E i \in 1..Len(Unload(s)) : Unload(s)[i].op = "destroy"
             /\ Unload(s)[i].on \notin {{"System"}, {"World"}}
         /\ \A p \in keeps \cup dangling : p[1] \in Have
         /\ "Camera" \in Have
<1>1. {"Camera"} \notin {{"System"}, {"World"}}
  OBVIOUS
<1>2. "Camera" \in Mine(s)
  BY DEF Mine, Manager
<1> QED
  BY <1>1, <1>2, UnloadIs DEF Ready, UnloadOf

\* Before the first scene there is nothing to unload.
LEMMA NothingToUnload ==
  ASSUME Blank
  PROVE  /\ WellUnloaded(<<>>, Have)
         /\ \A p \in keeps \cup dangling : p[1] \in Have
         /\ current = {} /\ ~posDefaultCompareStrategy
<1>1. <<>> \in Seq(Calls) /\ Len(<<>>) = 0 /\ \A i \in 1..Len(<<>>) : FALSE
  OBVIOUS
<1> QED
  BY <1>1 DEF Blank, WellUnloaded

\* SetState from the end of a Load, from the reading of a key or at the start.
LEMMA SetStateUnloads ==
  ASSUME NEW s \in Scene, SetState(s), UNCHANGED <<context, engine>>, todo = <<>>,
         isLoaded => pState \in Scene /\ Ready(pState),
         ~isLoaded => Blank
  PROVE  \/ isLoaded /\ UNCHANGED <<pc, todo, next>>
         \/ pc' = "unloading" /\ next' = s /\ Unloading'
<1>1. CASE isLoaded /\ pState # 0 /\ s = activeScene
  BY <1>1 DEF SetState
<1>2. CASE ~(isLoaded /\ pState # 0 /\ s = activeScene)
  <2>1. /\ pc' = "unloading" /\ next' = s
        /\ todo' = IF isLoaded /\ pState # 0 THEN Unload(pState) ELSE <<>>
    BY <1>2 DEF SetState
  <2>2. Have' = Have /\ keeps' = keeps /\ dangling' = dangling /\ current' = current
        /\ posDefaultCompareStrategy' = posDefaultCompareStrategy
    BY DEF engine, Have, Exists
  <2>3. CASE isLoaded
    <3>1. todo' = Unload(pState)
      BY <2>1, <2>3 DEF Scene
    <3>2. /\ WellUnloaded(Unload(pState), Have)
          /\ \E i \in 1..Len(Unload(pState)) : Unload(pState)[i].op = "destroy"
              /\ Unload(pState)[i].on \notin {{"System"}, {"World"}}
          /\ \A p \in keeps \cup dangling : p[1] \in Have
          /\ "Camera" \in Have
      BY <2>3, UnloadBegins
    <3> QED
      BY <2>1, <2>2, <3>1, <3>2 DEF Unloading
  <2>4. CASE ~isLoaded
    <3>1. todo' = <<>>
      BY <2>1, <2>4
    <3> QED
      BY <2>1, <2>2, <2>4, <3>1, NothingToUnload DEF Unloading
  <2> QED
    BY <2>3, <2>4
<1> QED
  BY <1>1, <1>2

\* Every step of the game keeps the invariant.
LEMMA StepHolds == GInv /\ [Next]_vars => GInv'
<1> SUFFICES ASSUME GInv, [Next]_vars PROVE GInv'
  OBVIOUS
<1> DEFINE Playing == {"peek", "keys", "update", "render"}
<1>1. ASSUME NEW d \in Digit, Press(d) PROVE GInv'
  <2>1. /\ latched' = latched \cup {d} /\ pc # "over"
        /\ UNCHANGED <<pc, todo, next, digit, pState, activeScene, isLoaded, device,
                        mgr, current, posDefaultCompareStrategy, keeps, dangling>>
    BY <1>1 DEF Press, context, engine
  <2> QED
    BY <2>1 DEF GInv, Blank, Loading, Unloading, Ready, Have, Exists
<1>2. ASSUME Start PROVE GInv'
  <2>1. /\ pc = "start" /\ device' = TRUE /\ SetState(1) /\ UNCHANGED <<context, engine>>
        /\ UNCHANGED <<digit, latched, pState, activeScene, isLoaded, mgr>>
    BY <1>2 DEF Start, context, engine
  <2>2. todo = <<>> /\ Blank /\ ~isLoaded /\ 1 \in Scene
    BY <2>1 DEF GInv, Scene
  <2>3. pc' = "unloading" /\ next' = 1 /\ Unloading'
    BY <2>1, <2>2, SetStateUnloads
  <2> QED
    BY <2>1, <2>2, <2>3 DEF GInv
<1>3. ASSUME Perform PROVE GInv'
  <2>1. todo # <<>> /\ UNCHANGED <<pc, next, digit, latched, pState, activeScene, isLoaded, device>>
    BY <1>3 DEF Perform, context
  <2>2. DOMAIN mgr = Manager /\ pc \in {"loading", "unloading", "closing"}
    BY <2>1 DEF GInv
  <2>3. CASE pc = "loading"
    <3>1. Loading(pState)
      BY <2>3 DEF GInv
    <3>2. Loading(pState)' /\ DOMAIN mgr' = Manager
      <4>1. PICK s \in Scene : s = pState
        BY <2>3 DEF GInv
      <4>2. Loading(s)
        BY <3>1, <4>1 DEF Loading
      <4>3. Loading(s)' /\ DOMAIN mgr' = Manager
        BY <1>3, <2>2, <4>2, PerformLoads
      <4>4. pState' = s
        BY <2>1, <4>1
      <4> QED
        BY <4>3, <4>4 DEF Loading
    <3> QED
      BY <2>1, <2>3, <3>2 DEF GInv
  <2>4. CASE pc \in {"unloading", "closing"}
    <3>1. Unloading
      BY <2>4 DEF GInv
    <3>2. Unloading' /\ DOMAIN mgr' = Manager
      BY <1>3, <2>2, <3>1, PerformUnloads
    <3> QED
      BY <2>1, <2>4, <3>2 DEF GInv
  <2> QED
    BY <2>2, <2>3, <2>4
<1>4. ASSUME Enter PROVE GInv'
  <2>1. /\ pc = "unloading" /\ todo = <<>> /\ pState' = next /\ activeScene' = next
            /\ isLoaded' = FALSE
        /\ todo' = Load(next) /\ pc' = "loading"
        /\ UNCHANGED <<next, digit, latched, device, mgr, current, posDefaultCompareStrategy,
            keeps, dangling>>
    BY <1>4 DEF Enter, engine
  <2>2. Blank /\ next \in Scene
    BY <2>1, UnloadedBlank DEF GInv
  <2>3. LoadOf(Load(next), Mine(next)) /\ Mine(next) \subseteq Manager
    BY <2>2, LoadIs DEF Mine, Manager
  <2>4. Have' = {} /\ {m \in Manager : mgr'[m] = "filled"} = {} /\ \A m \in Manager : ~Exists(m)'
    BY <2>1, <2>2 DEF Blank, Have, Exists
  <2>5. \A m \in Manager : m \in Mine(next) <=> \E i \in 1..Len(Load(next)) :
                                Load(next)[i].op \in {"create", "add"} /\ m \in Load(next)[i].on
    BY <2>3 DEF LoadOf
  <2>6. keeps' = {} /\ dangling' = {} /\ current' = {}
    BY <2>1, <2>2 DEF Blank
  <2>7. Loading(pState)'
    BY <2>1, <2>3, <2>4, <2>5, <2>6 DEF Loading, LoadOf
  <2> QED
    BY <2>1, <2>2, <2>7 DEF GInv
<1>5. ASSUME Loaded PROVE GInv'
  <2>1. /\ pc = "loading" /\ todo = <<>> /\ isLoaded' = TRUE
        /\ pc' = IF digit = 6 THEN "peek" ELSE "keys"
        /\ digit' = IF digit = 6 THEN 6 ELSE digit + 1
        /\ UNCHANGED <<todo, next, latched, pState, activeScene, device,
                        mgr, current, posDefaultCompareStrategy, keeps, dangling>>
    BY <1>5 DEF Loaded, engine
  <2>2. pState \in Scene /\ Ready(pState)
    BY <2>1, LoadedReady DEF GInv
  <2>3. Ready(pState)'
    BY <2>1, <2>2 DEF Ready, Have, Exists
  <2> QED
    BY <2>1, <2>2, <2>3 DEF GInv
<1>6. ASSUME Idle PROVE GInv'
  <2>1. /\ pc = "peek" /\ pc' = "keys" /\ digit' = 1
        /\ UNCHANGED <<todo, next, latched, pState, activeScene, isLoaded, device,
                        mgr, current, posDefaultCompareStrategy, keeps, dangling>>
    BY <1>6 DEF Idle, context, engine
  <2> QED
    BY <2>1 DEF GInv, Ready, Have, Exists
<1>7. ASSUME Quit PROVE GInv'
  <2>1. /\ pc = "peek" /\ pc' = "closing"
        /\ todo' = IF isLoaded /\ pState # 0 THEN Unload(pState) ELSE <<>>
        /\ UNCHANGED <<next, digit, latched, pState, activeScene, isLoaded, device,
                        mgr, current, posDefaultCompareStrategy, keeps, dangling>>
    BY <1>7 DEF Quit, context, engine
  <2>2. isLoaded /\ pState \in Scene /\ Ready(pState)
    BY <2>1 DEF GInv
  <2>3. todo' = Unload(pState) /\ Have' = Have
    BY <2>1, <2>2 DEF Scene, Have, Exists
  <2>4. Unloading'
    BY <2>1, <2>2, <2>3, UnloadBegins DEF Unloading
  <2> QED
    BY <2>1, <2>4 DEF GInv
<1>8. ASSUME KeyUp PROVE GInv'
  <2>1. /\ pc = "keys" /\ digit \in Scene \ latched /\ digit' = digit + 1
        /\ UNCHANGED <<pc, todo, next, latched, pState, activeScene, isLoaded, device,
                        mgr, current, posDefaultCompareStrategy, keeps, dangling>>
    BY <1>8 DEF KeyUp, context, engine
  <2> QED
    BY <2>1 DEF GInv, Ready, Have, Exists, Scene
<1>9. ASSUME KeyDown PROVE GInv'
  <2>1. /\ pc = "keys" /\ digit \in latched /\ latched' = latched \ {digit} /\ SetState(digit)
        /\ digit' = (IF pc' = "keys" THEN digit + 1 ELSE digit)
        /\ UNCHANGED <<context, engine>> /\ UNCHANGED <<pState, activeScene, isLoaded, device, mgr>>
    BY <1>9 DEF KeyDown, context, engine
  <2>2. todo = <<>> /\ isLoaded /\ pState \in Scene /\ Ready(pState) /\ digit \in Scene
    BY <2>1, DigitAssumption DEF GInv
  <2>3. CASE UNCHANGED <<pc, todo, next>>
    BY <2>1, <2>2, <2>3 DEF GInv, Ready, Have, Exists, Scene, engine
  <2>4. CASE pc' = "unloading" /\ next' = digit /\ Unloading'
    BY <2>1, <2>2, <2>4 DEF GInv, Scene
  <2> QED
    BY <2>1, <2>2, <2>3, <2>4, SetStateUnloads
<1>10. ASSUME KeysRead PROVE GInv'
  <2>1. /\ pc = "keys" /\ pc' = "update"
        /\ UNCHANGED <<todo, next, digit, latched, pState, activeScene, isLoaded, device,
                        mgr, current, posDefaultCompareStrategy, keeps, dangling>>
    BY <1>10 DEF KeysRead, context, engine
  <2> QED
    BY <2>1 DEF GInv, Ready, Have, Exists
<1>11. ASSUME Update \/ Render PROVE GInv'
  <2>1. /\ pc \in {"update", "render"} /\ pc' \in {"render", "peek"}
            /\ mgr' = [mgr EXCEPT !["World"] = "filled"]
        /\ UNCHANGED <<todo, next, digit, latched, pState, activeScene, isLoaded, device,
                        current, posDefaultCompareStrategy, keeps, dangling>>
    BY <1>11 DEF Update, Render, GetWorld, context
  <2>2. DOMAIN mgr = Manager /\ pState \in Scene /\ Have = Mine(pState)
    BY <2>1 DEF GInv, Ready
  <2>3. "World" \in Have
    BY <2>2 DEF Mine, Manager
  <2>4. Have' = Have /\ DOMAIN mgr' = Manager
    BY <2>1, <2>2, <2>3 DEF Have, Exists
  <2>5. Ready(pState)'
    BY <2>1, <2>4 DEF GInv, Ready
  <2> QED
    BY <2>1, <2>4, <2>5 DEF GInv
<1>12. ASSUME Close PROVE GInv'
  <2>1. /\ pc = "closing" /\ todo = <<>> /\ pc' = "over" /\ device' = FALSE
        /\ UNCHANGED <<todo, next, digit, latched, mgr, current, posDefaultCompareStrategy, keeps,
            dangling>>
    BY <1>12 DEF Close, engine
  <2>2. Blank
    BY <2>1, UnloadedBlank DEF GInv
  <2>3. Blank'
    BY <2>1, <2>2 DEF Blank, Have, Exists
  <2> QED
    BY <2>1, <2>3 DEF GInv
<1>13. ASSUME UNCHANGED vars PROVE GInv'
  <2>1. UNCHANGED <<pc, todo, next, digit, latched, pState, activeScene, isLoaded, device,
                    mgr, current, posDefaultCompareStrategy, keeps, dangling>>
    BY <1>13 DEF vars, context, engine
  <2> QED
    BY <2>1 DEF GInv, Blank, Loading, Unloading, Ready, Have, Exists
<1> QED
  BY <1>1, <1>2, <1>3, <1>4, <1>5, <1>6, <1>7, <1>8, <1>9, <1>10, <1>11, <1>12, <1>13
     DEF Next, Program

\* The invariant always holds.
LEMMA InvariantHolds == Spec => []GInv
  BY InitHolds, StepHolds, PTL DEF Spec

------------------------------------------------------------------------------
(* What the invariant says.                                                *)

\* The first call that is left succeeds.
LEMMA CallFollows == GInv => CallSucceeds
<1> SUFFICES ASSUME GInv, todo # <<>>
             PROVE  /\ \A m \in Head(todo).on \ {"World"} : Exists(m) <=> Head(todo).op # "create"
                    /\ \A m \in Head(todo).finds : mgr[m] = "filled"
                    /\ device
  BY DEF CallSucceeds
<1>1. pc \in {"loading", "unloading", "closing"} /\ device
  BY DEF GInv
<1>2. CASE pc = "loading"
  <2>1. WellLoaded(todo, Have, {m \in Manager : mgr[m] = "filled"})
    BY <1>2 DEF GInv, Loading
  <2>2. Head(todo) = todo[1] /\ todo[1] \in Calls /\ 1 \in 1..Len(todo) /\ 1..(1 - 1) = {}
    BY <2>1, Rest DEF WellLoaded
  <2>3. /\ todo[1].op = "create" => \A m \in todo[1].on : m \notin Have
        /\ todo[1].op # "create" => \A m \in todo[1].on \ {"World"} : m \in Have
        /\ \A m \in todo[1].finds : m \in {k \in Manager : mgr[k] = "filled"}
    BY <2>1, <2>2 DEF WellLoaded
  <2>4. todo[1].on \subseteq Manager
    BY <2>2 DEF Calls
  <2> QED
    BY <1>1, <2>2, <2>3, <2>4 DEF Have
<1>3. CASE pc \in {"unloading", "closing"}
  <2>1. WellUnloaded(todo, Have)
    BY <1>3 DEF GInv, Unloading
  <2>2. Head(todo) = todo[1] /\ 1 \in 1..Len(todo)
    BY <2>1, Rest DEF WellUnloaded
  <2>3. todo[1].op \in {"destroy", "use"} /\ todo[1].finds = {} /\ \A m \in todo[1].on : m \in Have
    BY <2>1, <2>2 DEF WellUnloaded
  <2> QED
    BY <1>1, <2>2, <2>3 DEF Have
<1> QED
  BY <1>1, <1>2, <1>3

\* A frame finds what it needs.
LEMMA FrameFollows == GInv => FrameFindsLiveObjects
<1> SUFFICES ASSUME GInv, pc \in {"update", "render"} PROVE FrameFindsLiveObjects
  BY DEF FrameFindsLiveObjects
<1>1. pState \in Scene /\ Have = Mine(pState) /\ dangling = {} /\ current = CameraType
  BY DEF GInv, Ready
<1>2. UpdateNeeds(pState) \subseteq Mine(pState) /\ RenderNeeds(pState) \subseteq Mine(pState)
  BY DEF UpdateNeeds, RenderNeeds, Mine, Manager
<1> QED
  BY <1>1, <1>2 DEF FrameFindsLiveObjects, Have, Exists

\* The scene that runs is the loaded one.
LEMMA SceneFollows == GInv => RightSceneRuns
<1> SUFFICES ASSUME GInv, pc \in {"update", "render"} PROVE RightSceneRuns
  BY DEF RightSceneRuns
<1>1. isLoaded /\ pState = activeScene /\ pState \in Scene /\ Have = Mine(pState)
  BY DEF GInv, Ready
<1> DEFINE L == Load(pState)
           touched == UNION {c.on : c \in {L[i] : i \in 1..Len(L)}}
<1>2. LoadOf(L, Mine(pState))
  BY <1>1, LoadIs
<1> HIDE DEF L
<1>3. touched \subseteq Mine(pState)
  BY <1>2 DEF LoadOf
<1>4. Mine(pState) \subseteq touched
  BY <1>2 DEF LoadOf
<1>5. "World" \in Mine(pState)
  BY DEF Mine, Manager
<1>6. Have = {"World"} \cup touched
  BY <1>1, <1>3, <1>4, <1>5
<1> QED
  BY <1>1, <1>6 DEF RightSceneRuns, Have, L

\* When an Unload is done nothing is left.
LEMMA NothingFollows == GInv => NothingOutlivesScene
<1> SUFFICES ASSUME GInv, (pc = "unloading" /\ todo = <<>>) \/ ~device PROVE NothingOutlivesScene
  BY DEF NothingOutlivesScene
<1>1. Blank
  BY UnloadedBlank DEF GInv
<1> QED
  BY <1>1 DEF NothingOutlivesScene, Blank, Have

\* No call of a Load or an Unload fails, in whatever order the scenes follow each
\* other: a Create finds no instance yet, every other call one that exists, and a
\* Find what was added under the name (the assertions of the singletons, and the
\* order of the calls in Scene1.cpp to Scene5.cpp).
THEOREM CallsSucceed == Spec => []CallSucceeds
  BY InvariantHolds, CallFollows, PTL

\* Update and Render of a frame find every singleton they ask for and both
\* cameras, and no component, image or animation they reach points to an object
\* that an Unload has deleted (Scene1.cpp to Scene5.cpp, Game.cpp).
THEOREM FramesFindLiveObjects == Spec => []FrameFindsLiveObjects
  BY InvariantHolds, FrameFollows, PTL

\* GameSceneContext::SetState: a frame always belongs to the scene that was loaded
\* last, it is the active one, and exactly its own singletons exist, whatever keys
\* were pressed in the frames or the loads before.
THEOREM TheRightSceneRuns == Spec => []RightSceneRuns
  BY InvariantHolds, SceneFollows, PTL

\* Unload undoes Load for every scene, so the next Load, and the release of the
\* device, find nothing of the scene before: no singleton, no current camera, no
\* pointer and no compare strategy.
THEOREM ScenesLeaveNothing == Spec => []NothingOutlivesScene
  BY InvariantHolds, NothingFollows, PTL
==============================================================================
