------------------------------- MODULE RigProofs -------------------------------
(***************************************************************************)
(* What the converter's hierarchy table and the shader that reads it do    *)
(* for every file: forests of any size and order, any skins, any joints.   *)
(***************************************************************************)
EXTENDS Rig, WellFoundedInduction, SequenceTheorems, TLAPS

------------------------------------------------------------------------------
(* The choice of a skin.                                                   *)

\* A set of nodes has a least element, and Least is it.
LEMMA LeastIs ==
  ASSUME NEW S \in SUBSET Node, S # {}
  PROVE  /\ Least(S) \in S
         /\ \A m \in S : Least(S) <= m
<1>1. S \subseteq Nat /\ S # {}
  BY SizeAssumption, SMT DEF Node
<1>2. PICK n \in S : \A m \in S : <<m, n>> \notin OpToRel(<, Nat)
  BY <1>1, WFMin, NatLessThanWellFounded, Zenon
<1>3. \A m \in S : ~ (m < n)
  BY <1>1, <1>2 DEF OpToRel
<1>4. \A m \in S : n <= m
  BY <1>1, <1>3
<1> QED
  BY <1>4, Zenon DEF Least

\* What the tools take from a file.
Skinned(f) == {n \in Node : f.skin[n] >= 0}

LEMMA SkinIs ==
  ASSUME file \in Files
  PROVE  /\ IsFile(file)
         /\ skinIndex \in Skin
         /\ joints \in Seq(Node) /\ joints # <<>>
         /\ jointSkinIndex = skinIndex
<1>1. IsFile(file)
  BY FilesAssumption
<1>2. Skinned(file) # {} /\ Skinned(file) \in SUBSET Node
  BY <1>1 DEF IsFile, Skinned
<1>3. Least(Skinned(file)) \in Skinned(file)
  BY <1>2, LeastIs
<1>4. skinIndex = file.skin[Least(Skinned(file))]
  BY DEF skinIndex, Skinned
<1>5. skinIndex \in Skin
  <2>1. file.skin[Least(Skinned(file))] \in Skin \cup {-1}
    BY <1>1, <1>3 DEF IsFile, Skinned
  <2>2. file.skin[Least(Skinned(file))] >= 0
    BY <1>3 DEF Skinned
  <2> QED
    BY <1>4, <2>1, <2>2, SMT
<1>6. joints \in Seq(Node) /\ joints # <<>>
  BY <1>1, <1>5 DEF IsFile, joints
<1>7. {n \in Node : file.skin[n] >= 0 /\ file.mesh[n] >= 0} = Skinned(file)
  <2>1. \A n \in Node : file.skin[n] >= 0 => file.mesh[n] >= 0
    BY <1>1 DEF IsFile
  <2> QED
    BY <2>1, Zenon DEF Skinned
<1>8. jointSkinIndex = skinIndex
  BY <1>2, <1>4, <1>7, Zenon DEF jointSkinIndex
<1> QED
  BY <1>1, <1>5, <1>6, <1>8

\* Some mesh was paired with the skin that the hierarchy table was made for.
LEMMA TableSkinIsPaired ==
  ASSUME file \in Files
  PROVE  \E pair \in meshSkinPairs : pair[2] = skinIndex
<1> DEFINE n == Least(Skinned(file))
           m == file.mesh[n]
<1>1. IsFile(file)
  BY FilesAssumption
<1>2. Skinned(file) # {} /\ Skinned(file) \in SUBSET Node
  BY <1>1 DEF IsFile, Skinned
<1>3. n \in Skinned(file) /\ \A k \in Skinned(file) : n <= k
  BY <1>2, LeastIs
<1>4. n \in Node
  BY <1>2, <1>3
<1>5. m \in Mesh
  <2>1. m \in Mesh \cup {-1}
    BY <1>1, <1>4 DEF IsFile
  <2>2. m >= 0
    BY <1>1, <1>3, <1>4 DEF IsFile, Skinned
  <2> QED
    BY <2>1, <2>2, SMT
<1>6. n \in meshNodes(m)
  BY <1>3, <1>4 DEF meshNodes, Skinned
<1>7. meshNodes(m) \in SUBSET Skinned(file)
  BY DEF meshNodes, Skinned
<1>8. Least(meshNodes(m)) = n
  <2>1. Least(meshNodes(m)) \in meshNodes(m) /\ \A k \in meshNodes(m) : Least(meshNodes(m)) <= k
    BY <1>2, <1>6, <1>7, LeastIs
  <2>2. Least(meshNodes(m)) <= n /\ n <= Least(meshNodes(m))
    BY <1>3, <1>6, <1>7, <2>1
  <2>3. n \in Int /\ Least(meshNodes(m)) \in Int
    BY <1>2, <1>4, <1>7, <2>1, SizeAssumption, SMT DEF Node
  <2> HIDE DEF n, m
  <2> QED
    BY <2>2, <2>3, SMT
<1>9. <<m, file.skin[n]>> \in meshSkinPairs
  BY <1>5, <1>6, <1>8 DEF meshSkinPairs
<1>10. skinIndex = file.skin[n]
  BY DEF skinIndex, Skinned
<1> QED
  BY <1>9, <1>10

------------------------------------------------------------------------------
(* Climbs.  These facts are about any parent links, so that a step may use *)
(* them for the links before it and after it.                              *)

Links == [Node -> Node \cup {-1}]

\* The nodes met on the way up from n before c.
Climbed(parent, path, n, c) ==
  /\ path \in Seq(Node)
  /\ path = <<>> => c = n
  /\ path # <<>> => path[1] = n /\ parent[path[Len(path)]] = c
  /\ \A k \in 1 .. (Len(path) - 1) : parent[path[k]] = path[k + 1]

\* All the way.
Way(parent, path, n) == path # <<>> /\ Climbed(parent, path, n, -1)

Prefix(s, path) ==
  Len(s) <= Len(path) /\ \A k \in 1 .. Len(s) : s[k] = path[k]

LEMMA NodesAre == Node \subseteq Nat /\ -1 \notin Node /\ 0 \in Node
  BY SizeAssumption, SMT DEF Node

LEMMA ClimbStarts ==
  ASSUME NEW parent, NEW n \in Node
  PROVE  Climbed(parent, <<>>, n, n)
<1>1. <<>> \in Seq(Node) /\ Len(<<>>) = 0
  BY EmptySeq
<1> QED
  BY <1>1, SMT DEF Climbed

LEMMA ClimbGoesOn ==
  ASSUME NEW parent \in Links, NEW path, NEW n \in Node, NEW c \in Node,
         Climbed(parent, path, n, c)
  PROVE  /\ Append(path, c) \in Seq(Node) /\ Len(Append(path, c)) = Len(path) + 1
         /\ Climbed(parent, Append(path, c), n, parent[c])
<1> DEFINE new == Append(path, c)
<1>1. path \in Seq(Node) /\ Len(path) \in Nat
  BY DEF Climbed
<1>2. /\ new \in Seq(Node) /\ new # <<>> /\ Len(new) = Len(path) + 1
      /\ \A k \in 1 .. Len(path) : new[k] = path[k]
      /\ new[Len(path) + 1] = c
  BY <1>1, AppendProperties
<1>3. new[1] = n
  BY <1>1, <1>2, EmptySeq DEF Climbed
<1>4. \A k \in 1 .. (Len(new) - 1) : parent[new[k]] = new[k + 1]
  <2> SUFFICES ASSUME NEW k \in 1 .. (Len(new) - 1)
               PROVE  parent[new[k]] = new[k + 1]
    OBVIOUS
  <2>1. k \in 1 .. Len(path) /\ new[k] = path[k] /\ path # <<>>
    BY <1>1, <1>2, EmptySeq
  <2>2. CASE k = Len(path)
    BY <1>2, <2>1, <2>2 DEF Climbed
  <2>3. CASE k # Len(path)
    <3>1. k \in 1 .. (Len(path) - 1) /\ k + 1 \in 1 .. Len(path)
      BY <1>1, <2>1, <2>3
    <3> QED
      BY <1>2, <2>1, <3>1 DEF Climbed
  <2> QED
    BY <2>2, <2>3
<1> QED
  BY <1>2, <1>3, <1>4 DEF Climbed

LEMMA ClimbEnds ==
  ASSUME NEW parent, NEW path, NEW n \in Node, Climbed(parent, path, n, -1)
  PROVE  Way(parent, path, n)
  BY NodesAre DEF Climbed, Way

\* Two climbs from one node go the same way.
LEMMA ClimbFollows ==
  ASSUME NEW parent \in Links, NEW way, NEW path, NEW n \in Node, NEW c \in Node,
         Way(parent, way, n), Climbed(parent, path, n, c), Prefix(path, way)
  PROVE  Prefix(Append(path, c), way)
<1> DEFINE new == Append(path, c)
           l == Len(path)
<1>1. /\ path \in Seq(Node) /\ l \in Nat
      /\ way \in Seq(Node) /\ Len(way) \in Nat
  BY DEF Climbed, Way
<1>2. /\ Len(new) = l + 1
      /\ \A k \in 1 .. l : new[k] = path[k]
      /\ new[l + 1] = c
  BY <1>1, AppendProperties
<1>3. l < Len(way) /\ way[l + 1] = c
  <2>1. CASE path = <<>>
    <3>1. l = 0 /\ c = n
      BY <2>1, EmptySeq DEF Climbed
    <3>2. Len(way) > 0 /\ way[1] = n
      BY <1>1, EmptySeq DEF Way, Climbed
    <3> QED
      BY <1>1, <3>1, <3>2
  <2>2. CASE path # <<>>
    <3>1. l > 0
      BY <1>1, <2>2, EmptySeq
    <3>2. path[l] = way[l] /\ l <= Len(way)
      BY <1>1, <3>1 DEF Prefix
    <3>3. parent[way[l]] = c
      BY <2>2, <3>2 DEF Climbed
    <3>4. l # Len(way)
      BY <3>3, NodesAre DEF Way, Climbed
    <3>5. l \in 1 .. (Len(way) - 1)
      BY <1>1, <3>1, <3>2, <3>4
    <3> QED
      BY <1>1, <3>3, <3>5 DEF Way, Climbed
  <2> QED
    BY <2>1, <2>2
<1>4. ASSUME NEW k \in 1 .. Len(new) PROVE new[k] = way[k]
  <2>1. CASE k = l + 1
    BY <1>2, <1>3, <2>1
  <2>2. CASE k # l + 1
    <3>1. k \in 1 .. l
      BY <1>1, <1>2, <2>2
    <3> QED
      BY <1>2, <3>1 DEF Prefix
  <2> QED
    BY <2>1, <2>2
<1> QED
  BY <1>1, <1>2, <1>3, <1>4 DEF Prefix

\* The parent links of the children of all nodes before limit.
ParentsKnown(f, parent, limit) ==
  /\ parent \in Links
  /\ \A m, n \in Node : parent[n] = m <=> m < limit /\ n \in f.children[m]

LEMMA WayIsPathUp ==
  ASSUME NEW parent, NEW path, NEW n \in Node,
         ParentsKnown(file, parent, NumNodes), Way(parent, path, n)
  PROVE  IsPathUp(path, n)
<1>1. path \in Seq(Node) /\ Len(path) \in Nat /\ path # <<>> /\ Len(path) > 0
  BY EmptySeq DEF Way, Climbed
<1>2. \A m \in Node : m < NumNodes
  BY SizeAssumption, SMT DEF Node
<1>3. ASSUME NEW k \in 1 .. (Len(path) - 1)
      PROVE  path[k] \in file.children[path[k + 1]]
  <2>1. path[k] \in Node /\ path[k + 1] \in Node
    BY <1>1
  <2>2. parent[path[k]] = path[k + 1]
    BY DEF Way, Climbed
  <2> QED
    BY <2>1, <2>2 DEF ParentsKnown
<1>4. ASSUME NEW m \in Node PROVE path[Len(path)] \notin file.children[m]
  <2>1. path[Len(path)] \in Node
    BY <1>1
  <2>2. parent[path[Len(path)]] # m
    BY NodesAre DEF Way, Climbed
  <2> QED
    BY <1>2, <2>1, <2>2 DEF ParentsKnown
<1>5. path[1] = n
  BY DEF Way, Climbed
<1> QED
  BY <1>1, <1>3, <1>4, <1>5 DEF IsPathUp

\* The children of one more node learn their parent.
LEMMA VisitParents ==
  ASSUME NEW f, IsFile(f), NEW parent, NEW m \in Node, ParentsKnown(f, parent, m)
  PROVE  ParentsKnown(f, [n \in Node |-> IF n \in f.children[m] THEN m ELSE parent[n]],
                      m + 1)
<1> DEFINE new == [n \in Node |-> IF n \in f.children[m] THEN m ELSE parent[n]]
<1>1. new \in Links
  BY DEF ParentsKnown, Links
<1>2. ASSUME NEW k \in Node, NEW n \in Node
      PROVE  new[n] = k <=> k < m + 1 /\ n \in f.children[k]
  <2>1. k \in Nat /\ m \in Nat
    BY NodesAre
  <2>2. k # m => f.children[k] \cap f.children[m] = {}
    BY DEF IsFile
  <2>3. parent[n] = k <=> k < m /\ n \in f.children[k]
    BY DEF ParentsKnown
  <2>4. CASE n \in f.children[m]
    BY <2>1, <2>2, <2>4
  <2>5. CASE n \notin f.children[m]
    BY <2>1, <2>3, <2>5
  <2> QED
    BY <2>4, <2>5
<1> QED
  BY <1>1, <1>2, Zenon DEF ParentsKnown

------------------------------------------------------------------------------
(* Rows of the table.                                                      *)

\* What RootFirst makes of a way that is not too long.
LEMMA RootFirstIs ==
  ASSUME NEW path \in Seq(Node), MaxDepth \in Nat, Len(path) <= MaxDepth
  PROVE  /\ RootFirst(path) \in Seq(Node \cup {-1})
         /\ \A j \in 1 .. MaxDepth :
              RootFirst(path)[j] = IF j <= Len(path) THEN path[Len(path) + 1 - j] ELSE -1
<1>1. Len(path) \in Nat
  OBVIOUS
<1>2. ASSUME NEW j \in 1 .. MaxDepth
      PROVE  (IF j <= Len(path) THEN path[Len(path) + 1 - j] ELSE -1) \in Node \cup {-1}
  <2>1. j <= Len(path) => Len(path) + 1 - j \in 1 .. Len(path)
    BY <1>1
  <2> QED
    BY <2>1
<1>3. RootFirst(path) \in [1 .. MaxDepth -> Node \cup {-1}]
  BY <1>2 DEF RootFirst
<1>4. RootFirst(path) \in Seq(Node \cup {-1})
  BY <1>3, SeqDef
<1> QED
  BY <1>4 DEF RootFirst

\* The padding and the nodes survive the way through unsigned numbers.
LEMMA IntsSurvive ==
  ASSUME NEW v \in Node \cup {-1}
  PROVE  Unsigned(v) \in 0 .. (Modulus - 1) /\ Int32(Unsigned(v)) = v
<1>1. v \in Int /\ -1 <= v /\ v < NumNodes /\ NumNodes \in Nat /\ NumNodes > 0
  BY SizeAssumption, SMT DEF Node
<1>2. Modulus \in Nat /\ 2 * NumNodes < Modulus
  BY SizeAssumption
<1>3. CASE v = -1
  <2>1. (-1) % Modulus = Modulus - 1
    BY <1>1, <1>2, SMT
  <2> QED
    BY <1>1, <1>2, <1>3, <2>1 DEF Unsigned, Int32
<1>4. CASE v # -1
  <2>1. v \in Nat /\ v < Modulus
    BY <1>1, <1>2, <1>4
  <2>2. v % Modulus = v
    BY <1>2, <2>1, SMT
  <2> QED
    BY <1>1, <1>2, <2>1, <2>2 DEF Unsigned, Int32
<1> QED
  BY <1>3, <1>4

\* Where a cell of a row lies in an array of rows.
LEMMA CellsAreApart ==
  ASSUME NEW k \in Nat, NEW n \in Nat, NEW m \in Nat, NEW j \in 1 .. m
  PROVE  /\ k * m \in Nat /\ n * m \in Nat /\ k * m + j \in Nat
         /\ k < n => k * m + j <= n * m
         /\ (n + 1) * m = n * m + m
<1>1. k * m \in Nat /\ n * m \in Nat
  BY SMT
<1>2. ASSUME k < n PROVE k * m + m <= n * m
  <2>1. k + 1 <= n
    BY <1>2
  <2>2. (k + 1) * m <= n * m
    BY <2>1, SMT
  <2>3. (k + 1) * m = k * m + m
    BY SMT
  <2> QED
    BY <2>2, <2>3
<1> QED
  BY <1>1, <1>2, SMT

LEMMA CellsBefore ==
  ASSUME NEW a \in Nat, NEW b \in Nat, NEW m \in Nat, NEW j \in 1 .. m, a + j <= b
  PROVE  a + j \in 1 .. (b + m)
  BY SMT

------------------------------------------------------------------------------
(* Products.                                                               *)

\* What a thread has multiplied after a rounds over the row of a way.
Product(s, path, a) ==
  /\ s \in Seq(Node)
  /\ Len(s) = IF a <= Len(path) THEN a ELSE Len(path)
  /\ \A k \in 1 .. Len(s) : s[k] = path[Len(path) - Len(s) + k]

LEMMA ProductStarts ==
  ASSUME NEW path \in Seq(Node)
  PROVE  Product(<<>>, path, 0)
<1>1. <<>> \in Seq(Node) /\ Len(<<>>) = 0 /\ Len(path) \in Nat
  BY EmptySeq
<1> QED
  BY <1>1, SMT DEF Product

LEMMA ProductGoesOn ==
  ASSUME NEW path \in Seq(Node), NEW s, NEW a \in Nat, Product(s, path, a),
         a + 1 <= Len(path), NEW node, node = path[Len(path) - a]
  PROVE  Product(<<node>> \o s, path, a + 1)
<1>1. Len(path) \in Nat /\ Len(s) = a /\ s \in Seq(Node)
  BY DEF Product
<1>2. node \in Node
  BY <1>1
<1>3. <<node>> \in Seq(Node) /\ Len(<<node>>) = 1 /\ <<node>>[1] = node
  BY <1>2
<1> DEFINE new == <<node>> \o s
<1>4. /\ new \in Seq(Node) /\ Len(new) = a + 1
      /\ \A k \in 1 .. (a + 1) : new[k] = IF k <= 1 THEN node ELSE s[k - 1]
  BY <1>1, <1>3, ConcatProperties
<1>5. ASSUME NEW k \in 1 .. (a + 1) PROVE new[k] = path[Len(path) - (a + 1) + k]
  <2>1. CASE k = 1
    <3>1. Len(path) - (a + 1) + k = Len(path) - a
      BY <1>1, <2>1
    <3> QED
      BY <1>4, <2>1, <3>1
  <2>2. CASE k # 1
    <3>1. k - 1 \in 1 .. Len(s) /\ Len(path) - Len(s) + (k - 1) = Len(path) - (a + 1) + k
      BY <1>1, <2>2
    <3>2. s[k - 1] = path[Len(path) - Len(s) + (k - 1)]
      BY <3>1 DEF Product
    <3>3. new[k] = s[k - 1]
      BY <1>1, <1>4, <2>2
    <3> QED
      BY <3>1, <3>2, <3>3
  <2> QED
    BY <2>1, <2>2
<1> HIDE DEF new
<1>6. Product(new, path, a + 1)
  BY <1>1, <1>4, <1>5 DEF Product
<1> QED
  BY <1>6 DEF new

LEMMA ProductEnds ==
  ASSUME NEW path \in Seq(Node), NEW s, NEW a \in Nat, Product(s, path, a), Len(path) <= a
  PROVE  s = path
<1>1. s \in Seq(Node) /\ Len(path) \in Nat /\ Len(s) = Len(path)
  BY DEF Product
<1>2. ASSUME NEW k \in 1 .. Len(s) PROVE s[k] = path[k]
  <2>1. Len(path) - Len(s) + k = k
    BY <1>1
  <2>2. s[k] = path[Len(path) - Len(s) + k]
    BY DEF Product
  <2> QED
    BY <2>1, <2>2
<1> QED
  BY <1>1, <1>2, SeqEqual

LEMMA ProductStays ==
  ASSUME NEW path \in Seq(Node), NEW s, NEW a \in Nat, Product(s, path, a), Len(path) <= a
  PROVE  Product(s, path, a + 1)
<1>1. Len(path) \in Nat /\ Len(s) = Len(path)
  BY DEF Product
<1>2. ~ (a + 1 <= Len(path))
  BY <1>1
<1> QED
  BY <1>1, <1>2 DEF Product

------------------------------------------------------------------------------
(* The invariant.                                                          *)

Steps == {"nodes", "depth", "rows", "joints", "loaded", "shader", "drawn"}
Made == {"loaded", "shader", "drawn"}

\* Node n has a way up that fits into a row.
Measured(parent, depth, n) ==
  \E way \in Seq(Node) : Way(parent, way, n) /\ Len(way) <= depth

RowOf(row, n) ==
  \E way \in Seq(Node) :
    Way(parentIndex, way, n) /\ Len(way) <= MaxDepth /\ row = RootFirst(way)

Rounds ==
  /\ file \in Files /\ step \in Steps
  /\ step \in {"nodes", "depth", "rows"} => i \in Node
  /\ step = "joints" => i \in Nat /\ i < numJoints
  /\ step \in Made => i = 0

ParentsRight == ParentsKnown(file, parentIndex, IF step = "nodes" THEN i ELSE NumNodes)

\* The loop over the depths has measured the nodes before i, and count nodes of the
\* way up from i.
DepthRight ==
  /\ curr \in Node \cup {-1} /\ count \in Nat /\ MaxDepth \in Nat \cup {-1}
  /\ step = "nodes" => curr = 0 /\ count = 0
  /\ step = "depth" => \E path \in Seq(Node) :
                         Climbed(parentIndex, path, i, curr) /\ Len(path) = count
  /\ \A n \in Node : (step = "depth" /\ n < i) \/ step \in {"rows", "joints"} \cup Made
                       => Measured(parentIndex, MaxDepth, n)

\* The loop over the rows follows a way that was measured.
EntryRight ==
  /\ entry \in Seq(Node)
  /\ step # "rows" => entry = <<>>
  /\ step = "rows" =>
       /\ Climbed(parentIndex, entry, i, curr)
       /\ \E way \in Seq(Node) : /\ Way(parentIndex, way, i) /\ Len(way) <= MaxDepth
                                 /\ Prefix(entry, way)

RowsRight ==
  /\ TableA \in Seq(Seq(Node \cup {-1}))
  /\ Len(TableA) = IF step \in {"nodes", "depth"} THEN 0
                   ELSE IF step = "rows" THEN i ELSE NumNodes
  /\ \A n \in Node : n < Len(TableA) => RowOf(TableA[n + 1], n)

\* The rows of the joints copied so far.
Copied == IF step = "joints" THEN i ELSE IF step \in Made THEN numJoints ELSE 0

DataRight ==
  /\ poData \in Seq(0 .. (Modulus - 1))
  /\ Copied = 0 => poData = <<>>
  /\ step \in {"joints"} \cup Made =>
       /\ Len(poData) = Copied * MaxDepth
       /\ \A k \in 0 .. (Copied - 1), j \in 1 .. MaxDepth :
            poData[k * MaxDepth + j] = Unsigned(TableA[joints[k + 1] + 1][j])

\* A thread in the middle of its row.
Running(b) ==
  \E way \in Seq(Node) :
    /\ Way(parentIndex, way, joints[b + 1]) /\ Len(way) <= MaxDepth
    /\ TableA[joints[b + 1] + 1] = RootFirst(way)
    /\ at[b] <= MaxDepth + 1
    /\ Product(tmp[b], way, at[b])
    /\ at[b] = MaxDepth + 1 => uBoneWorldOut[b] = tmp[b]

ThreadsRight ==
  /\ at \in [Thread -> Nat] /\ tmp \in [Thread -> Seq(Node)]
  /\ uBoneWorldOut \in [Thread -> Seq(Node)]
  /\ step = "shader" => \A b \in Thread : Running(b)
  /\ step = "drawn" => \A b \in Thread : Way(parentIndex, uBoneWorldOut[b], joints[b + 1])

TableInv == Rounds /\ ParentsRight /\ DepthRight /\ EntryRight /\ RowsRight /\ DataRight
RigInv == TableInv /\ ThreadsRight

------------------------------------------------------------------------------
(* The first state and the steps.                                          *)

\* A row is a sequence of its cells.
LEMMA RowIsSeq ==
  ASSUME NEW U, NEW n \in Nat, NEW f \in [1 .. n -> U]
  PROVE  f \in Seq(U) /\ Len(f) = n
<1>1. f \in Seq(U)
  BY SeqDef, Zenon
<1> QED
  BY <1>1, LenProperties

\* What a step of a loop does to its round.
LEMMA RoundIs ==
  ASSUME NEW rounds \in Nat, NEW next, i \in Nat, i < rounds, Round(rounds, next)
  PROVE  \/ i' = i + 1 /\ i + 1 < rounds /\ step' = step
         \/ i' = 0 /\ i + 1 = rounds /\ step' = next
  BY DEF Round

LEMMA NodeIs ==
  ASSUME NEW n
  PROVE  n \in Node <=> n \in Nat /\ n < NumNodes
  BY SizeAssumption, SMT DEF Node

LEMMA InitInv == Init => RigInv
<1> SUFFICES ASSUME Init PROVE RigInv
  OBVIOUS
<1> USE DEF Init
<1>1. IsFile(file) /\ 0 \in Node
  BY SkinIs, NodesAre
<1>2. <<>> \in Seq(Node) /\ <<>> \in Seq(Seq(Node \cup {-1}))
        /\ <<>> \in Seq(0 .. (Modulus - 1)) /\ Len(<<>>) = 0
  BY EmptySeq
<1>3. Rounds
  BY <1>1 DEF Rounds, Steps, Made
<1>4. ParentsRight
  <2>1. parentIndex \in Links
    BY DEF Links
  <2>2. \A m, n \in Node : parentIndex[n] # m /\ ~ (m < 0)
    BY NodesAre
  <2> QED
    BY <2>1, <2>2 DEF ParentsRight, ParentsKnown
<1>5. DepthRight
  BY <1>1, <1>2 DEF DepthRight, Made
<1>6. EntryRight
  BY <1>2 DEF EntryRight
<1>7. RowsRight
  <2>1. \A n \in Node : ~ (n < 0)
    BY NodesAre
  <2> QED
    BY <1>2, <2>1 DEF RowsRight
<1>8. DataRight
  BY <1>2 DEF DataRight, Copied, Made
<1>9. ThreadsRight
  BY <1>2 DEF ThreadsRight
<1> QED
  BY <1>3, <1>4, <1>5, <1>6, <1>7, <1>8, <1>9 DEF RigInv, TableInv

\* The loops of the converter leave the threads alone.
LEMMA ToolsLeaveThreads ==
  ASSUME ThreadsRight, UNCHANGED <<file, threads>>, step' \notin {"shader", "drawn"}
  PROVE  ThreadsRight'
<1>1. Thread' = Thread
  BY DEF Thread, numJoints, joints, skinIndex
<1> QED
  BY <1>1 DEF ThreadsRight, threads

LEMMA VisitInv == TableInv /\ Visit => TableInv'
<1> SUFFICES ASSUME TableInv, Visit PROVE TableInv'
  OBVIOUS
<1> USE DEF TableInv, Visit, climb
<1>1. file \in Files /\ IsFile(file) /\ step = "nodes" /\ i \in Node /\ i \in Nat /\ i < NumNodes
  BY SkinIs, NodeIs DEF Rounds
<1>2. \/ i' = i + 1 /\ i + 1 < NumNodes /\ step' = "nodes"
      \/ i' = 0 /\ i + 1 = NumNodes /\ step' = "depth"
  BY <1>1, SizeAssumption, RoundIs
<1>3. i' \in Node
  BY <1>1, <1>2, NodeIs, NodesAre
<1>4. Rounds'
  BY <1>1, <1>2, <1>3 DEF Rounds, Steps, Made
<1>5. ParentsKnown(file, parentIndex', i + 1)
  <2>1. ParentsKnown(file, parentIndex, i)
    BY <1>1 DEF ParentsRight
  <2> QED
    BY <1>1, <2>1, VisitParents
<1>6. ParentsRight'
  BY <1>2, <1>5 DEF ParentsRight
<1>7. DepthRight'
  <2>1. step' = "depth" => i' = 0 /\ curr' = i' /\ count' = 0
    BY <1>1, <1>2 DEF DepthRight
  <2>2. Climbed(parentIndex', <<>>, i', i') /\ <<>> \in Seq(Node) /\ Len(<<>>) = 0
    BY <1>3, ClimbStarts, EmptySeq
  <2>3. \A n \in Node : ~ (n < 0)
    BY NodesAre
  <2>4. curr' \in Node \cup {-1} /\ count' \in Nat /\ MaxDepth' \in Nat \cup {-1}
    BY DEF DepthRight
  <2>5. step' = "nodes" => curr' = 0 /\ count' = 0
    BY <1>1 DEF DepthRight
  <2>6. step' = "depth" => \E path \in Seq(Node) :
                            Climbed(parentIndex', path, i', curr') /\ Len(path) = count'
    BY <2>1, <2>2
  <2>7. \A n \in Node : ~ ((step' = "depth" /\ n < i') \/ step' \in {"rows", "joints"} \cup Made)
    BY <1>2, <2>3 DEF Made
  <2> QED
    BY <2>4, <2>5, <2>6, <2>7 DEF DepthRight
<1>8. EntryRight'
  BY <1>1, <1>2 DEF EntryRight
<1>9. RowsRight'
  <2>1. TableA' = TableA /\ Len(TableA) = 0
    BY <1>1 DEF RowsRight
  <2>2. \A n \in Node : ~ (n < 0)
    BY NodesAre
  <2> QED
    BY <1>2, <2>1, <2>2 DEF RowsRight
<1>10. DataRight'
  BY <1>1, <1>2 DEF DataRight, Copied, Made
<1> QED
  BY <1>4, <1>6, <1>7, <1>8, <1>9, <1>10

LEMMA ClimbDepthInv == TableInv /\ ClimbDepth => TableInv'
<1> SUFFICES ASSUME TableInv, ClimbDepth PROVE TableInv'
  OBVIOUS
<1> USE DEF TableInv, ClimbDepth
<1>1. file \in Files /\ step = "depth" /\ i \in Node /\ parentIndex \in Links
  BY DEF Rounds, ParentsRight, ParentsKnown
<1>2. curr \in Node /\ parentIndex[curr] \in Node \cup {-1}
  BY <1>1 DEF DepthRight, Links
<1>3. Rounds'
  BY DEF Rounds
<1>4. ParentsRight'
  BY DEF ParentsRight
<1>5. DepthRight'
  <2>1. PICK path \in Seq(Node) : Climbed(parentIndex, path, i, curr) /\ Len(path) = count
    BY <1>1 DEF DepthRight
  <2>2. /\ Append(path, curr) \in Seq(Node) /\ Len(Append(path, curr)) = count + 1
        /\ Climbed(parentIndex, Append(path, curr), i, parentIndex[curr])
    BY <1>1, <1>2, <2>1, ClimbGoesOn
  <2>3. \A n \in Node : n < i => Measured(parentIndex, MaxDepth, n)
    BY <1>1 DEF DepthRight
  <2>4. count + 1 \in Nat /\ MaxDepth \in Nat \cup {-1}
    BY DEF DepthRight
  <2> QED
    BY <1>1, <1>2, <2>2, <2>3, <2>4 DEF DepthRight, Made
<1>6. EntryRight'
  BY <1>1 DEF EntryRight
<1>7. RowsRight'
  <2>1. Len(TableA) = 0 /\ TableA \in Seq(Seq(Node \cup {-1}))
    BY <1>1 DEF RowsRight
  <2>2. \A n \in Node : ~ (n < 0)
    BY NodesAre
  <2> QED
    BY <1>1, <2>1, <2>2 DEF RowsRight
<1>8. DataRight'
  BY <1>1 DEF DataRight, Copied, Made
<1> QED
  BY <1>3, <1>4, <1>5, <1>6, <1>7, <1>8

LEMMA DepthKnownInv == TableInv /\ DepthKnown => TableInv'
<1> SUFFICES ASSUME TableInv, DepthKnown PROVE TableInv'
  OBVIOUS
<1> USE DEF TableInv, DepthKnown
<1>1. /\ file \in Files /\ step = "depth" /\ i \in Node /\ i \in Nat /\ i < NumNodes
      /\ parentIndex \in Links /\ parentIndex' = parentIndex
  BY NodeIs DEF Rounds, ParentsRight, ParentsKnown
<1>2. \/ i' = i + 1 /\ i + 1 < NumNodes /\ step' = "depth"
      \/ i' = 0 /\ i + 1 = NumNodes /\ step' = "rows"
  BY <1>1, SizeAssumption, RoundIs
<1>3. i' \in Node /\ i' \in Nat /\ curr' = i' /\ count' = 0
  BY <1>1, <1>2, NodeIs, NodesAre
<1>4. count \in Nat /\ MaxDepth \in Nat \cup {-1}
  BY DEF DepthRight
<1>5. MaxDepth' \in Nat /\ count <= MaxDepth' /\ MaxDepth <= MaxDepth'
  BY <1>4
<1>6. ASSUME NEW n \in Node, n < i + 1 PROVE Measured(parentIndex, MaxDepth', n)
  <2>1. PICK path \in Seq(Node) : Climbed(parentIndex, path, i, -1) /\ Len(path) = count
    BY <1>1 DEF DepthRight
  <2>2. Way(parentIndex, path, i) /\ Len(path) <= MaxDepth'
    BY <1>1, <1>5, <2>1, ClimbEnds
  <2>3. CASE n = i
    BY <2>2, <2>3 DEF Measured
  <2>4. CASE n # i
    <3>1. n < i
      BY <1>1, <1>6, <2>4, NodesAre
    <3>2. Measured(parentIndex, MaxDepth, n)
      BY <1>1, <3>1 DEF DepthRight
    <3>3. PICK way \in Seq(Node) : Way(parentIndex, way, n) /\ Len(way) <= MaxDepth
      BY <3>2 DEF Measured
    <3>4. Len(way) <= MaxDepth'
      BY <1>4, <1>5, <3>3
    <3> QED
      BY <3>3, <3>4 DEF Measured
  <2> QED
    BY <2>3, <2>4
<1>7. Rounds'
  BY <1>1, <1>2, <1>3 DEF Rounds, Steps, Made
<1>8. ParentsRight'
  BY <1>1, <1>2 DEF ParentsRight
<1>9. Climbed(parentIndex, <<>>, i', i') /\ <<>> \in Seq(Node) /\ Len(<<>>) = 0
  BY <1>3, ClimbStarts, EmptySeq
<1>10. DepthRight'
  <2>1. \A n \in Node : (step' = "depth" /\ n < i') \/ step' \in {"rows", "joints"} \cup Made
                        => Measured(parentIndex', MaxDepth', n)
    <3> SUFFICES ASSUME NEW n \in Node,
                        (step' = "depth" /\ n < i') \/ step' \in {"rows", "joints"} \cup Made
                 PROVE  n < i + 1
      BY <1>1, <1>6
    <3> QED
      BY <1>1, <1>2, NodeIs DEF Made
  <2>2. \E path \in Seq(Node) : Climbed(parentIndex', path, i', curr') /\ Len(path) = count'
    BY <1>1, <1>3, <1>9
  <2>3. curr' \in Node \cup {-1} /\ count' \in Nat /\ MaxDepth' \in Nat \cup {-1}
    BY <1>3, <1>5
  <2>4. step' # "nodes"
    BY <1>1, <1>2
  <2> QED
    BY <2>1, <2>2, <2>3, <2>4 DEF DepthRight
<1>11. EntryRight'
  <2>1. entry = <<>> /\ entry' = entry
    BY <1>1 DEF EntryRight
  <2>2. ASSUME step' = "rows"
        PROVE  \E way \in Seq(Node) : /\ Way(parentIndex', way, i') /\ Len(way) <= MaxDepth'
                                     /\ Prefix(entry', way)
    <3>1. i' < i + 1
      BY <1>1, <1>2, <2>2
    <3>2. PICK way \in Seq(Node) : Way(parentIndex, way, i') /\ Len(way) <= MaxDepth'
      BY <1>3, <1>6, <3>1 DEF Measured
    <3>3. Prefix(<<>>, way)
      BY <1>9 DEF Prefix
    <3> QED
      BY <1>1, <2>1, <3>2, <3>3
  <2> QED
    BY <1>1, <1>3, <1>9, <2>1, <2>2 DEF EntryRight
<1>12. RowsRight'
  <2>1. Len(TableA) = 0 /\ TableA \in Seq(Seq(Node \cup {-1})) /\ TableA' = TableA
    BY <1>1 DEF RowsRight
  <2>2. \A n \in Node : ~ (n < 0)
    BY NodesAre
  <2> QED
    BY <1>2, <2>1, <2>2 DEF RowsRight
<1>13. DataRight'
  BY <1>1, <1>2 DEF DataRight, Copied, Made
<1> QED
  BY <1>7, <1>8, <1>10, <1>11, <1>12, <1>13

LEMMA ClimbRowInv == TableInv /\ ClimbRow => TableInv'
<1> SUFFICES ASSUME TableInv, ClimbRow PROVE TableInv'
  OBVIOUS
<1> USE DEF TableInv, ClimbRow
<1>1. file \in Files /\ step = "rows" /\ i \in Node /\ parentIndex \in Links
  BY DEF Rounds, ParentsRight, ParentsKnown
<1>2. curr \in Node /\ parentIndex[curr] \in Node \cup {-1}
  BY <1>1 DEF DepthRight, Links
<1>3. Rounds'
  BY DEF Rounds
<1>4. ParentsRight'
  BY DEF ParentsRight
<1>5. DepthRight'
  BY <1>1, <1>2 DEF DepthRight
<1>6. EntryRight'
  <2>1. Climbed(parentIndex, entry, i, curr)
    BY <1>1 DEF EntryRight
  <2>2. PICK way \in Seq(Node) : /\ Way(parentIndex, way, i) /\ Len(way) <= MaxDepth
                                /\ Prefix(entry, way)
    BY <1>1 DEF EntryRight
  <2>3. Prefix(Append(entry, curr), way)
    BY <1>1, <1>2, <2>1, <2>2, ClimbFollows
  <2>4. /\ Append(entry, curr) \in Seq(Node)
        /\ Climbed(parentIndex, Append(entry, curr), i, parentIndex[curr])
    BY <1>1, <1>2, <2>1, ClimbGoesOn
  <2> QED
    BY <1>1, <2>2, <2>3, <2>4 DEF EntryRight
<1>7. RowsRight'
  BY <1>1 DEF RowsRight, RowOf, RootFirst
<1>8. DataRight'
  BY <1>1 DEF DataRight, Copied, Made
<1> QED
  BY <1>3, <1>4, <1>5, <1>6, <1>7, <1>8

LEMMA RowKnownInv == TableInv /\ RowKnown => TableInv'
<1> SUFFICES ASSUME TableInv, RowKnown PROVE TableInv'
  OBVIOUS
<1> USE DEF TableInv, RowKnown
<1>1. /\ file \in Files /\ step = "rows" /\ i \in Node /\ i \in Nat /\ i < NumNodes
      /\ parentIndex \in Links /\ parentIndex' = parentIndex /\ MaxDepth' = MaxDepth
      /\ file' = file
  BY NodeIs DEF Rounds, ParentsRight, ParentsKnown
<1>2. \/ i' = i + 1 /\ i + 1 < NumNodes /\ step' = "rows"
      \/ i' = 0 /\ i + 1 = NumNodes /\ step' = "joints"
  BY <1>1, SizeAssumption, RoundIs
<1>3. i' \in Node /\ i' \in Nat /\ curr' = i' /\ entry' = <<>>
  BY <1>1, <1>2, NodeIs, NodesAre
<1>4. PICK way \in Seq(Node) : /\ Way(parentIndex, way, i) /\ Len(way) <= MaxDepth
                              /\ Prefix(entry, way)
  BY <1>1 DEF EntryRight
<1>5. /\ Way(parentIndex, entry, i) /\ entry \in Seq(Node) /\ Len(entry) <= MaxDepth
      /\ MaxDepth \in Nat
  <2>1. Climbed(parentIndex, entry, i, -1) /\ entry \in Seq(Node)
    BY <1>1 DEF EntryRight
  <2>2. Way(parentIndex, entry, i)
    BY <1>1, <2>1, ClimbEnds
  <2>3. Len(entry) \in Nat /\ Len(way) \in Nat /\ Len(entry) <= Len(way)
    BY <1>4, <2>1 DEF Prefix
  <2>4. MaxDepth \in Nat \cup {-1}
    BY DEF DepthRight
  <2> QED
    BY <1>4, <2>1, <2>2, <2>3, <2>4
<1>6. numJoints \in Nat /\ numJoints > 0 /\ numJoints' = numJoints
  <2>1. joints \in Seq(Node) /\ joints # <<>>
    BY <1>1, SkinIs
  <2>2. numJoints' = numJoints
    BY <1>1 DEF numJoints, joints, skinIndex
  <2> QED
    BY <2>1, <2>2, EmptySeq DEF numJoints
<1>7. Rounds'
  BY <1>1, <1>2, <1>3, <1>6 DEF Rounds, Steps, Made
<1>8. ParentsRight'
  BY <1>1, <1>2 DEF ParentsRight
<1>9. DepthRight'
  <2>1. \A n \in Node : Measured(parentIndex, MaxDepth, n)
    BY <1>1 DEF DepthRight
  <2>2. count' \in Nat /\ MaxDepth' \in Nat \cup {-1}
    BY DEF DepthRight
  <2> QED
    BY <1>1, <1>2, <1>3, <2>1, <2>2 DEF DepthRight
<1>10. EntryRight'
  <2>1. <<>> \in Seq(Node) /\ Len(<<>>) = 0 /\ Climbed(parentIndex, <<>>, i', i')
    BY <1>3, ClimbStarts, EmptySeq
  <2>2. PICK next \in Seq(Node) : Way(parentIndex, next, i') /\ Len(next) <= MaxDepth
    <3>1. Measured(parentIndex, MaxDepth, i')
      BY <1>1, <1>3 DEF DepthRight
    <3> QED
      BY <3>1 DEF Measured
  <2>3. Prefix(<<>>, next)
    BY <2>1, <2>2 DEF Prefix
  <2> QED
    BY <1>1, <1>2, <1>3, <2>1, <2>2, <2>3 DEF EntryRight
<1>11. RowsRight'
  <2>1. /\ TableA \in Seq(Seq(Node \cup {-1})) /\ Len(TableA) = i
        /\ \A n \in Node : n < i => RowOf(TableA[n + 1], n)
    BY <1>1 DEF RowsRight
  <2>2. RootFirst(entry) \in Seq(Node \cup {-1})
    BY <1>5, RootFirstIs
  <2>3. /\ TableA' \in Seq(Seq(Node \cup {-1})) /\ Len(TableA') = i + 1
        /\ \A n \in 1 .. i : TableA'[n] = TableA[n]
        /\ TableA'[i + 1] = RootFirst(entry)
    BY <2>1, <2>2, AppendProperties
  <2>4. ASSUME NEW n \in Node, n < i + 1
        PROVE  RowOf(TableA[n + 1], n)'
    <3>1. \E w \in Seq(Node) : /\ Way(parentIndex, w, n) /\ Len(w) <= MaxDepth
                               /\ TableA'[n + 1] = RootFirst(w)
      <4>1. CASE n = i
        BY <1>5, <2>3, <4>1
      <4>2. CASE n # i
        <5>1. n \in Nat /\ n < i /\ n + 1 \in 1 .. i
          BY <1>1, <2>4, <4>2, NodesAre
        <5> QED
          BY <2>1, <2>3, <5>1 DEF RowOf
      <4> QED
        BY <4>1, <4>2
    <3> QED
      BY <1>1, <3>1 DEF RowOf, RootFirst
  <2>5. Len(TableA') = IF step' = "rows" THEN i' ELSE NumNodes
    BY <1>2, <2>3
  <2>6. step' \notin {"nodes", "depth"}
    BY <1>2
  <2> QED
    BY <2>3, <2>4, <2>5, <2>6 DEF RowsRight
<1>12. DataRight'
  <2>1. poData' = <<>> /\ poData' \in Seq(0 .. (Modulus - 1)) /\ Len(poData') = 0
    BY <1>1, EmptySeq DEF DataRight, Copied, Made
  <2>2. step' = "joints" => i' = 0
    BY <1>2
  <2>3. 0 * MaxDepth = 0
    BY <1>5
  <2>4. step' \notin Made
    BY <1>2 DEF Made
  <2> QED
    BY <1>1, <2>1, <2>2, <2>3, <2>4 DEF DataRight, Copied
<1> QED
  BY <1>7, <1>8, <1>9, <1>10, <1>11, <1>12

\* What the invariant says once the rows are there.
LEMMA JointsAre ==
  ASSUME file \in Files
  PROVE  /\ joints \in Seq(Node) /\ numJoints \in Nat /\ numJoints > 0
         /\ \A k \in 0 .. (numJoints - 1) : joints[k + 1] \in Node
<1>1. joints \in Seq(Node) /\ joints # <<>>
  BY SkinIs
<1> QED
  BY <1>1, EmptySeq DEF numJoints

LEMMA RowIs ==
  ASSUME RowsRight, Len(TableA) = NumNodes, DepthRight, NEW n \in Node
  PROVE  /\ RowOf(TableA[n + 1], n)
         /\ \A j \in 1 .. MaxDepth : TableA[n + 1][j] \in Node \cup {-1}
<1>1. n < NumNodes
  BY NodeIs
<1>2. RowOf(TableA[n + 1], n)
  BY <1>1 DEF RowsRight
<1>3. PICK way \in Seq(Node) :
        Way(parentIndex, way, n) /\ Len(way) <= MaxDepth /\ TableA[n + 1] = RootFirst(way)
  BY <1>2 DEF RowOf
<1>4. MaxDepth \in Nat
  BY <1>3 DEF DepthRight
<1>5. ASSUME NEW j \in 1 .. MaxDepth PROVE RootFirst(way)[j] \in Node \cup {-1}
  <2>1. RootFirst(way)[j] = IF j <= Len(way) THEN way[Len(way) + 1 - j] ELSE -1
    BY <1>3, <1>4, RootFirstIs
  <2>2. j <= Len(way) => Len(way) + 1 - j \in 1 .. Len(way)
    OBVIOUS
  <2> QED
    BY <2>1, <2>2
<1> QED
  BY <1>2, <1>3, <1>5

LEMMA DepthIsNat ==
  ASSUME DepthRight, step \in {"rows", "joints"} \cup Made
  PROVE  MaxDepth \in Nat
<1>1. Measured(parentIndex, MaxDepth, 0)
  BY NodesAre DEF DepthRight
<1>2. PICK way \in Seq(Node) : Len(way) <= MaxDepth
  BY <1>1 DEF Measured
<1> QED
  BY <1>2 DEF DepthRight

LEMMA PickInv == TableInv /\ Pick => TableInv'
<1> SUFFICES ASSUME TableInv, Pick PROVE TableInv'
  OBVIOUS
<1> USE DEF TableInv, Pick, climb
<1>1. /\ file \in Files /\ step = "joints" /\ i \in Nat /\ i < numJoints
      /\ file' = file /\ parentIndex' = parentIndex /\ MaxDepth' = MaxDepth /\ TableA' = TableA
  BY DEF Rounds
<1>2. /\ joints \in Seq(Node) /\ numJoints \in Nat /\ numJoints > 0
      /\ \A k \in 0 .. (numJoints - 1) : joints[k + 1] \in Node
  BY <1>1, JointsAre
<1>3. joints' = joints /\ numJoints' = numJoints
  BY <1>1 DEF numJoints, joints, skinIndex
<1>4. \/ i' = i + 1 /\ i + 1 < numJoints /\ step' = "joints"
      \/ i' = 0 /\ i + 1 = numJoints /\ step' = "loaded"
  BY <1>1, <1>2, RoundIs
<1>5. MaxDepth \in Nat
  BY <1>1, DepthIsNat
<1>6. Rounds'
  BY <1>1, <1>3, <1>4 DEF Rounds, Steps, Made
<1>7. ParentsRight'
  BY <1>1, <1>4 DEF ParentsRight
<1>8. DepthRight'
  BY <1>1, <1>4 DEF DepthRight, Made
<1>9. EntryRight'
  BY <1>1, <1>4 DEF EntryRight
<1>10. RowsRight'
  BY <1>1, <1>4 DEF RowsRight, RowOf, RootFirst
<1>11. DataRight'
  <2> DEFINE row == [j \in 1 .. MaxDepth |-> Unsigned(TableA[joints[i + 1] + 1][j])]
             U == 0 .. (Modulus - 1)
  <2>1. /\ poData \in Seq(U) /\ Len(poData) = i * MaxDepth
        /\ \A k \in 0 .. (i - 1), j \in 1 .. MaxDepth :
             poData[k * MaxDepth + j] = Unsigned(TableA[joints[k + 1] + 1][j])
    BY <1>1 DEF DataRight, Copied
  <2>2. row \in Seq(U) /\ Len(row) = MaxDepth
    <3>1. joints[i + 1] \in Node
      BY <1>1, <1>2
    <3>2. Len(TableA) = NumNodes
      BY <1>1 DEF RowsRight
    <3>3. \A j \in 1 .. MaxDepth : TableA[joints[i + 1] + 1][j] \in Node \cup {-1}
      BY <3>1, <3>2, RowIs
    <3>4. \A j \in 1 .. MaxDepth : Unsigned(TableA[joints[i + 1] + 1][j]) \in U
      BY <3>3, IntsSurvive
    <3>5. row \in [1 .. MaxDepth -> U]
      BY <3>4
    <3> QED
      BY <1>5, <3>5, RowIsSeq
  <2>3. poData' = poData \o row
    OBVIOUS
  <2> HIDE DEF row
  <2>4. /\ poData' \in Seq(U) /\ Len(poData') = i * MaxDepth + MaxDepth
        /\ \A n \in 1 .. (i * MaxDepth + MaxDepth) :
             poData'[n] = IF n <= i * MaxDepth THEN poData[n] ELSE row[n - i * MaxDepth]
    <3>1. /\ poData \o row \in Seq(U) /\ Len(poData \o row) = Len(poData) + Len(row)
          /\ \A n \in 1 .. (Len(poData) + Len(row)) :
               (poData \o row)[n] = IF n <= Len(poData) THEN poData[n] ELSE row[n - Len(poData)]
      BY <2>1, <2>2, ConcatProperties
    <3>2. Len(poData) = i * MaxDepth /\ Len(row) = MaxDepth /\ poData' = poData \o row
      BY <2>1, <2>2, <2>3
    <3> QED
      BY <3>1, <3>2, Zenon
  <2>5. i * MaxDepth \in Nat /\ (i + 1) * MaxDepth = i * MaxDepth + MaxDepth
    <3>1. CASE MaxDepth = 0
      BY <1>1, <3>1
    <3>2. CASE MaxDepth # 0
      BY <1>1, <1>5, <3>2, CellsAreApart, 1 \in 1 .. MaxDepth
    <3> QED
      BY <3>1, <3>2
  <2>6. ASSUME NEW k \in 0 .. i, NEW j \in 1 .. MaxDepth
        PROVE  poData'[k * MaxDepth + j] = Unsigned(TableA[joints[k + 1] + 1][j])
    <3>1. /\ k * MaxDepth \in Nat /\ k * MaxDepth + j \in Nat
          /\ k < i => k * MaxDepth + j <= i * MaxDepth
      <4>1. k \in Nat /\ i \in Nat
        BY <1>1
      <4> QED
        BY <1>5, <4>1, CellsAreApart, Zenon
    <3>2. CASE k < i
      <4>1. k * MaxDepth + j \in 1 .. (i * MaxDepth + MaxDepth)
        <5>1. k * MaxDepth \in Nat /\ i * MaxDepth \in Nat /\ k * MaxDepth + j <= i * MaxDepth
          BY <2>5, <3>1, <3>2, Zenon
        <5> HIDE DEF row
        <5> QED
          BY <1>5, <5>1, CellsBefore, Zenon
      <4>2. poData'[k * MaxDepth + j] = poData[k * MaxDepth + j]
        BY <2>4, <3>1, <3>2, <4>1
      <4>3. k \in 0 .. (i - 1)
        BY <1>1, <3>2
      <4> QED
        BY <2>1, <4>2, <4>3
    <3>3. CASE k = i
      <4>1. i * MaxDepth + j \in 1 .. (i * MaxDepth + MaxDepth)
        BY <1>5, <2>5
      <4>2. ~ (i * MaxDepth + j <= i * MaxDepth) /\ (i * MaxDepth + j) - i * MaxDepth = j
        BY <1>5, <2>5
      <4>3. poData'[i * MaxDepth + j] = row[j]
        BY <2>4, <4>1, <4>2
      <4> QED
        BY <3>3, <4>3 DEF row
    <3>4. k < i \/ k = i
      BY <1>1
    <3> QED
      BY <3>2, <3>3, <3>4, Zenon
  <2>7. Copied' = i + 1
    BY <1>3, <1>4 DEF Copied, Made
  <2>8. Copied' # 0 /\ Copied' - 1 = i
    BY <1>1, <2>7
  <2>9. Len(poData') = Copied' * MaxDepth'
    <3>1. Len(poData') = (i + 1) * MaxDepth
      BY <2>4, <2>5, Zenon
    <3> QED
      BY <1>1, <2>7, <3>1, Zenon
  <2>10. \A k \in 0 .. (Copied' - 1), j \in 1 .. MaxDepth' :
           poData'[k * MaxDepth' + j] = Unsigned(TableA'[joints'[k + 1] + 1][j])
    BY <1>1, <1>3, <2>6, <2>8, Zenon
  <2> QED
    BY <2>4, <2>8, <2>9, <2>10, Zenon DEF DataRight
<1> QED
  BY <1>6, <1>7, <1>8, <1>9, <1>10, <1>11

\* Frames leave the table as the converter made it.
LEMMA TableStays ==
  ASSUME TableInv, UNCHANGED <<table, i>>, step \in Made, step' \in Made
  PROVE  TableInv'
<1> USE DEF TableInv, table, climb
<1>1. /\ file' = file /\ parentIndex' = parentIndex /\ MaxDepth' = MaxDepth /\ TableA' = TableA
      /\ curr' = curr /\ count' = count /\ entry' = entry /\ poData' = poData /\ i' = i
  OBVIOUS
<1>2. joints' = joints /\ numJoints' = numJoints
  BY <1>1 DEF numJoints, joints, skinIndex
<1>3. Rounds'
  BY <1>1, <1>2 DEF Rounds, Steps, Made
<1>4. ParentsRight'
  BY <1>1 DEF ParentsRight, Made
<1>5. DepthRight'
  BY <1>1 DEF DepthRight, Made
<1>6. EntryRight'
  BY <1>1 DEF EntryRight, Made
<1>7. RowsRight'
  BY <1>1 DEF RowsRight, RowOf, RootFirst, Made
<1>8. DataRight'
  <2>1. Copied' = Copied /\ step \in {"joints"} \cup Made
    BY <1>1, <1>2 DEF Copied, Made
  <2> QED
    BY <1>1, <1>2, <2>1, Zenon DEF DataRight
<1> QED
  BY <1>3, <1>4, <1>5, <1>6, <1>7, <1>8

LEMMA ThreadIs ==
  ASSUME file \in Files, NEW b \in Thread
  PROVE  b \in 0 .. (numJoints - 1) /\ b \in Nat /\ joints[b + 1] \in Node
  BY JointsAre DEF Thread

LEMMA DispatchInv == RigInv /\ Dispatch => RigInv'
<1> SUFFICES ASSUME RigInv, Dispatch PROVE RigInv'
  OBVIOUS
<1> USE DEF RigInv
<1>1. step \in Made /\ step' \in Made /\ step' = "shader" /\ UNCHANGED <<table, i>>
  BY DEF Dispatch, Made
<1>2. TableInv'
  BY <1>1, TableStays
<1>3. /\ file \in Files /\ file' = file /\ parentIndex' = parentIndex /\ MaxDepth' = MaxDepth
      /\ TableA' = TableA
  BY <1>1 DEF TableInv, Rounds, table
<1>4. joints' = joints /\ Thread' = Thread
  BY <1>3 DEF Thread, numJoints, joints, skinIndex
<1>5. at' = [b \in Thread |-> 0] /\ tmp' = [b \in Thread |-> <<>>] /\ uBoneWorldOut' = uBoneWorldOut
  BY DEF Dispatch
<1>6. ASSUME NEW b \in Thread PROVE Running(b)'
  <2>1. joints[b + 1] \in Node
    BY <1>3, ThreadIs
  <2>2. Len(TableA) = NumNodes /\ MaxDepth \in Nat
    BY <1>1, DepthIsNat DEF TableInv, RowsRight, Made
  <2>3. RowOf(TableA[joints[b + 1] + 1], joints[b + 1])
    BY <2>1, <2>2, RowIs DEF TableInv
  <2>4. PICK way \in Seq(Node) : /\ Way(parentIndex, way, joints[b + 1]) /\ Len(way) <= MaxDepth
                                /\ TableA[joints[b + 1] + 1] = RootFirst(way)
    BY <2>3 DEF RowOf
  <2>5. Product(<<>>, way, 0)
    BY ProductStarts
  <2>6. at'[b] = 0 /\ tmp'[b] = <<>> /\ 0 <= MaxDepth + 1 /\ 0 # MaxDepth + 1
    BY <1>5, <2>2
  <2> QED
    BY <1>3, <1>4, <2>4, <2>5, <2>6 DEF Running, RootFirst
<1>7. ThreadsRight'
  <2>1. at' \in [Thread -> Nat] /\ tmp' \in [Thread -> Seq(Node)]
    BY <1>5, EmptySeq
  <2>2. uBoneWorldOut \in [Thread -> Seq(Node)]
    BY DEF ThreadsRight
  <2> QED
    BY <1>1, <1>4, <1>5, <1>6, <2>1, <2>2 DEF ThreadsRight
<1> QED
  BY <1>2, <1>7

\* A round of one thread.
LEMMA ConcatenateInv == RigInv /\ (\E b \in Thread : Concatenate(b)) => RigInv'
<1> SUFFICES ASSUME RigInv, NEW b \in Thread, Concatenate(b) PROVE RigInv'
  OBVIOUS
<1> USE DEF RigInv
<1>1. step \in Made /\ step' = step /\ step = "shader" /\ UNCHANGED <<table, i>>
  BY DEF Concatenate, Made
<1>2. TableInv'
  BY <1>1, TableStays
<1>3. /\ file \in Files /\ file' = file /\ parentIndex' = parentIndex /\ MaxDepth' = MaxDepth
      /\ TableA' = TableA /\ MaxDepth \in Nat
  BY <1>1, DepthIsNat DEF TableInv, Rounds, table
<1>4. joints' = joints /\ Thread' = Thread
  BY <1>3 DEF Thread, numJoints, joints, skinIndex
<1>5. at \in [Thread -> Nat] /\ tmp \in [Thread -> Seq(Node)] /\ uBoneWorldOut \in [Thread -> Seq(Node)]
  BY DEF ThreadsRight
<1> DEFINE a == at[b]
           node == Int32(poData[b * MaxDepth + at[b] + 1])
           product == IF node # -1 THEN <<node>> \o tmp[b] ELSE tmp[b]
<1>6. a \in Nat /\ a < MaxDepth /\ a + 1 \in 1 .. MaxDepth
  BY <1>3, <1>5 DEF Concatenate
<1>7. b \in Nat /\ b \in 0 .. (numJoints - 1) /\ joints[b + 1] \in Node
  BY <1>3, ThreadIs
<1>8. PICK way \in Seq(Node) :
        /\ Way(parentIndex, way, joints[b + 1]) /\ Len(way) <= MaxDepth
        /\ TableA[joints[b + 1] + 1] = RootFirst(way)
        /\ Product(tmp[b], way, a)
  BY <1>1 DEF ThreadsRight, Running
<1>9. node = IF a + 1 <= Len(way) THEN way[Len(way) - a] ELSE -1
  <2>1. \A k \in 0 .. (numJoints - 1), j \in 1 .. MaxDepth :
          poData[k * MaxDepth + j] = Unsigned(TableA[joints[k + 1] + 1][j])
    BY <1>1 DEF TableInv, DataRight, Copied, Made
  <2>2. poData[b * MaxDepth + (a + 1)] = Unsigned(TableA[joints[b + 1] + 1][a + 1])
    BY <1>6, <1>7, <2>1
  <2>3. b * MaxDepth \in Nat
    BY <1>3, <1>6, <1>7, CellsAreApart
  <2>4. b * MaxDepth + (a + 1) = b * MaxDepth + a + 1
    BY <1>6, <2>3
  <2>5. Len(TableA) = NumNodes
    BY <1>1 DEF TableInv, RowsRight
  <2>6. TableA[joints[b + 1] + 1][a + 1] \in Node \cup {-1}
    BY <1>6, <1>7, <2>5, RowIs DEF TableInv
  <2>7. node = TableA[joints[b + 1] + 1][a + 1]
    BY <2>2, <2>4, <2>6, IntsSurvive
  <2>8. RootFirst(way)[a + 1]
          = IF a + 1 <= Len(way) THEN way[Len(way) + 1 - (a + 1)] ELSE -1
    BY <1>3, <1>6, <1>8, RootFirstIs
  <2>9. Len(way) + 1 - (a + 1) = Len(way) - a
    BY <1>6
  <2> HIDE DEF node, a
  <2> QED
    BY <1>8, <2>7, <2>8, <2>9
<1>10. Product(product, way, a + 1)
  <2> HIDE DEF node, a
  <2>1. CASE a + 1 <= Len(way)
    <3>1. way[Len(way) - a] \in Node
      BY <1>6, <2>1
    <3>2. node = way[Len(way) - a] /\ node # -1
      BY <1>9, <2>1, <3>1, NodesAre
    <3> QED
      BY <1>6, <1>8, <2>1, <3>2, ProductGoesOn
  <2>2. CASE ~ (a + 1 <= Len(way))
    <3>1. node = -1 /\ Len(way) <= a
      BY <1>6, <1>9, <2>2
    <3> QED
      BY <1>6, <1>8, <3>1, ProductStays
  <2> QED
    BY <2>1, <2>2
<1>11. product \in Seq(Node)
  BY <1>10 DEF Product
<1>12. /\ at' = [at EXCEPT ![b] = a + 1] /\ tmp' = [tmp EXCEPT ![b] = product]
       /\ uBoneWorldOut' = uBoneWorldOut
  <2>1. at' = [at EXCEPT ![b] = a + 1] /\ uBoneWorldOut' = uBoneWorldOut
    BY DEF Concatenate
  <2>2. tmp' = IF node # -1 THEN [tmp EXCEPT ![b] = <<node>> \o tmp[b]] ELSE tmp
    BY <1>5 DEF Concatenate
  <2>3. tmp = [tmp EXCEPT ![b] = tmp[b]]
    BY <1>5
  <2> HIDE DEF node, a
  <2> QED
    BY <2>1, <2>2, <2>3
<1> HIDE DEF node, a, product
<1>13. at' \in [Thread -> Nat] /\ tmp' \in [Thread -> Seq(Node)]
  BY <1>5, <1>6, <1>11, <1>12
<1>14. at'[b] = a + 1 /\ tmp'[b] = product
  BY <1>5, <1>12
<1>15. ASSUME NEW c \in Thread PROVE Running(c)'
  <2>1. CASE c = b
    <3>1. a + 1 <= MaxDepth + 1 /\ a + 1 # MaxDepth + 1
      BY <1>3, <1>6
    <3> QED
      BY <1>3, <1>4, <1>8, <1>10, <1>14, <2>1, <3>1 DEF Running, RootFirst
  <2>2. CASE c # b
    <3>1. at'[c] = at[c] /\ tmp'[c] = tmp[c]
      BY <1>5, <1>12, <2>2
    <3>2. Running(c)
      BY <1>1 DEF ThreadsRight
    <3> QED
      BY <1>3, <1>4, <1>12, <3>1, <3>2 DEF Running, RootFirst
  <2> QED
    BY <2>1, <2>2
<1>16. ThreadsRight'
  BY <1>1, <1>4, <1>5, <1>12, <1>13, <1>15 DEF ThreadsRight
<1> QED
  BY <1>2, <1>16

\* The end of one thread.
LEMMA WriteBoneInv == RigInv /\ (\E b \in Thread : WriteBone(b)) => RigInv'
<1> SUFFICES ASSUME RigInv, NEW b \in Thread, WriteBone(b) PROVE RigInv'
  OBVIOUS
<1> USE DEF RigInv
<1>1. step \in Made /\ step' = step /\ step = "shader" /\ UNCHANGED <<table, i>>
  BY DEF WriteBone, Made
<1>2. TableInv'
  BY <1>1, TableStays
<1>3. /\ file \in Files /\ file' = file /\ parentIndex' = parentIndex /\ MaxDepth' = MaxDepth
      /\ TableA' = TableA /\ MaxDepth \in Nat
  BY <1>1, DepthIsNat DEF TableInv, Rounds, table
<1>4. joints' = joints /\ Thread' = Thread
  BY <1>3 DEF Thread, numJoints, joints, skinIndex
<1>5. at \in [Thread -> Nat] /\ tmp \in [Thread -> Seq(Node)] /\ uBoneWorldOut \in [Thread -> Seq(Node)]
  BY DEF ThreadsRight
<1>6. at[b] = MaxDepth /\ tmp' = tmp
  BY DEF WriteBone
<1>7. at' = [at EXCEPT ![b] = MaxDepth + 1] /\ uBoneWorldOut' = [uBoneWorldOut EXCEPT ![b] = tmp[b]]
  BY <1>6 DEF WriteBone
<1>8. /\ at' \in [Thread -> Nat] /\ uBoneWorldOut' \in [Thread -> Seq(Node)]
      /\ at'[b] = MaxDepth + 1 /\ uBoneWorldOut'[b] = tmp[b]
  BY <1>3, <1>5, <1>7
<1>9. ASSUME NEW c \in Thread PROVE Running(c)'
  <2>1. Running(c)
    BY <1>1 DEF ThreadsRight
  <2>2. CASE c = b
    <3>1. PICK way \in Seq(Node) :
            /\ Way(parentIndex, way, joints[b + 1]) /\ Len(way) <= MaxDepth
            /\ TableA[joints[b + 1] + 1] = RootFirst(way)
            /\ Product(tmp[b], way, MaxDepth)
      BY <1>6, <2>1, <2>2 DEF Running
    <3>2. Product(tmp[b], way, MaxDepth + 1)
      BY <1>3, <3>1, ProductStays
    <3>3. MaxDepth + 1 <= MaxDepth + 1
      BY <1>3
    <3> QED
      BY <1>3, <1>4, <1>6, <1>8, <2>2, <3>1, <3>2, <3>3 DEF Running, RootFirst
  <2>3. CASE c # b
    <3>1. at'[c] = at[c] /\ uBoneWorldOut'[c] = uBoneWorldOut[c]
      BY <1>5, <1>7, <2>3
    <3> QED
      BY <1>3, <1>4, <1>6, <2>1, <3>1 DEF Running, RootFirst
  <2> QED
    BY <2>2, <2>3
<1>10. ThreadsRight'
  BY <1>1, <1>4, <1>5, <1>6, <1>8, <1>9 DEF ThreadsRight
<1> QED
  BY <1>2, <1>10

\* A thread that is through has multiplied the whole way.
LEMMA DrawInv == RigInv /\ Draw => RigInv'
<1> SUFFICES ASSUME RigInv, Draw PROVE RigInv'
  OBVIOUS
<1> USE DEF RigInv
<1>1. step \in Made /\ step' \in Made /\ step = "shader" /\ step' = "drawn" /\ UNCHANGED <<table, i>>
  BY DEF Draw, Made
<1>2. TableInv'
  BY <1>1, TableStays
<1>3. /\ file' = file /\ parentIndex' = parentIndex /\ MaxDepth \in Nat
  BY <1>1, DepthIsNat DEF TableInv, Rounds, table
<1>4. joints' = joints /\ Thread' = Thread
  BY <1>3 DEF Thread, numJoints, joints, skinIndex
<1>5. at' = at /\ tmp' = tmp /\ uBoneWorldOut' = uBoneWorldOut
  BY DEF Draw, threads
<1>6. ASSUME NEW b \in Thread PROVE Way(parentIndex, uBoneWorldOut[b], joints[b + 1])
  <2>1. at[b] = MaxDepth + 1
    BY DEF Draw
  <2>2. PICK way \in Seq(Node) :
          /\ Way(parentIndex, way, joints[b + 1]) /\ Len(way) <= MaxDepth
          /\ Product(tmp[b], way, MaxDepth + 1) /\ uBoneWorldOut[b] = tmp[b]
    BY <1>1, <2>1 DEF ThreadsRight, Running
  <2>3. MaxDepth + 1 \in Nat /\ Len(way) <= MaxDepth + 1
    BY <1>3, <2>2
  <2>4. tmp[b] = way
    BY <2>2, <2>3, ProductEnds
  <2> QED
    BY <2>2, <2>4
<1>7. ThreadsRight'
  BY <1>1, <1>3, <1>4, <1>5, <1>6 DEF ThreadsRight
<1> QED
  BY <1>2, <1>7

LEMMA NextInv == RigInv /\ [Next]_vars => RigInv'
<1> SUFFICES ASSUME RigInv, [Next]_vars PROVE RigInv'
  OBVIOUS
<1> USE DEF RigInv
<1>1. CASE Visit
  <2>1. UNCHANGED <<file, threads>> /\ step' \notin {"shader", "drawn"}
    BY <1>1 DEF Visit, Round
  <2> QED
    BY <1>1, <2>1, VisitInv, ToolsLeaveThreads
<1>2. CASE ClimbDepth
  <2>1. UNCHANGED <<file, threads>> /\ step' \notin {"shader", "drawn"}
    BY <1>2 DEF ClimbDepth
  <2> QED
    BY <1>2, <2>1, ClimbDepthInv, ToolsLeaveThreads
<1>3. CASE DepthKnown
  <2>1. UNCHANGED <<file, threads>> /\ step' \notin {"shader", "drawn"}
    BY <1>3 DEF DepthKnown, Round
  <2> QED
    BY <1>3, <2>1, DepthKnownInv, ToolsLeaveThreads
<1>4. CASE ClimbRow
  <2>1. UNCHANGED <<file, threads>> /\ step' \notin {"shader", "drawn"}
    BY <1>4 DEF ClimbRow
  <2> QED
    BY <1>4, <2>1, ClimbRowInv, ToolsLeaveThreads
<1>5. CASE RowKnown
  <2>1. UNCHANGED <<file, threads>> /\ step' \notin {"shader", "drawn"}
    BY <1>5 DEF RowKnown, Round
  <2> QED
    BY <1>5, <2>1, RowKnownInv, ToolsLeaveThreads
<1>6. CASE Pick
  <2>1. UNCHANGED <<file, threads>> /\ step' \notin {"shader", "drawn"}
    BY <1>6 DEF Pick, Round
  <2> QED
    BY <1>6, <2>1, PickInv, ToolsLeaveThreads
<1>7. CASE UNCHANGED vars
  <2>1. UNCHANGED <<file, parentIndex, curr, count, MaxDepth, entry, TableA, poData, step, i, at, tmp,
                    uBoneWorldOut>>
    BY <1>7 DEF vars, table, threads, climb
  <2>2. joints' = joints /\ numJoints' = numJoints /\ Thread' = Thread
    BY <2>1 DEF Thread, numJoints, joints, skinIndex
  <2>3. Rounds' /\ ParentsRight' /\ DepthRight' /\ EntryRight' /\ DataRight'
    BY <2>1, <2>2 DEF TableInv, Rounds, ParentsRight, DepthRight, EntryRight, DataRight, Copied
  <2>4. RowsRight'
    BY <2>1 DEF TableInv, RowsRight, RowOf, RootFirst
  <2>5. ThreadsRight'
    BY <2>1, <2>2 DEF ThreadsRight, Running, RootFirst
  <2> QED
    BY <2>3, <2>4, <2>5 DEF TableInv
<1> QED
  BY <1>1, <1>2, <1>3, <1>4, <1>5, <1>6, <1>7,
     DispatchInv, ConcatenateInv, WriteBoneInv, DrawInv DEF Next

LEMMA Invariant == Spec => []RigInv
  BY InitInv, NextInv, PTL DEF Spec

------------------------------------------------------------------------------
(* The theorems.                                                           *)

\* Types of the converter's tables and of the shader's threads, for every file: the
\* table has as many numbers as the shader multiplies its way to, and no row is longer.
THEOREM TypeCorrect == Spec => []TypeOK
<1>1. RigInv => TypeOK
  <2> SUFFICES ASSUME RigInv PROVE TypeOK
    OBVIOUS
  <2> USE DEF RigInv, TableInv
  <2>1. file \in Files /\ IsFile(file)
    BY SkinIs DEF Rounds
  <2>2. file.joints \in [Skin -> Seq(Node)]
    BY <2>1 DEF IsFile
  <2>3. i \in Nat
    BY NodesAre DEF Rounds, Steps, Made
  <2>4. step \in Steps /\ parentIndex \in [Node -> Node \cup {-1}]
    BY DEF Rounds, ParentsRight, ParentsKnown, Links
  <2>5. \A r \in 1 .. Len(TableA) : TableA[r] \in Seq(Node \cup {-1})
    BY DEF RowsRight
  <2>6. RowsInTable
    <3>1. ASSUME step = "rows" PROVE Len(entry) <= MaxDepth
      <4>1. PICK way \in Seq(Node) : Len(way) <= MaxDepth /\ Prefix(entry, way)
        BY <3>1 DEF EntryRight
      <4>2. entry \in Seq(Node) /\ MaxDepth \in Nat
        BY <3>1, DepthIsNat DEF EntryRight
      <4>3. Len(entry) \in Nat /\ Len(way) \in Nat /\ Len(entry) <= Len(way)
        BY <4>1, <4>2 DEF Prefix
      <4> QED
        BY <4>1, <4>2, <4>3
    <3>2. step = "joints" => Len(poData) = i * MaxDepth
      BY DEF DataRight, Copied
    <3>3. step \in Made => Len(poData) = numJoints * MaxDepth
      BY DEF DataRight, Copied, Made
    <3> QED
      BY <3>1, <3>2, <3>3 DEF RowsInTable, Made
  <2> QED
    BY <2>2, <2>3, <2>4, <2>5, <2>6
       DEF TypeOK, Steps, DepthRight, EntryRight, DataRight, ThreadsRight
<1> QED
  BY <1>1, Invariant, PTL

\* SKEL::CreateHierarchy with WorldA: in every frame, each matrix of a skinned mesh is
\* the product up to the root from the very joint whose inverse bind matrix undoes it,
\* for forests of any size with their nodes in any order.
THEOREM SkinIsRight == Spec => []SkinFollowsSkeleton
<1>1. RigInv => SkinFollowsSkeleton
  <2> SUFFICES ASSUME RigInv, step = "drawn", OneRig, NEW pair \in meshSkinPairs,
                      NEW k \in 1 .. Len(file.joints[pair[2]])
               PROVE  IsPathUp(uBoneWorldOut[k - 1], file.joints[pair[2]][k])
    BY DEF SkinFollowsSkeleton
  <2> USE DEF RigInv, TableInv
  <2>1. file \in Files
    BY DEF Rounds
  <2>2. PICK own \in meshSkinPairs : own[2] = skinIndex
    BY <2>1, TableSkinIsPaired
  <2>3. file.joints[pair[2]] = joints
    BY <2>2 DEF OneRig, joints
  <2>4. joints \in Seq(Node) /\ k \in 1 .. Len(joints)
    BY <2>1, <2>3, JointsAre
  <2>5. k - 1 \in Thread /\ (k - 1) + 1 = k /\ joints[k] \in Node
    BY <2>4 DEF Thread, numJoints
  <2>6. Way(parentIndex, uBoneWorldOut[k - 1], joints[k])
    BY <2>5 DEF ThreadsRight
  <2>7. ParentsKnown(file, parentIndex, NumNodes)
    BY DEF ParentsRight
  <2> QED
    BY <2>3, <2>5, <2>6, <2>7, WayIsPathUp
<1> QED
  BY <1>1, Invariant, PTL

\* ConvertJoint and SKEL::CreateHierarchy agree on the joint of every row, although
\* they choose the skin by different rules.
THEOREM TablesStayTogether == Spec => []TablesAgree
<1>1. RigInv => TablesAgree
  <2> SUFFICES ASSUME RigInv, step = "drawn" PROVE TablesAgree
    BY DEF TablesAgree
  <2> USE DEF RigInv, TableInv
  <2>1. file \in Files
    BY DEF Rounds
  <2>2. jointTable = joints
    BY <2>1, SkinIs DEF jointTable, joints
  <2>3. ASSUME NEW b \in Thread
        PROVE  uBoneWorldOut[b] # <<>> /\ uBoneWorldOut[b][1] = joints[b + 1]
    BY DEF ThreadsRight, Way, Climbed
  <2> QED
    BY <2>2, <2>3 DEF TablesAgree, numJoints
<1> QED
  BY <1>1, Invariant, PTL
==============================================================================
