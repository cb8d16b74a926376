----------------------------------- MODULE Rig -----------------------------------
(***************************************************************************)
(* The way of a skeleton from a glTF file to the matrices a skinned mesh   *)
(* is drawn with.  The Converter (SKEL::CreateHierarchy) writes for every  *)
(* joint of a skin the path from the root down to it, padded to a table    *)
(* with rows of one length; the engine loads the table as it is, and the   *)
(* compute shader WorldA multiplies along its row, one thread for a joint. *)
(* The meshes come by another way: ConvertSkin writes each with the        *)
(* inverse bind matrices of its own skin, and the vertex shader pairs the  *)
(* two arrays by index.                                                    *)
(*                                                                         *)
(* A product of matrices is the sequence of the nodes whose local matrices *)
(* were multiplied, from left to right.                                    *)
(***************************************************************************)
EXTENDS Integers, Sequences

CONSTANTS
  NumNodes,    \* nodes of the file
  NumSkins, NumMeshes,
  Modulus,     \* 2^32: the values of an unsigned
  Files        \* the files that may be converted

Node == 0 .. (NumNodes - 1)
Skin == 0 .. (NumSkins - 1)
Mesh == 0 .. (NumMeshes - 1)

ASSUME SizeAssumption ==
  /\ NumNodes \in Nat \ {0} /\ NumSkins \in Nat \ {0} /\ NumMeshes \in Nat \ {0}
  /\ Modulus \in Nat /\ 2 * NumNodes < Modulus

\* What glTF says of a file: a node has at most one parent, no node is its own
\* ancestor, skins are not empty, and what has a skin has a mesh.
IsFile(f) ==
  /\ f.children \in [Node -> SUBSET Node]
  /\ \A m, n \in Node : m # n => f.children[m] \cap f.children[n] = {}
  /\ \A S \in SUBSET Node \ {{}} : \E n \in S : f.children[n] \cap S = {}
  /\ f.skin \in [Node -> Skin \cup {-1}]
  /\ f.mesh \in [Node -> Mesh \cup {-1}]
  /\ f.joints \in [Skin -> Seq(Node) \ {<<>>}]
  /\ \A n \in Node : f.skin[n] >= 0 => f.mesh[n] >= 0
  /\ \E n \in Node : f.skin[n] >= 0

ASSUME FilesAssumption == \A f \in Files : IsFile(f)

VARIABLES
  file,
  step,            \* the loop that runs
  i,               \* and its round
  parentIndex,     \* of skeletonVector, and of skeletonTable
  curr, count,     \* the climb that measures the depth
  MaxDepth,
  entry,           \* the climb that makes a row
  TableA,
  poData,          \* of HierarchyData, and all copies down to the GPU's table
  at, tmp,         \* each thread of the shader: its round and its product
  uBoneWorldOut

climb == <<curr, count>>
table == <<file, parentIndex, climb, MaxDepth, entry, TableA, poData>>
threads == <<at, tmp, uBoneWorldOut>>
vars == <<table, step, i, threads>>

------------------------------------------------------------------------------
(* Which skin each tool takes.                                             *)

Least(S) == CHOOSE n \in S : \A m \in S : n <= m

\* Mutant: always the first skin of the file.
FirstSkin == 0

\* CreateHierarchy: of the first node that has one.
skinIndex == file.skin[Least({n \in Node : file.skin[n] >= 0})]

\* ConvertJoint: of the first node that has one and a mesh, or else as above.
jointSkinIndex ==
  LET both == {n \in Node : file.skin[n] >= 0 /\ file.mesh[n] >= 0}
  IN  IF both # {} THEN file.skin[Least(both)] ELSE skinIndex

jointTable == file.joints[jointSkinIndex]

\* ConvertSkin: for each mesh, that of the first node that draws it skinned.
meshNodes(m) == {n \in Node : file.mesh[n] = m /\ file.skin[n] >= 0}
meshSkinPairs == {<<m, file.skin[Least(meshNodes(m))]>> :
                    m \in {x \in Mesh : meshNodes(x) # {}}}

joints == file.joints[skinIndex]
numJoints == Len(joints)
Thread == 0 .. (numJoints - 1)

------------------------------------------------------------------------------
Init ==
  /\ file \in Files
  /\ step = "nodes" /\ i = 0
  /\ parentIndex = [n \in Node |-> -1]
  /\ curr = 0 /\ count = 0 /\ MaxDepth = -1
  /\ entry = <<>> /\ TableA = <<>> /\ poData = <<>>
  /\ at = [b \in Thread |-> 0] /\ tmp = [b \in Thread |-> <<>>]
  /\ uBoneWorldOut = [b \in Thread |-> <<>>]

\* The end of a round: the next one, or the next loop.
Round(rounds, next) ==
  IF i + 1 < rounds THEN i' = i + 1 /\ step' = step
                    ELSE i' = 0 /\ step' = next

\* A node tells its children who they belong to.
Visit ==
  /\ step = "nodes"
  /\ parentIndex' = [n \in Node |-> IF n \in file.children[i] THEN i
                                                              ELSE parentIndex[n]]
  /\ Round(NumNodes, "depth")
  /\ UNCHANGED <<file, climb, MaxDepth, entry, TableA, poData, threads>>

\* Up from node i, counting.
ClimbDepth ==
  /\ step = "depth" /\ curr # -1
  /\ count' = count + 1 /\ curr' = parentIndex[curr]
  /\ UNCHANGED <<file, step, i, parentIndex, MaxDepth, entry, TableA, poData,
                 threads>>

DepthKnown ==
  /\ step = "depth" /\ curr = -1
  /\ MaxDepth' = IF count > MaxDepth THEN count ELSE MaxDepth
  /\ Round(NumNodes, "rows")
  /\ curr' = i' /\ count' = 0
  /\ UNCHANGED <<file, parentIndex, entry, TableA, poData, threads>>

\* Up from node i again, noting down the way.
ClimbRow ==
  /\ step = "rows" /\ curr # -1
  /\ entry' = Append(entry, curr) /\ curr' = parentIndex[curr]
  /\ UNCHANGED <<file, step, i, parentIndex, count, MaxDepth, TableA, poData,
                 threads>>

\* Mutant: the row is left as it was climbed, the joint first.
JointFirst(path) ==
  [j \in 1 .. MaxDepth |-> IF j <= Len(path) THEN path[j] ELSE -1]

\* The row turned around, and filled up with -1.
RootFirst(path) ==
  [j \in 1 .. MaxDepth |-> IF j <= Len(path) THEN path[Len(path) + 1 - j] ELSE -1]

RowKnown ==
  /\ step = "rows" /\ curr = -1
  /\ TableA' = Append(TableA, RootFirst(entry))
  /\ Round(NumNodes, "joints")
  /\ curr' = i' /\ entry' = <<>>
  /\ UNCHANGED <<file, parentIndex, count, MaxDepth, poData, threads>>

\* What an int becomes as an unsigned.
Unsigned(v) == v % Modulus

\* What the shader reads back as an int.
Int32(u) == IF 2 * u >= Modulus THEN u - Modulus ELSE u

\* Mutant: joint i gets row i.
PickInOrder ==
  /\ step = "joints"
  /\ poData' = poData \o [j \in 1 .. MaxDepth |-> Unsigned(TableA[i + 1][j])]
  /\ Round(numJoints, "loaded")
  /\ UNCHANGED <<file, parentIndex, climb, MaxDepth, entry, TableA, threads>>

\* Mutant: padding is left away.
PickUnpadded ==
  /\ step = "joints"
  /\ poData' = poData \o SelectSeq(TableA[joints[i + 1] + 1], LAMBDA v : v # -1)
  /\ Round(numJoints, "loaded")
  /\ UNCHANGED <<file, parentIndex, climb, MaxDepth, entry, TableA, threads>>

\* The row of the i-th joint is copied behind the others (CorrectedTableA and
\* poData in one).
Pick ==
  /\ step = "joints"
  /\ poData' = poData \o [j \in 1 .. MaxDepth |->
                            Unsigned(TableA[joints[i + 1] + 1][j])]
  /\ Round(numJoints, "loaded")
  /\ UNCHANGED <<file, parentIndex, climb, MaxDepth, entry, TableA, threads>>

\* A frame dispatches one thread for each joint.
Dispatch ==
  /\ step \in {"loaded", "drawn"} /\ step' = "shader"
  /\ at' = [b \in Thread |-> 0] /\ tmp' = [b \in Thread |-> <<>>]
  /\ UNCHANGED <<table, i, uBoneWorldOut>>

\* Mutant: the round is not counted when there is nothing to multiply.
PaddingHangs(b) ==
  /\ step = "shader" /\ at[b] < MaxDepth
  /\ LET node == Int32(poData[b * MaxDepth + at[b] + 1])
     IN  IF node # -1 THEN /\ tmp' = [tmp EXCEPT ![b] = <<node>> \o @]
                           /\ at' = [at EXCEPT ![b] = @ + 1]
                      ELSE UNCHANGED <<tmp, at>>
  /\ UNCHANGED <<table, step, i, uBoneWorldOut>>

\* A round of thread b: the node in its row is multiplied in from the left.
Concatenate(b) ==
  /\ step = "shader" /\ at[b] < MaxDepth
  /\ LET node == Int32(poData[b * MaxDepth + at[b] + 1])
     IN  tmp' = IF node # -1 THEN [tmp EXCEPT ![b] = <<node>> \o @] ELSE tmp
  /\ at' = [at EXCEPT ![b] = @ + 1]
  /\ UNCHANGED <<table, step, i, uBoneWorldOut>>

\* The end of thread b.
WriteBone(b) ==
  /\ step = "shader" /\ at[b] = MaxDepth
  /\ uBoneWorldOut' = [uBoneWorldOut EXCEPT ![b] = tmp[b]]
  /\ at' = [at EXCEPT ![b] = @ + 1]
  /\ UNCHANGED <<table, step, i, tmp>>

\* All threads are through, and the meshes are drawn with the matrices.
Draw ==
  /\ step = "shader" /\ \A b \in Thread : at[b] = MaxDepth + 1
  /\ step' = "drawn"
  /\ UNCHANGED <<table, i, threads>>

Next ==
  \/ Visit \/ ClimbDepth \/ DepthKnown \/ ClimbRow \/ RowKnown \/ Pick
  \/ Dispatch \/ Draw
  \/ \E b \in Thread : Concatenate(b) \/ WriteBone(b)

\* A tool runs to its end, a dispatch too, and Engine::Run runs frames for ever.
Spec == Init /\ [][Next]_vars /\ WF_vars(Next)

------------------------------------------------------------------------------
(* Properties.                                                             *)

\* The table has a row of MaxDepth numbers for every joint copied so far: the
\* loop over the rows writes what was allocated, no more, no less, and the
\* shader, which finds a row by multiplying, reads the right one.
RowsInTable ==
  /\ step = "rows" => Len(entry) <= MaxDepth
  /\ step = "joints" => Len(poData) = i * MaxDepth
  /\ step \in {"loaded", "shader", "drawn"} => Len(poData) = numJoints * MaxDepth

\* Types: among them, that what the GPU holds are unsigned values, as many of them as
\* the shader multiplies with.
TypeOK ==
  /\ file.joints \in [Skin -> Seq(Node)]
  /\ step \in {"nodes", "depth", "rows", "joints", "loaded", "shader", "drawn"}
  /\ i \in Nat
  /\ parentIndex \in [Node -> Node \cup {-1}]
  /\ curr \in Node \cup {-1} /\ count \in Nat /\ MaxDepth \in Nat \cup {-1}
  /\ entry \in Seq(Node)
  /\ \A r \in 1 .. Len(TableA) : TableA[r] \in Seq(Node \cup {-1})
  /\ poData \in Seq(0 .. (Modulus - 1))
  /\ at \in [Thread -> Nat]
  /\ tmp \in [Thread -> Seq(Node)]
  /\ uBoneWorldOut \in [Thread -> Seq(Node)]
  /\ RowsInTable

\* The way from node n up to a root of the file.
IsPathUp(path, n) ==
  /\ path # <<>> /\ path[1] = n
  /\ \A k \in 1 .. (Len(path) - 1) : path[k] \in file.children[path[k + 1]]
  /\ \A p \in Node : path[Len(path)] \notin file.children[p]

\* The skinned meshes of a file list the same joints (as they do in all of Assets,
\* up to the 24 skins of Crownboi): there is one hierarchy table for all.
OneRig == \A p, q \in meshSkinPairs : file.joints[p[2]] = file.joints[q[2]]

\* What is drawn: the k-th matrix of a mesh's skin is undone by the inverse bind
\* matrix of the same joint, and it is the product of the local matrices on the
\* way from that joint up to the root.
SkinFollowsSkeleton ==
  step = "drawn" /\ OneRig =>
    \A pair \in meshSkinPairs :
      LET skin == file.joints[pair[2]]
      IN  \A k \in 1 .. Len(skin) : IsPathUp(uBoneWorldOut[k - 1], skin[k])

\* The joint table written by ConvertJoint names for each row of the hierarchy
\* table the node that the row leads to.
TablesAgree ==
  step = "drawn" =>
    /\ Len(jointTable) = numJoints
    /\ \A b \in Thread : uBoneWorldOut[b] # <<>> /\ uBoneWorldOut[b][1] = jointTable[b + 1]

\* The climbs end, and so does every dispatch: a file gets drawn, again and again.
DrawnForEver == []<>(step = "drawn")
==================================================================================
