---------------------------------- MODULE MCRig ----------------------------------
(***************************************************************************)
(* Instance of Rig for TLC: every forest of three nodes, numbered in any   *)
(* order, with every list of joints.  The skins are on the first node, on  *)
(* two nodes that share a mesh or have one each, or on the last node; the  *)
(* second skin lists the joints of the first, or those in reverse.         *)
(***************************************************************************)
EXTENDS Rig, SequencesExt

MCParents ==
  {p \in [Node -> Node \cup {-1}] :
     \A S \in SUBSET Node \ {{}} : \E n \in S : p[n] \notin S}

MCChildren == {[n \in Node |-> {c \in Node : p[c] = n}] : p \in MCParents}

MCJoints ==
  {s \in UNION {[1 .. k -> Node] : k \in 1 .. 3} :
     \A a, b \in DOMAIN s : s[a] = s[b] => a = b}

MCSkinned ==
  { [skin |-> <<0, -1, -1>>, mesh |-> <<0, -1, -1>>],
    [skin |-> <<1, 0, -1>>, mesh |-> <<0, 1, -1>>],
    [skin |-> <<-1, 0, 1>>, mesh |-> <<1, 0, 0>>],
    [skin |-> <<-1, -1, 1>>, mesh |-> <<-1, -1, 1>>] }

MCFiles ==
  {[children |-> c, joints |-> (0 :> j @@ 1 :> k),
    skin |-> [n \in Node |-> s.skin[n + 1]], mesh |-> [n \in Node |-> s.mesh[n + 1]]] :
      c \in MCChildren, s \in MCSkinned,
      <<j, k>> \in UNION {{<<x, x>>, <<x, Reverse(x)>>} : x \in MCJoints}}
==================================================================================
