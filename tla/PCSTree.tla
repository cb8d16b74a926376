-------------------------------- MODULE PCSTree --------------------------------
(***************************************************************************)
(* The tree of Libs/PCSTree: nodes with links to parent, first child and   *)
(* siblings, threaded in both directions in preorder, and two iterators    *)
(* over the threads.  The caller makes nodes, hangs them in, removes them  *)
(* with all that is under them and deletes what was removed.               *)
(***************************************************************************)
EXTENDS Integers, Sequences, FiniteSets, SequencesExt

CONSTANTS
  Node,
  NULL,
  Wild,        \* what uninitialized memory holds: not null, and no node's address
  FreshThread, \* what pForward and pReverse of a node just made may be
  FreshDone    \* what bDone of a forward iterator just made may be

ASSUME NodeAssumption == IsFiniteSet(Node)
ASSUME NullAssumption == NULL \notin Node /\ Wild \notin Node /\ NULL # Wild
ASSUME FreshAssumption == FreshThread \subseteq {NULL, Wild} /\ FreshDone \subseteq BOOLEAN

VARIABLES
  mem,      \* the links of every node
  pRoot, mInfo,
  life,     \* what the caller did with each node: none, made, in, out
  walk      \* the iterator in use, and what its loop has seen; its kind is none

vars == <<mem, pRoot, mInfo, life, walk>>

\* The links of a node without children.
Leaf(parent, next, fwd, rev) ==
  [pParent |-> parent, pChild |-> NULL, pNextSibling |-> next, pPrevSibling |-> NULL,
   pForward |-> fwd, pReverse |-> rev]

Unlinked == Leaf(NULL, NULL, NULL, NULL)

NoWalk == [kind |-> "none", current |-> NULL, bDone |-> FALSE, seen |-> <<>>]

\* A tree as the operations pass it on.
TreeOf(m, root, info) == [mem |-> m, pRoot |-> root, mInfo |-> info]

\* The setters of PCSNode.
Set(m, n, link, to) == [m EXCEPT ![n] = [@ EXCEPT ![link] = to]]

\* SetForward and SetReverse, on what a thread points to.  Through a wild pointer
\* they write outside the tree.
SetForward(m, n, to) == IF n \in Node THEN Set(m, n, "pForward", to) ELSE m
SetReverse(m, n, to) == IF n \in Node THEN Set(m, n, "pReverse", to) ELSE m

------------------------------------------------------------------------------
(* Walking and counting.                                                   *)

\* The nodes that a walk from n comes to, if it goes from node x to those in to[x].
Closure(n, to) ==
  {x \in Node : \A S \in SUBSET Node : (n \in S /\ \A y \in S : to[y] \subseteq S) => x \in S}

\* The nodes that privRecalculateLevel visits from n, and the recursion of Remove.
Reached(m, n) ==
  Closure(n, [x \in Node |->
    {m[x].pChild, IF x = n THEN NULL ELSE m[x].pNextSibling} \ {NULL}])

\* The walk from n up to the root.
Up(m, root, n) == Closure(n, [x \in Node |-> IF x = root THEN {} ELSE {m[x].pParent} \ {NULL}])

\* The root is on level 1.
LevelOf(m, root, n) == Cardinality(Up(m, root, n))

InfoAddNode(info) ==
  LET curr == info.currNumNodes + 1
      most == IF curr > info.maxNumNodes THEN info.maxNumNodes + 1 ELSE info.maxNumNodes
  IN  [info EXCEPT !.currNumNodes = curr, !.maxNumNodes = most]

InfoAddNewLevel(m, root, info, n) ==
  LET curr == Max({info.currNumLevels, LevelOf(m, root, n)})
  IN  [info EXCEPT !.currNumLevels = curr, !.maxNumLevels = Max({@, curr})]

\* Starts again from 0.
InfoRemoveNewLevel(m, root, info) ==
  [info EXCEPT !.currNumLevels =
     IF root = NULL THEN 0 ELSE Max({LevelOf(m, root, n) : n \in Reached(m, root)})]

InfoRemoveNode(info) == [info EXCEPT !.currNumNodes = @ - 1]

------------------------------------------------------------------------------
(* PCSTree::Insert.                                                        *)

InsertRoot(n) ==
  LET linked == [mem EXCEPT ![n] = Unlinked]
  IN  TreeOf(linked, n, InfoAddNewLevel(linked, n, InfoAddNode(mInfo), n))

\* The parent has no child yet.  pForward of the new node is set only if something
\* follows the parent.
InsertOnlyChild(n, p) ==
  LET pFwd == mem[p].pForward
      linked == [Set(Set(mem, p, "pChild", n), p, "pForward", n)
                   EXCEPT ![n] = Leaf(p, NULL, mem[n].pForward, p)]
      threaded == IF pFwd # NULL THEN SetReverse(SetForward(linked, n, pFwd), pFwd, n)
                                 ELSE SetReverse(linked, pRoot, n)
  IN  TreeOf(threaded, pRoot, InfoAddNewLevel(threaded, pRoot, InfoAddNode(mInfo), n))

\* Mutant: the old first child's thread still leads back to the parent.
InsertUnthreaded(n, p) ==
  LET pOldChild == mem[p].pChild
      linked == [Set(mem, pOldChild, "pPrevSibling", n)
                   EXCEPT ![n] = Leaf(p, pOldChild, mem[p].pForward, p)]
  IN  TreeOf(Set(Set(linked, p, "pChild", n), p, "pForward", n), pRoot, InfoAddNode(mInfo))

\* The new node becomes the first of several children.
InsertFirstChild(n, p) ==
  LET pOldChild == mem[p].pChild
      linked == [Set(Set(mem, pOldChild, "pPrevSibling", n), pOldChild, "pReverse", n)
                   EXCEPT ![n] = Leaf(p, pOldChild, mem[p].pForward, p)]
  IN  TreeOf(Set(Set(linked, p, "pChild", n), p, "pForward", n), pRoot, InfoAddNode(mInfo))

------------------------------------------------------------------------------
(* PCSTree::Remove.                                                        *)

\* The fix of the threads around n.
Spliced(m, n) == SetReverse(SetForward(m, m[n].pReverse, m[n].pForward),
                            m[n].pForward, m[n].pReverse)

\* privRemoveNode keeps the removed node's own threads.
RemoveNode(m, root, info, n) ==
  TreeOf(Spliced([m EXCEPT ![n] = Leaf(NULL, NULL, m[n].pForward, m[n].pReverse)], n),
         root, InfoRemoveNode(info))

\* A leaf with no next sibling, out of the child list and the threads.
DetachLast(m, root, n) ==
  LET parent == m[n].pParent
      detached == IF m[m[parent].pChild].pNextSibling = NULL
                    THEN Set(m, parent, "pChild", NULL)
                    ELSE Set(m, m[n].pPrevSibling, "pNextSibling", NULL)
      spliced == Spliced(detached, n)
  IN  IF spliced[root].pReverse = n THEN Set(spliced, root, "pReverse", m[n].pReverse)
                                    ELSE spliced

\* Mutant: the levels are not counted again.
RemoveLastKeepingLevels(t, n) ==
  IF t.mem[n].pParent = NULL THEN RemoveNode(t.mem, NULL, t.mInfo, n)
  ELSE RemoveNode(DetachLast(t.mem, t.pRoot, n), t.pRoot, t.mInfo, n)

RemoveLast(t, n) ==
  LET detached == DetachLast(t.mem, t.pRoot, n)
  IN  IF t.mem[n].pParent = NULL THEN RemoveNode(t.mem, NULL, t.mInfo, n)
      ELSE RemoveNode(detached, t.pRoot, InfoRemoveNewLevel(detached, t.pRoot, t.mInfo), n)

\* Mutant: the next sibling keeps its link to the removed node.
RemoveInnerOneWay(t, n) ==
  LET m == t.mem
      next == m[n].pNextSibling
  IN  RemoveNode(IF m[m[n].pParent].pChild = n
                   THEN Set(Set(m, m[n].pParent, "pChild", next), next, "pPrevSibling", NULL)
                   ELSE Set(m, m[n].pPrevSibling, "pNextSibling", next),
                 t.pRoot, t.mInfo, n)

\* A leaf with a next sibling.
RemoveInner(t, n) ==
  LET m == t.mem
      next == m[n].pNextSibling
      prev == m[n].pPrevSibling
  IN  RemoveNode(IF m[m[n].pParent].pChild = n
                   THEN Set(Set(m, m[n].pParent, "pChild", next), next, "pPrevSibling", NULL)
                   ELSE Set(Set(m, prev, "pNextSibling", next), next, "pPrevSibling", prev),
                 t.pRoot, t.mInfo, n)

RemoveLeaf(t, n) ==
  IF t.mem[n].pNextSibling = NULL THEN RemoveLast(t, n) ELSE RemoveInner(t, n)

\* Where Remove gets to from n when it removes children first.
FirstLeaf(m, n) ==
  CHOOSE l \in Closure(n, [x \in Node |-> {m[x].pChild} \ {NULL}]) : m[l].pChild = NULL

RemoveFirstLeaf(t, n) == RemoveLeaf(t, FirstLeaf(t.mem, n))

\* Remove of a node with a child removes the child and starts again, so that the nodes
\* under n go leaf by leaf, and n goes last.
Removed(t, n) ==
  LET after[k \in Nat] == IF k = 0 THEN t ELSE RemoveFirstLeaf(after[k - 1], n)
  IN  after[Cardinality(Reached(t.mem, n))]

------------------------------------------------------------------------------
Become(t) == mem' = t.mem /\ pRoot' = t.pRoot /\ mInfo' = t.mInfo

Init ==
  /\ mem = [n \in Node |-> Unlinked] /\ pRoot = NULL
  /\ mInfo = [currNumNodes |-> 0, maxNumNodes |-> 0, currNumLevels |-> 0, maxNumLevels |-> 0]
  /\ life = [n \in Node |-> "none"] /\ walk = NoWalk

\* PCSNode::PCSNode.
Make(n) ==
  /\ life[n] = "none" /\ life' = [life EXCEPT ![n] = "made"]
  /\ \E fwd, rev \in FreshThread :
       mem' = [mem EXCEPT ![n] = Leaf(NULL, NULL, fwd, rev)]
  /\ UNCHANGED <<pRoot, mInfo, walk>>

\* PCSNode::~PCSNode, of a node that is in no tree any more.
Delete(n) ==
  /\ life[n] = "out" /\ life' = [life EXCEPT ![n] = "none"]
  /\ mem' = [mem EXCEPT ![n] = Unlinked]
  /\ UNCHANGED <<pRoot, mInfo, walk>>

\* PCSTree::Insert, of a new node: the callers give the first node no parent, and the
\* others one that is in the tree.
Insert(n, p) ==
  /\ life[n] = "made" /\ life' = [life EXCEPT ![n] = "in"]
  /\ walk = NoWalk /\ UNCHANGED walk
  /\ \/ p = NULL /\ pRoot = NULL /\ Become(InsertRoot(n))
     \/ /\ p \in Node /\ life[p] = "in"
        /\ IF mem[p].pChild = NULL THEN Become(InsertOnlyChild(n, p))
                                   ELSE Become(InsertFirstChild(n, p))

RemoveSubtree(n) ==
  /\ life[n] = "in" /\ walk = NoWalk /\ UNCHANGED walk
  /\ life' = [m \in Node |-> IF m \in Reached(mem, n) THEN "out" ELSE life[m]]
  /\ \E t \in {Removed(TreeOf(mem, pRoot, mInfo), n)} : Become(t)

\* PCSTree::GetInfo recalculates the levels.
GetInfo ==
  /\ mInfo' = InfoRemoveNewLevel(mem, pRoot, mInfo)
  /\ UNCHANGED <<mem, pRoot, life, walk>>

\* An iterator is made for the root, and First is called.
First(kind) ==
  /\ walk = NoWalk /\ pRoot # NULL
  /\ \E done \in IF kind = "forward" THEN FreshDone ELSE {FALSE} :
       walk' = [kind |-> kind, current |-> pRoot, bDone |-> done, seen |-> <<>>]
  /\ UNCHANGED <<mem, pRoot, mInfo, life>>

\* A forward iterator remembers that it is done; a reverse one looks every time.
IsDone ==
  IF walk.kind = "forward" THEN walk.current = NULL \/ walk.bDone ELSE walk.current = NULL

\* Bound: rounds of a loop over an iterator, one more than there are nodes.
MaxSeen == Cardinality(Node) + 1

\* One round of the caller's loop: look at the node, then Next.
Step ==
  /\ walk # NoWalk /\ ~IsDone /\ walk.current \in Node /\ Len(walk.seen) < MaxSeen
  /\ LET links == mem[walk.current]
     IN  walk' = [walk EXCEPT
           !.seen = Append(@, walk.current),
           !.current = IF walk.kind = "forward" THEN links.pForward ELSE links.pReverse]
  /\ UNCHANGED <<mem, pRoot, mInfo, life>>

\* The loop ends, or the caller leaves it.
Leave ==
  /\ walk # NoWalk /\ walk' = NoWalk
  /\ UNCHANGED <<mem, pRoot, mInfo, life>>

Next ==
  \/ \E n \in Node : Make(n) \/ Delete(n) \/ RemoveSubtree(n) \/ \E p \in Node \union {NULL} : Insert(n, p)
  \/ GetInfo
  \/ First("forward") \/ First("reverse") \/ Step \/ Leave

Spec == Init /\ [][Next]_vars

------------------------------------------------------------------------------
\* Links lead to nodes, and counts are counts.
TypeOK ==
  /\ mem \in [Node -> [DOMAIN Unlinked -> Node \union {NULL, Wild}]]
  /\ \A n \in Node : {mem[n][f] : f \in DOMAIN Unlinked \ {"pForward", "pReverse"}}
                       \subseteq Node \union {NULL}
  /\ pRoot \in Node \union {NULL} /\ mInfo \in [DOMAIN mInfo -> 0..Cardinality(Node)]
  /\ life \in [Node -> {"none", "made", "in", "out"}]
  /\ walk.kind \in {"none", "forward", "reverse"} /\ walk.current \in Node \union {NULL, Wild}
  /\ walk.bDone \in BOOLEAN /\ walk.seen \in Seq(Node)

\* The three links that PCSTree keeps of a place in the tree agree, after any mixture
\* of Insert and Remove: a next sibling leads back, children know their parent, the
\* first child has nothing before it, and no link leaves the tree.  (And all variables
\* have their types.)
LinksAgree ==
  TypeOK /\ \A n \in Node : life[n] = "in" =>
    LET links == mem[n]
    IN  /\ n = pRoot <=> links.pParent = NULL
        /\ links.pNextSibling # NULL => /\ mem[links.pNextSibling].pPrevSibling = n
                                        /\ mem[links.pNextSibling].pParent = links.pParent
        /\ links.pChild # NULL => /\ mem[links.pChild].pParent = n
                                  /\ mem[links.pChild].pPrevSibling = NULL
        /\ links.pPrevSibling # NULL => mem[links.pPrevSibling].pNextSibling = n
        /\ \A f \in DOMAIN Unlinked : links[f] \in Node => life[links[f]] = "in"

\* What comes after all that is under n, in preorder: the next sibling of n or, if it
\* has none, of the nearest node above that has one.
After(n) ==
  LET Open == {a \in Up(mem, pRoot, n) : mem[a].pNextSibling # NULL}
      nearest == CHOOSE a \in Open : Open \subseteq Up(mem, pRoot, a)
  IN  IF Open = {} THEN NULL ELSE mem[nearest].pNextSibling

\* What follows n in preorder.
Following(n) == IF mem[n].pChild # NULL THEN mem[n].pChild ELSE After(n)

\* PCSTreeForwardIterator and PCSTreeReverseIterator: a walk meets the nodes in
\* preorder, up to null after the last; or the other way round, from the root to the
\* last node and on up to the root again; whichever insertions and removals have
\* re-threaded the tree before.
WalksInOrder ==
  walk # NoWalk =>
    LET path == Append(walk.seen, walk.current)
    IN  /\ path[1] = pRoot
        /\ \A i \in DOMAIN walk.seen :
             IF walk.kind = "forward" THEN path[i + 1] = Following(path[i])
             ELSE IF path[i + 1] = NULL THEN path[i] = pRoot /\ Following(pRoot) = NULL
             ELSE Following(path[i + 1]) = IF path[i] = pRoot THEN NULL ELSE path[i]

\* "Update()/Draw() walk the tree with PCSTreeForwardIterator, calling the virtual on
\* each node": the threads lead from the root through all nodes to null.
ForwardEndsInNull ==
  \A n \in Node : life[n] = "in" /\ Following(n) = NULL => mem[n].pForward = NULL

------------------------------------------------------------------------------
\* PCSNode::GetNumChildren counts the siblings from n on.
Younger(m, n) == Closure(n, [x \in Node |-> {m[x].pNextSibling} \ {NULL}])

\* What the links say of the nodes in the tree.
InTree(m, root) == IF root = NULL THEN {} ELSE Reached(m, root)
ParentBar(m, root) == [n \in InTree(m, root) |-> m[n].pParent]
BeforeBar(m, root) ==
  {e \in InTree(m, root) \X InTree(m, root) : e[2] \in Younger(m, e[1]) \ {e[1]}}

\* The levels are of interest only while there is a tree: after its last node is
\* removed they are counted again by the next GetInfo or Insert.
InfoBar(root, info) == [info EXCEPT !.currNumLevels = IF root = NULL THEN 0 ELSE @]

Ordered == INSTANCE OrderedTree WITH
  root <- pRoot, parent <- ParentBar(mem, pRoot), before <- BeforeBar(mem, pRoot),
  info <- InfoBar(pRoot, mInfo)

\* PCSTree.cpp and its Info: the tree has exactly the nodes that were hung in and not
\* removed since, in their order, and the counts are right after every call, not only
\* after GetInfo has recalculated them.
ImplementsOrderedTree == Ordered!Spec
================================================================================
