------------------------------ MODULE OrderedTree ------------------------------
(***************************************************************************)
(* What a PCSTree promises to the code that hangs nodes into it: an        *)
(* ordered tree, given by the parent of every node and the order of its    *)
(* siblings, and how many nodes and levels it has and has had at most.  No *)
(* links, no threads.                                                      *)
(***************************************************************************)
EXTENDS Integers, FiniteSets, FiniteSetsExt

CONSTANTS Node, NULL

VARIABLES
  root,   \* NULL for an empty tree
  parent, \* of every node in the tree; that of the root is NULL
  before, \* which sibling comes before which
  info    \* counts: nodes and levels, now and at most

vars == <<root, parent, before, info>>

\* n and the nodes above it.
Above(par, n) ==
  {a \in DOMAIN par : \A S \in SUBSET DOMAIN par :
     (n \in S /\ \A x \in S : par[x] # NULL => par[x] \in S) => a \in S}

\* n and the nodes below it.
Below(par, n) == {x \in DOMAIN par : n \in Above(par, x)}

\* The root is on level 1.
Depth(par) == Max({0} \union {Cardinality(Above(par, n)) : n \in DOMAIN par})

Larger(x, y) == IF x < y THEN y ELSE x

\* The counts for a tree, and the largest there have been.
Counted(par) ==
  [currNumNodes |-> Cardinality(DOMAIN par),
   maxNumNodes |-> Larger(info.maxNumNodes, Cardinality(DOMAIN par)),
   currNumLevels |-> Depth(par),
   maxNumLevels |-> Larger(info.maxNumLevels, Depth(par))]

Init ==
  /\ root = NULL /\ parent = [n \in {} |-> NULL] /\ before = {}
  /\ info = [currNumNodes |-> 0, maxNumNodes |-> 0, currNumLevels |-> 0, maxNumLevels |-> 0]

Plant(n) == root = NULL /\ root' = n /\ parent' = [m \in {n} |-> NULL] /\ before' = before

\* A new node becomes the first child of its parent.
Hang(n, p) ==
  /\ n \notin DOMAIN parent /\ p \in DOMAIN parent /\ root' = root
  /\ parent' = [m \in DOMAIN parent \union {n} |-> IF m = n THEN p ELSE parent[m]]
  /\ before' = before \union {<<n, m>> : m \in {c \in DOMAIN parent : parent[c] = p}}

\* A node goes, and all that hangs under it; the others stay in their order.
Cut(n) ==
  LET left == DOMAIN parent \ Below(parent, n)
  IN  /\ n \in DOMAIN parent /\ root' = IF n = root THEN NULL ELSE root
      /\ parent' = [m \in left |-> parent[m]] /\ before' = before \intersect (left \X left)

Next ==
  /\ \E n \in Node : Plant(n) \/ Cut(n) \/ \E p \in Node : Hang(n, p)
  /\ info' = Counted(parent')

Spec == Init /\ [][Next]_vars
================================================================================
