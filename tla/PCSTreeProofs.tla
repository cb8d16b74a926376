---------------------------- MODULE PCSTreeProofs ------------------------------
(***************************************************************************)
(* Proofs about PCSTree, for any number of nodes and any mixture of        *)
(* insertions and removals: its links agree, its threads lead through the  *)
(* nodes in preorder, and it implements OrderedTree.                       *)
(***************************************************************************)
EXTENDS PCSTree, WellFoundedInduction, FiniteSetTheorems, SequenceTheorems, TLAPS

Links == {"pParent", "pChild", "pNextSibling", "pPrevSibling", "pForward", "pReverse"}
\* What a link may hold.  A thread that nothing has written yet holds what it was made with.
Target == Node \union {NULL} \union FreshThread
Memory == [Node -> [Links -> Target]]

\* The constructors that set the threads.
TameThreads == FreshThread \subseteq {NULL}

------------------------------------------------------------------------------
\* A set of naturals that is not empty has a least element.
LEMMA LeastIs ==
  ASSUME NEW S \in SUBSET Nat, S # {}
  PROVE  \E n \in S : \A m \in S : n <= m
<1>1. PICK n \in S : \A m \in S : <<m, n>> \notin OpToRel(<, Nat)
  BY WFMin, NatLessThanWellFounded, Zenon
<1>2. \A m \in S : ~ (m < n)
  BY <1>1 DEF OpToRel
<1>3. \A m \in S : n <= m
  BY <1>2
<1> QED
  BY <1>3

\* Max of a bounded set of naturals is in it: the levels stay in their range.
LEMMA MaxIs ==
  ASSUME NEW K \in Nat, NEW S \in SUBSET (0..K), S # {}
  PROVE  Max(S) \in S /\ \A x \in S : x <= Max(S)
<1> DEFINE Gaps == {g \in Nat : \E x \in S : g = K - x}
<1>1. Gaps # {} /\ Gaps \in SUBSET Nat
  <2>1. PICK x \in S : TRUE
    OBVIOUS
  <2>2. K - x \in Nat
    BY <2>1
  <2> QED
    BY <2>1, <2>2
<1>2. PICK g \in Gaps : \A h \in Gaps : g <= h
  BY <1>1, LeastIs
<1>3. PICK x \in S : g = K - x
  BY <1>2
<1>4. \A y \in S : x >= y
  <2>1. TAKE y \in S
  <2>2. K - y \in Gaps
    OBVIOUS
  <2>3. g <= K - y
    BY <1>2, <2>2
  <2> QED
    BY <1>3, <2>3
<1>5. Max(S) \in S /\ \A y \in S : Max(S) >= y
  BY <1>3, <1>4, Zenon DEF Max
<1> QED
  BY <1>5

------------------------------------------------------------------------------
(* The closure.                                                            *)

\* The closure of n holds n.
LEMMA ClosureStart ==
  ASSUME NEW n \in Node, NEW to
  PROVE  n \in Closure(n, to) /\ Closure(n, to) \subseteq Node
  BY DEF Closure

\* A closed set that holds n holds all that a walk from n comes to.
LEMMA ClosureLeast ==
  ASSUME NEW to, NEW S \in SUBSET Node, NEW n \in S, \A y \in S : to[y] \subseteq S
  PROVE  Closure(n, to) \subseteq S
  BY DEF Closure

\* And then the closure itself is closed.
LEMMA ClosureClosed ==
  ASSUME NEW to, NEW S \in SUBSET Node, NEW n \in S, \A y \in S : to[y] \subseteq S
  PROVE  \A y \in Closure(n, to) : to[y] \subseteq Closure(n, to)
<1>1. Closure(n, to) \subseteq S
  BY ClosureLeast
<1>2. \A y \in Closure(n, to) : \A z \in to[y] : z \in Closure(n, to)
  BY <1>1 DEF Closure
<1> QED
  BY <1>2

------------------------------------------------------------------------------
(* The setters, link by link.                                              *)

\* A node without children has the links it is made with.
LEMMA LeafIs ==
  ASSUME NEW pa, NEW nx, NEW fw, NEW rv
  PROVE  LET f == Leaf(pa, nx, fw, rv)
         IN  /\ f.pParent = pa /\ f.pChild = NULL
             /\ f.pNextSibling = nx /\ f.pPrevSibling = NULL
             /\ f.pForward = fw /\ f.pReverse = rv
  BY DEF Leaf

\* And they are all the links there are.
LEMMA LeafType ==
  ASSUME NEW pa \in Target, NEW nx \in Target,
         NEW fw \in Target, NEW rv \in Target
  PROVE  Leaf(pa, nx, fw, rv) \in [Links -> Target]
  BY DEF Leaf, Links, Target

\* The links a node has.
LEMMA LinksAre ==
  DOMAIN Unlinked = Links
  BY DEF Unlinked, Leaf, Links

\* w is m with one link of n changed, if n is a node.
Written(m, w, n, link, to) ==
  /\ w \in Memory
  /\ \A x \in Node : \A f \in Links :
       w[x][f] = IF x = n /\ f = link THEN to ELSE m[x][f]

\* A setter changes one link of one node.
LEMMA SetIs ==
  ASSUME NEW m \in Memory, NEW n \in Node, NEW link \in Links,
         NEW to \in Target
  PROVE  Written(m, Set(m, n, link, to), n, link, to)
  BY DEF Set, Memory, Written

------------------------------------------------------------------------------
(* The shape of a tree: nodes I under r, linked by m.  Three things the    *)
(* code does not keep say how: hgt falls from parent to child, ord rises   *)
(* from sibling to sibling, and aft is the node that comes after all that  *)
(* is under a node, in preorder, or null.                                  *)

ParentRight(m, r, I, hgt) ==
  r \in I /\ \A n \in I :
    /\ m[n].pParent = NULL <=> n = r
    /\ n # r => /\ m[n].pParent \in I /\ hgt[n] < hgt[m[n].pParent] /\ hgt[n] < hgt[r]

NextRight(m, I, ord) ==
  \A n \in I : m[n].pNextSibling # NULL =>
    /\ m[n].pNextSibling \in I /\ ord[n] < ord[m[n].pNextSibling]
    /\ m[m[n].pNextSibling].pPrevSibling = n
    /\ m[m[n].pNextSibling].pParent = m[n].pParent

PrevRight(m, r, I) ==
  \A n \in I :
    /\ m[n].pPrevSibling # NULL =>
         m[n].pPrevSibling \in I /\ m[m[n].pPrevSibling].pNextSibling = n
    /\ m[n].pPrevSibling = NULL /\ n # r => m[m[n].pParent].pChild = n

ChildRight(m, I) ==
  \A n \in I : m[n].pChild # NULL =>
    /\ m[n].pChild \in I /\ m[m[n].pChild].pParent = n
    /\ m[m[n].pChild].pPrevSibling = NULL

Family(m, r, I, hgt, ord) ==
  /\ ParentRight(m, r, I, hgt) /\ NextRight(m, I, ord) /\ PrevRight(m, r, I) /\ ChildRight(m, I)

ReverseRight(m, r, I) ==
  \A n \in I : n # r => m[n].pReverse \in I /\ m[m[n].pReverse].pForward = n

ForwardRight(m, r, I) ==
  \A n \in I : m[n].pForward \in Node =>
    /\ m[n].pForward \in I /\ m[n].pForward # r /\ m[m[n].pForward].pReverse = n

\* What follows a node is its first child, or what comes after it.
FollowRight(m, I, aft) ==
  \A n \in I :
    /\ m[n].pChild # NULL => m[n].pForward = m[n].pChild
    /\ m[n].pChild = NULL /\ aft[n] # NULL => m[n].pForward = aft[n]
    /\ m[n].pChild = NULL /\ aft[n] = NULL => m[n].pForward \notin Node

\* What comes after a node is its next sibling, or what comes after its parent.
AfterRight(m, r, I, aft) ==
  \A n \in I :
    /\ m[n].pNextSibling # NULL => aft[n] = m[n].pNextSibling
    /\ m[n].pNextSibling = NULL /\ n # r => aft[n] = aft[m[n].pParent]
    /\ n = r => aft[n] = NULL

AfterHigher(m, r, I, aft, hgt) ==
  \A n \in I : aft[n] # NULL =>
    aft[n] \in I /\ aft[n] # r /\ hgt[n] < hgt[m[aft[n]].pParent]

LastRight(m, r, I, aft) ==
  /\ m[r].pReverse \in I \union {NULL}
  /\ m[r].pReverse # NULL => aft[m[r].pReverse] = NULL
  /\ TameThreads => IF m[r].pReverse = NULL THEN m[r].pChild = NULL
                                            ELSE m[m[r].pReverse].pChild = NULL

Threads(m, r, I, aft, hgt) ==
  /\ ReverseRight(m, r, I) /\ ForwardRight(m, r, I) /\ FollowRight(m, I, aft)
  /\ AfterRight(m, r, I, aft) /\ AfterHigher(m, r, I, aft, hgt) /\ LastRight(m, r, I, aft)

Shape(m, r, I, aft, hgt, ord) ==
  /\ m \in Memory /\ I \subseteq Node
  /\ aft \in [Node -> Node \union {NULL}] /\ hgt \in [Node -> Nat] /\ ord \in [Node -> Nat]
  /\ Family(m, r, I, hgt, ord) /\ Threads(m, r, I, aft, hgt)

\* A node without a first child is nobody's parent.
LEMMA HasChild ==
  ASSUME NEW m, NEW r, NEW I, NEW aft, NEW hgt, NEW ord, Shape(m, r, I, aft, hgt, ord),
         NEW p \in I, NEW x \in I, m[x].pParent = p
  PROVE  m[p].pChild # NULL
<1> USE DEF Shape
<1> DEFINE Kids == {y \in I : m[y].pParent = p}
           Ords == {ord[y] : y \in Kids}
<1>1. Ords \subseteq Nat /\ Ords # {}
  OBVIOUS
<1>2. PICK y \in Kids : \A z \in Kids : ord[y] <= ord[z]
  <2> HIDE DEF Ords
  <2>1. PICK o \in Ords : \A q \in Ords : o <= q
    BY <1>1, LeastIs
  <2> QED
    BY <2>1 DEF Ords
<1>3. y \in I /\ y # r /\ m[y].pParent = p
  BY NullAssumption DEF Family, ParentRight
<1>4. m[y].pPrevSibling = NULL
  <2>1. SUFFICES ASSUME m[y].pPrevSibling # NULL PROVE FALSE
    OBVIOUS
  <2> DEFINE z == m[y].pPrevSibling
  <2>2. z \in I /\ m[z].pNextSibling = y
    BY <1>3, <2>1 DEF Family, PrevRight
  <2>3. ord[z] < ord[y] /\ m[y].pParent = m[z].pParent
    BY <2>2, <1>3, NullAssumption DEF Family, NextRight
  <2>4. z \in Kids
    BY <2>2, <2>3
  <2>5. ord[z] \in Nat /\ ord[y] \in Nat /\ ord[y] <= ord[z]
    BY <2>2, <1>3, <2>4, <1>2
  <2> QED
    BY <2>3, <2>5
<1>5. m[p].pChild = y
  BY <1>3, <1>4 DEF Family, PrevRight
<1> QED
  BY <1>3, <1>5, NullAssumption

\* A first child without a next sibling is the only one.
LEMMA OnlyChild ==
  ASSUME NEW m, NEW r, NEW I, NEW aft, NEW hgt, NEW ord, Shape(m, r, I, aft, hgt, ord),
         NEW p \in I, NEW x \in I, m[x].pParent = p, m[m[p].pChild].pNextSibling = NULL
  PROVE  m[p].pChild = x
<1> USE DEF Shape
<1>0. SUFFICES ASSUME m[p].pChild # x PROVE FALSE
  OBVIOUS
<1> DEFINE Kids == {y \in I : m[y].pParent = p /\ y # m[p].pChild}
           Ords == {ord[y] : y \in Kids}
<1>1. Ords \subseteq Nat /\ Ords # {}
  BY <1>0
<1>2. PICK y \in Kids : \A z \in Kids : ord[y] <= ord[z]
  <2> HIDE DEF Ords
  <2>1. PICK o \in Ords : \A q \in Ords : o <= q
    BY <1>1, LeastIs
  <2> QED
    BY <2>1 DEF Ords
<1>3. y \in I /\ y # r /\ m[y].pParent = p /\ y # m[p].pChild
  BY NullAssumption DEF Family, ParentRight
<1>4. m[y].pPrevSibling # NULL
  BY <1>3 DEF Family, PrevRight
<1> DEFINE z == m[y].pPrevSibling
<1>5. z \in I /\ m[z].pNextSibling = y
  BY <1>3, <1>4 DEF Family, PrevRight
<1>6. ord[z] < ord[y] /\ m[y].pParent = m[z].pParent
  BY <1>5, <1>3, NullAssumption DEF Family, NextRight
<1>7. z # m[p].pChild
  BY <1>3, <1>5, NullAssumption
<1>8. z \in Kids
  BY <1>5, <1>6, <1>3, <1>7
<1>9. ord[z] \in Nat /\ ord[y] \in Nat /\ ord[y] <= ord[z]
  BY <1>5, <1>3, <1>8, <1>2
<1> QED
  BY <1>6, <1>9
------------------------------------------------------------------------------
(* A leaf goes.  Whatever linked to it links to what it linked to.         *)

Past(m, l, to, beyond) == IF to = l THEN beyond ELSE to

Gone(m, w, I, l) ==
  /\ w \in Memory
  /\ \A f \in Links : w[l][f] = Leaf(NULL, NULL, m[l].pForward, m[l].pReverse)[f]
  /\ \A x \in I \ {l} :
       /\ w[x].pParent = m[x].pParent
       /\ w[x].pChild = Past(m, l, m[x].pChild, m[l].pNextSibling)
       /\ w[x].pNextSibling = Past(m, l, m[x].pNextSibling, m[l].pNextSibling)
       /\ w[x].pPrevSibling = Past(m, l, m[x].pPrevSibling, m[l].pPrevSibling)
       /\ w[x].pForward = Past(m, l, m[x].pForward, m[l].pForward)
       /\ w[x].pReverse = Past(m, l, m[x].pReverse, m[l].pReverse)
  /\ \A x \in Node \ I : \A f \in Links : w[x][f] = m[x][f]

AftPast(aft, l) == [x \in Node |-> IF aft[x] = l THEN aft[l] ELSE aft[x]]

\* A leaf links to other nodes than itself.
LEMMA LeafApart ==
  ASSUME NEW m, NEW r, NEW I, NEW aft, NEW hgt, NEW ord, Shape(m, r, I, aft, hgt, ord),
         NEW l \in I, l # r, m[l].pChild = NULL
  PROVE  /\ m[l].pParent \in I \ {l} /\ m[l].pNextSibling # l /\ m[l].pPrevSibling # l
         /\ aft[l] # l /\ aft[m[l].pParent] # l /\ m[l].pForward # l /\ m[l].pReverse # l
<1> USE NullAssumption DEF Shape
<1>1. m[l].pParent \in I /\ hgt[l] < hgt[m[l].pParent] /\ hgt[l] \in Nat
      /\ hgt[m[l].pParent] \in Nat
  BY DEF Family, ParentRight
<1>2. m[l].pNextSibling # l
  <2>1. SUFFICES ASSUME m[l].pNextSibling = l PROVE FALSE
    OBVIOUS
  <2>2. ord[l] < ord[l] /\ ord[l] \in Nat
    BY <2>1 DEF Family, NextRight
  <2> QED
    BY <2>2
<1>3. m[l].pPrevSibling # l
  BY <1>2 DEF Family, PrevRight
<1>4. aft[m[l].pParent] # l
  <2>1. SUFFICES ASSUME aft[m[l].pParent] = l PROVE FALSE
    OBVIOUS
  <2>2. hgt[m[l].pParent] < hgt[m[l].pParent]
    BY <1>1, <2>1 DEF Threads, AfterHigher
  <2> QED
    BY <1>1, <2>2
<1>5. aft[l] # l
  BY <1>2, <1>4 DEF Threads, AfterRight
<1>6. m[l].pForward # l
  BY <1>5 DEF Threads, FollowRight
<1>7. m[l].pReverse # l
  BY <1>6 DEF Threads, ReverseRight
<1> QED
  BY <1>1, <1>2, <1>3, <1>4, <1>5, <1>6, <1>7

\* The family links are right without a leaf.
LEMMA GoneFamily ==
  ASSUME NEW m, NEW r, NEW I, NEW aft, NEW hgt, NEW ord, Shape(m, r, I, aft, hgt, ord),
         NEW l \in I, l # r, m[l].pChild = NULL, NEW w, Gone(m, w, I, l)
  PROVE  Family(w, r, I \ {l}, hgt, ord)
<1> USE NullAssumption DEF Shape
<1>1. /\ m[l].pParent \in I \ {l} /\ m[l].pNextSibling # l /\ m[l].pPrevSibling # l
  BY LeafApart
<1>2. \A x \in I : m[x].pParent # l
  BY HasChild
<1>3. ParentRight(w, r, I \ {l}, hgt)
  BY <1>1, <1>2 DEF Family, ParentRight, Gone
<1>4. NextRight(w, I \ {l}, ord)
  <2> SUFFICES ASSUME NEW n \in I \ {l}, w[n].pNextSibling # NULL
               PROVE  /\ w[n].pNextSibling \in I \ {l} /\ ord[n] < ord[w[n].pNextSibling]
                      /\ w[w[n].pNextSibling].pPrevSibling = n
                      /\ w[w[n].pNextSibling].pParent = w[n].pParent
    BY DEF NextRight
  <2>1. CASE m[n].pNextSibling = l
    <3> DEFINE x == m[l].pNextSibling
    <3>1. w[n].pNextSibling = x /\ x # NULL
      BY <2>1 DEF Gone, Past
    <3>2. x \in I /\ ord[l] < ord[x] /\ m[x].pPrevSibling = l /\ m[x].pParent = m[l].pParent
      BY <3>1 DEF Family, NextRight
    <3>3. ord[n] < ord[l] /\ m[l].pPrevSibling = n /\ m[l].pParent = m[n].pParent
      BY <2>1 DEF Family, NextRight
    <3>4. x \in I \ {l}
      BY <1>1, <3>2
    <3>5. w[x].pPrevSibling = n /\ w[x].pParent = w[n].pParent
      BY <3>2, <3>3, <3>4 DEF Gone, Past
    <3>6. ord[n] < ord[x]
      <4>1. ord[n] \in Nat /\ ord[l] \in Nat /\ ord[x] \in Nat
        BY <3>2
      <4> QED
        BY <4>1, <3>2, <3>3
    <3> QED
      BY <3>1, <3>4, <3>5, <3>6
  <2>2. CASE m[n].pNextSibling # l
    <3> DEFINE x == m[n].pNextSibling
    <3>1. w[n].pNextSibling = x /\ x # NULL
      BY <2>2 DEF Gone, Past
    <3>2. x \in I /\ ord[n] < ord[x] /\ m[x].pPrevSibling = n /\ m[x].pParent = m[n].pParent
      BY <3>1 DEF Family, NextRight
    <3>3. w[x].pPrevSibling = n /\ w[x].pParent = w[n].pParent
      BY <3>2, <2>2 DEF Gone, Past
    <3> QED
      BY <3>1, <3>2, <3>3, <2>2
  <2> QED
    BY <2>1, <2>2
<1>5. PrevRight(w, r, I \ {l})
  <2> SUFFICES ASSUME NEW n \in I \ {l}
               PROVE  /\ w[n].pPrevSibling # NULL =>
                           /\ w[n].pPrevSibling \in I \ {l}
                           /\ w[w[n].pPrevSibling].pNextSibling = n
                      /\ w[n].pPrevSibling = NULL /\ n # r => w[w[n].pParent].pChild = n
    BY DEF PrevRight
  <2>1. CASE m[n].pPrevSibling = l
    <3> DEFINE x == m[l].pPrevSibling
    <3>1. w[n].pPrevSibling = x
      BY <2>1 DEF Gone, Past
    <3>2. m[l].pNextSibling = n /\ m[n].pParent = m[l].pParent
      BY <2>1 DEF Family, PrevRight, NextRight
    <3>3. x # NULL => x \in I \ {l} /\ m[x].pNextSibling = l
      BY <1>1 DEF Family, PrevRight
    <3>4. x # NULL => w[x].pNextSibling = n
      BY <3>2, <3>3 DEF Gone, Past
    <3>5. x = NULL => m[m[l].pParent].pChild = l
      BY DEF Family, PrevRight
    <3>6. x = NULL => w[w[n].pParent].pChild = n
      BY <3>2, <3>5, <1>1 DEF Gone, Past
    <3> QED
      BY <3>1, <3>3, <3>4, <3>6
  <2>2. CASE m[n].pPrevSibling # l
    <3> DEFINE x == m[n].pPrevSibling
    <3>1. w[n].pPrevSibling = x /\ w[n].pParent = m[n].pParent
      BY <2>2 DEF Gone, Past
    <3>2. x # NULL => x \in I \ {l} /\ m[x].pNextSibling = n
      BY <2>2 DEF Family, PrevRight
    <3>3. x # NULL => w[x].pNextSibling = n
      BY <3>2 DEF Gone, Past
    <3>4. x = NULL /\ n # r => m[n].pParent \in I \ {l} /\ m[m[n].pParent].pChild = n
      BY <1>2 DEF Family, PrevRight, ParentRight
    <3>5. x = NULL /\ n # r => w[m[n].pParent].pChild = n
      BY <3>4 DEF Gone, Past
    <3> QED
      BY <3>1, <3>2, <3>3, <3>5
  <2> QED
    BY <2>1, <2>2
<1>6. ChildRight(w, I \ {l})
  <2> SUFFICES ASSUME NEW n \in I \ {l}, w[n].pChild # NULL
               PROVE  /\ w[n].pChild \in I \ {l} /\ w[w[n].pChild].pParent = n
                      /\ w[w[n].pChild].pPrevSibling = NULL
    BY DEF ChildRight
  <2>1. CASE m[n].pChild = l
    <3> DEFINE x == m[l].pNextSibling
    <3>1. w[n].pChild = x /\ x # NULL
      BY <2>1 DEF Gone, Past
    <3>2. x \in I \ {l} /\ m[x].pPrevSibling = l /\ m[x].pParent = m[l].pParent
      BY <3>1, <1>1 DEF Family, NextRight
    <3>3. m[l].pParent = n /\ m[l].pPrevSibling = NULL
      BY <2>1 DEF Family, ChildRight
    <3>4. w[x].pPrevSibling = NULL /\ w[x].pParent = n
      BY <3>2, <3>3 DEF Gone, Past
    <3> QED
      BY <3>1, <3>2, <3>4
  <2>2. CASE m[n].pChild # l
    <3> DEFINE x == m[n].pChild
    <3>1. w[n].pChild = x /\ x # NULL
      BY <2>2 DEF Gone, Past
    <3>2. x \in I \ {l} /\ m[x].pParent = n /\ m[x].pPrevSibling = NULL
      BY <3>1, <2>2 DEF Family, ChildRight
    <3>3. w[x].pPrevSibling = NULL /\ w[x].pParent = n
      BY <3>2 DEF Gone, Past
    <3> QED
      BY <3>1, <3>2, <3>3
  <2> QED
    BY <2>1, <2>2
<1> QED
  BY <1>3, <1>4, <1>5, <1>6 DEF Family
\* And so are the threads.
LEMMA GoneThreads ==
  ASSUME NEW m, NEW r, NEW I, NEW aft, NEW hgt, NEW ord, Shape(m, r, I, aft, hgt, ord),
         NEW l \in I, l # r, m[l].pChild = NULL, NEW w, Gone(m, w, I, l)
  PROVE  Threads(w, r, I \ {l}, AftPast(aft, l), hgt)
<1> USE NullAssumption DEF Shape
<1> DEFINE af == AftPast(aft, l)
<1>1. /\ m[l].pParent \in I \ {l} /\ m[l].pNextSibling # l /\ m[l].pPrevSibling # l
      /\ aft[l] # l /\ aft[m[l].pParent] # l /\ m[l].pForward # l /\ m[l].pReverse # l
  BY LeafApart
<1>2. \A x \in I : m[x].pParent # l
  BY HasChild
<1>3. \A x \in Node : af[x] = IF aft[x] = l THEN aft[l] ELSE aft[x]
  BY DEF AftPast
<1> HIDE DEF af
<1>4. m[l].pReverse \in I \ {l} /\ m[m[l].pReverse].pForward = l
  BY <1>1 DEF Threads, ReverseRight
<1>5. m[l].pForward \in Node => /\ m[l].pForward \in I \ {l} /\ m[l].pForward # r
                                /\ m[m[l].pForward].pReverse = l
  BY <1>1 DEF Threads, ForwardRight
<1>6. /\ aft[l] # NULL => m[l].pForward = aft[l]
      /\ aft[l] = NULL => m[l].pForward \notin Node
  BY DEF Threads, FollowRight
<1>7. r \in I \ {l}
  BY DEF Family, ParentRight
<1>8. ReverseRight(w, r, I \ {l})
  <2> SUFFICES ASSUME NEW n \in I \ {l}, n # r
               PROVE  w[n].pReverse \in I \ {l} /\ w[w[n].pReverse].pForward = n
    BY DEF ReverseRight
  <2>0. m[n].pReverse \in I /\ m[m[n].pReverse].pForward = n
    BY DEF Threads, ReverseRight
  <2>1. CASE m[n].pReverse = l
    <3>1. w[n].pReverse = m[l].pReverse /\ n = m[l].pForward
      BY <2>0, <2>1 DEF Gone, Past
    <3> QED
      BY <3>1, <1>4 DEF Gone, Past
  <2>2. CASE m[n].pReverse # l
    <3>1. w[n].pReverse = m[n].pReverse
      BY <2>2 DEF Gone, Past
    <3>2. w[m[n].pReverse].pForward = n
      BY <2>0, <2>2 DEF Gone, Past
    <3> QED
      BY <3>1, <3>2, <2>0, <2>2
  <2> QED
    BY <2>1, <2>2
<1>9. ForwardRight(w, r, I \ {l})
  <2> SUFFICES ASSUME NEW n \in I \ {l}, w[n].pForward \in Node
               PROVE  /\ w[n].pForward \in I \ {l} /\ w[n].pForward # r
                      /\ w[w[n].pForward].pReverse = n
    BY DEF ForwardRight
  <2>1. CASE m[n].pForward = l
    <3>1. w[n].pForward = m[l].pForward /\ n = m[l].pReverse
      BY <2>1 DEF Gone, Past, Threads, ForwardRight
    <3>2. w[m[l].pForward].pReverse = n
      BY <3>1, <1>5 DEF Gone, Past
    <3> QED
      BY <3>1, <3>2, <1>5
  <2>2. CASE m[n].pForward # l
    <3>1. w[n].pForward = m[n].pForward
      BY <2>2 DEF Gone, Past
    <3>2. /\ m[n].pForward \in I \ {l} /\ m[n].pForward # r
          /\ m[m[n].pForward].pReverse = n
      BY <3>1, <2>2 DEF Threads, ForwardRight
    <3>3. w[m[n].pForward].pReverse = n
      BY <3>2 DEF Gone, Past
    <3> QED
      BY <3>1, <3>2, <3>3
  <2> QED
    BY <2>1, <2>2
<1>10. FollowRight(w, I \ {l}, af)
  <2> SUFFICES ASSUME NEW n \in I \ {l}
               PROVE  /\ w[n].pChild # NULL => w[n].pForward = w[n].pChild
                      /\ w[n].pChild = NULL /\ af[n] # NULL => w[n].pForward = af[n]
                      /\ w[n].pChild = NULL /\ af[n] = NULL => w[n].pForward \notin Node
    BY DEF FollowRight
  <2>0. w[n].pForward = IF m[n].pForward = l THEN m[l].pForward ELSE m[n].pForward
    BY DEF Gone, Past
  <2>1. CASE m[n].pChild = l
    <3>1. m[n].pForward = l /\ n = m[l].pParent
      BY <2>1 DEF Threads, FollowRight, Family, ChildRight
    <3>2. w[n].pChild = m[l].pNextSibling /\ w[n].pForward = m[l].pForward
      BY <2>1, <2>0, <3>1 DEF Gone, Past
    <3>3. m[l].pNextSibling # NULL => aft[l] = m[l].pNextSibling
      BY DEF Threads, AfterRight
    <3>4. m[l].pNextSibling = NULL => aft[l] = aft[n]
      BY <3>1 DEF Threads, AfterRight
    <3>5. af[n] = aft[n]
      BY <3>1, <1>1, <1>3
    <3> QED
      BY <3>2, <3>3, <3>4, <3>5, <1>6
  <2>2. CASE m[n].pChild # l /\ m[n].pChild # NULL
    <3>1. m[n].pForward = m[n].pChild /\ w[n].pChild = m[n].pChild
      BY <2>2 DEF Threads, FollowRight, Gone, Past
    <3> QED
      BY <3>1, <2>0, <2>2
  <2>3. CASE m[n].pChild = NULL
    <3>1. w[n].pChild = NULL
      BY <2>3, <1>1 DEF Gone, Past
    <3>2. /\ aft[n] # NULL => m[n].pForward = aft[n]
          /\ aft[n] = NULL => m[n].pForward \notin Node
      BY <2>3 DEF Threads, FollowRight
    <3>3. l \in Node /\ aft[n] \in Node \union {NULL}
      OBVIOUS
    <3> QED
      BY <3>1, <3>2, <3>3, <2>0, <1>3, <1>6
  <2> QED
    BY <2>1, <2>2, <2>3
<1>11. AfterRight(w, r, I \ {l}, af)
  <2> SUFFICES ASSUME NEW n \in I \ {l}
               PROVE  /\ w[n].pNextSibling # NULL => af[n] = w[n].pNextSibling
                      /\ w[n].pNextSibling = NULL /\ n # r => af[n] = af[w[n].pParent]
                      /\ n = r => af[n] = NULL
    BY DEF AfterRight
  <2>0. w[n].pParent = m[n].pParent /\ (n # r => m[n].pParent \in I)
    BY DEF Gone, Family, ParentRight
  <2>1. n = r => af[n] = NULL
    BY <1>3, <1>7 DEF Threads, AfterRight
  <2>2. CASE m[n].pNextSibling = l
    <3>1. aft[n] = l /\ af[n] = aft[l]
      BY <2>2, <1>3 DEF Threads, AfterRight
    <3>2. w[n].pNextSibling = m[l].pNextSibling /\ m[n].pParent = m[l].pParent
      BY <2>2 DEF Gone, Past, Family, NextRight
    <3>3. m[l].pNextSibling # NULL => aft[l] = m[l].pNextSibling
      BY DEF Threads, AfterRight
    <3>4. m[l].pNextSibling = NULL => aft[l] = aft[m[l].pParent]
      BY DEF Threads, AfterRight
    <3>5. af[m[l].pParent] = aft[m[l].pParent]
      BY <1>1, <1>3
    <3> QED
      BY <2>0, <2>1, <3>1, <3>2, <3>3, <3>4, <3>5
  <2>3. CASE m[n].pNextSibling # l
    <3>1. w[n].pNextSibling = m[n].pNextSibling
      BY <2>3 DEF Gone, Past
    <3>2. m[n].pNextSibling # NULL => aft[n] = m[n].pNextSibling /\ af[n] = aft[n]
      BY <2>3, <1>3 DEF Threads, AfterRight
    <3>3. m[n].pNextSibling = NULL /\ n # r => af[n] = af[m[n].pParent]
      BY <2>0, <1>3 DEF Threads, AfterRight
    <3> QED
      BY <2>0, <2>1, <3>1, <3>2, <3>3
  <2> QED
    BY <2>2, <2>3
<1>12. AfterHigher(w, r, I \ {l}, af, hgt)
  <2> SUFFICES ASSUME NEW n \in I \ {l}, af[n] # NULL
               PROVE  /\ af[n] \in I \ {l} /\ af[n] # r
                      /\ hgt[n] < hgt[w[af[n]].pParent]
    BY DEF AfterHigher
  <2>0. \A x \in I : aft[x] # NULL => /\ aft[x] \in I /\ aft[x] # r
                                      /\ hgt[x] < hgt[m[aft[x]].pParent]
    BY DEF Threads, AfterHigher
  <2>1. CASE aft[n] = l
    <3>1. af[n] = aft[l] /\ aft[l] \in I \ {l} /\ aft[l] # r
      BY <2>0, <2>1, <1>1, <1>3
    <3>2. w[aft[l]].pParent = m[aft[l]].pParent /\ m[aft[l]].pParent \in I
      BY <3>1 DEF Gone, Family, ParentRight
    <3>3. hgt[n] < hgt[m[l].pParent]
      BY <2>0, <2>1
    <3>4. m[l].pNextSibling # NULL => m[aft[l]].pParent = m[l].pParent
      BY DEF Threads, AfterRight, Family, NextRight
    <3>5. m[l].pNextSibling = NULL => hgt[m[l].pParent] < hgt[m[aft[l]].pParent]
      <4>1. m[l].pNextSibling = NULL => aft[m[l].pParent] = aft[l]
        BY DEF Threads, AfterRight
      <4> QED
        BY <4>1, <3>1, <2>0, <1>1
    <3>6. /\ hgt[n] \in Nat /\ hgt[m[l].pParent] \in Nat /\ hgt[m[aft[l]].pParent] \in Nat
      BY <3>2, <1>1
    <3>7. hgt[n] < hgt[m[aft[l]].pParent]
      BY <3>3, <3>4, <3>5, <3>6
    <3> QED
      BY <3>1, <3>2, <3>7
  <2>2. CASE aft[n] # l
    <3>1. af[n] = aft[n] /\ aft[n] \in I \ {l} /\ aft[n] # r
          /\ hgt[n] < hgt[m[aft[n]].pParent]
      BY <2>0, <2>2, <1>3
    <3>2. w[aft[n]].pParent = m[aft[n]].pParent
      BY <3>1 DEF Gone
    <3> QED
      BY <3>1, <3>2
  <2> QED
    BY <2>1, <2>2
<1>13. LastRight(w, r, I \ {l}, af)
  <2>0. /\ m[r].pReverse \in I \union {NULL}
        /\ m[r].pReverse # NULL => aft[m[r].pReverse] = NULL
        /\ TameThreads => IF m[r].pReverse = NULL THEN m[r].pChild = NULL
                                                  ELSE m[m[r].pReverse].pChild = NULL
    BY DEF Threads, LastRight
  <2>3. \A x \in I \ {l} : m[x].pChild = NULL => w[x].pChild = NULL
    BY DEF Gone, Past
  <2>1. CASE m[r].pReverse = l
    <3>1. w[r].pReverse = m[l].pReverse /\ aft[l] = NULL
      BY <2>0, <2>1, <1>7 DEF Gone, Past
    <3> DEFINE y == m[l].pReverse
    <3>2. y \in I \ {l} /\ m[y].pForward = l
      BY <1>4
    <3>3. m[y].pChild # NULL => aft[y] = NULL
      <4>1. m[l].pNextSibling = NULL
        BY <3>1 DEF Threads, AfterRight, Family, NextRight
      <4>2. m[y].pChild # NULL => m[y].pChild = l /\ m[l].pParent = y
        BY <3>2 DEF Threads, FollowRight, Family, ChildRight
      <4> QED
        BY <3>1, <4>1, <4>2 DEF Threads, AfterRight
    <3>4. m[y].pChild = NULL => aft[y] = l
      BY <3>2 DEF Threads, FollowRight
    <3>5. af[y] = NULL
      BY <3>1, <3>2, <3>3, <3>4, <1>3
    <3>6. w[y].pChild = NULL
      <4>1. m[l].pNextSibling = NULL
        BY <3>1 DEF Threads, AfterRight, Family, NextRight
      <4>2. m[y].pChild # NULL => m[y].pChild = l
        BY <3>2 DEF Threads, FollowRight
      <4> QED
        BY <4>1, <4>2, <2>3, <3>2 DEF Gone, Past
    <3>7. y # NULL /\ w[r].pReverse = y
      BY <3>1, <3>2
    <3> HIDE DEF y
    <3> QED
      BY <3>2, <3>5, <3>6, <3>7 DEF LastRight
  <2>2. CASE m[r].pReverse # l
    <3>1. w[r].pReverse = m[r].pReverse
      BY <2>2, <1>7 DEF Gone, Past
    <3>2. m[r].pReverse # NULL => af[m[r].pReverse] = NULL
      BY <2>0, <1>3
    <3> QED
      BY <3>1, <3>2, <2>0, <2>2, <2>3, <1>7 DEF LastRight
  <2> QED
    BY <2>1, <2>2
<1> QED
  BY <1>8, <1>9, <1>10, <1>11, <1>12, <1>13 DEF Threads, af

\* A tree without one of its leaves is a tree.
LEMMA GoneShape ==
  ASSUME NEW m, NEW r, NEW I, NEW aft, NEW hgt, NEW ord, Shape(m, r, I, aft, hgt, ord),
         NEW l \in I, l # r, m[l].pChild = NULL, NEW w, Gone(m, w, I, l)
  PROVE  Shape(w, r, I \ {l}, AftPast(aft, l), hgt, ord)
<1>1. Family(w, r, I \ {l}, hgt, ord) /\ Threads(w, r, I \ {l}, AftPast(aft, l), hgt)
  BY GoneFamily, GoneThreads
<1>2. AftPast(aft, l) \in [Node -> Node \union {NULL}]
  BY DEF AftPast, Shape
<1>3. w \in Memory
  BY DEF Gone
<1> QED
  BY <1>1, <1>2, <1>3 DEF Shape
------------------------------------------------------------------------------
(* RemoveLeaf lets a leaf go.                                              *)

\* SetForward on what a thread points to writes that thread, or nothing.
LEMMA SetForwardIs ==
  ASSUME NEW m \in Memory, NEW n \in Target,
         NEW to \in Target
  PROVE  Written(m, SetForward(m, n, to), n, "pForward", to)
<1>1. CASE n \in Node
  <2>1. SetForward(m, n, to) = Set(m, n, "pForward", to) /\ "pForward" \in Links
    BY <1>1 DEF SetForward, Links
  <2> QED
    BY <1>1, <2>1, SetIs
<1>2. CASE n \notin Node
  BY <1>2 DEF SetForward, Written
<1> QED
  BY <1>1, <1>2

\* SetReverse on what a thread points to writes that thread, or nothing.
LEMMA SetReverseIs ==
  ASSUME NEW m \in Memory, NEW n \in Target,
         NEW to \in Target
  PROVE  Written(m, SetReverse(m, n, to), n, "pReverse", to)
<1>1. CASE n \in Node
  <2>1. SetReverse(m, n, to) = Set(m, n, "pReverse", to) /\ "pReverse" \in Links
    BY <1>1 DEF SetReverse, Links
  <2> QED
    BY <1>1, <2>1, SetIs
<1>2. CASE n \notin Node
  BY <1>2 DEF SetReverse, Written
<1> QED
  BY <1>1, <1>2

\* w is m with F threaded back to R, and R on to F.
Threaded(m, w, F, R) ==
  /\ w \in Memory
  /\ \A x \in Node : \A f \in Links :
       w[x][f] = IF x = F /\ f = "pReverse" THEN R
                 ELSE IF x = R /\ f = "pForward" THEN F ELSE m[x][f]

\* The splice writes the two threads around n.
LEMMA SplicedIs ==
  ASSUME NEW m \in Memory, NEW n \in Node
  PROVE  Threaded(m, Spliced(m, n), m[n].pForward, m[n].pReverse)
<1>1. /\ m[n].pForward \in Target
      /\ m[n].pReverse \in Target
  BY DEF Memory, Links
<1>2. PICK F \in Target : F = m[n].pForward
  BY <1>1
<1>3. PICK R \in Target : R = m[n].pReverse
  BY <1>1
<1>4. PICK d : d = SetForward(m, R, F)
  OBVIOUS
<1>5. Written(m, d, R, "pForward", F)
  BY <1>4, SetForwardIs
<1>6. d \in Memory
  BY <1>5 DEF Written
<1>7. PICK e : e = SetReverse(d, F, R)
  OBVIOUS
<1>8. Written(d, e, F, "pReverse", R)
  BY <1>6, <1>7, SetReverseIs
<1>9. e = Spliced(m, n)
  BY <1>2, <1>3, <1>4, <1>7 DEF Spliced
<1>10. Threaded(m, e, F, R)
  BY <1>5, <1>8 DEF Written, Threaded
<1> QED
  BY <1>2, <1>3, <1>9, <1>10, Zenon

\* Without leaf l in the list of its parent's children.
Unhung(m, d, l) ==
  \A x \in Node :
    /\ d[x].pParent = m[x].pParent
    /\ d[x].pChild = IF x = m[l].pParent /\ m[l].pPrevSibling = NULL
                        THEN m[l].pNextSibling ELSE m[x].pChild
    /\ d[x].pNextSibling = IF x = m[l].pPrevSibling THEN m[l].pNextSibling
                                                   ELSE m[x].pNextSibling
    /\ d[x].pPrevSibling = IF x = m[l].pNextSibling THEN m[l].pPrevSibling
                                                   ELSE m[x].pPrevSibling

\* The threads around l may have been fixed already, and that from the root is.
HalfSpliced(m, d, r, l) ==
  \A x \in Node :
    /\ \/ d[x].pForward = m[x].pForward
       \/ x = m[l].pReverse /\ d[x].pForward = m[l].pForward
    /\ \/ d[x].pReverse = m[x].pReverse /\ (x = r => m[r].pReverse # l)
       \/ x = m[l].pForward /\ d[x].pReverse = m[l].pReverse
       \/ x = r /\ m[r].pReverse = l /\ d[x].pReverse = m[l].pReverse

\* privRemoveNode does the rest.
LEMMA RemoveNodeGone ==
  ASSUME NEW m, NEW r, NEW I, NEW aft, NEW hgt, NEW ord, Shape(m, r, I, aft, hgt, ord),
         NEW l \in I, l # r, m[l].pChild = NULL,
         NEW d \in Memory, Unhung(m, d, l), HalfSpliced(m, d, r, l), NEW info
  PROVE  Gone(m, RemoveNode(d, r, info, l).mem, I, l)
<1> USE NullAssumption
<1> DEFINE F == m[l].pForward
           R == m[l].pReverse
           e == [d EXCEPT ![l] = Leaf(NULL, NULL, d[l].pForward, d[l].pReverse)]
           w == Spliced(e, l)
<1>1. /\ m[l].pParent \in I \ {l} /\ m[l].pNextSibling # l /\ m[l].pPrevSibling # l
      /\ F # l /\ R # l
  BY LeafApart
<1>2. m \in Memory /\ l \in Node /\ I \subseteq Node
  BY DEF Shape
<1>3. d[l].pForward = F /\ d[l].pReverse = R
  BY <1>1, <1>2 DEF HalfSpliced
<1>4. F \in Target /\ R \in Target
  BY <1>2 DEF Memory, Links
<1>5. Leaf(NULL, NULL, F, R) \in [Links -> Target]
  BY <1>4, LeafType DEF Target
<1>6. /\ e \in Memory /\ e[l] = Leaf(NULL, NULL, F, R)
      /\ \A x \in Node \ {l} : e[x] = d[x]
  BY <1>2, <1>3, <1>5 DEF Memory
<1>7. e[l].pForward = F /\ e[l].pReverse = R
  BY <1>6, LeafIs
<1> HIDE DEF e
<1>8. Threaded(e, w, F, R)
  BY <1>2, <1>6, <1>7, SplicedIs
<1> HIDE DEF w
<1>9. RemoveNode(d, r, info, l).mem = w
  BY DEF RemoveNode, TreeOf, w, e
<1>10. \A f \in Links : w[l][f] = Leaf(NULL, NULL, F, R)[f]
  BY <1>1, <1>2, <1>6, <1>8 DEF Threaded
<1>11. \A x \in Node \ {l} :
         /\ w[x].pParent = d[x].pParent /\ w[x].pChild = d[x].pChild
         /\ w[x].pNextSibling = d[x].pNextSibling /\ w[x].pPrevSibling = d[x].pPrevSibling
         /\ w[x].pForward = IF x = R THEN F ELSE d[x].pForward
         /\ w[x].pReverse = IF x = F THEN R ELSE d[x].pReverse
  BY <1>6, <1>8 DEF Threaded, Links
<1>12. /\ R \in I /\ m[R].pForward = l
       /\ F \in Node => F \in I /\ F # r /\ m[F].pReverse = l
  BY DEF Shape, Threads, ReverseRight, ForwardRight
<1>13. m[l].pNextSibling # NULL => /\ m[l].pNextSibling \in I
                                  /\ m[m[l].pNextSibling].pPrevSibling = l
  BY DEF Shape, Family, NextRight
<1>14. /\ m[l].pPrevSibling # NULL => /\ m[l].pPrevSibling \in I
                                      /\ m[m[l].pPrevSibling].pNextSibling = l
       /\ m[l].pPrevSibling = NULL => m[m[l].pParent].pChild = l
  BY DEF Shape, Family, PrevRight
<1>15. ASSUME NEW x \in I \ {l}
       PROVE  /\ w[x].pParent = m[x].pParent
              /\ w[x].pChild = Past(m, l, m[x].pChild, m[l].pNextSibling)
              /\ w[x].pNextSibling = Past(m, l, m[x].pNextSibling, m[l].pNextSibling)
              /\ w[x].pPrevSibling = Past(m, l, m[x].pPrevSibling, m[l].pPrevSibling)
              /\ w[x].pForward = Past(m, l, m[x].pForward, F)
              /\ w[x].pReverse = Past(m, l, m[x].pReverse, R)
  <2>1. x \in Node \ {l}
    BY <1>2
  <2>2. w[x].pParent = m[x].pParent
    BY <2>1, <1>11 DEF Unhung
  <2>3. w[x].pChild = Past(m, l, m[x].pChild, m[l].pNextSibling)
    <3>1. m[x].pChild = l <=> (x = m[l].pParent /\ m[l].pPrevSibling = NULL)
      BY <1>14, <1>2 DEF Shape, Family, ChildRight
    <3> QED
      BY <2>1, <3>1, <1>11 DEF Unhung, Past
  <2>4. w[x].pNextSibling = Past(m, l, m[x].pNextSibling, m[l].pNextSibling)
    <3>1. m[x].pNextSibling = l <=> x = m[l].pPrevSibling
      BY <1>14, <1>2 DEF Shape, Family, NextRight
    <3> QED
      BY <2>1, <3>1, <1>11 DEF Unhung, Past
  <2>5. w[x].pPrevSibling = Past(m, l, m[x].pPrevSibling, m[l].pPrevSibling)
    <3>1. m[x].pPrevSibling = l <=> x = m[l].pNextSibling
      BY <1>13, <1>2 DEF Shape, Family, PrevRight
    <3> QED
      BY <2>1, <3>1, <1>11 DEF Unhung, Past
  <2>6. w[x].pForward = Past(m, l, m[x].pForward, F)
    <3>1. m[x].pForward = l <=> x = R
      BY <1>12, <1>2 DEF Shape, Threads, ForwardRight
    <3> QED
      BY <2>1, <3>1, <1>11 DEF HalfSpliced, Past
  <2>7. w[x].pReverse = Past(m, l, m[x].pReverse, R)
    <3>1. x # r => (m[x].pReverse = l <=> x = F)
      BY <1>12, <1>2 DEF Shape, Threads, ReverseRight
    <3>2. x = r => x # F
      BY <1>12, <1>2
    <3> QED
      BY <2>1, <3>1, <3>2, <1>11 DEF HalfSpliced, Past
  <2> QED
    BY <2>2, <2>3, <2>4, <2>5, <2>6, <2>7
<1>16. ASSUME NEW x \in Node \ I, NEW f \in Links
       PROVE  w[x][f] = m[x][f]
  <2>1. /\ x # m[l].pParent /\ x # m[l].pNextSibling /\ x # m[l].pPrevSibling
        /\ x # F /\ x # R /\ x # l /\ x # r
    BY <1>1, <1>2, <1>12, <1>13, <1>14 DEF Shape, Family, ParentRight
  <2> QED
    BY <2>1, <1>11 DEF Unhung, HalfSpliced, Links
<1> QED
  BY <1>8, <1>9, <1>10, <1>15, <1>16 DEF Gone, Threaded
\* A leaf with a next sibling goes.
LEMMA RemoveInnerGone ==
  ASSUME NEW m, NEW r, NEW I, NEW aft, NEW hgt, NEW ord, Shape(m, r, I, aft, hgt, ord),
         NEW l \in I, l # r, m[l].pChild = NULL, m[l].pNextSibling # NULL, NEW info
  PROVE  Gone(m, RemoveInner(TreeOf(m, r, info), l).mem, I, l)
<1> USE NullAssumption
<1>1. m \in Memory /\ I \subseteq Node
  BY DEF Shape
<1>2. PICK P \in I : P = m[l].pParent
  BY DEF Shape, Family, ParentRight
<1>3. PICK N \in I : N = m[l].pNextSibling
  BY DEF Shape, Family, NextRight
<1>4. PICK V \in I \union {NULL} : V = m[l].pPrevSibling
  BY DEF Shape, Family, PrevRight
<1>5. m[P].pChild = l <=> V = NULL
  BY <1>2, <1>4 DEF Shape, Family, PrevRight, ChildRight
<1>6. m[r].pReverse # l
  <2>1. aft[l] # NULL
    BY DEF Shape, Threads, AfterRight
  <2> QED
    BY <2>1, <1>1 DEF Shape, Threads, LastRight
<1>7. PICK d : d = IF m[P].pChild = l
                     THEN Set(Set(m, P, "pChild", N), N, "pPrevSibling", NULL)
                     ELSE Set(Set(m, V, "pNextSibling", N), N, "pPrevSibling", V)
  OBVIOUS
<1>8. d \in Memory /\ Unhung(m, d, l) /\ HalfSpliced(m, d, r, l)
  <2>0. {"pChild", "pNextSibling", "pPrevSibling"} \subseteq Links
    BY DEF Links
  <2>1. CASE V = NULL
    <3>1. PICK e : e = Set(m, P, "pChild", N)
      OBVIOUS
    <3>2. Written(m, e, P, "pChild", N)
      BY <3>1, <1>1, <2>0, SetIs DEF Target
    <3>3. e \in Memory
      BY <3>2 DEF Written
    <3>4. d = Set(e, N, "pPrevSibling", NULL)
      BY <2>1, <1>5, <1>7, <3>1
    <3>5. Written(e, d, N, "pPrevSibling", NULL)
      BY <3>3, <3>4, <1>1, <2>0, SetIs DEF Target
    <3>6. \A x \in Node : \A f \in Links :
            d[x][f] = IF x = N /\ f = "pPrevSibling" THEN NULL
                      ELSE IF x = P /\ f = "pChild" THEN N ELSE m[x][f]
      BY <3>2, <3>5 DEF Written
    <3>7. Unhung(m, d, l)
      BY <3>6, <2>1, <1>2, <1>3, <1>4 DEF Unhung, Links
    <3>8. \A x \in Node : d[x].pForward = m[x].pForward /\ d[x].pReverse = m[x].pReverse
      BY <3>6 DEF Links
    <3>9. HalfSpliced(m, d, r, l)
      BY <3>8, <1>6 DEF HalfSpliced
    <3> QED
      BY <3>5, <3>7, <3>9 DEF Written
  <2>2. CASE V # NULL
    <3>1. PICK e : e = Set(m, V, "pNextSibling", N)
      OBVIOUS
    <3>2. Written(m, e, V, "pNextSibling", N)
      BY <3>1, <2>2, <1>1, <2>0, SetIs DEF Target
    <3>3. e \in Memory
      BY <3>2 DEF Written
    <3>4. d = Set(e, N, "pPrevSibling", V)
      BY <2>2, <1>5, <1>7, <3>1
    <3>5. Written(e, d, N, "pPrevSibling", V)
      BY <3>3, <3>4, <1>1, <2>0, SetIs DEF Target
    <3>6. \A x \in Node : \A f \in Links :
            d[x][f] = IF x = N /\ f = "pPrevSibling" THEN V
                      ELSE IF x = V /\ f = "pNextSibling" THEN N ELSE m[x][f]
      BY <3>2, <3>5 DEF Written
    <3>7. Unhung(m, d, l)
      BY <3>6, <2>2, <1>2, <1>3, <1>4 DEF Unhung, Links
    <3>8. \A x \in Node : d[x].pForward = m[x].pForward /\ d[x].pReverse = m[x].pReverse
      BY <3>6 DEF Links
    <3>9. HalfSpliced(m, d, r, l)
      BY <3>8, <1>6 DEF HalfSpliced
    <3> QED
      BY <3>5, <3>7, <3>9 DEF Written
  <2> QED
    BY <2>1, <2>2
<1>9. RemoveInner(TreeOf(m, r, info), l).mem = RemoveNode(d, r, info, l).mem
  BY <1>2, <1>3, <1>4, <1>7 DEF RemoveInner, TreeOf
<1> QED
  BY <1>8, <1>9, RemoveNodeGone

\* A leaf without a next sibling, that is not the root, goes.
LEMMA DetachLastGone ==
  ASSUME NEW m, NEW r, NEW I, NEW aft, NEW hgt, NEW ord, Shape(m, r, I, aft, hgt, ord),
         NEW l \in I, l # r, m[l].pChild = NULL, m[l].pNextSibling = NULL
  PROVE  /\ DetachLast(m, r, l) \in Memory
         /\ Unhung(m, DetachLast(m, r, l), l) /\ HalfSpliced(m, DetachLast(m, r, l), r, l)
<1> USE NullAssumption
<1>1. m \in Memory /\ I \subseteq Node /\ r \in I
  BY DEF Shape, Family, ParentRight
<1>2. PICK P \in I : P = m[l].pParent
  BY DEF Shape, Family, ParentRight
<1>3. PICK V \in I \union {NULL} : V = m[l].pPrevSibling
  BY DEF Shape, Family, PrevRight
<1>4. m[m[P].pChild].pNextSibling = NULL <=> V = NULL
  <2>1. CASE V = NULL
    <3>1. m[P].pChild = l
      BY <2>1, <1>2, <1>3 DEF Shape, Family, PrevRight
    <3> QED
      BY <2>1, <3>1
  <2>2. CASE V # NULL
    <3>1. m[P].pChild # l
      BY <2>2, <1>2, <1>3 DEF Shape, Family, ChildRight
    <3> QED
      BY <2>2, <3>1, <1>2, OnlyChild
  <2> QED
    BY <2>1, <2>2
<1>5. PICK d : d = IF m[m[P].pChild].pNextSibling = NULL
                     THEN Set(m, P, "pChild", NULL) ELSE Set(m, V, "pNextSibling", NULL)
  OBVIOUS
<1>6. {"pChild", "pNextSibling", "pPrevSibling", "pReverse", "pForward"} \subseteq Links
  BY DEF Links
<1>7. /\ d \in Memory
      /\ \A x \in Node : \A f \in Links :
           d[x][f] = IF x = P /\ f = "pChild" /\ V = NULL THEN NULL
                     ELSE IF x = V /\ f = "pNextSibling" THEN NULL ELSE m[x][f]
  <2>1. CASE V = NULL
    <3>1. Written(m, d, P, "pChild", NULL)
      BY <2>1, <1>1, <1>4, <1>5, <1>6, SetIs DEF Target
    <3> QED
      BY <2>1, <3>1 DEF Written
  <2>2. CASE V # NULL
    <3>1. Written(m, d, V, "pNextSibling", NULL)
      BY <2>2, <1>1, <1>4, <1>5, <1>6, SetIs DEF Target
    <3> QED
      BY <2>2, <3>1 DEF Written
  <2> QED
    BY <2>1, <2>2
<1>8. PICK F \in Target : F = m[l].pForward
  BY <1>1, <1>6 DEF Memory
<1>9. PICK R \in Target : R = m[l].pReverse
  BY <1>1, <1>6 DEF Memory
<1>10. d[l].pForward = F /\ d[l].pReverse = R
  BY <1>1, <1>6, <1>7, <1>8, <1>9
<1>11. PICK e : e = Spliced(d, l)
  OBVIOUS
<1>12. Threaded(d, e, F, R)
  BY <1>1, <1>7, <1>10, <1>11, SplicedIs
<1>13. F # r /\ F # l
  BY <1>1, <1>8, LeafApart DEF Shape, Threads, ForwardRight
<1>14. e[r].pReverse = m[r].pReverse
  BY <1>1, <1>6, <1>7, <1>12, <1>13 DEF Threaded
<1>15. PICK w : w = IF e[r].pReverse = l THEN Set(e, r, "pReverse", R) ELSE e
  OBVIOUS
<1>16. DetachLast(m, r, l) = w
  BY <1>2, <1>3, <1>5, <1>9, <1>11, <1>15 DEF DetachLast
<1>17. /\ w \in Memory
       /\ \A x \in Node : \A f \in Links :
            w[x][f] = IF x = r /\ f = "pReverse" /\ m[r].pReverse = l THEN R ELSE e[x][f]
  <2>1. CASE m[r].pReverse = l
    <3>1. Written(e, w, r, "pReverse", R)
      BY <2>1, <1>1, <1>6, <1>12, <1>14, <1>15, SetIs DEF Threaded
    <3> QED
      BY <2>1, <3>1 DEF Written
  <2>2. CASE m[r].pReverse # l
    BY <2>2, <1>12, <1>14, <1>15 DEF Threaded
  <2> QED
    BY <2>1, <2>2
<1>18. \A x \in Node :
         /\ w[x].pParent = d[x].pParent /\ w[x].pChild = d[x].pChild
         /\ w[x].pNextSibling = d[x].pNextSibling /\ w[x].pPrevSibling = d[x].pPrevSibling
         /\ w[x].pForward = IF x = R THEN F ELSE d[x].pForward
         /\ w[x].pReverse = IF (x = r /\ m[r].pReverse = l) \/ x = F THEN R ELSE d[x].pReverse
  BY <1>12, <1>17 DEF Threaded, Links
<1>19. \A x \in Node :
         /\ d[x].pParent = m[x].pParent /\ d[x].pPrevSibling = m[x].pPrevSibling
         /\ d[x].pChild = IF x = P /\ V = NULL THEN NULL ELSE m[x].pChild
         /\ d[x].pNextSibling = IF x = V THEN NULL ELSE m[x].pNextSibling
         /\ d[x].pForward = m[x].pForward /\ d[x].pReverse = m[x].pReverse
  BY <1>7 DEF Links
<1>20. Unhung(m, w, l)
  BY <1>2, <1>3, <1>18, <1>19 DEF Unhung
<1>21. HalfSpliced(m, w, r, l)
  <2>1. ASSUME NEW x \in Node
        PROVE  \/ w[x].pForward = m[x].pForward
               \/ x = R /\ w[x].pForward = F
    BY <1>18, <1>19
  <2>2. ASSUME NEW x \in Node
        PROVE  \/ w[x].pReverse = m[x].pReverse /\ (x = r => m[r].pReverse # l)
               \/ x = F /\ w[x].pReverse = R
               \/ x = r /\ m[r].pReverse = l /\ w[x].pReverse = R
    BY <1>18, <1>19
  <2> QED
    BY <2>1, <2>2, <1>8, <1>9 DEF HalfSpliced
<1> QED
  BY <1>16, <1>17, <1>20, <1>21
------------------------------------------------------------------------------
(* The counts.                                                             *)

Count == 0..Cardinality(Node)
Infos == [currNumNodes : Count, maxNumNodes : Count, currNumLevels : Count,
          maxNumLevels : Count]

\* There are c nodes, and have been as many.
InfoRight(info, c) == info \in Infos /\ info.currNumNodes = c /\ c <= info.maxNumNodes

\* No node is on a level below the number of nodes.
LEMMA LevelIs ==
  ASSUME NEW m, NEW r, NEW n
  PROVE  LevelOf(m, r, n) \in Count
<1>1. Up(m, r, n) \subseteq Node
  BY DEF Up, Closure
<1>2. /\ IsFiniteSet(Up(m, r, n)) /\ Cardinality(Up(m, r, n)) \in Nat
      /\ Cardinality(Node) \in Nat /\ Cardinality(Up(m, r, n)) <= Cardinality(Node)
  BY <1>1, NodeAssumption, FS_Subset, FS_CardinalityType
<1> QED
  BY <1>2 DEF LevelOf, Count

\* There are no more nodes in a tree than there are.
LEMMA CountIs ==
  ASSUME NEW I \in SUBSET Node
  PROVE  IsFiniteSet(I) /\ Cardinality(I) \in Count /\ Cardinality(Node) \in Nat
<1>1. /\ IsFiniteSet(I) /\ Cardinality(I) \in Nat
      /\ Cardinality(Node) \in Nat /\ Cardinality(I) <= Cardinality(Node)
  BY NodeAssumption, FS_Subset, FS_CardinalityType
<1> QED
  BY <1>1 DEF Count

\* Counting the levels again leaves the numbers of nodes alone.
LEMMA RemoveLevelIs ==
  ASSUME NEW m, NEW r \in Node \union {NULL}, NEW info, NEW c, InfoRight(info, c)
  PROVE  InfoRight(InfoRemoveNewLevel(m, r, info), c)
<1> DEFINE Levels == {LevelOf(m, r, n) : n \in Reached(m, r)}
           curr == IF r = NULL THEN 0 ELSE Max(Levels)
<1>1. curr \in Count
  <2>0. Cardinality(Node) \in Nat
    BY CountIs
  <2>1. CASE r = NULL
    BY <2>0, <2>1 DEF Count
  <2>2. CASE r # NULL
    <3>1. r \in Reached(m, r)
      BY <2>2, ClosureStart DEF Reached
    <3>2. Levels # {} /\ Levels \in SUBSET Count
      BY <3>1, LevelIs
    <3> HIDE DEF Levels
    <3>3. Max(Levels) \in Levels
      BY <2>0, <3>2, MaxIs DEF Count
    <3> QED
      BY <2>2, <3>2, <3>3
  <2> QED
    BY <2>1, <2>2
<1>2. InfoRemoveNewLevel(m, r, info) = [info EXCEPT !.currNumLevels = curr]
  BY DEF InfoRemoveNewLevel
<1> HIDE DEF curr
<1> QED
  BY <1>1, <1>2 DEF InfoRight, Infos

\* One node less.
LEMMA RemoveCountIs ==
  ASSUME NEW I \in SUBSET Node, NEW l \in I, NEW info, InfoRight(info, Cardinality(I))
  PROVE  InfoRight(InfoRemoveNode(info), Cardinality(I \ {l}))
<1>1. Cardinality(I \ {l}) = Cardinality(I) - 1
  BY CountIs, FS_RemoveElement
<1>2. Cardinality(I \ {l}) \in Count /\ Cardinality(I) \in Count /\ Cardinality(Node) \in Nat
  BY CountIs
<1>3. info \in Infos /\ info.currNumNodes = Cardinality(I) /\ Cardinality(I) <= info.maxNumNodes
  BY DEF InfoRight
<1>4. Cardinality(I) - 1 \in Count /\ Cardinality(I) - 1 <= info.maxNumNodes
  BY <1>1, <1>2, <1>3 DEF Count, Infos
<1>5. InfoRemoveNode(info) = [info EXCEPT !.currNumNodes = Cardinality(I) - 1]
  BY <1>3 DEF InfoRemoveNode, Infos
<1>6. InfoRemoveNode(info) \in Infos
  BY <1>3, <1>4, <1>5 DEF Infos
<1> QED
  BY <1>1, <1>3, <1>4, <1>5, <1>6 DEF InfoRight, Infos

\* One node more.
LEMMA AddCountIs ==
  ASSUME NEW I \in SUBSET Node, NEW n \in Node \ I, NEW info, InfoRight(info, Cardinality(I))
  PROVE  InfoRight(InfoAddNode(info), Cardinality(I \union {n}))
<1>1. Cardinality(I \union {n}) = Cardinality(I) + 1
  BY CountIs, FS_AddElement
<1>2. Cardinality(I \union {n}) \in Count /\ Cardinality(I) \in Count /\ Cardinality(Node) \in Nat
  BY CountIs
<1>3. info \in Infos /\ info.currNumNodes = Cardinality(I) /\ Cardinality(I) <= info.maxNumNodes
  BY DEF InfoRight
<1>4. PICK k \in Nat : k = Cardinality(I)
  BY <1>2 DEF Count
<1>5. PICK most \in Count : most = info.maxNumNodes
  BY <1>3 DEF Infos
<1>6. PICK new : new = IF k + 1 > most THEN most + 1 ELSE most
  OBVIOUS
<1>7. k + 1 \in Count /\ k <= most
  BY <1>1, <1>2, <1>3, <1>4, <1>5
<1>8. new \in Count /\ k + 1 <= new
  BY <1>2, <1>5, <1>6, <1>7 DEF Count
<1>9. InfoAddNode(info) = [info EXCEPT !.currNumNodes = k + 1, !.maxNumNodes = new]
  BY <1>3, <1>4, <1>5, <1>6 DEF InfoAddNode, Infos
<1>10. InfoAddNode(info) \in Infos
  BY <1>3, <1>7, <1>8, <1>9 DEF Infos
<1>11. InfoAddNode(info).currNumNodes = k + 1 /\ InfoAddNode(info).maxNumNodes = new
  BY <1>3, <1>9 DEF Infos
<1> QED
  BY <1>1, <1>4, <1>8, <1>10, <1>11 DEF InfoRight

\* A new level, if it is one.
LEMMA AddLevelIs ==
  ASSUME NEW m, NEW r, NEW n, NEW info, NEW c, InfoRight(info, c)
  PROVE  InfoRight(InfoAddNewLevel(m, r, info, n), c)
<1>1. PICK a \in Count : a = info.currNumLevels
  BY DEF InfoRight, Infos
<1>2. PICK b \in Count : b = info.maxNumLevels
  BY DEF InfoRight, Infos
<1>3. LevelOf(m, r, n) \in Count /\ Cardinality(Node) \in Nat
  BY LevelIs, CountIs
<1>4. Max({a, LevelOf(m, r, n)}) \in Count
  <2>1. {a, LevelOf(m, r, n)} \in SUBSET Count /\ {a, LevelOf(m, r, n)} # {}
    BY <1>3
  <2> QED
    BY <2>1, <1>3, MaxIs DEF Count
<1>5. PICK curr \in Count : curr = Max({a, LevelOf(m, r, n)})
  BY <1>4
<1>6. Max({b, curr}) \in Count
  <2>1. {b, curr} \in SUBSET Count /\ {b, curr} # {}
    OBVIOUS
  <2> QED
    BY <2>1, <1>3, MaxIs DEF Count
<1>7. InfoAddNewLevel(m, r, info, n) =
        [info EXCEPT !.currNumLevels = curr, !.maxNumLevels = Max({b, curr})]
  BY <1>1, <1>2, <1>5 DEF InfoAddNewLevel, InfoRight, Infos
<1> QED
  BY <1>6, <1>7 DEF InfoRight, Infos
------------------------------------------------------------------------------
(* The way up, and what is below.                                          *)

\* What Up has in a tree: n, then its parent and so on, each higher than n.
UpRight(m, r, I, hgt, n) ==
  /\ n \in Up(m, r, n) /\ Up(m, r, n) \subseteq I
  /\ \A a \in Up(m, r, n) : a # n => hgt[n] < hgt[a]
  /\ n = r => Up(m, r, n) = {n}
  /\ n # r => Up(m, r, n) = {n} \union Up(m, r, m[n].pParent)

\* And so it is.
LEMMA UpIs ==
  ASSUME NEW m, NEW r, NEW I, NEW aft, NEW hgt, NEW ord, Shape(m, r, I, aft, hgt, ord),
         NEW n \in I
  PROVE  UpRight(m, r, I, hgt, n)
<1> USE NullAssumption DEF Shape
<1>1. PICK to : to = [x \in Node |-> IF x = r THEN {} ELSE {m[x].pParent} \ {NULL}]
  OBVIOUS
<1>2. \A x \in Node : Up(m, r, x) = Closure(x, to)
  BY <1>1 DEF Up
<1>3. /\ I \in SUBSET Node /\ \A x \in I : hgt[x] \in Nat
      /\ \A x \in I : x # r => m[x].pParent \in I /\ hgt[x] < hgt[m[x].pParent]
  BY DEF Family, ParentRight
<1>4. \A x \in I : to[x] = IF x = r THEN {} ELSE {m[x].pParent}
  BY <1>1, <1>3
<1>5. \A x \in I : to[x] \subseteq I
  BY <1>3, <1>4
<1>6. n \in Closure(n, to)
  BY <1>3, ClosureStart
<1>7. PICK S : S = {a \in I : a = n \/ hgt[n] < hgt[a]}
  OBVIOUS
<1>8. Closure(n, to) \subseteq S
  <2>1. S \in SUBSET Node /\ n \in S
    BY <1>3, <1>7
  <2>2. \A y \in S : to[y] \subseteq S
    <3>1. ASSUME NEW y \in S, y # r PROVE m[y].pParent \in S
      <4>1. y \in I /\ (y = n \/ hgt[n] < hgt[y])
        BY <1>7
      <4>2. m[y].pParent \in I /\ hgt[y] < hgt[m[y].pParent]
        BY <3>1, <4>1, <1>3
      <4>3. hgt[n] \in Nat /\ hgt[y] \in Nat /\ hgt[m[y].pParent] \in Nat
        BY <4>1, <4>2, <1>3
      <4>4. hgt[n] < hgt[m[y].pParent]
        BY <4>1, <4>2, <4>3
      <4> QED
        BY <4>2, <4>4, <1>7
    <3>2. S \subseteq I
      BY <1>7
    <3> QED
      BY <3>1, <3>2, <1>4
  <2> QED
    BY <2>1, <2>2, ClosureLeast
<1>9. n = r => Closure(n, to) = {n}
  <2>1. SUFFICES ASSUME n = r PROVE Closure(n, to) = {n}
    OBVIOUS
  <2>2. \A y \in {n} : to[y] \subseteq {n}
    BY <2>1, <1>4
  <2>3. {n} \in SUBSET Node
    BY <1>3
  <2>4. Closure(n, to) \subseteq {n}
    BY <2>2, <2>3, ClosureLeast
  <2> QED
    BY <2>4, <1>6
<1>10. n # r => Closure(n, to) = {n} \union Closure(m[n].pParent, to)
  <2>1. SUFFICES ASSUME n # r PROVE Closure(n, to) = {n} \union Closure(m[n].pParent, to)
    OBVIOUS
  <2>2. PICK p \in I : p = m[n].pParent
    BY <2>1, <1>3
  <2>3. p \in Closure(p, to) /\ Closure(p, to) \subseteq Node
    BY <1>3, <2>2, ClosureStart
  <2>4. \A y \in Closure(p, to) : to[y] \subseteq Closure(p, to)
    BY <1>3, <1>5, ClosureClosed
  <2>5. Closure(n, to) \subseteq {n} \union Closure(p, to)
    <3>1. PICK T : T = {n} \union Closure(p, to)
      OBVIOUS
    <3>2. T \in SUBSET Node /\ n \in T
      BY <3>1, <2>3, <1>3
    <3>3. \A y \in T : to[y] \subseteq T
      <4>1. to[n] = {p}
        BY <2>1, <2>2, <1>4
      <4>2. to[n] \subseteq T
        BY <4>1, <3>1, <2>3
      <4> QED
        BY <4>2, <3>1, <2>4
    <3>4. Closure(n, to) \subseteq T
      BY <3>2, <3>3, ClosureLeast
    <3> QED
      BY <3>1, <3>4
  <2>6. Closure(p, to) \subseteq Closure(n, to)
    <3>1. \A y \in Closure(n, to) : to[y] \subseteq Closure(n, to)
      BY <1>3, <1>5, ClosureClosed
    <3>2. p \in Closure(n, to)
      BY <3>1, <1>4, <1>6, <2>1, <2>2
    <3>3. Closure(n, to) \in SUBSET Node
      BY <1>3, ClosureStart
    <3> QED
      BY <3>1, <3>2, <3>3, ClosureLeast
  <2> QED
    BY <2>2, <2>5, <2>6, <1>6
<1>11. Closure(n, to) \subseteq I /\ \A a \in Closure(n, to) : a # n => hgt[n] < hgt[a]
  BY <1>7, <1>8
<1>12. Up(m, r, n) = Closure(n, to) /\ (n # r => Up(m, r, m[n].pParent) = Closure(m[n].pParent, to))
  BY <1>2, <1>3
<1> QED
  BY <1>6, <1>9, <1>10, <1>11, <1>12 DEF UpRight

\* A walk comes to the same nodes if it goes on in the same way from each of them.
LEMMA ClosureSame ==
  ASSUME NEW n \in Node, NEW to, NEW from, NEW S \in SUBSET Node, n \in S,
         \A y \in S : to[y] \subseteq S, \A y \in S : from[y] = to[y]
  PROVE  Closure(n, from) = Closure(n, to)
<1>1. PICK A : A = Closure(n, to)
  OBVIOUS
<1>2. PICK B : B = Closure(n, from)
  OBVIOUS
<1>3. A \subseteq S /\ n \in A /\ A \in SUBSET Node /\ \A y \in A : to[y] \subseteq A
  BY <1>1, ClosureStart, ClosureLeast, ClosureClosed
<1>4. B \subseteq S /\ n \in B /\ B \in SUBSET Node /\ \A y \in B : from[y] \subseteq B
  <2>1. \A y \in S : from[y] \subseteq S
    OBVIOUS
  <2> QED
    BY <2>1, <1>2, ClosureStart, ClosureLeast, ClosureClosed
<1>5. B \subseteq A
  <2>1. \A y \in A : from[y] \subseteq A
    BY <1>3
  <2> QED
    BY <2>1, <1>2, <1>3, ClosureLeast
<1>6. A \subseteq B
  <2>1. \A y \in B : to[y] \subseteq B
    BY <1>4
  <2> QED
    BY <2>1, <1>1, <1>4, ClosureLeast
<1> QED
  BY <1>1, <1>2, <1>5, <1>6

\* The way up of a node depends on the parents of the nodes in its tree only.
LEMMA UpSame ==
  ASSUME NEW m, NEW r, NEW I, NEW aft, NEW hgt, NEW ord, Shape(m, r, I, aft, hgt, ord),
         NEW w, \A x \in I : w[x].pParent = m[x].pParent
  PROVE  \A n \in I : Up(w, r, n) = Up(m, r, n)
<1> USE NullAssumption
<1>1. PICK to : to = [x \in Node |-> IF x = r THEN {} ELSE {m[x].pParent} \ {NULL}]
  OBVIOUS
<1>2. PICK from : from = [x \in Node |-> IF x = r THEN {} ELSE {w[x].pParent} \ {NULL}]
  OBVIOUS
<1>3. I \in SUBSET Node /\ \A x \in I : x # r => m[x].pParent \in I
  BY DEF Shape, Family, ParentRight
<1>4. \A y \in I : to[y] \subseteq I
  BY <1>1, <1>3
<1>5. \A y \in I : from[y] = to[y]
  BY <1>1, <1>2, <1>3
<1>6. \A n \in I : Closure(n, from) = Closure(n, to)
  BY <1>3, <1>4, <1>5, ClosureSame
<1> QED
  BY <1>1, <1>2, <1>6 DEF Up

\* From a node and all above it a walk up ends at the root.
LEMMA UpEnds ==
  ASSUME NEW m, NEW r, NEW I, NEW aft, NEW hgt, NEW ord, Shape(m, r, I, aft, hgt, ord),
         NEW n \in I
  PROVE  r \in Up(m, r, n)
<1> USE NullAssumption DEF Shape
<1> DEFINE Lost == {x \in I : r \notin Up(m, r, x)}
           Gaps == {g \in Nat : \E x \in Lost : g = hgt[r] - hgt[x]}
<1>1. SUFFICES ASSUME Lost # {} PROVE FALSE
  OBVIOUS
<1>2. \A x \in I : x # r => /\ m[x].pParent \in I /\ hgt[x] < hgt[m[x].pParent]
                            /\ hgt[x] < hgt[r]
  BY DEF Family, ParentRight
<1>3. r \in I /\ \A x \in I : hgt[x] \in Nat
  BY DEF Family, ParentRight
<1>4. \A x \in I : hgt[r] - hgt[x] \in Nat
  <2>1. TAKE x \in I
  <2>2. hgt[x] \in Nat /\ hgt[r] \in Nat /\ hgt[x] <= hgt[r]
    BY <1>2, <1>3
  <2> QED
    BY <2>2
<1>5. PICK g \in Gaps : \A h \in Gaps : g <= h
  <2>1. Gaps # {} /\ Gaps \in SUBSET Nat
    BY <1>1, <1>4
  <2> HIDE DEF Gaps
  <2> QED
    BY <2>1, LeastIs
<1>6. PICK x \in Lost : g = hgt[r] - hgt[x]
  BY <1>5
<1>7. UpRight(m, r, I, hgt, x)
  BY <1>6, UpIs
<1>8. x # r /\ r \notin Up(m, r, m[x].pParent)
  BY <1>6, <1>7 DEF UpRight
<1>9. PICK p \in I : p = m[x].pParent /\ hgt[x] < hgt[p] /\ p \in Lost
  BY <1>2, <1>6, <1>8
<1>10. g <= hgt[r] - hgt[p]
  BY <1>4, <1>5, <1>9
<1>11. hgt[p] \in Nat /\ hgt[r] \in Nat /\ hgt[x] \in Nat
  BY <1>3, <1>6, <1>9
<1> QED
  BY <1>6, <1>9, <1>10, <1>11

\* privRecalculateLevel and Remove come to n and all that is below it.
LEMMA ReachedBelow ==
  ASSUME NEW m, NEW r, NEW I, NEW aft, NEW hgt, NEW ord, Shape(m, r, I, aft, hgt, ord),
         NEW n \in I
  PROVE  Reached(m, n) = {x \in I : n \in Up(m, r, x)}
<1> USE NullAssumption DEF Shape
<1>1. PICK to : to = [x \in Node |->
             {m[x].pChild, IF x = n THEN NULL ELSE m[x].pNextSibling} \ {NULL}]
  OBVIOUS
<1>2. Reached(m, n) = Closure(n, to)
  BY <1>1 DEF Reached
<1>3. I \in SUBSET Node /\ \A x \in I : UpRight(m, r, I, hgt, x)
  BY UpIs
<1>4. \A x \in I : /\ hgt[x] \in Nat /\ ord[x] \in Nat
                   /\ x # r => m[x].pParent \in I /\ hgt[x] < hgt[m[x].pParent]
                   /\ m[x].pParent = NULL <=> x = r
  BY <1>3 DEF Family, ParentRight
<1>5. \A y \in I : /\ m[y].pChild # NULL => m[y].pChild \in to[y]
                   /\ y # n /\ m[y].pNextSibling # NULL => m[y].pNextSibling \in to[y]
  BY <1>1, <1>3
<1>6. \A y \in I : \A z \in to[y] :
        \/ z = m[y].pChild /\ z # NULL
        \/ y # n /\ z = m[y].pNextSibling /\ z # NULL
  BY <1>1, <1>3
<1>7. PICK S : S = {x \in I : n \in Up(m, r, x)}
  OBVIOUS
<1>8. n \in S /\ S \in SUBSET Node
  BY <1>3, <1>7 DEF UpRight
<1>9. \A y \in S : to[y] \subseteq S
  <2>1. SUFFICES ASSUME NEW y \in S, NEW z \in to[y]
                 PROVE  z \in S
    OBVIOUS
  <2>2. y \in I /\ n \in Up(m, r, y)
    BY <1>7
  <2>3. CASE z = m[y].pChild /\ z # NULL
    <3>1. z \in I /\ m[z].pParent = y
      BY <2>2, <2>3 DEF Family, ChildRight
    <3>2. z # r
      BY <3>1, <2>2, <1>3, <1>4
    <3>3. Up(m, r, z) = {z} \union Up(m, r, y)
      BY <3>1, <3>2, <1>3 DEF UpRight
    <3> QED
      BY <3>1, <3>3, <2>2, <1>7
  <2>4. CASE y # n /\ z = m[y].pNextSibling /\ z # NULL
    <3>1. z \in I /\ m[z].pParent = m[y].pParent
      BY <2>2, <2>4 DEF Family, NextRight
    <3>2. y # r
      BY <2>2, <2>4, <1>3 DEF UpRight
    <3>3. z # r
      BY <3>1, <3>2, <2>2, <1>4
    <3>4. /\ Up(m, r, y) = {y} \union Up(m, r, m[y].pParent)
          /\ Up(m, r, z) = {z} \union Up(m, r, m[z].pParent)
      BY <2>2, <3>1, <3>2, <3>3, <1>3 DEF UpRight
    <3>5. n \in Up(m, r, m[y].pParent)
      BY <2>2, <2>4, <3>4
    <3> QED
      BY <3>1, <3>4, <3>5, <1>7
  <2> QED
    BY <2>2, <2>3, <2>4, <1>6
<1>10. PICK C : C = Closure(n, to)
  OBVIOUS
<1>11. C \subseteq S /\ n \in C /\ C \in SUBSET Node /\ \A y \in C : to[y] \subseteq C
  BY <1>8, <1>9, <1>10, ClosureStart, ClosureLeast, ClosureClosed
<1>12. ASSUME NEW x \in I, m[x].pParent \in C
       PROVE  x \in C
  <2> DEFINE y == m[x].pParent
             Kids == {c \in I : m[c].pParent = y /\ c \notin C}
             Ords == {ord[c] : c \in Kids}
  <2>1. SUFFICES ASSUME x \notin C PROVE FALSE
    OBVIOUS
  <2>2. y \in C /\ y \in I /\ n \in Up(m, r, y) /\ y # NULL
    BY <1>7, <1>11, <1>12
  <2>3. PICK c \in Kids : \A d \in Kids : ord[c] <= ord[d]
    <3>1. Ords # {} /\ Ords \in SUBSET Nat
      BY <2>1, <1>4
    <3> HIDE DEF Ords
    <3>2. PICK o \in Ords : \A q \in Ords : o <= q
      BY <3>1, LeastIs
    <3> QED
      BY <3>2 DEF Ords
  <2>4. c \in I /\ c # r /\ m[c].pParent = y /\ c \notin C
    BY <2>2, <2>3, <1>4
  <2>5. m[c].pPrevSibling # NULL
    <3>1. m[y].pChild # c
      BY <2>2, <2>4, <1>5, <1>11
    <3> QED
      BY <3>1, <2>4 DEF Family, PrevRight
  <2>6. PICK z \in I : z = m[c].pPrevSibling /\ m[z].pNextSibling = c
    BY <2>4, <2>5 DEF Family, PrevRight
  <2>7. c # NULL /\ c \in Node
    BY <2>4, <1>3
  <2>8. ord[z] < ord[c] /\ m[z].pParent = y
    BY <2>4, <2>6, <2>7 DEF Family, NextRight
  <2>9. z # n
    <3>1. SUFFICES ASSUME z = n PROVE FALSE
      OBVIOUS
    <3>2. n # r
      BY <3>1, <2>6, <2>8, <2>2, <1>4
    <3>3. hgt[n] < hgt[y]
      BY <3>1, <3>2, <2>8, <1>4
    <3>4. y # n => hgt[y] < hgt[n]
      BY <2>2, <1>3 DEF UpRight
    <3>5. hgt[y] \in Nat /\ hgt[n] \in Nat
      BY <2>2, <1>4
    <3> QED
      BY <3>3, <3>4, <3>5
  <2>10. z \notin C
    BY <2>4, <2>6, <2>7, <2>9, <1>5, <1>11
  <2>11. ord[c] <= ord[z]
    BY <2>3, <2>6, <2>8, <2>10
  <2>12. ord[c] \in Nat /\ ord[z] \in Nat
    BY <2>4, <2>6, <1>4
  <2> QED
    BY <2>8, <2>11, <2>12
<1>13. S \subseteq C
  <2>1. SUFFICES ASSUME NEW x \in S, x \notin C PROVE FALSE
    OBVIOUS
  <2>2. PICK T : T = I \ C
    OBVIOUS
  <2>3. PICK up : up = [y \in Node |-> IF y = r THEN {} ELSE {m[y].pParent} \ {NULL}]
    OBVIOUS
  <2>4. x \in T /\ T \in SUBSET Node
    BY <2>1, <2>2, <1>3, <1>7
  <2>5. \A y \in T : up[y] \subseteq T
    <3>1. ASSUME NEW y \in T, y # r PROVE m[y].pParent \in T
      BY <2>2, <3>1, <1>4, <1>12
    <3>2. T \subseteq Node
      BY <2>4
    <3> QED
      BY <2>3, <3>1, <3>2
  <2>6. Up(m, r, x) \subseteq T
    BY <2>3, <2>4, <2>5, ClosureLeast DEF Up
  <2>7. n \in Up(m, r, x)
    BY <2>1, <1>7
  <2> QED
    BY <2>2, <2>6, <2>7, <1>11
<1> QED
  BY <1>2, <1>7, <1>10, <1>11, <1>13

\* From the root they come to the whole tree.
LEMMA ReachedAll ==
  ASSUME NEW m, NEW r, NEW I, NEW aft, NEW hgt, NEW ord, Shape(m, r, I, aft, hgt, ord)
  PROVE  Reached(m, r) = I
<1>1. r \in I
  BY DEF Shape, Family, ParentRight
<1>2. Reached(m, r) = {x \in I : r \in Up(m, r, x)}
  BY <1>1, ReachedBelow
<1>3. \A x \in I : r \in Up(m, r, x)
  BY UpEnds
<1> QED
  BY <1>2, <1>3

------------------------------------------------------------------------------
(* Levels.                                                                 *)

\* A level down is one more.
LEMMA LevelStep ==
  ASSUME NEW m, NEW r, NEW I, NEW aft, NEW hgt, NEW ord, Shape(m, r, I, aft, hgt, ord),
         NEW n \in I
  PROVE  IF n = r THEN LevelOf(m, r, n) = 1
         ELSE m[n].pParent \in I /\ LevelOf(m, r, n) = LevelOf(m, r, m[n].pParent) + 1
<1>1. /\ I \in SUBSET Node /\ UpRight(m, r, I, hgt, n) /\ hgt \in [Node -> Nat]
      /\ n # r => m[n].pParent \in I /\ hgt[n] < hgt[m[n].pParent]
  BY UpIs DEF Shape, Family, ParentRight
<1>2. CASE n = r
  <2>1. Up(m, r, n) = {n}
    BY <1>1, <1>2 DEF UpRight
  <2> QED
    BY <2>1, <1>2, FS_Singleton DEF LevelOf
<1>3. CASE n # r
  <2>1. PICK p \in I : p = m[n].pParent /\ hgt[n] < hgt[p]
    BY <1>1, <1>3
  <2>2. Up(m, r, n) = {n} \union Up(m, r, p)
    BY <1>1, <1>3, <2>1 DEF UpRight
  <2>3. UpRight(m, r, I, hgt, p)
    BY <2>1, UpIs
  <2>4. n \notin Up(m, r, p)
    <3>1. hgt[n] \in Nat /\ hgt[p] \in Nat
      BY <1>1, <2>1
    <3>2. ~ (hgt[p] < hgt[n]) /\ n # p
      BY <2>1, <3>1
    <3> QED
      BY <2>3, <3>2 DEF UpRight
  <2>5. IsFiniteSet(Up(m, r, p))
    <3>1. Up(m, r, p) \in SUBSET Node
      BY <1>1, <2>3 DEF UpRight
    <3> QED
      BY <3>1, CountIs
  <2>6. Cardinality(Up(m, r, p) \union {n}) = Cardinality(Up(m, r, p)) + 1
    BY <2>4, <2>5, FS_AddElement
  <2>7. Up(m, r, n) = Up(m, r, p) \union {n}
    BY <2>2
  <2> QED
    BY <1>3, <2>1, <2>6, <2>7 DEF LevelOf
<1> QED
  BY <1>2, <1>3

\* Siblings are on one level.
LEMMA SiblingLevel ==
  ASSUME NEW m, NEW r, NEW I, NEW aft, NEW hgt, NEW ord, Shape(m, r, I, aft, hgt, ord),
         NEW x \in I, NEW y \in I, m[x].pParent = m[y].pParent
  PROVE  LevelOf(m, r, x) = LevelOf(m, r, y)
<1>1. x = r <=> y = r
  BY DEF Shape, Family, ParentRight
<1> QED
  BY <1>1, LevelStep

\* The levels of the nodes I, and the highest of some numbers.
TreeLevels(m, r, I) == {LevelOf(m, r, x) : x \in I}
Top(L, k) == k \in L /\ \A x \in L : x <= k

\* Max is the highest.
LEMMA TopMax ==
  ASSUME NEW L \in SUBSET Count, L # {}
  PROVE  Top(L, Max(L)) /\ \A k \in L : Top(L, k) => k = Max(L)
<1>1. PICK K \in Nat : K = Cardinality(Node) /\ Count = 0..K
  BY CountIs DEF Count
<1>2. Max(L) \in L /\ \A x \in L : x <= Max(L)
  BY <1>1, MaxIs
<1>3. \A x \in L : x \in Nat
  BY <1>1
<1>4. ASSUME NEW k \in L, Top(L, k) PROVE k = Max(L)
  <2>1. k <= Max(L) /\ Max(L) <= k /\ k \in Nat /\ Max(L) \in Nat
    BY <1>2, <1>3, <1>4 DEF Top
  <2> QED
    BY <2>1
<1> QED
  BY <1>2, <1>4 DEF Top

\* The number of levels is right: of a tree, and after its last node has gone.
LevelsRight(m, r, I, info) ==
  /\ info.currNumLevels <= info.maxNumLevels
  /\ I = {} => info.currNumLevels <= 1
  /\ I # {} => Top(TreeLevels(m, r, I), info.currNumLevels)

\* Levels are between 1 and the number of nodes.
LEMMA LevelsAre ==
  ASSUME NEW m, NEW r, NEW I
  PROVE  TreeLevels(m, r, I) \in SUBSET Count
  BY LevelIs DEF TreeLevels

\* Levels, too, depend on the parents only.
LEMMA LevelsSame ==
  ASSUME NEW m, NEW r, NEW I, NEW aft, NEW hgt, NEW ord, Shape(m, r, I, aft, hgt, ord),
         NEW w, \A x \in I : w[x].pParent = m[x].pParent
  PROVE  /\ \A x \in I : LevelOf(w, r, x) = LevelOf(m, r, x)
         /\ TreeLevels(w, r, I) = TreeLevels(m, r, I)
<1>0. \A x \in I : Up(w, r, x) = Up(m, r, x)
  BY UpSame
<1>1. \A x \in I : LevelOf(w, r, x) = LevelOf(m, r, x)
  BY <1>0 DEF LevelOf
<1> QED
  BY <1>1 DEF TreeLevels

------------------------------------------------------------------------------
(* The order of siblings.                                                  *)

\* Younger has a node and the siblings from it on.
LEMMA YoungerIs ==
  ASSUME NEW m, NEW r, NEW I, NEW aft, NEW hgt, NEW ord, Shape(m, r, I, aft, hgt, ord),
         NEW n \in I
  PROVE  /\ n \in Younger(m, n) /\ Younger(m, n) \subseteq I
         /\ \A y \in Younger(m, n) : /\ m[y].pParent = m[n].pParent
                                     /\ m[y].pNextSibling # NULL =>
                                          m[y].pNextSibling \in Younger(m, n)
<1> USE NullAssumption DEF Shape
<1>1. PICK to : to = [x \in Node |-> {m[x].pNextSibling} \ {NULL}]
  OBVIOUS
<1>2. Younger(m, n) = Closure(n, to)
  BY <1>1 DEF Younger
<1>3. PICK S : S = {x \in I : m[x].pParent = m[n].pParent}
  OBVIOUS
<1>4. S \in SUBSET Node /\ n \in S
  BY <1>3
<1>5. \A y \in I : m[y].pNextSibling # NULL =>
        m[y].pNextSibling \in I /\ m[m[y].pNextSibling].pParent = m[y].pParent
  BY DEF Family, NextRight
<1>6. \A y \in S : to[y] \subseteq S
  <2>1. \A y \in S : m[y].pNextSibling # NULL => m[y].pNextSibling \in S
    BY <1>3, <1>5
  <2> QED
    BY <2>1, <1>1, <1>4
<1>7. PICK C : C = Closure(n, to)
  OBVIOUS
<1>8. C \subseteq S /\ n \in C /\ \A y \in C : to[y] \subseteq C
  BY <1>4, <1>6, <1>7, ClosureStart, ClosureLeast, ClosureClosed
<1>9. \A y \in C : m[y].pNextSibling # NULL => m[y].pNextSibling \in C
  BY <1>1, <1>4, <1>8
<1> QED
  BY <1>2, <1>3, <1>7, <1>8, <1>9

\* It is the least such set.
LEMMA YoungerLeast ==
  ASSUME NEW m, NEW S \in SUBSET Node, NEW n \in S,
         \A y \in S : m[y].pNextSibling # NULL => m[y].pNextSibling \in S
  PROVE  Younger(m, n) \subseteq S
<1>1. PICK to : to = [x \in Node |-> {m[x].pNextSibling} \ {NULL}]
  OBVIOUS
<1>2. \A y \in S : to[y] \subseteq S
  BY <1>1
<1> QED
  BY <1>1, <1>2, ClosureLeast DEF Younger

\* From the first child on come all children.
LEMMA KidsYounger ==
  ASSUME NEW m, NEW r, NEW I, NEW aft, NEW hgt, NEW ord, Shape(m, r, I, aft, hgt, ord),
         NEW p \in I, m[p].pChild # NULL
  PROVE  Younger(m, m[p].pChild) = {x \in I : m[x].pParent = p}
<1> USE NullAssumption DEF Shape
<1>1. PICK c \in I : c = m[p].pChild /\ m[c].pParent = p
  BY DEF Family, ChildRight
<1>2. PICK Y : Y = Younger(m, c)
  OBVIOUS
<1>3. /\ c \in Y /\ Y \subseteq I
      /\ \A y \in Y : m[y].pParent = p /\ (m[y].pNextSibling # NULL => m[y].pNextSibling \in Y)
  BY <1>1, <1>2, YoungerIs
<1> DEFINE Left == {x \in I : m[x].pParent = p /\ x \notin Y}
           Ords == {ord[x] : x \in Left}
<1>4. Left = {}
  <2>1. SUFFICES ASSUME Left # {} PROVE FALSE
    OBVIOUS
  <2>2. PICK x \in Left : \A z \in Left : ord[x] <= ord[z]
    <3>1. Ords # {} /\ Ords \in SUBSET Nat
      BY <2>1
    <3> HIDE DEF Ords
    <3>2. PICK o \in Ords : \A q \in Ords : o <= q
      BY <3>1, LeastIs
    <3> QED
      BY <3>2 DEF Ords
  <2>3. x \in I /\ m[x].pParent = p /\ x \notin Y /\ x # c /\ x # r /\ x # NULL
    BY <2>2, <1>3 DEF Family, ParentRight
  <2>4. PICK z \in I : z = m[x].pPrevSibling /\ m[z].pNextSibling = x
    BY <2>3, <1>1 DEF Family, PrevRight
  <2>5. ord[z] < ord[x] /\ m[z].pParent = p
    BY <2>3, <2>4 DEF Family, NextRight
  <2>6. z \notin Y
    BY <2>3, <2>4, <1>3
  <2>7. ord[x] <= ord[z] /\ ord[x] \in Nat /\ ord[z] \in Nat
    BY <2>2, <2>3, <2>4, <2>5, <2>6
  <2> QED
    BY <2>5, <2>7
<1> QED
  BY <1>1, <1>2, <1>3, <1>4

\* The nodes in K have the same parents and the same order.
SamePlaces(m, w, K) ==
  /\ \A x \in K : w[x].pParent = m[x].pParent
  /\ \A x \in K, y \in K : y \in Younger(w, x) <=> y \in Younger(m, x)

\* The others keep their places when a leaf goes.
LEMMA GoneSame ==
  ASSUME NEW m, NEW r, NEW I, NEW aft, NEW hgt, NEW ord, Shape(m, r, I, aft, hgt, ord),
         NEW l \in I, l # r, m[l].pChild = NULL, NEW w, Gone(m, w, I, l)
  PROVE  SamePlaces(m, w, I \ {l})
<1> USE NullAssumption
<1>1. Shape(w, r, I \ {l}, AftPast(aft, l), hgt, ord)
  BY GoneShape
<1>2. PICK N : N = m[l].pNextSibling
  OBVIOUS
<1>3. N # l /\ I \in SUBSET Node /\ l \in Node
  BY <1>2, LeafApart DEF Shape
<1>4. \A x \in I \ {l} : /\ w[x].pParent = m[x].pParent
                        /\ w[x].pNextSibling = IF m[x].pNextSibling = l THEN N
                                                                 ELSE m[x].pNextSibling
  BY <1>2 DEF Gone, Past
<1>5. ASSUME NEW x \in I \ {l}, NEW y \in I \ {l}, y \in Younger(w, x)
      PROVE  y \in Younger(m, x)
  <2>1. PICK Y : Y = Younger(m, x)
    OBVIOUS
  <2>2. x \in Y /\ Y \subseteq I
        /\ \A z \in Y : m[z].pNextSibling # NULL => m[z].pNextSibling \in Y
    BY <2>1, YoungerIs
  <2>3. PICK S : S = Y \ {l}
    OBVIOUS
  <2>4. S \in SUBSET Node /\ x \in S
    BY <2>2, <2>3, <1>3
  <2>5. ASSUME NEW z \in S, w[z].pNextSibling # NULL PROVE w[z].pNextSibling \in S
    <3>1. z \in I \ {l} /\ z \in Y
      BY <2>2, <2>3
    <3>2. CASE m[z].pNextSibling = l
      <4>1. w[z].pNextSibling = N /\ l \in Y
        BY <3>1, <3>2, <1>3, <1>4, <2>2
      <4>2. N \in Y
        BY <4>1, <2>2, <2>5, <1>2
      <4> QED
        BY <4>1, <4>2, <1>3, <2>3
    <3>3. CASE m[z].pNextSibling # l
      <4>1. w[z].pNextSibling = m[z].pNextSibling
        BY <3>1, <3>3, <1>4
      <4> QED
        BY <4>1, <3>1, <3>3, <2>2, <2>3, <2>5
    <3> QED
      BY <3>2, <3>3
  <2>6. Younger(w, x) \subseteq S
    BY <2>4, <2>5, YoungerLeast
  <2> QED
    BY <2>1, <2>3, <2>6, <1>5
<1>6. ASSUME NEW x \in I \ {l}, NEW y \in I \ {l}, y \in Younger(m, x)
      PROVE  y \in Younger(w, x)
  <2>1. PICK Y : Y = Younger(w, x)
    OBVIOUS
  <2>2. x \in Y /\ Y \subseteq I \ {l}
        /\ \A z \in Y : w[z].pNextSibling # NULL => w[z].pNextSibling \in Y
    BY <2>1, <1>1, YoungerIs
  <2>3. PICK S : S = {z \in Node : z \in Y \/ (z = l /\ \E q \in Y : m[q].pNextSibling = l)}
    OBVIOUS
  <2>4. S \in SUBSET Node /\ x \in S
    BY <2>2, <2>3, <1>3
  <2>5. ASSUME NEW z \in S, m[z].pNextSibling # NULL PROVE m[z].pNextSibling \in S
    <3>1. CASE z \in Y
      <4>1. CASE m[z].pNextSibling = l
        BY <3>1, <4>1, <2>3, <1>3
      <4>2. CASE m[z].pNextSibling # l
        <5>1. w[z].pNextSibling = m[z].pNextSibling
          BY <3>1, <4>2, <2>2, <1>4
        <5>2. m[z].pNextSibling \in Y
          BY <5>1, <3>1, <2>2, <2>5
        <5> QED
          BY <5>2, <2>2, <2>3, <1>3
      <4> QED
        BY <4>1, <4>2
    <3>2. CASE z = l /\ \E q \in Y : m[q].pNextSibling = l
      <4>1. PICK q \in Y : m[q].pNextSibling = l
        BY <3>2
      <4>2. w[q].pNextSibling = N
        BY <4>1, <2>2, <1>4
      <4>3. N \in Y
        BY <4>1, <4>2, <3>2, <2>2, <2>5, <1>2
      <4> QED
        BY <4>3, <3>2, <1>2, <2>2, <2>3, <1>3
    <3> QED
      BY <3>1, <3>2, <2>3
  <2>6. Younger(m, x) \subseteq S
    BY <2>4, <2>5, YoungerLeast
  <2> QED
    BY <2>1, <2>3, <2>6, <1>6
<1>7. \A x \in I \ {l}, y \in I \ {l} : y \in Younger(w, x) <=> y \in Younger(m, x)
  BY <1>5, <1>6
<1> QED
  BY <1>4, <1>7, Zenon DEF SamePlaces

------------------------------------------------------------------------------
(* RemoveLeaf as a whole.                                                  *)

\* No link of a place in the tree is wild, in or out of it.
Tidy(m) ==
  \A x \in Node : /\ m[x].pParent \in Node \union {NULL} /\ m[x].pChild \in Node \union {NULL}
                  /\ m[x].pNextSibling \in Node \union {NULL}
                  /\ m[x].pPrevSibling \in Node \union {NULL}

\* What the nodes outside the tree hold stays.
Apart(m, w, I) == \A x \in Node \ I : \A f \in Links : w[x][f] = m[x][f]

\* The tree after leaf l has gone.
LeafRemoved(m, r, I, aft, hgt, ord, l, t) ==
  /\ t = TreeOf(t.mem, t.pRoot, t.mInfo)
  /\ t.mem \in Memory /\ Tidy(t.mem) /\ Apart(m, t.mem, I)
  /\ InfoRight(t.mInfo, Cardinality(I \ {l}))
  /\ l # r => t.pRoot = r /\ Gone(m, t.mem, I, l)
              /\ Shape(t.mem, r, I \ {l}, AftPast(aft, l), hgt, ord)
  /\ l = r => t.pRoot = NULL /\ I = {l}

\* A childless root is alone.
LEMMA RootAlone ==
  ASSUME NEW m, NEW r, NEW I, NEW aft, NEW hgt, NEW ord, Shape(m, r, I, aft, hgt, ord),
         m[r].pChild = NULL
  PROVE  I = {r}
<1> USE DEF Shape
<1> DEFINE Others == {x \in I : x # r}
           Gaps == {g \in Nat : \E x \in Others : g = hgt[r] - hgt[x]}
<1>0. r \in I /\ \A x \in Others : hgt[x] < hgt[r] /\ m[x].pParent \in I /\ hgt[x] < hgt[m[x].pParent]
  BY DEF Family, ParentRight
<1>1. SUFFICES ASSUME Others # {} PROVE FALSE
  BY <1>0
<1>2. Gaps # {} /\ Gaps \in SUBSET Nat
  <2>1. PICK x \in Others : TRUE
    BY <1>1
  <2>2. hgt[r] - hgt[x] \in Nat
    BY <1>0, <2>1
  <2> QED
    BY <2>1, <2>2
<1>3. PICK g \in Gaps : \A h \in Gaps : g <= h
  <2> HIDE DEF Gaps
  <2> QED
    BY <1>2, LeastIs
<1>4. PICK x \in Others : g = hgt[r] - hgt[x]
  BY <1>3
<1>5. PICK p \in I : p = m[x].pParent /\ hgt[x] < hgt[p]
  BY <1>0, <1>4
<1>6. p # r
  BY <1>4, <1>5, <1>0, HasChild
<1>7. hgt[r] - hgt[p] \in Gaps
  <2>1. hgt[p] < hgt[r] /\ hgt[p] \in Nat /\ hgt[r] \in Nat
    BY <1>0, <1>5, <1>6
  <2>2. hgt[r] - hgt[p] \in Nat
    BY <2>1
  <2> QED
    BY <1>5, <1>6, <2>2
<1>8. g <= hgt[r] - hgt[p]
  BY <1>3, <1>7
<1>9. hgt[p] \in Nat /\ hgt[r] \in Nat /\ hgt[x] \in Nat
  BY <1>0, <1>4, <1>5
<1> QED
  BY <1>4, <1>5, <1>8, <1>9

\* Without l the tree is as tidy.
LEMMA GoneTidy ==
  ASSUME NEW m, NEW r, NEW I, NEW aft, NEW hgt, NEW ord, Shape(m, r, I, aft, hgt, ord), Tidy(m),
         NEW l \in I, NEW w, Gone(m, w, I, l)
  PROVE  Tidy(w)
<1> SUFFICES ASSUME NEW x \in Node
             PROVE  /\ w[x].pParent \in Node \union {NULL} /\ w[x].pChild \in Node \union {NULL}
                    /\ w[x].pNextSibling \in Node \union {NULL}
                    /\ w[x].pPrevSibling \in Node \union {NULL}
  BY DEF Tidy
<1>0. l \in Node
  BY DEF Shape
<1>1. CASE x = l
  <2>1. /\ w[x].pParent = NULL /\ w[x].pChild = NULL
        /\ w[x].pNextSibling = NULL /\ w[x].pPrevSibling = NULL
    BY <1>1, LeafIs DEF Gone, Links
  <2> QED
    BY <2>1
<1>2. CASE x \in I \ {l}
  BY <1>0, <1>2 DEF Gone, Past, Tidy
<1>3. CASE x \notin I
  <2>1. /\ w[x].pParent = m[x].pParent /\ w[x].pChild = m[x].pChild
        /\ w[x].pNextSibling = m[x].pNextSibling /\ w[x].pPrevSibling = m[x].pPrevSibling
    BY <1>3 DEF Gone, Links
  <2> QED
    BY <2>1 DEF Tidy
<1> QED
  BY <1>1, <1>2, <1>3

\* A leaf below the root goes.
LEMMA RemoveLeafBelow ==
  ASSUME NEW m, NEW r, NEW I, NEW aft, NEW hgt, NEW ord, Shape(m, r, I, aft, hgt, ord), Tidy(m),
         NEW info, InfoRight(info, Cardinality(I)),
         NEW l \in I, l # r, m[l].pChild = NULL
  PROVE  LeafRemoved(m, r, I, aft, hgt, ord, l, RemoveLeaf(TreeOf(m, r, info), l))
<1>0. I \in SUBSET Node /\ r \in I /\ m \in Memory /\ m[l].pParent # NULL
  BY NullAssumption DEF Shape, Family, ParentRight
<1>1. PICK t : t = RemoveLeaf(TreeOf(m, r, info), l)
  OBVIOUS
<1>2. /\ Gone(m, t.mem, I, l) /\ t.pRoot = r /\ t = TreeOf(t.mem, t.pRoot, t.mInfo)
      /\ InfoRight(t.mInfo, Cardinality(I \ {l}))
  <2>1. CASE m[l].pNextSibling = NULL
    <3>1. PICK d : d = DetachLast(m, r, l)
      OBVIOUS
    <3>2. d \in Memory /\ Unhung(m, d, l) /\ HalfSpliced(m, d, r, l)
      BY <2>1, <3>1, DetachLastGone
    <3>3. PICK i : i = InfoRemoveNewLevel(d, r, info)
      OBVIOUS
    <3>4. InfoRight(i, Cardinality(I))
      BY <1>0, <3>3, RemoveLevelIs
    <3>5. t = RemoveNode(d, r, i, l)
      BY <2>1, <1>0, <1>1, <3>1, <3>3 DEF RemoveLeaf, RemoveLast, TreeOf
    <3>6. Gone(m, t.mem, I, l)
      BY <3>2, <3>5, RemoveNodeGone
    <3>7. t.pRoot = r /\ t.mInfo = InfoRemoveNode(i) /\ t = TreeOf(t.mem, t.pRoot, t.mInfo)
      BY <3>5 DEF RemoveNode, TreeOf
    <3> QED
      BY <1>0, <3>4, <3>6, <3>7, RemoveCountIs
  <2>2. CASE m[l].pNextSibling # NULL
    <3>1. t = RemoveInner(TreeOf(m, r, info), l)
      BY <2>2, <1>1 DEF RemoveLeaf, TreeOf
    <3>2. Gone(m, t.mem, I, l)
      BY <2>2, <3>1, RemoveInnerGone
    <3>3. t.pRoot = r /\ t.mInfo = InfoRemoveNode(info) /\ t = TreeOf(t.mem, t.pRoot, t.mInfo)
      BY <3>1 DEF RemoveInner, RemoveNode, TreeOf
    <3> QED
      BY <1>0, <3>2, <3>3, RemoveCountIs
  <2> QED
    BY <2>1, <2>2
<1>3. Shape(t.mem, r, I \ {l}, AftPast(aft, l), hgt, ord)
  BY <1>2, GoneShape
<1>4. Tidy(t.mem)
  BY <1>2, GoneTidy
<1>5. t.mem \in Memory /\ Apart(m, t.mem, I)
  BY <1>2 DEF Gone, Apart
<1> QED
  BY <1>1, <1>2, <1>3, <1>4, <1>5 DEF LeafRemoved

\* The last node goes.
LEMMA RemoveLeafRoot ==
  ASSUME NEW m, NEW r, NEW I, NEW aft, NEW hgt, NEW ord, Shape(m, r, I, aft, hgt, ord), Tidy(m),
         NEW info, InfoRight(info, Cardinality(I)), m[r].pChild = NULL
  PROVE  LeafRemoved(m, r, I, aft, hgt, ord, r, RemoveLeaf(TreeOf(m, r, info), r))
<1> USE NullAssumption
<1>0. I \in SUBSET Node /\ I = {r} /\ r \in Node /\ m \in Memory /\ m[r].pParent = NULL
  BY RootAlone DEF Shape, Family, ParentRight
<1>1. m[r].pNextSibling = NULL
  <2>1. SUFFICES ASSUME m[r].pNextSibling # NULL PROVE FALSE
    OBVIOUS
  <2>2. ord[r] < ord[r] /\ ord[r] \in Nat
    BY <1>0, <2>1 DEF Shape, Family, NextRight
  <2> QED
    BY <2>2
<1>2. PICK t : t = RemoveLeaf(TreeOf(m, r, info), r)
  OBVIOUS
<1>3. t = RemoveNode(m, NULL, info, r)
  BY <1>0, <1>1, <1>2 DEF RemoveLeaf, RemoveLast, TreeOf
<1>4. PICK F \in Target : F = m[r].pForward
  BY <1>0 DEF Memory, Links
<1>5. PICK R \in Target : R = m[r].pReverse
  BY <1>0 DEF Memory, Links
<1>6. F \notin Node /\ R \in {r, NULL}
  BY <1>0, <1>4, <1>5 DEF Shape, Threads, FollowRight, AfterRight, LastRight
<1>7. PICK e : e = [m EXCEPT ![r] = Leaf(NULL, NULL, F, R)]
  OBVIOUS
<1>8. e \in Memory /\ e[r] = Leaf(NULL, NULL, F, R) /\ \A x \in Node \ {r} : e[x] = m[x]
  BY <1>0, <1>7, LeafType DEF Memory, Target
<1>9. e[r].pForward = F /\ e[r].pReverse = R
  BY <1>8, LeafIs
<1>10. PICK w : w = Spliced(e, r)
  OBVIOUS
<1>11. Threaded(e, w, F, R)
  BY <1>0, <1>8, <1>9, <1>10, SplicedIs
<1>12. /\ t.mem = w /\ t.pRoot = NULL /\ t.mInfo = InfoRemoveNode(info)
       /\ t = TreeOf(t.mem, t.pRoot, t.mInfo)
  BY <1>3, <1>4, <1>5, <1>7, <1>10 DEF RemoveNode, TreeOf
<1>13. \A x \in Node \ {r} : \A f \in Links : w[x][f] = m[x][f]
  BY <1>6, <1>8, <1>11 DEF Threaded
<1>14. /\ w[r].pParent = NULL /\ w[r].pChild = NULL
       /\ w[r].pNextSibling = NULL /\ w[r].pPrevSibling = NULL
  BY <1>0, <1>8, <1>11, LeafIs DEF Threaded, Links
<1>15. Tidy(w)
  BY <1>13, <1>14 DEF Tidy, Links
<1>16. w \in Memory /\ Apart(m, w, I)
  BY <1>0, <1>11, <1>13 DEF Threaded, Apart
<1>17. InfoRight(t.mInfo, Cardinality(I \ {r}))
  BY <1>0, <1>12, RemoveCountIs
<1> QED
  BY <1>0, <1>2, <1>12, <1>15, <1>16, <1>17 DEF LeafRemoved

\* What counting changes.
LEMMA RemoveInfoIs ==
  ASSUME NEW info \in Infos
  PROVE  LET i == InfoRemoveNode(info)
         IN  /\ i.currNumNodes = info.currNumNodes - 1 /\ i.maxNumNodes = info.maxNumNodes
             /\ i.currNumLevels = info.currNumLevels /\ i.maxNumLevels = info.maxNumLevels
  BY DEF InfoRemoveNode, Infos

\* And counting levels again.
LEMMA LevelInfoIs ==
  ASSUME NEW m, NEW r, r # NULL, NEW info \in Infos
  PROVE  LET i == InfoRemoveNewLevel(m, r, info)
         IN  /\ i.maxNumNodes = info.maxNumNodes /\ i.maxNumLevels = info.maxNumLevels
             /\ i.currNumNodes = info.currNumNodes
             /\ i.currNumLevels = Max(TreeLevels(m, r, Reached(m, r)))
  BY DEF InfoRemoveNewLevel, Infos, TreeLevels

\* The maxima stay, and the number of levels is right again.
LeafCounted(r, I, info, l, u) ==
  /\ u.mInfo.maxNumNodes = info.maxNumNodes /\ u.mInfo.maxNumLevels = info.maxNumLevels
  /\ LevelsRight(u.mem, r, I \ {l}, u.mInfo)

\* The levels that are left when a leaf goes.
LEMMA GoneLevels ==
  ASSUME NEW m, NEW r, NEW I, NEW aft, NEW hgt, NEW ord, Shape(m, r, I, aft, hgt, ord),
         NEW l \in I, l # r, m[l].pChild = NULL, NEW w, Gone(m, w, I, l)
  PROVE  /\ \A x \in I \ {l} : LevelOf(w, r, x) = LevelOf(m, r, x)
         /\ TreeLevels(w, r, I \ {l}) \subseteq TreeLevels(m, r, I)
         /\ m[l].pNextSibling # NULL => TreeLevels(w, r, I \ {l}) = TreeLevels(m, r, I)
         /\ TreeLevels(w, r, I \ {l}) # {}
<1>1. Shape(w, r, I \ {l}, AftPast(aft, l), hgt, ord)
  BY GoneShape
<1>2. \A x \in I \ {l} : w[x].pParent = m[x].pParent
  BY DEF Gone
<1>3. \A x \in I \ {l} : LevelOf(m, r, x) = LevelOf(w, r, x)
  <2>1. \A x \in I \ {l} : m[x].pParent = w[x].pParent
    BY <1>2
  <2> QED
    BY <1>1, <2>1, LevelsSame
<1>4. TreeLevels(w, r, I \ {l}) \subseteq TreeLevels(m, r, I)
  BY <1>3 DEF TreeLevels
<1>5. m[l].pNextSibling # NULL => TreeLevels(m, r, I) \subseteq TreeLevels(w, r, I \ {l})
  <2>1. SUFFICES ASSUME m[l].pNextSibling # NULL
                 PROVE  \A x \in I : LevelOf(m, r, x) \in TreeLevels(w, r, I \ {l})
    BY DEF TreeLevels
  <2>2. PICK s \in I \ {l} : s = m[l].pNextSibling /\ m[s].pParent = m[l].pParent
    BY <2>1, LeafApart DEF Shape, Family, NextRight
  <2>3. LevelOf(m, r, l) = LevelOf(m, r, s)
    BY <2>2, SiblingLevel
  <2>4. \A x \in I \ {l} : LevelOf(m, r, x) \in TreeLevels(w, r, I \ {l})
    BY <1>3 DEF TreeLevels
  <2> QED
    BY <2>2, <2>3, <2>4
<1>6. TreeLevels(w, r, I \ {l}) # {}
  <2>1. r \in I \ {l}
    BY DEF Shape, Family, ParentRight
  <2> QED
    BY <2>1 DEF TreeLevels
<1> QED
  BY <1>3, <1>4, <1>5, <1>6

\* A leaf taken out of its place is reached no more.
LEMMA UnhungReached ==
  ASSUME NEW m, NEW r, NEW I, NEW aft, NEW hgt, NEW ord, Shape(m, r, I, aft, hgt, ord),
         NEW l \in I, l # r, m[l].pChild = NULL, NEW d, Unhung(m, d, l),
         NEW w, Gone(m, w, I, l)
  PROVE  TreeLevels(d, r, Reached(d, r)) = TreeLevels(w, r, I \ {l})
<1> USE NullAssumption
<1>1. Shape(w, r, I \ {l}, AftPast(aft, l), hgt, ord)
  BY GoneShape
<1>2. /\ I \in SUBSET Node /\ l \in Node /\ r \in I \ {l}
      /\ \A x \in I \ {l} : w[x].pParent = m[x].pParent
  BY DEF Gone, Shape, Family, ParentRight
<1>3. ASSUME NEW x \in I \ {l}
      PROVE  d[x].pChild = w[x].pChild /\ d[x].pNextSibling = w[x].pNextSibling
  <2>1. /\ w[x].pChild = IF m[x].pChild = l THEN m[l].pNextSibling ELSE m[x].pChild
        /\ w[x].pNextSibling = IF m[x].pNextSibling = l THEN m[l].pNextSibling
                                                        ELSE m[x].pNextSibling
    BY DEF Gone, Past
  <2>2. /\ d[x].pChild = IF x = m[l].pParent /\ m[l].pPrevSibling = NULL
                           THEN m[l].pNextSibling ELSE m[x].pChild
        /\ d[x].pNextSibling = IF x = m[l].pPrevSibling THEN m[l].pNextSibling
                                                        ELSE m[x].pNextSibling
    BY <1>2 DEF Unhung
  <2>3. m[x].pChild = l <=> x = m[l].pParent /\ m[l].pPrevSibling = NULL
    BY <1>2 DEF Shape, Family, ChildRight, PrevRight
  <2>4. m[x].pNextSibling = l <=> x = m[l].pPrevSibling
    BY <1>2 DEF Shape, Family, NextRight, PrevRight
  <2> QED
    BY <2>1, <2>2, <2>3, <2>4
<1>4. PICK J : J = I \ {l}
  OBVIOUS
<1>5. Reached(d, r) = J
  <2>1. PICK to : to = [x \in Node |->
             {w[x].pChild, IF x = r THEN NULL ELSE w[x].pNextSibling} \ {NULL}]
    OBVIOUS
  <2>2. PICK from : from = [x \in Node |->
             {d[x].pChild, IF x = r THEN NULL ELSE d[x].pNextSibling} \ {NULL}]
    OBVIOUS
  <2>3. J \in SUBSET Node /\ r \in J
    BY <1>2, <1>4
  <2>4. \A y \in J : to[y] \subseteq J
    <3>1. \A y \in J : /\ w[y].pChild # NULL => w[y].pChild \in J
                       /\ w[y].pNextSibling # NULL => w[y].pNextSibling \in J
      BY <1>1, <1>4 DEF Shape, Family, ChildRight, NextRight
    <3> QED
      BY <2>1, <2>3, <3>1
  <2>5. \A y \in J : from[y] = to[y]
    BY <2>1, <2>2, <2>3, <1>3, <1>4
  <2>6. Closure(r, from) = Closure(r, to)
    BY <2>3, <2>4, <2>5, ClosureSame
  <2>7. Reached(d, r) = Reached(w, r)
    BY <2>1, <2>2, <2>6 DEF Reached
  <2> QED
    BY <2>7, <1>1, <1>4, ReachedAll
<1>6. TreeLevels(d, r, J) = TreeLevels(w, r, J)
  <2>1. \A x \in J : d[x].pParent = w[x].pParent
    BY <1>2, <1>4 DEF Unhung
  <2> QED
    BY <2>1, <1>1, <1>4, LevelsSame
<1> QED
  BY <1>4, <1>5, <1>6

\* The counts are right without a leaf, although only one branch counts levels again.
LEMMA LeafCounts ==
  ASSUME NEW m, NEW r, NEW I, NEW aft, NEW hgt, NEW ord, Shape(m, r, I, aft, hgt, ord),
         NEW info, InfoRight(info, Cardinality(I)), LevelsRight(m, r, I, info),
         NEW l \in I, m[l].pChild = NULL,
         NEW u, u = RemoveLeaf(TreeOf(m, r, info), l)
  PROVE  LeafCounted(r, I, info, l, u)
<1> USE NullAssumption
<1>1. /\ info \in Infos /\ I \in SUBSET Node /\ r \in I
      /\ info.currNumLevels \in Nat /\ info.maxNumLevels \in Nat
      /\ info.currNumLevels <= info.maxNumLevels
      /\ Top(TreeLevels(m, r, I), info.currNumLevels)
  <2>1. info \in Infos /\ I \in SUBSET Node /\ r \in I
    BY DEF InfoRight, Shape, Family, ParentRight
  <2>2. I # {}
    BY <2>1
  <2> QED
    BY <2>1, <2>2 DEF Infos, Count, LevelsRight
<1>2. CASE l = r
  <2>1. I = {r}
    BY <1>2, RootAlone
  <2>2. m[r].pParent = NULL
    BY <1>1 DEF Shape, Family, ParentRight
  <2>3. m[r].pNextSibling = NULL
    <3>1. SUFFICES ASSUME m[r].pNextSibling # NULL PROVE FALSE
      OBVIOUS
    <3>2. ord[r] < ord[r] /\ ord[r] \in Nat
      BY <2>1, <3>1 DEF Shape, Family, NextRight
    <3> QED
      BY <3>2
  <2>4. u = RemoveNode(m, NULL, info, r)
    BY <1>2, <2>2, <2>3 DEF RemoveLeaf, RemoveLast, TreeOf
  <2>5. u.mInfo = InfoRemoveNode(info)
    BY <2>4 DEF RemoveNode, TreeOf
  <2>6. LevelOf(m, r, r) = 1
    BY <1>1, LevelStep
  <2>7. info.currNumLevels = 1
    BY <1>1, <2>1, <2>6 DEF TreeLevels, Top
  <2>8. /\ u.mInfo.maxNumNodes = info.maxNumNodes /\ u.mInfo.maxNumLevels = info.maxNumLevels
        /\ u.mInfo.currNumLevels = info.currNumLevels
    BY <1>1, <2>5, RemoveInfoIs
  <2>9. I \ {l} = {}
    BY <1>2, <2>1
  <2> QED
    BY <1>1, <2>7, <2>8, <2>9 DEF LeafCounted, LevelsRight
<1>3. CASE l # r /\ m[l].pNextSibling = NULL
  <2>1. PICK d : d = DetachLast(m, r, l)
    OBVIOUS
  <2>2. d \in Memory /\ Unhung(m, d, l) /\ HalfSpliced(m, d, r, l)
    BY <1>3, <2>1, DetachLastGone
  <2>3. PICK i : i = InfoRemoveNewLevel(d, r, info)
    OBVIOUS
  <2>4. r \in Node /\ m[l].pParent # NULL
    BY <1>1, <1>3 DEF Shape, Family, ParentRight
  <2>5. InfoRight(i, Cardinality(I))
    BY <2>3, <2>4, RemoveLevelIs
  <2>6. u = RemoveNode(d, r, i, l)
    BY <1>3, <2>1, <2>3, <2>4 DEF RemoveLeaf, RemoveLast, TreeOf
  <2>7. PICK w : w = u.mem
    OBVIOUS
  <2>8. Gone(m, w, I, l)
    BY <1>3, <2>2, <2>6, <2>7, RemoveNodeGone
  <2>9. u.mInfo = InfoRemoveNode(i)
    BY <2>6 DEF RemoveNode, TreeOf
  <2>10. PICK L : L = TreeLevels(w, r, I \ {l})
    OBVIOUS
  <2>11. /\ i.maxNumNodes = info.maxNumNodes /\ i.maxNumLevels = info.maxNumLevels
         /\ i.currNumLevels = Max(L)
    <3>1. TreeLevels(d, r, Reached(d, r)) = L
      BY <1>3, <2>2, <2>8, <2>10, UnhungReached
    <3>2. r # NULL
      BY <2>4
    <3> QED
      BY <1>1, <2>3, <3>1, <3>2, LevelInfoIs
  <2>12. /\ u.mInfo.maxNumNodes = info.maxNumNodes /\ u.mInfo.maxNumLevels = info.maxNumLevels
         /\ u.mInfo.currNumLevels = Max(L)
    <3>1. i \in Infos
      BY <2>5 DEF InfoRight
    <3> QED
      BY <2>9, <2>11, <3>1, RemoveInfoIs
  <2>13. L # {} /\ L \subseteq TreeLevels(m, r, I)
    BY <1>3, <2>8, <2>10, GoneLevels
  <2>14. Top(L, Max(L))
    <3>1. L \in SUBSET Count
      BY <2>10, LevelsAre
    <3> QED
      BY <3>1, <2>13, TopMax
  <2>15. Max(L) \in TreeLevels(m, r, I)
    BY <2>13, <2>14 DEF Top
  <2>16. Max(L) <= info.maxNumLevels
    <3>1. Max(L) <= info.currNumLevels
      BY <1>1, <2>15 DEF Top
    <3>2. Max(L) \in Nat
      BY <2>15, LevelsAre, CountIs DEF Count
    <3> QED
      BY <1>1, <3>1, <3>2
  <2>17. I \ {l} # {}
    BY <1>1, <1>3
  <2>18. LevelsRight(w, r, I \ {l}, u.mInfo)
    BY <2>10, <2>12, <2>14, <2>16, <2>17 DEF LevelsRight
  <2> QED
    BY <2>7, <2>12, <2>18 DEF LeafCounted
<1>4. CASE l # r /\ m[l].pNextSibling # NULL
  <2>1. u = RemoveInner(TreeOf(m, r, info), l)
    BY <1>4 DEF RemoveLeaf, TreeOf
  <2>2. PICK w : w = u.mem
    OBVIOUS
  <2>3. Gone(m, w, I, l)
    BY <1>4, <2>1, <2>2, RemoveInnerGone
  <2>4. u.mInfo = InfoRemoveNode(info)
    BY <2>1 DEF RemoveInner, RemoveNode, TreeOf
  <2>5. /\ u.mInfo.maxNumNodes = info.maxNumNodes /\ u.mInfo.maxNumLevels = info.maxNumLevels
        /\ u.mInfo.currNumLevels = info.currNumLevels
    BY <1>1, <2>4, RemoveInfoIs
  <2>6. TreeLevels(w, r, I \ {l}) = TreeLevels(m, r, I)
    BY <1>4, <2>3, GoneLevels
  <2>7. I \ {l} # {}
    BY <1>1, <1>4
  <2>8. LevelsRight(w, r, I \ {l}, u.mInfo)
    BY <1>1, <2>5, <2>6, <2>7 DEF LevelsRight
  <2> QED
    BY <2>2, <2>5, <2>8 DEF LeafCounted
<1> QED
  BY <1>2, <1>3, <1>4

------------------------------------------------------------------------------
(* The recursion of Remove.                                                *)

\* The first k trees of a removal.
Trees(t, n, k, g) ==
  g = [i \in 0..k |-> IF i = 0 THEN t ELSE RemoveFirstLeaf(g[i - 1], n)]

\* They can be told in one way only.
LEMMA TreesSame ==
  ASSUME NEW t, NEW n, NEW j \in Nat, NEW k \in Nat, j <= k, NEW g, NEW h,
         Trees(t, n, j, g), Trees(t, n, k, h)
  PROVE  \A i \in 0..j : g[i] = h[i]
<1> DEFINE Bad == {i \in Nat : i <= j /\ g[i] # h[i]}
<1>1. SUFFICES ASSUME Bad # {} PROVE FALSE
  OBVIOUS
<1>2. PICK i \in Bad : \A q \in Bad : i <= q
  <2> HIDE DEF Bad
  <2>1. Bad \in SUBSET Nat
    BY DEF Bad
  <2> QED
    BY <1>1, <2>1, LeastIs
<1>3. i \in Nat /\ i <= j /\ g[i] # h[i] /\ i \in 0..j /\ i \in 0..k
  BY <1>2
<1>4. i # 0
  BY <1>3 DEF Trees
<1>5. PICK p \in Nat : p = i - 1 /\ p < i
  BY <1>3, <1>4
<1>6. g[p] = h[p]
  BY <1>2, <1>3, <1>5
<1>7. g[i] = RemoveFirstLeaf(g[i - 1], n) /\ h[i] = RemoveFirstLeaf(h[i - 1], n)
  BY <1>3, <1>4 DEF Trees
<1> QED
  BY <1>3, <1>5, <1>6, <1>7

\* They can be told.
LEMMA TreesExist ==
  ASSUME NEW t, NEW n
  PROVE  \A k \in Nat : \E g : Trees(t, n, k, g)
<1> DEFINE Bad == {k \in Nat : ~ \E g : Trees(t, n, k, g)}
<1>1. SUFFICES ASSUME Bad # {} PROVE FALSE
  OBVIOUS
<1>2. PICK k \in Bad : \A q \in Bad : k <= q
  <2> HIDE DEF Bad
  <2>1. Bad \in SUBSET Nat
    BY DEF Bad
  <2> QED
    BY <1>1, <2>1, LeastIs
<1>3. k \in Nat /\ ~ \E g : Trees(t, n, k, g)
  BY <1>2
<1>4. k # 0
  <2>1. Trees(t, n, 0, [i \in 0..0 |-> t])
    BY DEF Trees
  <2> QED
    BY <1>3, <2>1
<1>5. PICK p \in Nat : p = k - 1 /\ p < k
  BY <1>3, <1>4
<1>6. p \notin Bad
  BY <1>2, <1>3, <1>5
<1>7. PICK g : Trees(t, n, p, g)
  BY <1>6
<1>8. PICK h : h = [i \in 0..k |-> IF i = k THEN RemoveFirstLeaf(g[p], n) ELSE g[i]]
  OBVIOUS
<1>9. ASSUME NEW i \in 0..k
      PROVE  h[i] = IF i = 0 THEN t ELSE RemoveFirstLeaf(h[i - 1], n)
  <2>1. CASE i = k
    <3>1. h[i] = RemoveFirstLeaf(g[p], n) /\ p \in 0..k /\ p # k
      BY <2>1, <1>3, <1>5, <1>8
    <3>2. h[p] = g[p]
      BY <3>1, <1>8
    <3>3. i - 1 = p /\ i # 0
      BY <2>1, <1>4, <1>5, <1>3
    <3> QED
      BY <3>1, <3>2, <3>3
  <2>2. CASE i # k
    <3>1. i \in 0..p /\ h[i] = g[i]
      BY <2>2, <1>3, <1>5, <1>8
    <3>2. g[i] = IF i = 0 THEN t ELSE RemoveFirstLeaf(g[i - 1], n)
      BY <3>1, <1>7 DEF Trees
    <3>3. i # 0 => h[i - 1] = g[i - 1]
      <4>1. i # 0 => i - 1 \in 0..k /\ i - 1 # k
        BY <3>1, <1>3, <1>5
      <4> QED
        BY <4>1, <1>8
    <3> QED
      BY <3>1, <3>2, <3>3
  <2> QED
    BY <2>1, <2>2
<1>10. h = [i \in 0..k |-> IF i = 0 THEN t ELSE RemoveFirstLeaf(h[i - 1], n)]
  BY <1>8, <1>9
<1>11. Trees(t, n, k, h)
  BY <1>10 DEF Trees
<1> QED
  BY <1>3, <1>11

\* All of them.
AllTrees(t, n, after) ==
  after = [k \in Nat |-> IF k = 0 THEN t ELSE RemoveFirstLeaf(after[k - 1], n)]

\* The recursion of Removed is well-founded.
LEMMA AfterExists ==
  ASSUME NEW t, NEW n
  PROVE  \E after : AllTrees(t, n, after)
<1> DEFINE G(k) == CHOOSE g : Trees(t, n, k, g)
<1>1. \A k \in Nat : Trees(t, n, k, G(k))
  BY TreesExist
<1> HIDE DEF G
<1>2. PICK f : f = [k \in Nat |-> G(k)[k]]
  OBVIOUS
<1>3. ASSUME NEW k \in Nat
      PROVE  f[k] = IF k = 0 THEN t ELSE RemoveFirstLeaf(f[k - 1], n)
  <2>1. f[k] = G(k)[k] /\ Trees(t, n, k, G(k)) /\ k \in 0..k
    BY <1>1, <1>2
  <2>2. G(k)[k] = IF k = 0 THEN t ELSE RemoveFirstLeaf(G(k)[k - 1], n)
    BY <2>1 DEF Trees
  <2>3. CASE k # 0
    <3>1. PICK p \in Nat : p = k - 1 /\ p <= k /\ p \in 0..p
      BY <2>3
    <3>2. f[p] = G(p)[p] /\ Trees(t, n, p, G(p))
      BY <1>1, <1>2
    <3>3. G(p)[p] = G(k)[p]
      BY <2>1, <3>1, <3>2, TreesSame
    <3> QED
      BY <2>1, <2>2, <2>3, <3>1, <3>2, <3>3
  <2> QED
    BY <2>1, <2>2, <2>3
<1> QED
  BY <1>2, <1>3 DEF AllTrees

\* Removed is the tree they end with.
LEMMA RemovedIs ==
  ASSUME NEW t, NEW n
  PROVE  \E after : /\ AllTrees(t, n, after)
                    /\ Removed(t, n) = after[Cardinality(Reached(t.mem, n))]
<1> DEFINE a == CHOOSE f : AllTrees(t, n, f)
<1>1. AllTrees(t, n, a)
  BY AfterExists, Zenon
<1>2. Removed(t, n) = a[Cardinality(Reached(t.mem, n))]
  BY Zenon DEF Removed, AllTrees
<1> HIDE DEF a
<1> QED
  BY <1>1, <1>2

------------------------------------------------------------------------------
(* The nodes that Remove takes.                                            *)

\* J is what is left under n: n, and with a node its children and, unless it is n,
\* its next siblings and its parent.
SubtreeIs(m, n, J, I, hgt) ==
  /\ n \in J /\ J \subseteq I
  /\ \A y \in J : m[y].pChild # NULL => m[y].pChild \in J
  /\ \A y \in J \ {n} : /\ m[y].pNextSibling # NULL => m[y].pNextSibling \in J
                        /\ m[y].pParent \in J /\ hgt[m[y].pParent] <= hgt[n]

\* Reached is such a set.
LEMMA ReachedIs ==
  ASSUME NEW m, NEW r, NEW I, NEW aft, NEW hgt, NEW ord, Shape(m, r, I, aft, hgt, ord),
         NEW n \in I
  PROVE  SubtreeIs(m, n, Reached(m, n), I, hgt)
<1> USE NullAssumption DEF Shape
<1> DEFINE to == [x \in Node |->
             {m[x].pChild, IF x = n THEN NULL ELSE m[x].pNextSibling} \ {NULL}]
<1>1. Reached(m, n) = Closure(n, to)
  BY DEF Reached
<1>2. \A y \in I : to[y] \subseteq I
  BY DEF Family, ChildRight, NextRight
<1>3. \A y \in I : /\ m[y].pChild # NULL => m[y].pChild \in to[y]
                   /\ y # n /\ m[y].pNextSibling # NULL => m[y].pNextSibling \in to[y]
  OBVIOUS
<1>4. \A y \in I : \A z \in to[y] :
        \/ z = m[y].pChild /\ z # NULL
        \/ y # n /\ z = m[y].pNextSibling /\ z # NULL
  OBVIOUS
<1> HIDE DEF to
<1>5. PICK C : C = Closure(n, to)
  OBVIOUS
<1>6. C \subseteq I /\ n \in C /\ \A y \in C : to[y] \subseteq C
  BY <1>2, <1>5, ClosureLeast, ClosureClosed, ClosureStart
<1> DEFINE S == {y \in C : y # n => m[y].pParent \in C /\ hgt[m[y].pParent] <= hgt[n]}
<1>7. n \in S /\ S \in SUBSET Node
  BY <1>6
<1>8. ASSUME NEW y \in S, NEW z \in to[y]
      PROVE  z \in S
  <2>1. y \in C /\ y \in I /\ z \in C /\ z \in I
    BY <1>6
  <2>2. CASE z = m[y].pChild /\ z # NULL
    <3>1. m[z].pParent = y
      BY <2>1, <2>2 DEF Family, ChildRight
    <3>2. hgt[y] <= hgt[n]
      <4>1. CASE y = n
        BY <4>1, <2>1
      <4>2. CASE y # n
        <5>1. hgt[m[y].pParent] <= hgt[n] /\ m[y].pParent \in I
          BY <1>6, <4>2
        <5>2. hgt[y] < hgt[m[y].pParent]
          BY <2>1, <5>1 DEF Family, ParentRight
        <5>3. hgt[y] \in Nat /\ hgt[n] \in Nat /\ hgt[m[y].pParent] \in Nat
          BY <2>1, <5>1
        <5> QED
          BY <5>1, <5>2, <5>3
      <4> QED
        BY <4>1, <4>2
    <3> QED
      BY <2>1, <3>1, <3>2
  <2>3. CASE y # n /\ z = m[y].pNextSibling /\ z # NULL
    <3>1. m[z].pParent = m[y].pParent
      BY <2>1, <2>3 DEF Family, NextRight
    <3> QED
      BY <2>1, <2>3, <3>1
  <2> QED
    BY <2>1, <2>2, <2>3, <1>4
<1>9. C \subseteq S
  <2> HIDE DEF S
  <2> QED
    BY <1>5, <1>7, <1>8, ClosureLeast
<1>10. \A y \in C \ {n} : m[y].pParent \in C /\ hgt[m[y].pParent] <= hgt[n]
  BY <1>9
<1>11. \A y \in C : m[y].pChild # NULL => m[y].pChild \in C
  BY <1>3, <1>6
<1>12. \A y \in C \ {n} : m[y].pNextSibling # NULL => m[y].pNextSibling \in C
  BY <1>3, <1>6
<1> QED
  BY <1>1, <1>5, <1>6, <1>10, <1>11, <1>12 DEF SubtreeIs

\* Remove comes to a leaf among them.
LEMMA FirstLeafIs ==
  ASSUME NEW m, NEW r, NEW I, NEW aft, NEW hgt, NEW ord, Shape(m, r, I, aft, hgt, ord),
         NEW n, NEW J, SubtreeIs(m, n, J, I, hgt)
  PROVE  FirstLeaf(m, n) \in J /\ m[FirstLeaf(m, n)].pChild = NULL
<1> USE NullAssumption DEF Shape
<1> DEFINE to == [x \in Node |-> {m[x].pChild} \ {NULL}]
<1>1. FirstLeaf(m, n) = CHOOSE l \in Closure(n, to) : m[l].pChild = NULL
  BY DEF FirstLeaf
<1>2. n \in J /\ J \subseteq I /\ J \in SUBSET Node
  BY DEF SubtreeIs
<1>3. \A y \in J : to[y] \subseteq J
  BY <1>2 DEF SubtreeIs
<1>4. \A y \in J : m[y].pChild # NULL => m[y].pChild \in to[y]
  BY <1>2
<1> HIDE DEF to
<1>5. PICK C : C = Closure(n, to)
  OBVIOUS
<1>6. C \subseteq J /\ n \in C /\ \A y \in C : to[y] \subseteq C
  BY <1>2, <1>3, <1>5, ClosureLeast, ClosureClosed, ClosureStart
<1> DEFINE Heights == {hgt[y] : y \in C}
<1>7. Heights \in SUBSET Nat /\ Heights # {}
  BY <1>2, <1>6
<1>8. PICK l \in C : \A y \in C : hgt[l] <= hgt[y]
  <2> HIDE DEF Heights
  <2>1. PICK h \in Heights : \A g \in Heights : h <= g
    BY <1>7, LeastIs
  <2> QED
    BY <2>1 DEF Heights
<1>9. m[l].pChild = NULL
  <2>1. SUFFICES ASSUME m[l].pChild # NULL PROVE FALSE
    OBVIOUS
  <2>2. PICK c \in C : c = m[l].pChild
    BY <2>1, <1>4, <1>6, <1>8
  <2>3. c \in I /\ l \in I /\ m[c].pParent = l
    BY <2>1, <2>2, <1>2, <1>6 DEF Family, ChildRight
  <2>4. hgt[c] < hgt[l] /\ hgt[c] \in Nat /\ hgt[l] \in Nat
    BY <2>3 DEF Family, ParentRight
  <2> QED
    BY <2>2, <2>4, <1>8
<1>10. \E x \in C : m[x].pChild = NULL
  BY <1>9
<1>11. PICK f : f = CHOOSE x \in C : m[x].pChild = NULL
  OBVIOUS
<1>12. f \in C /\ m[f].pChild = NULL
  BY <1>10, <1>11, Zenon
<1> QED
  BY <1>1, <1>5, <1>6, <1>11, <1>12

\* If n is a leaf itself, it is the only one left.
LEMMA SubtreeAlone ==
  ASSUME NEW m, NEW r, NEW I, NEW aft, NEW hgt, NEW ord, Shape(m, r, I, aft, hgt, ord),
         NEW n, NEW J, SubtreeIs(m, n, J, I, hgt), m[n].pChild = NULL
  PROVE  J = {n}
<1> USE NullAssumption DEF Shape
<1> DEFINE Others == J \ {n}
           Gaps == {g \in Nat : \E x \in Others : g = hgt[n] - hgt[m[x].pParent]}
<1>0. n \in J /\ J \subseteq I /\ n \in Node
  BY DEF SubtreeIs
<1>1. SUFFICES ASSUME Others # {} PROVE FALSE
  BY <1>0
<1>2. \A x \in Others : /\ m[x].pParent \in J /\ hgt[m[x].pParent] <= hgt[n]
                        /\ hgt[m[x].pParent] \in Nat /\ hgt[n] \in Nat
  BY <1>0 DEF SubtreeIs
<1>3. Gaps # {} /\ Gaps \in SUBSET Nat
  <2>1. PICK x \in Others : TRUE
    BY <1>1
  <2>2. hgt[n] - hgt[m[x].pParent] \in Nat
    BY <1>2, <2>1
  <2> QED
    BY <2>1, <2>2
<1>4. PICK g \in Gaps : \A h \in Gaps : g <= h
  <2> HIDE DEF Gaps
  <2> QED
    BY <1>3, LeastIs
<1>5. PICK x \in Others : g = hgt[n] - hgt[m[x].pParent]
  BY <1>4
<1>6. PICK p \in J : p = m[x].pParent
  BY <1>2, <1>5
<1>7. p # n
  BY <1>0, <1>5, <1>6, HasChild
<1>8. p \in Others /\ p \in I
  BY <1>0, <1>7
<1>9. hgt[p] < hgt[m[p].pParent]
  <2>1. p # r
    BY <1>0, <1>2, <1>8 DEF Family, ParentRight
  <2> QED
    BY <1>8, <2>1 DEF Family, ParentRight
<1>10. hgt[n] - hgt[m[p].pParent] \in Gaps
  <2>1. hgt[n] - hgt[m[p].pParent] \in Nat
    BY <1>2, <1>8
  <2> QED
    BY <1>8, <2>1
<1>11. hgt[n] - hgt[p] <= hgt[n] - hgt[m[p].pParent]
  BY <1>4, <1>5, <1>6, <1>10
<1>12. hgt[n] \in Nat /\ hgt[p] \in Nat /\ hgt[m[p].pParent] \in Nat
  BY <1>2, <1>5, <1>6, <1>8
<1> QED
  BY <1>9, <1>11, <1>12

\* Without one of its leaves, other than n, it is such a set again.
LEMMA SubtreeGone ==
  ASSUME NEW m, NEW r, NEW I, NEW aft, NEW hgt, NEW ord, Shape(m, r, I, aft, hgt, ord),
         NEW n, NEW J, SubtreeIs(m, n, J, I, hgt),
         NEW l \in J, l # n, l # r, m[l].pChild = NULL, NEW w, Gone(m, w, I, l)
  PROVE  SubtreeIs(w, n, J \ {l}, I \ {l}, hgt)
<1> USE NullAssumption DEF Shape
<1>0. n \in J /\ J \subseteq I /\ l \in I
  BY DEF SubtreeIs
<1>1. m[l].pNextSibling # NULL => m[l].pNextSibling \in J \ {l}
  BY <1>0, LeafApart DEF SubtreeIs
<1>2. \A x \in I : m[x].pParent # l
  BY <1>0, HasChild
<1>3. ASSUME NEW y \in J \ {l}, w[y].pChild # NULL
      PROVE  w[y].pChild \in J \ {l}
  <2>1. w[y].pChild = IF m[y].pChild = l THEN m[l].pNextSibling ELSE m[y].pChild
    BY <1>0 DEF Gone, Past
  <2> QED
    BY <2>1, <1>1, <1>3 DEF SubtreeIs
<1>4. ASSUME NEW y \in J \ {l, n}
      PROVE  /\ w[y].pNextSibling # NULL => w[y].pNextSibling \in J \ {l}
             /\ w[y].pParent \in J \ {l} /\ hgt[w[y].pParent] <= hgt[n]
  <2>1. /\ w[y].pNextSibling = IF m[y].pNextSibling = l THEN m[l].pNextSibling
                                                       ELSE m[y].pNextSibling
        /\ w[y].pParent = m[y].pParent
    BY <1>0 DEF Gone, Past
  <2> QED
    BY <2>1, <1>0, <1>1, <1>2 DEF SubtreeIs
<1> QED
  BY <1>0, <1>3, <1>4 DEF SubtreeIs
------------------------------------------------------------------------------
(* Removed as a whole.                                                     *)

\* The links form a tree of the nodes in I, or there is none.
Whole(m, r, I) ==
  /\ r \in Node \union {NULL}
  /\ r = NULL => I = {}
  /\ r # NULL => \E aft, hgt, ord : Shape(m, r, I, aft, hgt, ord)

\* Of the nodes that n takes with it those in J are left, and O are the others.
Midway(r, O, hgt, ord, n, J, t) ==
  /\ t = TreeOf(t.mem, t.pRoot, t.mInfo)
  /\ t.mem \in Memory /\ Tidy(t.mem) /\ InfoRight(t.mInfo, Cardinality(O \union J))
  /\ J # {} => /\ t.pRoot = r /\ SubtreeIs(t.mem, n, J, O \union J, hgt)
               /\ \E aft : Shape(t.mem, r, O \union J, aft, hgt, ord)
  /\ J = {} => Whole(t.mem, t.pRoot, O) /\ t.pRoot = IF n = r THEN NULL ELSE r

\* What is left keeps its places, the maxima stay, and the levels are counted.
Kept(m, r, i, K, t) ==
  /\ t.mInfo.maxNumNodes = i.maxNumNodes /\ t.mInfo.maxNumLevels = i.maxNumLevels
  /\ SamePlaces(m, t.mem, K) /\ LevelsRight(t.mem, r, K, t.mInfo)

\* A leaf that goes keeps the others so.
LEMMA KeptOn ==
  ASSUME NEW m, NEW r, NEW I, NEW aft, NEW hgt, NEW ord, NEW t,
         Shape(t.mem, r, I, aft, hgt, ord), t = TreeOf(t.mem, r, t.mInfo),
         InfoRight(t.mInfo, Cardinality(I)), NEW l \in I, t.mem[l].pChild = NULL,
         NEW i, Kept(m, r, i, I, t), NEW u, u = RemoveLeaf(TreeOf(t.mem, r, t.mInfo), l),
         LeafRemoved(t.mem, r, I, aft, hgt, ord, l, u)
  PROVE  Kept(m, r, i, I \ {l}, u)
<1>1. LeafCounted(r, I, t.mInfo, l, u)
  BY LeafCounts DEF Kept
<1>2. SamePlaces(t.mem, u.mem, I \ {l})
  <2>1. CASE l = r
    <3>1. I \ {l} = {}
      BY <2>1 DEF LeafRemoved
    <3> QED
      BY <3>1 DEF SamePlaces
  <2>2. CASE l # r
    BY <2>2, GoneSame DEF LeafRemoved
  <2> QED
    BY <2>1, <2>2
<1>3. SamePlaces(m, u.mem, I \ {l})
  <2>1. SamePlaces(m, t.mem, I)
    BY DEF Kept
  <2> QED
    BY <1>2, <2>1 DEF SamePlaces
<1> QED
  BY <1>1, <1>3 DEF Kept, LeafCounted

\* One leaf of them goes.
LEMMA MidwayStep ==
  ASSUME NEW m, NEW r, NEW O, NEW hgt, NEW ord, NEW n, NEW J, NEW t,
         Midway(r, O, hgt, ord, n, J, t), J # {}, O \intersect J = {},
         NEW B, O \union J \subseteq B, Apart(m, t.mem, B),
         NEW i, Kept(m, r, i, O \union J, t)
  PROVE  \E l \in J : /\ Midway(r, O, hgt, ord, n, J \ {l}, RemoveFirstLeaf(t, n))
                      /\ Apart(m, RemoveFirstLeaf(t, n).mem, B)
                      /\ Kept(m, r, i, O \union (J \ {l}), RemoveFirstLeaf(t, n))
<1> USE NullAssumption
<1> DEFINE I == O \union J
<1>1. PICK aft : Shape(t.mem, r, I, aft, hgt, ord)
  BY DEF Midway
<1>2. SubtreeIs(t.mem, n, J, I, hgt) /\ t.pRoot = r /\ Tidy(t.mem) /\ t.mem \in Memory
      /\ InfoRight(t.mInfo, Cardinality(I)) /\ t = TreeOf(t.mem, r, t.mInfo)
  BY DEF Midway
<1>3. PICK l \in J : l = FirstLeaf(t.mem, n) /\ t.mem[l].pChild = NULL
  BY <1>1, <1>2, FirstLeafIs
<1>4. I \ {l} = O \union (J \ {l}) /\ l \in I /\ r \in I /\ n \in J /\ r \in Node
      /\ I \subseteq Node
  BY <1>1, <1>2 DEF Shape, Family, ParentRight, SubtreeIs
<1> HIDE DEF I
<1>5. PICK u : u = RemoveFirstLeaf(t, n)
  OBVIOUS
<1>6. u = RemoveLeaf(TreeOf(t.mem, r, t.mInfo), l)
  BY <1>2, <1>3, <1>5 DEF RemoveFirstLeaf
<1>7. LeafRemoved(t.mem, r, I, aft, hgt, ord, l, u)
  <2>1. CASE l # r
    BY <2>1, <1>1, <1>2, <1>3, <1>4, <1>6, RemoveLeafBelow
  <2>2. CASE l = r
    BY <2>2, <1>1, <1>2, <1>3, <1>6, RemoveLeafRoot
  <2> QED
    BY <2>1, <2>2
<1>8. /\ u = TreeOf(u.mem, u.pRoot, u.mInfo) /\ u.mem \in Memory /\ Tidy(u.mem)
      /\ InfoRight(u.mInfo, Cardinality(O \union (J \ {l})))
  BY <1>4, <1>7 DEF LeafRemoved
<1>9. Apart(m, u.mem, B)
  BY <1>7 DEF LeafRemoved, Apart, I
<1>10. J \ {l} # {} => l # n
  BY <1>1, <1>2, <1>3, SubtreeAlone
<1>11. l # n => l # r
  <2>1. SUFFICES ASSUME l # n, l = r PROVE FALSE
    OBVIOUS
  <2>2. t.mem[l].pParent \in J /\ J \subseteq Node
    BY <2>1, <1>2, <1>4 DEF SubtreeIs
  <2>3. t.mem[l].pParent = NULL
    BY <2>1, <1>1 DEF Shape, Family, ParentRight
  <2> QED
    BY <2>2, <2>3
<1>12. J \ {l} # {} => /\ u.pRoot = r /\ SubtreeIs(u.mem, n, J \ {l}, O \union (J \ {l}), hgt)
                      /\ \E af : Shape(u.mem, r, O \union (J \ {l}), af, hgt, ord)
  <2>1. SUFFICES ASSUME J \ {l} # {}
                 PROVE  /\ u.pRoot = r /\ SubtreeIs(u.mem, n, J \ {l}, O \union (J \ {l}), hgt)
                        /\ \E af : Shape(u.mem, r, O \union (J \ {l}), af, hgt, ord)
    OBVIOUS
  <2>2. l # n /\ l # r
    BY <2>1, <1>10, <1>11
  <2>3. /\ u.pRoot = r /\ Gone(t.mem, u.mem, I, l)
        /\ Shape(u.mem, r, I \ {l}, AftPast(aft, l), hgt, ord)
    BY <2>2, <1>7 DEF LeafRemoved
  <2>4. SubtreeIs(u.mem, n, J \ {l}, I \ {l}, hgt)
    BY <2>2, <2>3, <1>1, <1>2, <1>3, SubtreeGone
  <2> QED
    BY <2>3, <2>4, <1>4
<1>13. J \ {l} = {} => Whole(u.mem, u.pRoot, O) /\ u.pRoot = IF n = r THEN NULL ELSE r
  <2>1. SUFFICES ASSUME J = {l}
                 PROVE  Whole(u.mem, u.pRoot, O) /\ u.pRoot = IF n = r THEN NULL ELSE r
    OBVIOUS
  <2>0. l = n
    BY <2>1, <1>4
  <2>2. CASE l # r
    <3>1. u.pRoot = r /\ Shape(u.mem, r, I \ {l}, AftPast(aft, l), hgt, ord)
      BY <2>2, <1>7 DEF LeafRemoved
    <3>2. I \ {l} = O
      BY <2>1 DEF I
    <3> QED
      BY <2>0, <2>2, <3>1, <3>2, <1>4 DEF Whole
  <2>3. CASE l = r
    <3>1. u.pRoot = NULL /\ I = {l}
      BY <2>3, <1>7 DEF LeafRemoved
    <3>2. O = {}
      BY <2>1, <3>1 DEF I
    <3> QED
      BY <2>0, <2>3, <3>1, <3>2 DEF Whole
  <2> QED
    BY <2>2, <2>3
<1>14. Kept(m, r, i, O \union (J \ {l}), u)
  <2>1. Kept(m, r, i, I, t)
    BY DEF I
  <2>2. Kept(m, r, i, I \ {l}, u)
    BY <2>1, <1>1, <1>2, <1>3, <1>4, <1>6, <1>7, KeptOn
  <2> QED
    BY <2>2, <1>4
<1> QED
  BY <1>5, <1>8, <1>9, <1>12, <1>13, <1>14 DEF Midway, I

\* Remove takes what Reached says, and leaves a tree.
LEMMA RemovedShape ==
  ASSUME NEW m, NEW r, NEW I, NEW aft, NEW hgt, NEW ord, Shape(m, r, I, aft, hgt, ord), Tidy(m),
         NEW info, InfoRight(info, Cardinality(I)), LevelsRight(m, r, I, info), NEW n \in I,
         NEW t, t = Removed(TreeOf(m, r, info), n)
  PROVE  /\ t.mem \in Memory /\ Tidy(t.mem) /\ Apart(m, t.mem, I)
         /\ InfoRight(t.mInfo, Cardinality(I \ Reached(m, n)))
         /\ Whole(t.mem, t.pRoot, I \ Reached(m, n))
         /\ t.pRoot = IF n = r THEN NULL ELSE r
         /\ Kept(m, r, info, I \ Reached(m, n), t)
<1> DEFINE O == I \ Reached(m, n)
<1>0. SubtreeIs(m, n, Reached(m, n), I, hgt)
  BY ReachedIs
<1>1. /\ O \union Reached(m, n) = I /\ Reached(m, n) # {} /\ Reached(m, n) \in SUBSET Node
      /\ \A J \in SUBSET Reached(m, n) : O \intersect J = {} /\ O \union J \subseteq I
  BY <1>0 DEF SubtreeIs, Shape
<1> HIDE DEF O
<1>2. PICK c \in Nat : c = Cardinality(Reached(m, n))
  BY <1>1, CountIs DEF Count
<1>3. PICK after : /\ AllTrees(TreeOf(m, r, info), n, after)
                   /\ t = after[c]
  <2>1. TreeOf(m, r, info).mem = m
    BY DEF TreeOf
  <2> QED
    BY <1>2, <2>1, RemovedIs
<1>4. after[0] = TreeOf(m, r, info) /\ \A k \in Nat \ {0} : after[k] = RemoveFirstLeaf(after[k - 1], n)
  BY <1>3 DEF AllTrees
<1> DEFINE Right(k, J) == /\ J \in SUBSET Reached(m, n) /\ Cardinality(J) = c - k
                         /\ Midway(r, O, hgt, ord, n, J, after[k]) /\ Apart(m, after[k].mem, I)
                         /\ Kept(m, r, info, O \union J, after[k])
           Bad == {k \in Nat : k <= c /\ ~ \E J : Right(k, J)}
<1>5. Bad = {}
  <2>1. SUFFICES ASSUME Bad # {} PROVE FALSE
    OBVIOUS
  <2>2. PICK k \in Bad : \A q \in Bad : k <= q
    <3> HIDE DEF Bad
    <3>1. Bad \in SUBSET Nat
      BY DEF Bad
    <3> QED
      BY <2>1, <3>1, LeastIs
  <2>3. k \in Nat /\ k <= c /\ ~ \E J : Right(k, J)
    BY <2>2
  <2>4. k # 0
    <3>1. Midway(r, O, hgt, ord, n, Reached(m, n), TreeOf(m, r, info))
      BY <1>0, <1>1 DEF Midway, TreeOf, Shape
    <3>2. Apart(m, TreeOf(m, r, info).mem, I)
      BY DEF Apart, TreeOf
    <3>3. Cardinality(Reached(m, n)) = c - 0
      BY <1>2
    <3>4. Kept(m, r, info, O \union Reached(m, n), TreeOf(m, r, info))
      BY <1>1 DEF Kept, TreeOf, SamePlaces
    <3>5. PICK J : J = Reached(m, n)
      OBVIOUS
    <3>6. /\ J \in SUBSET Reached(m, n) /\ Cardinality(J) = c - 0
          /\ Midway(r, O, hgt, ord, n, J, after[0]) /\ Apart(m, after[0].mem, I)
          /\ Kept(m, r, info, O \union J, after[0])
      BY <1>1, <1>4, <3>1, <3>2, <3>3, <3>4, <3>5
    <3>7. Right(0, J)
      BY <3>6
    <3> HIDE DEF Right
    <3> QED
      BY <2>3, <3>7
  <2>5. PICK p \in Nat : p = k - 1 /\ p < k /\ k = p + 1 /\ p < c
    BY <2>3, <2>4
  <2>6. p <= c /\ ~ (k <= p)
    BY <2>3, <2>5
  <2>7. PICK J : Right(p, J)
    <3> HIDE DEF Right
    <3>1. p \notin Bad
      <4> HIDE DEF Bad
      <4> QED
        BY <2>2, <2>6
    <3> QED
      BY <2>6, <3>1
  <2>8. J \in SUBSET Reached(m, n) /\ Cardinality(J) = c - p
        /\ Midway(r, O, hgt, ord, n, J, after[p]) /\ Apart(m, after[p].mem, I)
        /\ Kept(m, r, info, O \union J, after[p])
    BY <2>7
  <2>9. IsFiniteSet(J) /\ O \union J \subseteq I /\ O \intersect J = {}
    BY <2>8, <1>1, CountIs
  <2>10. J # {}
    <3>1. c - p # 0
      BY <2>5
    <3> QED
      BY <2>8, <3>1, FS_EmptySet
  <2>11. PICK l \in J : /\ Midway(r, O, hgt, ord, n, J \ {l}, RemoveFirstLeaf(after[p], n))
                       /\ Apart(m, RemoveFirstLeaf(after[p], n).mem, I)
                       /\ Kept(m, r, info, O \union (J \ {l}), RemoveFirstLeaf(after[p], n))
    BY <2>8, <2>9, <2>10, MidwayStep
  <2>12. after[k] = RemoveFirstLeaf(after[p], n)
    BY <1>4, <2>3, <2>4, <2>5
  <2>13. Cardinality(J \ {l}) = c - k
    <3>1. Cardinality(J \ {l}) = Cardinality(J) - 1
      BY <2>9, FS_RemoveElement
    <3>2. (c - p) - 1 = c - k
      BY <2>3, <2>5
    <3> QED
      BY <2>8, <3>1, <3>2
  <2>14. J \ {l} \in SUBSET Reached(m, n)
    BY <2>8
  <2>15. Right(k, J \ {l})
    BY <2>11, <2>12, <2>13, <2>14
  <2> HIDE DEF Right
  <2> QED
    BY <2>3, <2>15
<1>6. PICK J : Right(c, J)
  <2> HIDE DEF Right
  <2> QED
    BY <1>2, <1>5
<1>7. J = {}
  <2>1. Cardinality(J) = c - c /\ c - c = 0 /\ IsFiniteSet(J)
    BY <1>1, <1>2, <1>6, CountIs
  <2> QED
    BY <2>1, FS_EmptySet
<1>8. O \union J = O
  BY <1>7
<1>9. Midway(r, O, hgt, ord, n, J, t) /\ Apart(m, t.mem, I) /\ Kept(m, r, info, O, t)
  BY <1>3, <1>6, <1>8
<1>10. /\ t.mem \in Memory /\ Tidy(t.mem) /\ InfoRight(t.mInfo, Cardinality(O))
       /\ Whole(t.mem, t.pRoot, O) /\ t.pRoot = IF n = r THEN NULL ELSE r
  BY <1>7, <1>8, <1>9 DEF Midway
<1> QED
  BY <1>9, <1>10 DEF O
------------------------------------------------------------------------------
(* A node is hung in as the first child of p.                              *)

Hung(m, w, r, n, p) ==
  /\ w \in Memory
  /\ w[n].pParent = p /\ w[n].pChild = NULL /\ w[n].pNextSibling = m[p].pChild
  /\ w[n].pPrevSibling = NULL /\ w[n].pReverse = p
  /\ \/ w[n].pForward = m[p].pForward
     \/ m[p].pForward = NULL /\ w[n].pForward \notin Node
  /\ m[p].pForward = NULL /\ m[p].pChild = NULL => w[r].pReverse = n
  /\ \A x \in Node \ {n} :
       /\ w[x].pParent = m[x].pParent /\ w[x].pNextSibling = m[x].pNextSibling
       /\ w[x].pChild = IF x = p THEN n ELSE m[x].pChild
       /\ w[x].pPrevSibling = IF x = m[p].pChild THEN n ELSE m[x].pPrevSibling
       /\ w[x].pForward = IF x = p THEN n ELSE m[x].pForward
       /\ x = m[p].pForward => w[x].pReverse = n
       /\ x # m[p].pForward => \/ w[x].pReverse = m[x].pReverse
                               \/ /\ x = r /\ w[x].pReverse = n
                                  /\ m[p].pForward = NULL /\ m[p].pChild = NULL

\* With the new node: it is on no one's way, lowest and first among its siblings.
AftNew(m, aft, n, p) ==
  [aft EXCEPT ![n] = IF m[p].pChild = NULL THEN aft[p] ELSE m[p].pChild]
Raised(hgt, n) == [x \in Node |-> IF x = n THEN 0 ELSE hgt[x] + 1]


\* How Raised raises.
RaisedOver(h, g, I, n) == g[n] = 0 /\ \A x \in I : g[x] = h[x] + 1 /\ h[x] \in Nat

\* And it does.
LEMMA RaisedIs ==
  ASSUME NEW h \in [Node -> Nat], NEW n \in Node, NEW I, I \subseteq Node, n \notin I
  PROVE  RaisedOver(h, Raised(h, n), I, n)
  BY DEF Raised, RaisedOver

\* A tree with one node more is a tree.
LEMMA HungFamily ==
  ASSUME NEW m, NEW r, NEW I, NEW aft, NEW hgt, NEW ord, Shape(m, r, I, aft, hgt, ord),
         NEW n \in Node \ I, NEW p \in I, NEW w, Hung(m, w, r, n, p)
  PROVE  Family(w, r, I \union {n}, Raised(hgt, n), Raised(ord, n))
<1> USE NullAssumption DEF Shape
<1>0. p \in Node /\ p # n /\ r \in I /\ r # n /\ n # NULL /\ I \subseteq Node
  BY DEF Family, ParentRight
<1>1. PICK hg : /\ hg = Raised(hgt, n) /\ hg[n] = 0
                /\ \A x \in I : hg[x] = hgt[x] + 1 /\ hgt[x] \in Nat
  <2>1. PICK hg : hg = Raised(hgt, n)
    OBVIOUS
  <2>2. RaisedOver(hgt, hg, I, n)
    BY <1>0, <2>1, RaisedIs
  <2> QED
    BY <2>1, <2>2 DEF RaisedOver
<1>2. PICK od : /\ od = Raised(ord, n) /\ od[n] = 0
                /\ \A x \in I : od[x] = ord[x] + 1 /\ ord[x] \in Nat
  <2>1. PICK od : od = Raised(ord, n)
    OBVIOUS
  <2>2. RaisedOver(ord, od, I, n)
    BY <1>0, <2>1, RaisedIs
  <2> QED
    BY <2>1, <2>2 DEF RaisedOver
<1>3. PICK C \in I \union {NULL} : C = m[p].pChild
  BY DEF Family, ChildRight
<1>4. C # NULL => m[C].pParent = p /\ m[C].pPrevSibling = NULL
  BY <1>3 DEF Family, ChildRight
<1>5. ParentRight(w, r, I \union {n}, hg)
  <2>1. ASSUME NEW x \in I
        PROVE  /\ w[x].pParent = NULL <=> x = r
               /\ x # r => w[x].pParent \in I /\ hg[x] < hg[w[x].pParent] /\ hg[x] < hg[r]
    <3>1. w[x].pParent = m[x].pParent
      BY <1>0 DEF Hung
    <3>2. /\ m[x].pParent = NULL <=> x = r
          /\ x # r => m[x].pParent \in I /\ hgt[x] < hgt[m[x].pParent] /\ hgt[x] < hgt[r]
      BY DEF Family, ParentRight
    <3> QED
      BY <3>1, <3>2, <1>0, <1>1
  <2>2. w[n].pParent = p /\ p # NULL /\ hg[n] < hg[p] /\ hg[n] < hg[r]
    BY <1>0, <1>1 DEF Hung
  <2> QED
    BY <2>1, <2>2, <1>0 DEF ParentRight
<1>6. NextRight(w, I \union {n}, od)
  <2>1. ASSUME NEW x \in I, w[x].pNextSibling # NULL
        PROVE  /\ w[x].pNextSibling \in I /\ od[x] < od[w[x].pNextSibling]
               /\ w[w[x].pNextSibling].pPrevSibling = x
               /\ w[w[x].pNextSibling].pParent = w[x].pParent
    <3>1. w[x].pNextSibling = m[x].pNextSibling /\ w[x].pParent = m[x].pParent
      BY <1>0 DEF Hung
    <3>2. PICK y \in I : y = m[x].pNextSibling
      BY <2>1, <3>1 DEF Family, NextRight
    <3>3. ord[x] < ord[y] /\ m[y].pPrevSibling = x /\ m[y].pParent = m[x].pParent
      BY <2>1, <3>1, <3>2 DEF Family, NextRight
    <3>4. y # C
      BY <1>0, <1>4, <3>3
    <3>5. w[y].pPrevSibling = x /\ w[y].pParent = m[y].pParent
      BY <1>0, <1>3, <3>3, <3>4 DEF Hung
    <3>6. od[x] < od[y]
      BY <1>2, <3>3
    <3> QED
      BY <3>1, <3>2, <3>3, <3>5, <3>6
  <2>2. w[n].pNextSibling = C /\ w[n].pParent = p
    BY <1>3 DEF Hung
  <2>3. C # NULL => C \in I /\ od[n] < od[C] /\ w[C].pPrevSibling = n /\ w[C].pParent = p
    BY <1>0, <1>2, <1>3, <1>4 DEF Hung
  <2> QED
    BY <2>1, <2>2, <2>3 DEF NextRight
<1>7. PrevRight(w, r, I \union {n})
  <2>1. ASSUME NEW x \in I
        PROVE  /\ w[x].pPrevSibling # NULL => /\ w[x].pPrevSibling \in I \union {n}
                                             /\ w[w[x].pPrevSibling].pNextSibling = x
               /\ w[x].pPrevSibling = NULL /\ x # r => w[w[x].pParent].pChild = x
    <3>1. w[x].pParent = m[x].pParent
      BY <1>0 DEF Hung
    <3>2. CASE x = C
      <4>1. w[x].pPrevSibling = n /\ w[n].pNextSibling = C
        BY <1>0, <1>3, <3>2 DEF Hung
      <4> QED
        BY <1>0, <3>2, <4>1
    <3>3. CASE x # C
      <4>1. w[x].pPrevSibling = m[x].pPrevSibling
        BY <1>0, <1>3, <3>3 DEF Hung
      <4>2. m[x].pPrevSibling # NULL => /\ m[x].pPrevSibling \in I
                                       /\ w[m[x].pPrevSibling].pNextSibling = x
        BY <1>0 DEF Family, PrevRight, Hung
      <4>3. m[x].pPrevSibling = NULL /\ x # r => m[m[x].pParent].pChild = x /\ m[x].pParent \in I
        BY DEF Family, PrevRight, ParentRight
      <4>4. m[x].pPrevSibling = NULL /\ x # r => w[m[x].pParent].pChild = x
        BY <4>3, <3>3, <1>0, <1>3 DEF Hung
      <4> QED
        BY <3>1, <4>1, <4>2, <4>4
    <3> QED
      BY <3>2, <3>3
  <2>2. w[n].pPrevSibling = NULL /\ w[n].pParent = p /\ w[p].pChild = n
    BY <1>0 DEF Hung
  <2> QED
    BY <2>1, <2>2 DEF PrevRight
<1>8. ChildRight(w, I \union {n})
  <2>1. ASSUME NEW x \in I, w[x].pChild # NULL
        PROVE  /\ w[x].pChild \in I \union {n} /\ w[w[x].pChild].pParent = x
               /\ w[w[x].pChild].pPrevSibling = NULL
    <3>1. CASE x = p
      BY <3>1, <1>0 DEF Hung
    <3>2. CASE x # p
      <4>1. w[x].pChild = m[x].pChild
        BY <3>2, <1>0 DEF Hung
      <4>2. PICK y \in I : y = m[x].pChild
        BY <2>1, <4>1 DEF Family, ChildRight
      <4>3. m[y].pParent = x /\ m[y].pPrevSibling = NULL
        BY <2>1, <4>1, <4>2 DEF Family, ChildRight
      <4>4. y # C
        BY <1>0, <1>4, <3>2, <4>3
      <4>5. w[y].pParent = x /\ w[y].pPrevSibling = NULL
        BY <1>0, <1>3, <4>3, <4>4 DEF Hung
      <4> QED
        BY <4>1, <4>2, <4>5
    <3> QED
      BY <3>1, <3>2
  <2>2. w[n].pChild = NULL
    BY DEF Hung
  <2> QED
    BY <2>1, <2>2 DEF ChildRight
<1> QED
  BY <1>1, <1>2, <1>5, <1>6, <1>7, <1>8 DEF Family

\* Its threads too.
LEMMA HungThreads ==
  ASSUME NEW m, NEW r, NEW I, NEW aft, NEW hgt, NEW ord, Shape(m, r, I, aft, hgt, ord),
         NEW n \in Node \ I, NEW p \in I, NEW w, Hung(m, w, r, n, p)
  PROVE  Threads(w, r, I \union {n}, AftNew(m, aft, n, p), Raised(hgt, n))
<1> USE NullAssumption DEF Shape
<1>0. p \in Node /\ p # n /\ r \in I /\ r # n /\ n # NULL /\ I \subseteq Node
  BY DEF Family, ParentRight
<1>1. PICK hg : /\ hg = Raised(hgt, n) /\ hg[n] = 0
                /\ \A x \in I : hg[x] = hgt[x] + 1 /\ hgt[x] \in Nat
  <2>1. PICK hg : hg = Raised(hgt, n)
    OBVIOUS
  <2>2. RaisedOver(hgt, hg, I, n)
    BY <1>0, <2>1, RaisedIs
  <2> QED
    BY <2>1, <2>2 DEF RaisedOver
<1>2. PICK C \in I \union {NULL} : C = m[p].pChild
  BY DEF Family, ChildRight
<1>3. C # NULL => m[C].pParent = p /\ m[C].pPrevSibling = NULL /\ m[p].pForward = C
  BY <1>2 DEF Family, ChildRight, Threads, FollowRight
<1>4. PICK af : /\ af = AftNew(m, aft, n, p) /\ \A x \in I : af[x] = aft[x]
                /\ af[n] = IF C = NULL THEN aft[p] ELSE C
  <2>1. PICK af : af = AftNew(m, aft, n, p)
    OBVIOUS
  <2>2. \A x \in I : af[x] = aft[x]
    BY <1>0, <2>1 DEF AftNew
  <2>3. af[n] = IF C = NULL THEN aft[p] ELSE C
    BY <1>0, <1>2, <2>1 DEF AftNew
  <2> QED
    BY <2>1, <2>2, <2>3
<1>5. PICK F : F = m[p].pForward
  OBVIOUS
<1>6. F \in Node => F \in I /\ F # r /\ m[F].pReverse = p
  BY <1>5 DEF Threads, ForwardRight
<1>7. C = NULL => /\ aft[p] # NULL => F = aft[p]
                  /\ aft[p] = NULL => F \notin Node
  BY <1>2, <1>5 DEF Threads, FollowRight
<1>8. ReverseRight(w, r, I \union {n})
  <2>1. ASSUME NEW x \in I, x # r
        PROVE  w[x].pReverse \in I \union {n} /\ w[w[x].pReverse].pForward = x
    <3>1. CASE x = F
      <4>1. w[x].pReverse = n /\ w[n].pForward = F
        BY <3>1, <1>0, <1>5 DEF Hung
      <4> QED
        BY <3>1, <4>1
    <3>2. CASE x # F
      <4>1. w[x].pReverse = m[x].pReverse
        BY <2>1, <3>2, <1>0, <1>5 DEF Hung
      <4>2. m[x].pReverse \in I /\ m[m[x].pReverse].pForward = x
        BY <2>1 DEF Threads, ReverseRight
      <4>3. m[x].pReverse # p
        BY <3>2, <4>2, <1>5
      <4>4. w[m[x].pReverse].pForward = x
        BY <4>2, <4>3, <1>0 DEF Hung
      <4> QED
        BY <4>1, <4>2, <4>4
    <3> QED
      BY <3>1, <3>2
  <2>2. w[n].pReverse = p /\ w[p].pForward = n
    BY <1>0 DEF Hung
  <2> QED
    BY <2>1, <2>2 DEF ReverseRight
<1>9. ForwardRight(w, r, I \union {n})
  <2>1. ASSUME NEW x \in I, w[x].pForward \in Node
        PROVE  /\ w[x].pForward \in I \union {n} /\ w[x].pForward # r
               /\ w[w[x].pForward].pReverse = x
    <3>1. CASE x = p
      BY <3>1, <1>0 DEF Hung
    <3>2. CASE x # p
      <4>1. w[x].pForward = m[x].pForward
        BY <3>2, <1>0 DEF Hung
      <4>2. /\ m[x].pForward \in I /\ m[x].pForward # r
            /\ m[m[x].pForward].pReverse = x
        BY <2>1, <4>1 DEF Threads, ForwardRight
      <4>3. m[x].pForward # F
        BY <3>2, <4>2, <1>6, <1>0
      <4>4. w[m[x].pForward].pReverse = x
        BY <4>2, <4>3, <1>0, <1>5 DEF Hung
      <4> QED
        BY <4>1, <4>2, <4>4
    <3> QED
      BY <3>1, <3>2
  <2>2. w[n].pForward \in Node => w[n].pForward = F
    BY <1>5 DEF Hung
  <2>3. F \in Node => w[F].pReverse = n /\ F \in I /\ F # r
    BY <1>0, <1>5, <1>6 DEF Hung
  <2> QED
    BY <2>1, <2>2, <2>3 DEF ForwardRight
<1>10. FollowRight(w, I \union {n}, af)
  <2>1. ASSUME NEW x \in I
        PROVE  /\ w[x].pChild # NULL => w[x].pForward = w[x].pChild
               /\ w[x].pChild = NULL /\ af[x] # NULL => w[x].pForward = af[x]
               /\ w[x].pChild = NULL /\ af[x] = NULL => w[x].pForward \notin Node
    <3>1. CASE x = p
      BY <3>1, <1>0 DEF Hung
    <3>2. CASE x # p
      <4>1. w[x].pForward = m[x].pForward /\ w[x].pChild = m[x].pChild /\ af[x] = aft[x]
        BY <3>2, <1>0, <1>4 DEF Hung
      <4>2. /\ m[x].pChild # NULL => m[x].pForward = m[x].pChild
            /\ m[x].pChild = NULL /\ aft[x] # NULL => m[x].pForward = aft[x]
            /\ m[x].pChild = NULL /\ aft[x] = NULL => m[x].pForward \notin Node
        BY DEF Threads, FollowRight
      <4> QED
        BY <4>1, <4>2
    <3> QED
      BY <3>1, <3>2
  <2>2. w[n].pChild = NULL /\ (w[n].pForward = F \/ (F = NULL /\ w[n].pForward \notin Node))
    BY <1>5 DEF Hung
  <2>3. aft[p] \in Node \union {NULL}
    BY <1>0
  <2>4. /\ af[n] # NULL => w[n].pForward = af[n]
        /\ af[n] = NULL => w[n].pForward \notin Node
    <3>1. CASE C = NULL
      BY <3>1, <2>2, <2>3, <1>4, <1>7
    <3>2. CASE C # NULL
      BY <3>2, <2>2, <1>3, <1>4, <1>5
    <3> QED
      BY <3>1, <3>2
  <2> QED
    BY <2>1, <2>2, <2>4 DEF FollowRight
<1>11. AfterRight(w, r, I \union {n}, af)
  <2>1. ASSUME NEW x \in I
        PROVE  /\ w[x].pNextSibling # NULL => af[x] = w[x].pNextSibling
               /\ w[x].pNextSibling = NULL /\ x # r => af[x] = af[w[x].pParent]
               /\ x = r => af[x] = NULL
    <3>1. w[x].pNextSibling = m[x].pNextSibling /\ w[x].pParent = m[x].pParent
      BY <1>0 DEF Hung
    <3>2. x # r => m[x].pParent \in I
      BY DEF Family, ParentRight
    <3>3. /\ m[x].pNextSibling # NULL => aft[x] = m[x].pNextSibling
          /\ m[x].pNextSibling = NULL /\ x # r => aft[x] = aft[m[x].pParent]
          /\ x = r => aft[x] = NULL
      BY DEF Threads, AfterRight
    <3> QED
      BY <3>1, <3>2, <3>3, <1>4
  <2>2. w[n].pNextSibling = C /\ w[n].pParent = p
    BY <1>2 DEF Hung
  <2> QED
    BY <2>1, <2>2, <1>0, <1>4 DEF AfterRight
<1>12. AfterHigher(w, r, I \union {n}, af, hg)
  <2>0. \A x \in I : aft[x] # NULL => /\ aft[x] \in I /\ aft[x] # r
                                      /\ hgt[x] < hgt[m[aft[x]].pParent]
                                      /\ m[aft[x]].pParent \in I
                                      /\ w[aft[x]].pParent = m[aft[x]].pParent
    BY <1>0 DEF Threads, AfterHigher, Family, ParentRight, Hung
  <2>1. ASSUME NEW x \in I, af[x] # NULL
        PROVE  af[x] \in I /\ af[x] # r /\ hg[x] < hg[w[af[x]].pParent]
    BY <2>0, <2>1, <1>1, <1>4
  <2>2. ASSUME af[n] # NULL
        PROVE  af[n] \in I /\ af[n] # r /\ hg[n] < hg[w[af[n]].pParent]
    <3>1. CASE C = NULL
      BY <3>1, <2>0, <2>2, <1>1, <1>4
    <3>2. CASE C # NULL
      <4>1. C # r
        BY <3>2, <1>0, <1>3 DEF Family, ParentRight
      <4>2. w[C].pParent = p
        BY <3>2, <1>0, <1>2, <1>3 DEF Hung
      <4> QED
        BY <3>2, <4>1, <4>2, <1>1, <1>4
    <3> QED
      BY <3>1, <3>2
  <2> QED
    BY <2>1, <2>2 DEF AfterHigher
<1>13. LastRight(w, r, I \union {n}, af)
  <2>0. /\ m[r].pReverse \in I \union {NULL}
        /\ m[r].pReverse # NULL => aft[m[r].pReverse] = NULL
        /\ TameThreads => IF m[r].pReverse = NULL THEN m[r].pChild = NULL
                                                  ELSE m[m[r].pReverse].pChild = NULL
    BY DEF Threads, LastRight
  <2>1. r # F /\ r \in Node \ {n}
    BY <1>0, <1>6
  <2>2. \/ w[r].pReverse = m[r].pReverse
        \/ w[r].pReverse = n /\ F = NULL /\ C = NULL
    BY <2>1, <1>2, <1>5 DEF Hung
  <2>3. F = NULL /\ C = NULL => af[n] = NULL
    BY <1>0, <1>4, <1>7
  <2>4. w[n].pChild = NULL /\ \A x \in I \ {p} : w[x].pChild = m[x].pChild
    BY <1>0 DEF Hung
  <2>5. w[r].pReverse = n \/ (TameThreads => w[r].pReverse \in I \ {p})
    <3>1. SUFFICES ASSUME TameThreads, w[r].pReverse # n PROVE w[r].pReverse \in I \ {p}
      OBVIOUS
    <3>2. w[r].pReverse = m[r].pReverse
      BY <2>2, <3>1
    <3>3. ~ (F = NULL /\ C = NULL)
      BY <1>0, <1>2, <1>5, <2>1, <3>1 DEF Hung
    <3>4. C = NULL => F \in Node
      <4>1. F \in Target
        BY <1>0, <1>5 DEF Memory, Links
      <4> QED
        BY <3>1, <3>3, <4>1 DEF TameThreads, Target
    <3>5. m[r].pReverse # NULL
      <4>1. SUFFICES ASSUME m[r].pReverse = NULL PROVE FALSE
        OBVIOUS
      <4>2. m[r].pChild = NULL
        BY <2>0, <3>1, <4>1
      <4>3. p = r
        BY <4>2, RootAlone
      <4>4. F \notin Node
        BY <4>2, <4>3, <1>2, <1>7 DEF Threads, AfterRight
      <4> QED
        BY <4>2, <4>3, <4>4, <3>4, <1>2
    <3>6. m[r].pReverse # p
      <4>1. SUFFICES ASSUME m[r].pReverse = p PROVE FALSE
        OBVIOUS
      <4>2. C = NULL /\ aft[p] = NULL
        BY <2>0, <3>1, <3>5, <4>1, <1>2
      <4> QED
        BY <4>2, <1>7, <3>4
    <3> QED
      BY <3>2, <3>5, <3>6, <2>0
  <2>6. w[r].pReverse \in I \union {n, NULL} /\ (w[r].pReverse # NULL => af[w[r].pReverse] = NULL)
    BY <2>0, <2>2, <2>3, <1>4
  <2>7. TameThreads => IF w[r].pReverse = NULL THEN w[r].pChild = NULL
                                              ELSE w[w[r].pReverse].pChild = NULL
    <3>1. SUFFICES ASSUME TameThreads PROVE w[r].pReverse # NULL /\ w[w[r].pReverse].pChild = NULL
      OBVIOUS
    <3>2. CASE w[r].pReverse = n
      BY <3>2, <2>4, <1>0
    <3>3. CASE w[r].pReverse # n
      <4>1. w[r].pReverse \in I \ {p} /\ w[r].pReverse = m[r].pReverse /\ w[r].pReverse # NULL
        BY <3>1, <3>3, <2>2, <2>5, <1>0
      <4> QED
        BY <4>1, <3>1, <2>0, <2>4
    <3> QED
      BY <3>2, <3>3
  <2> QED
    BY <2>6, <2>7 DEF LastRight
<1> QED
  BY <1>1, <1>4, <1>8, <1>9, <1>10, <1>11, <1>12, <1>13 DEF Threads

\* A tree with one node more is a tree.
LEMMA HungShape ==
  ASSUME NEW m, NEW r, NEW I, NEW aft, NEW hgt, NEW ord, Shape(m, r, I, aft, hgt, ord),
         NEW n \in Node \ I, NEW p \in I, NEW w, Hung(m, w, r, n, p)
  PROVE  Shape(w, r, I \union {n}, AftNew(m, aft, n, p), Raised(hgt, n), Raised(ord, n))
<1>1. /\ Family(w, r, I \union {n}, Raised(hgt, n), Raised(ord, n))
      /\ Threads(w, r, I \union {n}, AftNew(m, aft, n, p), Raised(hgt, n))
  BY HungFamily, HungThreads
<1>2. AftNew(m, aft, n, p) \in [Node -> Node \union {NULL}]
  <2>1. m[p].pChild \in Node \union {NULL} /\ aft[p] \in Node \union {NULL}
    BY DEF Shape, Family, ChildRight
  <2> QED
    BY <2>1 DEF AftNew, Shape
<1>3. Raised(hgt, n) \in [Node -> Nat] /\ Raised(ord, n) \in [Node -> Nat]
  BY DEF Raised, Shape
<1>4. w \in Memory /\ I \union {n} \subseteq Node
  BY DEF Hung, Shape
<1> QED
  BY <1>1, <1>2, <1>3, <1>4 DEF Shape
------------------------------------------------------------------------------
(* PCSTree::Insert.                                                        *)

\* Of a parent without children.
LEMMA InsertOnlyHung ==
  ASSUME NEW I, NEW aft, NEW hgt, NEW ord, Shape(mem, pRoot, I, aft, hgt, ord),
         NEW n \in Node \ I, mem[n].pForward \notin Node, NEW p \in I, mem[p].pChild = NULL
  PROVE  Hung(mem, InsertOnlyChild(n, p).mem, pRoot, n, p)
<1> USE NullAssumption
<1>0. /\ {"pChild", "pForward", "pReverse"} \subseteq Links
      /\ mem \in Memory /\ p \in Node /\ p # n /\ pRoot \in I /\ I \subseteq Node
  BY DEF Links, Shape, Family, ParentRight
<1>1. PICK F \in Target : F = mem[p].pForward
  BY <1>0 DEF Memory
<1>2. PICK G \in Target : G = mem[n].pForward
  BY <1>0 DEF Memory
<1>3. PICK a : a = Set(mem, p, "pChild", n)
  OBVIOUS
<1>4. Written(mem, a, p, "pChild", n)
  BY <1>0, <1>3, SetIs DEF Target
<1>5. PICK b : b = Set(a, p, "pForward", n)
  OBVIOUS
<1>6. Written(a, b, p, "pForward", n)
  <2>1. a \in Memory
    BY <1>4 DEF Written
  <2> QED
    BY <2>1, <1>0, <1>5, SetIs DEF Target
<1>7. PICK d : d = [b EXCEPT ![n] = Leaf(p, NULL, G, p)]
  OBVIOUS
<1>8. b \in Memory /\ \A x \in Node : \A f \in Links :
        b[x][f] = IF x = p /\ f \in {"pChild", "pForward"} THEN n ELSE mem[x][f]
  BY <1>4, <1>6 DEF Written
<1>9. d \in Memory /\ d[n] = Leaf(p, NULL, G, p) /\ \A x \in Node \ {n} : d[x] = b[x]
  BY <1>0, <1>7, <1>8, LeafType DEF Memory, Target
<1>10. PICK w : w = IF F # NULL THEN SetReverse(SetForward(d, n, F), F, n)
                               ELSE SetReverse(d, pRoot, n)
  OBVIOUS
<1>11. InsertOnlyChild(n, p).mem = w
  BY <1>1, <1>2, <1>3, <1>5, <1>7, <1>10 DEF InsertOnlyChild, TreeOf
<1>12. F # n /\ (F \in Node => F \in I /\ F # pRoot)
  BY <1>1 DEF Shape, Threads, ForwardRight
<1>13. /\ w \in Memory
       /\ \A x \in Node : \A f \in Links :
            w[x][f] = IF x = n /\ f = "pForward" /\ F # NULL THEN F
                      ELSE IF x = F /\ f = "pReverse" THEN n
                      ELSE IF x = pRoot /\ F = NULL /\ f = "pReverse" THEN n ELSE d[x][f]
  <2>1. CASE F # NULL
    <3>1. PICK e : e = SetForward(d, n, F)
      OBVIOUS
    <3>2. Written(d, e, n, "pForward", F)
      BY <1>9, <3>1, SetForwardIs DEF Target
    <3>3. e \in Memory
      BY <3>2 DEF Written
    <3>4. w = SetReverse(e, F, n)
      BY <2>1, <3>1, <1>10
    <3>5. Written(e, w, F, "pReverse", n)
      BY <3>3, <3>4, SetReverseIs DEF Target
    <3> QED
      BY <2>1, <3>2, <3>5, <1>12 DEF Written
  <2>2. CASE F = NULL
    <3>1. w = SetReverse(d, pRoot, n)
      BY <2>2, <1>10
    <3>2. Written(d, w, pRoot, "pReverse", n)
      BY <3>1, <1>0, <1>9, SetReverseIs DEF Target
    <3> QED
      BY <2>2, <3>2, <1>0 DEF Written
  <2> QED
    BY <2>1, <2>2
<1>14. /\ d[n].pParent = p /\ d[n].pChild = NULL /\ d[n].pNextSibling = NULL
       /\ d[n].pPrevSibling = NULL /\ d[n].pReverse = p /\ d[n].pForward = G
  BY <1>9, LeafIs
<1>15. /\ w[n].pParent = p /\ w[n].pChild = NULL /\ w[n].pNextSibling = NULL
       /\ w[n].pPrevSibling = NULL /\ w[n].pReverse = p
       /\ w[n].pForward = IF F # NULL THEN F ELSE G
  BY <1>0, <1>12, <1>13, <1>14 DEF Links
<1>16. \A x \in Node \ {n} :
         /\ w[x].pParent = mem[x].pParent /\ w[x].pNextSibling = mem[x].pNextSibling
         /\ w[x].pChild = IF x = p THEN n ELSE mem[x].pChild
         /\ w[x].pPrevSibling = mem[x].pPrevSibling
         /\ w[x].pForward = IF x = p THEN n ELSE mem[x].pForward
         /\ w[x].pReverse = IF x = F \/ (x = pRoot /\ F = NULL) THEN n ELSE mem[x].pReverse
  BY <1>8, <1>9, <1>13 DEF Links
<1>17. \/ w[n].pForward = F
       \/ F = NULL /\ w[n].pForward \notin Node
  BY <1>2, <1>15
<1>18. \A x \in Node \ {n} :
         /\ x = F => w[x].pReverse = n
         /\ x # F => \/ w[x].pReverse = mem[x].pReverse
                     \/ x = pRoot /\ w[x].pReverse = n /\ F = NULL
  BY <1>16
<1>19. F = NULL => w[pRoot].pReverse = n
  BY <1>0, <1>13 DEF Links, Shape
<1> QED
  BY <1>1, <1>11, <1>13, <1>15, <1>16, <1>17, <1>18, <1>19 DEF Hung

\* Of a parent with children.
LEMMA InsertFirstHung ==
  ASSUME NEW I, NEW aft, NEW hgt, NEW ord, Shape(mem, pRoot, I, aft, hgt, ord),
         NEW n \in Node \ I, NEW p \in I, mem[p].pChild # NULL
  PROVE  Hung(mem, InsertFirstChild(n, p).mem, pRoot, n, p)
<1> USE NullAssumption
<1>0. /\ {"pChild", "pForward", "pReverse", "pPrevSibling"} \subseteq Links
      /\ mem \in Memory /\ p \in Node /\ p # n /\ pRoot \in I /\ I \subseteq Node
  BY DEF Links, Shape, Family, ParentRight
<1>1. PICK C \in I : C = mem[p].pChild /\ C = mem[p].pForward
  BY DEF Shape, Family, ChildRight, Threads, FollowRight
<1>2. C \in Node /\ C # n
  BY <1>0
<1>3. PICK a : a = Set(mem, C, "pPrevSibling", n)
  OBVIOUS
<1>4. Written(mem, a, C, "pPrevSibling", n)
  BY <1>0, <1>2, <1>3, SetIs DEF Target
<1>5. PICK b : b = Set(a, C, "pReverse", n)
  OBVIOUS
<1>6. Written(a, b, C, "pReverse", n)
  <2>1. a \in Memory
    BY <1>4 DEF Written
  <2> QED
    BY <2>1, <1>0, <1>2, <1>5, SetIs DEF Target
<1>7. PICK d : d = [b EXCEPT ![n] = Leaf(p, C, C, p)]
  OBVIOUS
<1>8. b \in Memory /\ \A x \in Node : \A f \in Links :
        b[x][f] = IF x = C /\ f \in {"pPrevSibling", "pReverse"} THEN n ELSE mem[x][f]
  BY <1>4, <1>6 DEF Written
<1>9. d \in Memory /\ d[n] = Leaf(p, C, C, p) /\ \A x \in Node \ {n} : d[x] = b[x]
  BY <1>0, <1>2, <1>7, <1>8, LeafType DEF Memory, Target
<1>10. PICK e : e = Set(d, p, "pChild", n)
  OBVIOUS
<1>11. Written(d, e, p, "pChild", n)
  BY <1>0, <1>9, <1>10, SetIs DEF Target
<1>12. PICK w : w = Set(e, p, "pForward", n)
  OBVIOUS
<1>13. Written(e, w, p, "pForward", n)
  <2>1. e \in Memory
    BY <1>11 DEF Written
  <2> QED
    BY <2>1, <1>0, <1>12, SetIs DEF Target
<1>14. InsertFirstChild(n, p).mem = w
  BY <1>1, <1>3, <1>5, <1>7, <1>10, <1>12 DEF InsertFirstChild, TreeOf
<1>15. w \in Memory /\ \A x \in Node : \A f \in Links :
         w[x][f] = IF x = p /\ f \in {"pChild", "pForward"} THEN n ELSE d[x][f]
  BY <1>11, <1>13 DEF Written
<1>16. /\ d[n].pParent = p /\ d[n].pChild = NULL /\ d[n].pNextSibling = C
       /\ d[n].pPrevSibling = NULL /\ d[n].pReverse = p /\ d[n].pForward = C
  BY <1>9, LeafIs
<1>17. /\ w[n].pParent = p /\ w[n].pChild = NULL /\ w[n].pNextSibling = C
       /\ w[n].pPrevSibling = NULL /\ w[n].pReverse = p /\ w[n].pForward = C
  BY <1>0, <1>15, <1>16 DEF Links
<1>18. \A x \in Node \ {n} :
         /\ w[x].pParent = mem[x].pParent /\ w[x].pNextSibling = mem[x].pNextSibling
         /\ w[x].pChild = IF x = p THEN n ELSE mem[x].pChild
         /\ w[x].pPrevSibling = IF x = C THEN n ELSE mem[x].pPrevSibling
         /\ w[x].pForward = IF x = p THEN n ELSE mem[x].pForward
         /\ w[x].pReverse = IF x = C THEN n ELSE mem[x].pReverse
  BY <1>8, <1>9, <1>15 DEF Links
<1> QED
  BY <1>1, <1>14, <1>15, <1>17, <1>18 DEF Hung
------------------------------------------------------------------------------
(* The levels of a tree that has grown.                                    *)

\* What counting a new node changes.
LEMMA AddInfoIs ==
  ASSUME NEW info \in Infos
  PROVE  LET i == InfoAddNode(info)
         IN  /\ i.currNumNodes = info.currNumNodes + 1
             /\ i.maxNumNodes = IF info.currNumNodes + 1 > info.maxNumNodes
                                  THEN info.maxNumNodes + 1 ELSE info.maxNumNodes
             /\ i.currNumLevels = info.currNumLevels /\ i.maxNumLevels = info.maxNumLevels
  BY DEF InfoAddNode, Infos

\* The larger of two counts.
LEMMA LargerIs ==
  ASSUME NEW a \in Count, NEW b \in Count
  PROVE  Max({a, b}) = IF a < b THEN b ELSE a
<1>1. {a, b} \in SUBSET Count /\ {a, b} # {} /\ \A x \in Count : x \in Nat
  BY CountIs DEF Count
<1>2. Max({a, b}) \in {a, b} /\ a <= Max({a, b}) /\ b <= Max({a, b})
  BY <1>1, TopMax DEF Top
<1>3. a \in Nat /\ b \in Nat
  BY <1>1
<1> QED
  BY <1>2, <1>3

\* With a node on level k: the levels are at least as many.
LevelAdded(info, k, i) ==
  /\ i.currNumLevels = IF info.currNumLevels < k THEN k ELSE info.currNumLevels
  /\ i.maxNumLevels = IF info.maxNumLevels < i.currNumLevels THEN i.currNumLevels
                                                             ELSE info.maxNumLevels
  /\ i.currNumLevels <= i.maxNumLevels
  /\ i.currNumNodes = info.currNumNodes /\ i.maxNumNodes = info.maxNumNodes

\* What counting a new level changes.
LEMMA AddLevelInfoIs ==
  ASSUME NEW m, NEW r, NEW n, NEW info \in Infos
  PROVE  LevelAdded(info, LevelOf(m, r, n), InfoAddNewLevel(m, r, info, n))
<1>1. PICK a \in Count : a = info.currNumLevels
  BY DEF Infos
<1>2. PICK b \in Count : b = info.maxNumLevels
  BY DEF Infos
<1>3. PICK k \in Count : k = LevelOf(m, r, n)
  BY LevelIs
<1>4. PICK curr \in Count : curr = Max({a, k}) /\ curr = IF a < k THEN k ELSE a
  BY LargerIs
<1>5. PICK most \in Count : most = Max({b, curr}) /\ most = IF b < curr THEN curr ELSE b
  BY LargerIs
<1>6. InfoAddNewLevel(m, r, info, n) =
        [info EXCEPT !.currNumLevels = curr, !.maxNumLevels = most]
  BY <1>1, <1>2, <1>3, <1>4, <1>5 DEF InfoAddNewLevel, Infos
<1>7. PICK i : i = InfoAddNewLevel(m, r, info, n)
  OBVIOUS
<1>8. /\ i.currNumLevels = curr /\ i.maxNumLevels = most
      /\ i.currNumNodes = info.currNumNodes /\ i.maxNumNodes = info.maxNumNodes
  BY <1>6, <1>7 DEF Infos
<1>9. curr <= most
  <2>1. curr \in Nat /\ b \in Nat
    BY CountIs DEF Count
  <2> QED
    BY <2>1, <1>5
<1> QED
  BY <1>1, <1>2, <1>3, <1>4, <1>5, <1>7, <1>8, <1>9 DEF LevelAdded

\* A tree has one more level only if a node without children gets one.
LEMMA HungLevels ==
  ASSUME NEW m, NEW r, NEW I, NEW aft, NEW hgt, NEW ord, Shape(m, r, I, aft, hgt, ord),
         NEW n \in Node \ I, NEW p \in I, NEW w, Hung(m, w, r, n, p),
         NEW info, LevelsRight(m, r, I, info), NEW i \in Infos,
         i.currNumLevels = info.currNumLevels, i.maxNumLevels = info.maxNumLevels,
         NEW j, IF m[p].pChild = NULL THEN j = InfoAddNewLevel(w, r, i, n) ELSE j = i
  PROVE  LevelsRight(w, r, I \union {n}, j)
<1> USE NullAssumption
<1>1. PICK ha, hh, ho : Shape(w, r, I \union {n}, ha, hh, ho)
  BY HungShape
<1>2. /\ I \in SUBSET Node /\ p \in Node
      /\ \A x \in I : w[x].pParent = m[x].pParent
      /\ w[n].pParent = p /\ w[n].pNextSibling = m[p].pChild
  BY DEF Hung, Shape
<1>3. \A x \in I : LevelOf(w, r, x) = LevelOf(m, r, x)
  BY <1>2, LevelsSame
<1>4. PICK k \in Count : k = LevelOf(w, r, n)
  BY LevelIs
<1>5. TreeLevels(w, r, I \union {n}) = TreeLevels(m, r, I) \union {k}
  BY <1>3, <1>4 DEF TreeLevels
<1>6. PICK L : L = TreeLevels(m, r, I)
  OBVIOUS
<1>7. L \in SUBSET Count /\ Top(L, i.currNumLevels) /\ i.currNumLevels <= i.maxNumLevels
  BY <1>6, LevelsAre DEF LevelsRight
<1>8. \A x \in Count : x \in Nat
  BY CountIs DEF Count
<1>9. Top(L \union {k}, j.currNumLevels) /\ j.currNumLevels <= j.maxNumLevels
  <2>1. CASE m[p].pChild = NULL
    <3>1. LevelAdded(i, k, j)
      BY <2>1, <1>4, AddLevelInfoIs
    <3>2. PICK a \in Nat : a = i.currNumLevels /\ a \in L /\ \A x \in L : x <= a
      BY <1>7, <1>8 DEF Top
    <3>3. j.currNumLevels = (IF a < k THEN k ELSE a) /\ j.currNumLevels <= j.maxNumLevels
      BY <3>1, <3>2 DEF LevelAdded
    <3>4. PICK b : b = IF a < k THEN k ELSE a
      OBVIOUS
    <3>5. k \in Nat /\ b \in Nat /\ a <= b /\ k <= b /\ b \in L \union {k}
      BY <3>2, <3>4, <1>8
    <3>6. \A x \in L : x <= b
      <4>1. TAKE x \in L
      <4>2. x <= a /\ x \in Nat
        BY <3>2, <1>7, <1>8
      <4> QED
        BY <4>2, <3>2, <3>5
    <3> QED
      BY <3>3, <3>4, <3>5, <3>6 DEF Top
  <2>2. CASE m[p].pChild # NULL
    <3>1. PICK c \in I : c = m[p].pChild /\ m[c].pParent = p
      BY <2>2 DEF Shape, Family, ChildRight
    <3>2. w[n].pParent = w[c].pParent
      BY <3>1, <1>2
    <3>3. k = LevelOf(w, r, c)
      BY <3>2, <1>1, <1>4, SiblingLevel
    <3>4. k \in L
      BY <3>1, <3>3, <1>3, <1>6 DEF TreeLevels
    <3>5. L \union {k} = L
      BY <3>4
    <3> QED
      BY <2>2, <3>5, <1>7
  <2> QED
    BY <2>1, <2>2
<1> QED
  BY <1>5, <1>6, <1>9 DEF LevelsRight

\* GetInfo counts right.
LEMMA RecountRight ==
  ASSUME NEW m, NEW r, NEW I, Whole(m, r, I), NEW info, InfoRight(info, Cardinality(I)),
         LevelsRight(m, r, I, info)
  PROVE  LevelsRight(m, r, I, InfoRemoveNewLevel(m, r, info))
<1>1. info \in Infos
  BY DEF InfoRight
<1>2. CASE r = NULL
  <2>1. InfoRemoveNewLevel(m, r, info) = [info EXCEPT !.currNumLevels = 0] /\ I = {}
    BY <1>2 DEF InfoRemoveNewLevel, Whole
  <2>2. info.maxNumLevels \in Nat
    BY <1>1, CountIs DEF Infos, Count
  <2> QED
    BY <1>1, <2>1, <2>2 DEF LevelsRight, Infos
<1>3. CASE r # NULL
  <2>1. PICK aft, hgt, ord : Shape(m, r, I, aft, hgt, ord)
    BY <1>3 DEF Whole
  <2>2. Reached(m, r) = I /\ I # {}
    BY <2>1, ReachedAll DEF Shape, Family, ParentRight
  <2>3. PICK i : i = InfoRemoveNewLevel(m, r, info)
    OBVIOUS
  <2>4. i.maxNumLevels = info.maxNumLevels /\ i.currNumLevels = Max(TreeLevels(m, r, I))
    BY <1>1, <1>3, <2>2, <2>3, LevelInfoIs
  <2>5. PICK L : L = TreeLevels(m, r, I)
    OBVIOUS
  <2>6. L \in SUBSET Count /\ L # {} /\ Top(L, info.currNumLevels)
    BY <2>2, <2>5, LevelsAre DEF TreeLevels, LevelsRight
  <2>7. info.currNumLevels = Max(L)
    BY <2>6, TopMax DEF Top
  <2>8. LevelsRight(m, r, I, i)
    BY <2>4, <2>5, <2>7 DEF LevelsRight
  <2> QED
    BY <2>3, <2>8
<1> QED
  BY <1>2, <1>3

------------------------------------------------------------------------------
(* The inductive invariant.                                                *)

InOf(lf) == {n \in Node : lf[n] = "in"}

\* The nodes that are in make up the tree, and the threads of a node that was only
\* made lead to no node.
StateRight(m, r, info, lf) ==
  /\ m \in Memory /\ Tidy(m) /\ lf \in [Node -> {"none", "made", "in", "out"}]
  /\ \A n \in Node : lf[n] = "made" => m[n].pForward \notin Node
  /\ InfoRight(info, Cardinality(InOf(lf))) /\ LevelsRight(m, r, InOf(lf), info)
  /\ Whole(m, r, InOf(lf))

Walks == [kind : {"none", "forward", "reverse"}, current : Target,
          bDone : BOOLEAN, seen : Seq(Node)]

IInv == StateRight(mem, pRoot, mInfo, life) /\ walk \in Walks

\* Only the links of the nodes in a tree make it.
LEMMA ShapeSame ==
  ASSUME NEW m, NEW r, NEW I, NEW aft, NEW hgt, NEW ord, Shape(m, r, I, aft, hgt, ord),
         NEW w \in Memory, \A x \in I : w[x] = m[x]
  PROVE  Shape(w, r, I, aft, hgt, ord)
<1> USE DEF Shape
<1>1. ParentRight(w, r, I, hgt)
  BY DEF Family, ParentRight
<1>2. NextRight(w, I, ord)
  BY DEF Family, NextRight
<1>3. PrevRight(w, r, I)
  BY DEF Family, PrevRight, ParentRight
<1>4. ChildRight(w, I)
  BY DEF Family, ChildRight
<1>5. ReverseRight(w, r, I)
  BY DEF Threads, ReverseRight
<1>6. ForwardRight(w, r, I)
  BY DEF Threads, ForwardRight
<1>7. FollowRight(w, I, aft) /\ AfterRight(w, r, I, aft)
  BY DEF Threads, FollowRight, AfterRight
<1>8. AfterHigher(w, r, I, aft, hgt)
  BY DEF Threads, AfterHigher
<1>9. LastRight(w, r, I, aft)
  BY DEF Threads, LastRight, Family, ParentRight
<1> QED
  BY <1>1, <1>2, <1>3, <1>4, <1>5, <1>6, <1>7, <1>8, <1>9 DEF Family, Threads

\* And so for no tree.
LEMMA WholeSame ==
  ASSUME NEW m, NEW r, NEW I, Whole(m, r, I), NEW w \in Memory, \A x \in I : w[x] = m[x]
  PROVE  Whole(w, r, I)
<1>1. CASE r = NULL
  BY <1>1 DEF Whole
<1>2. CASE r # NULL
  BY <1>2, ShapeSame DEF Whole
<1> QED
  BY <1>1, <1>2

\* And for their levels.
LEMMA LevelsStay ==
  ASSUME NEW m, NEW r, NEW I, Whole(m, r, I), NEW info, LevelsRight(m, r, I, info),
         NEW w, \A x \in I : w[x] = m[x]
  PROVE  LevelsRight(w, r, I, info)
<1>1. CASE I = {}
  BY <1>1 DEF LevelsRight
<1>2. CASE I # {}
  <2>1. PICK aft, hgt, ord : Shape(m, r, I, aft, hgt, ord)
    BY <1>2 DEF Whole
  <2>2. \A x \in I : w[x].pParent = m[x].pParent
    OBVIOUS
  <2>3. TreeLevels(w, r, I) = TreeLevels(m, r, I)
    BY <2>1, <2>2, LevelsSame
  <2> QED
    BY <2>3 DEF LevelsRight
<1> QED
  BY <1>1, <1>2

\* A node outside the tree is made, or deleted.
LEMMA OutsideRight ==
  ASSUME NEW m, NEW r, NEW info, NEW lf, StateRight(m, r, info, lf),
         NEW n \in Node, lf[n] # "in",
         NEW fwd \in FreshThread \union {NULL}, NEW rev \in FreshThread \union {NULL},
         NEW to \in {"none", "made"}
  PROVE  StateRight([m EXCEPT ![n] = Leaf(NULL, NULL, fwd, rev)], r, info,
                    [lf EXCEPT ![n] = to])
<1> USE NullAssumption, FreshAssumption
<1>1. PICK w : w = [m EXCEPT ![n] = Leaf(NULL, NULL, fwd, rev)]
  OBVIOUS
<1>2. PICK lg : lg = [lf EXCEPT ![n] = to]
  OBVIOUS
<1>3. /\ m \in Memory /\ Tidy(m) /\ lf \in [Node -> {"none", "made", "in", "out"}]
      /\ \A x \in Node : lf[x] = "made" => m[x].pForward \notin Node
  BY DEF StateRight
<1>4. w \in Memory /\ w[n] = Leaf(NULL, NULL, fwd, rev) /\ \A x \in Node \ {n} : w[x] = m[x]
  BY <1>1, <1>3, LeafType DEF Memory, Target
<1>5. /\ w[n].pParent = NULL /\ w[n].pChild = NULL /\ w[n].pNextSibling = NULL
      /\ w[n].pPrevSibling = NULL /\ w[n].pForward = fwd
  BY <1>4, LeafIs
<1>6. Tidy(w)
  BY <1>3, <1>4, <1>5 DEF Tidy
<1>7. /\ lg \in [Node -> {"none", "made", "in", "out"}]
      /\ \A x \in Node \ {n} : lg[x] = lf[x]
      /\ lg[n] # "in"
  BY <1>2, <1>3
<1>8. InOf(lg) = InOf(lf) /\ n \notin InOf(lf) /\ InOf(lf) \subseteq Node
  <2>1. \A x \in Node : lg[x] = "in" <=> lf[x] = "in"
    BY <1>7
  <2> QED
    BY <2>1, Zenon DEF InOf
<1>9. \A x \in Node : lg[x] = "made" => w[x].pForward \notin Node
  BY <1>3, <1>4, <1>5, <1>7
<1>10. Whole(w, r, InOf(lg))
  <2>1. Whole(m, r, InOf(lf)) /\ \A x \in InOf(lf) : w[x] = m[x]
    BY <1>4, <1>8 DEF StateRight
  <2> QED
    BY <2>1, <1>4, <1>8, WholeSame
<1>11. InfoRight(info, Cardinality(InOf(lg)))
  BY <1>8 DEF StateRight
<1>12. LevelsRight(w, r, InOf(lg), info)
  <2>1. /\ Whole(m, r, InOf(lf)) /\ LevelsRight(m, r, InOf(lf), info)
        /\ \A x \in InOf(lf) : w[x] = m[x]
    BY <1>4, <1>8 DEF StateRight
  <2> QED
    BY <2>1, <1>8, LevelsStay
<1>13. StateRight(w, r, info, lg)
  BY <1>4, <1>6, <1>7, <1>9, <1>10, <1>11, <1>12 DEF StateRight
<1> QED
  BY <1>1, <1>2, <1>13

\* The first node comes in.
LEMMA RootRight ==
  ASSUME StateRight(mem, pRoot, mInfo, life), NEW n \in Node, life[n] = "made", pRoot = NULL,
         NEW t, t = InsertRoot(n)
  PROVE  StateRight(t.mem, t.pRoot, t.mInfo, [life EXCEPT ![n] = "in"])
<1> USE NullAssumption
<1>1. PICK w : w = [mem EXCEPT ![n] = Unlinked]
  OBVIOUS
<1>2. PICK lg : lg = [life EXCEPT ![n] = "in"]
  OBVIOUS
<1>3. /\ mem \in Memory /\ Tidy(mem) /\ life \in [Node -> {"none", "made", "in", "out"}]
      /\ \A x \in Node : life[x] = "made" => mem[x].pForward \notin Node
      /\ InOf(life) = {} /\ InfoRight(mInfo, Cardinality(InOf(life)))
      /\ mInfo.currNumLevels <= 1
  BY DEF StateRight, Whole, LevelsRight
<1>4. w \in Memory /\ w[n] = Leaf(NULL, NULL, NULL, NULL) /\ \A x \in Node \ {n} : w[x] = mem[x]
  BY <1>1, <1>3, LeafType DEF Memory, Unlinked, Target
<1>5. /\ w[n].pParent = NULL /\ w[n].pChild = NULL /\ w[n].pNextSibling = NULL
      /\ w[n].pPrevSibling = NULL /\ w[n].pForward = NULL /\ w[n].pReverse = NULL
  BY <1>4, LeafIs
<1>6. Tidy(w)
  BY <1>3, <1>4, <1>5 DEF Tidy
<1>7. /\ lg \in [Node -> {"none", "made", "in", "out"}]
      /\ \A x \in Node \ {n} : lg[x] = life[x]
      /\ lg[n] = "in"
  BY <1>2, <1>3
<1>8. InOf(lg) = {n} /\ InOf(lg) = InOf(life) \union {n} /\ n \notin InOf(life)
      /\ InOf(life) \in SUBSET Node
  <2>1. \A x \in Node : x \notin InOf(life)
    BY <1>3
  <2>2. \A x \in Node : lg[x] = "in" <=> x = n
    BY <2>1, <1>7 DEF InOf
  <2>3. InOf(lg) = {n}
    BY <2>2 DEF InOf
  <2> QED
    BY <2>3, <1>3
<1>9. \A x \in Node : lg[x] = "made" => w[x].pForward \notin Node
  BY <1>3, <1>4, <1>5, <1>7
<1>10. PICK nothing : nothing = [x \in Node |-> NULL]
  OBVIOUS
<1>11. PICK zero : zero = [x \in Node |-> 0]
  OBVIOUS
<1>12. Shape(w, n, {n}, nothing, zero, zero)
  <2>1. Family(w, n, {n}, zero, zero)
    BY <1>5 DEF Family, ParentRight, NextRight, PrevRight, ChildRight
  <2>2. Threads(w, n, {n}, nothing, zero)
    BY <1>5, <1>10 DEF Threads, ReverseRight, ForwardRight, FollowRight, AfterRight,
                       AfterHigher, LastRight
  <2>3. nothing \in [Node -> Node \union {NULL}] /\ zero \in [Node -> Nat]
    BY <1>10, <1>11
  <2> QED
    BY <2>1, <2>2, <2>3, <1>4 DEF Shape
<1>13. Whole(w, n, InOf(lg))
  BY <1>8, <1>12 DEF Whole
<1>14. PICK i : i = InfoAddNewLevel(w, n, InfoAddNode(mInfo), n)
  OBVIOUS
<1>15. InfoRight(i, Cardinality(InOf(lg)))
  <2>1. InfoRight(InfoAddNode(mInfo), Cardinality(InOf(lg)))
    BY <1>3, <1>8, AddCountIs
  <2> QED
    BY <2>1, <1>14, AddLevelIs
<1>16. t.mem = w /\ t.pRoot = n /\ t.mInfo = i
  BY <1>1, <1>14 DEF InsertRoot, TreeOf
<1>17. LevelsRight(w, n, InOf(lg), i)
  <2>1. PICK j : j = InfoAddNode(mInfo)
    OBVIOUS
  <2>2. j \in Infos /\ j.currNumLevels = mInfo.currNumLevels
    BY <2>1, <1>3, <1>8, AddCountIs, AddInfoIs DEF InfoRight
  <2>3. LevelOf(w, n, n) = 1
    BY <1>12, LevelStep
  <2>4. TreeLevels(w, n, {n}) = {1}
    BY <2>3 DEF TreeLevels
  <2>5. LevelAdded(j, 1, i)
    BY <2>1, <2>2, <2>3, <1>14, AddLevelInfoIs
  <2>6. PICK a \in Nat : a = j.currNumLevels /\ a <= 1
    BY <2>2, <1>3, CountIs DEF Infos, Count
  <2>7. (IF a < 1 THEN 1 ELSE a) = 1
    BY <2>6
  <2>8. i.currNumLevels = 1 /\ i.currNumLevels <= i.maxNumLevels
    BY <2>5, <2>6, <2>7 DEF LevelAdded
  <2> QED
    BY <2>4, <2>8, <1>8 DEF LevelsRight, Top
<1>18. StateRight(w, n, i, lg)
  BY <1>4, <1>6, <1>7, <1>9, <1>13, <1>15, <1>17 DEF StateRight
<1> QED
  BY <1>2, <1>16, <1>18

\* Another node comes in.
LEMMA ChildComesRight ==
  ASSUME StateRight(mem, pRoot, mInfo, life), NEW n \in Node, life[n] = "made",
         NEW p \in Node, life[p] = "in",
         NEW t, t = IF mem[p].pChild = NULL THEN InsertOnlyChild(n, p) ELSE InsertFirstChild(n, p)
  PROVE  StateRight(t.mem, t.pRoot, t.mInfo, [life EXCEPT ![n] = "in"])
<1> USE NullAssumption
<1>1. PICK lg : lg = [life EXCEPT ![n] = "in"]
  OBVIOUS
<1>2. PICK I : I = InOf(life)
  OBVIOUS
<1>3. /\ mem \in Memory /\ Tidy(mem) /\ life \in [Node -> {"none", "made", "in", "out"}]
      /\ \A x \in Node : life[x] = "made" => mem[x].pForward \notin Node
      /\ InfoRight(mInfo, Cardinality(I)) /\ Whole(mem, pRoot, I)
      /\ LevelsRight(mem, pRoot, I, mInfo)
  BY <1>2 DEF StateRight
<1>4. p \in I /\ n \in Node \ I /\ I \in SUBSET Node /\ mem[n].pForward \notin Node
  BY <1>2, <1>3 DEF InOf
<1>5. pRoot # NULL /\ pRoot \in Node
  BY <1>3, <1>4 DEF Whole
<1>6. PICK aft, hgt, ord : Shape(mem, pRoot, I, aft, hgt, ord)
  BY <1>3, <1>5 DEF Whole
<1>7. Hung(mem, t.mem, pRoot, n, p)
  <2>1. CASE mem[p].pChild = NULL
    BY <2>1, <1>4, <1>6, InsertOnlyHung
  <2>2. CASE mem[p].pChild # NULL
    BY <2>2, <1>4, <1>6, InsertFirstHung
  <2> QED
    BY <2>1, <2>2
<1>8. t.pRoot = pRoot
  BY DEF InsertOnlyChild, InsertFirstChild, TreeOf
<1>9. InfoRight(InfoAddNode(mInfo), Cardinality(I \union {n}))
  BY <1>3, <1>4, AddCountIs
<1>10. InfoRight(t.mInfo, Cardinality(I \union {n}))
  <2>1. CASE mem[p].pChild = NULL
    <3>1. t.mInfo = InfoAddNewLevel(t.mem, pRoot, InfoAddNode(mInfo), n)
      BY <2>1 DEF InsertOnlyChild, TreeOf
    <3> QED
      BY <3>1, <1>9, AddLevelIs
  <2>2. CASE mem[p].pChild # NULL
    BY <2>2, <1>9 DEF InsertFirstChild, TreeOf
  <2> QED
    BY <2>1, <2>2
<1>11. /\ lg \in [Node -> {"none", "made", "in", "out"}]
       /\ \A x \in Node \ {n} : lg[x] = life[x]
       /\ lg[n] = "in"
  BY <1>1, <1>3
<1>12. InOf(lg) = I \union {n}
  BY <1>2, <1>11 DEF InOf
<1>13. PICK w : w = t.mem
  OBVIOUS
<1>14. Whole(w, pRoot, I \union {n})
  BY <1>4, <1>5, <1>6, <1>7, <1>13, HungShape DEF Whole
<1>15. w \in Memory
  BY <1>7, <1>13 DEF Hung
<1>16. Tidy(w)
  <2>1. mem[p].pChild \in Node \union {NULL}
    BY <1>3 DEF Tidy
  <2>2. ASSUME NEW x \in Node
        PROVE  /\ w[x].pParent \in Node \union {NULL} /\ w[x].pChild \in Node \union {NULL}
               /\ w[x].pNextSibling \in Node \union {NULL}
               /\ w[x].pPrevSibling \in Node \union {NULL}
    <3>1. CASE x = n
      BY <3>1, <2>1, <1>7, <1>13 DEF Hung
    <3>2. CASE x # n
      BY <3>2, <1>3, <1>7, <1>13 DEF Hung, Tidy
    <3> QED
      BY <3>1, <3>2
  <2> QED
    BY <2>2 DEF Tidy
<1>17. \A x \in Node : lg[x] = "made" => w[x].pForward \notin Node
  <2>1. ASSUME NEW x \in Node, lg[x] = "made"
        PROVE  w[x].pForward \notin Node
    <3>1. x # n /\ x # p /\ life[x] = "made"
      BY <2>1, <1>4, <1>2, <1>11 DEF InOf
    <3>2. w[x].pForward = mem[x].pForward
      BY <3>1, <1>7, <1>13 DEF Hung
    <3> QED
      BY <3>1, <3>2, <1>3
  <2> QED
    BY <2>1
<1>18. LevelsRight(w, pRoot, I \union {n}, t.mInfo)
  <2>1. PICK i : i = InfoAddNode(mInfo)
    OBVIOUS
  <2>2. /\ i \in Infos /\ i.currNumLevels = mInfo.currNumLevels
        /\ i.maxNumLevels = mInfo.maxNumLevels
    BY <2>1, <1>3, <1>9, AddInfoIs DEF InfoRight
  <2>3. IF mem[p].pChild = NULL THEN t.mInfo = InfoAddNewLevel(w, pRoot, i, n) ELSE t.mInfo = i
    BY <2>1, <1>13 DEF InsertOnlyChild, InsertFirstChild, TreeOf
  <2>4. PICK j : j = t.mInfo
    OBVIOUS
  <2>5. /\ Shape(mem, pRoot, I, aft, hgt, ord) /\ n \in Node \ I /\ p \in I
        /\ Hung(mem, w, pRoot, n, p) /\ LevelsRight(mem, pRoot, I, mInfo)
    BY <1>3, <1>4, <1>6, <1>7, <1>13
  <2>6. IF mem[p].pChild = NULL THEN j = InfoAddNewLevel(w, pRoot, i, n) ELSE j = i
    BY <2>3, <2>4
  <2>7. LevelsRight(w, pRoot, I \union {n}, j)
    BY <2>2, <2>5, <2>6, HungLevels
  <2> QED
    BY <2>4, <2>7
<1>19. StateRight(w, pRoot, t.mInfo, lg)
  BY <1>10, <1>11, <1>12, <1>14, <1>15, <1>16, <1>17, <1>18 DEF StateRight
<1> QED
  BY <1>1, <1>8, <1>13, <1>19

\* A node goes, with all that is under it.
LEMMA RemovedRight ==
  ASSUME StateRight(mem, pRoot, mInfo, life), NEW n \in Node, life[n] = "in",
         NEW t, t = Removed(TreeOf(mem, pRoot, mInfo), n),
         NEW lg, lg = [x \in Node |-> IF x \in Reached(mem, n) THEN "out" ELSE life[x]]
  PROVE  StateRight(t.mem, t.pRoot, t.mInfo, lg)
<1> USE NullAssumption
<1>1. PICK I : I = InOf(life)
  OBVIOUS
<1>2. /\ mem \in Memory /\ Tidy(mem) /\ life \in [Node -> {"none", "made", "in", "out"}]
      /\ \A x \in Node : life[x] = "made" => mem[x].pForward \notin Node
      /\ InfoRight(mInfo, Cardinality(I)) /\ Whole(mem, pRoot, I)
      /\ LevelsRight(mem, pRoot, I, mInfo)
  BY <1>1 DEF StateRight
<1>3. n \in I
  BY <1>1 DEF InOf
<1>4. pRoot # NULL
  BY <1>2, <1>3 DEF Whole
<1>5. PICK aft, hgt, ord : Shape(mem, pRoot, I, aft, hgt, ord)
  BY <1>2, <1>4 DEF Whole
<1>6. /\ t.mem \in Memory /\ Tidy(t.mem) /\ Apart(mem, t.mem, I)
      /\ InfoRight(t.mInfo, Cardinality(I \ Reached(mem, n)))
      /\ Whole(t.mem, t.pRoot, I \ Reached(mem, n))
      /\ t.pRoot = IF n = pRoot THEN NULL ELSE pRoot
      /\ Kept(mem, pRoot, mInfo, I \ Reached(mem, n), t)
  BY <1>2, <1>3, <1>5, RemovedShape
<1>7. lg \in [Node -> {"none", "made", "in", "out"}]
  BY <1>2
<1>8. InOf(lg) = I \ Reached(mem, n)
  BY <1>1 DEF InOf
<1>9. \A x \in Node : lg[x] = "made" => t.mem[x].pForward \notin Node
  <2>1. ASSUME NEW x \in Node, lg[x] = "made"
        PROVE  t.mem[x].pForward \notin Node
    <3>1. life[x] = "made" /\ x \notin I
      BY <2>1, <1>1 DEF InOf
    <3>2. t.mem[x].pForward = mem[x].pForward
      BY <3>1, <1>6 DEF Apart, Links
    <3> QED
      BY <3>1, <3>2, <1>2
  <2> QED
    BY <2>1
<1>10. LevelsRight(t.mem, t.pRoot, I \ Reached(mem, n), t.mInfo)
  <2>1. LevelsRight(t.mem, pRoot, I \ Reached(mem, n), t.mInfo)
    BY <1>6 DEF Kept
  <2>2. t.pRoot # pRoot => I \ Reached(mem, n) = {}
    BY <1>6 DEF Whole
  <2> QED
    BY <2>1, <2>2 DEF LevelsRight
<1> QED
  BY <1>6, <1>7, <1>8, <1>9, <1>10 DEF StateRight

\* A state with a tree of some shape has its types.
LEMMA IInvType == IInv => TypeOK
<1> SUFFICES ASSUME IInv PROVE TypeOK
  OBVIOUS
<1> USE NullAssumption, FreshAssumption
<1>1. /\ mem \in Memory /\ Tidy(mem) /\ life \in [Node -> {"none", "made", "in", "out"}]
      /\ InfoRight(mInfo, Cardinality(InOf(life))) /\ Whole(mem, pRoot, InOf(life))
  BY DEF IInv, StateRight
<1>2. mem \in [Node -> [DOMAIN Unlinked -> Target]]
  BY <1>1, LinksAre DEF Memory
<1>3. ASSUME NEW n \in Node
      PROVE  {mem[n][f] : f \in DOMAIN Unlinked \ {"pForward", "pReverse"}}
               \subseteq Node \union {NULL}
  <2>1. ASSUME NEW f \in DOMAIN Unlinked \ {"pForward", "pReverse"}
        PROVE  mem[n][f] \in Node \union {NULL}
    <3>1. f \in {"pParent", "pChild", "pNextSibling", "pPrevSibling"}
      BY LinksAre DEF Links
    <3> QED
      BY <3>1, <1>1 DEF Tidy
  <2> QED
    BY <2>1
<1>4. pRoot \in Node \union {NULL}
  BY <1>1 DEF Whole
<1>5. mInfo \in [DOMAIN mInfo -> 0..Cardinality(Node)]
  BY <1>1 DEF InfoRight, Infos, Count
<1>6. /\ walk.kind \in {"none", "forward", "reverse"} /\ walk.bDone \in BOOLEAN
      /\ walk.current \in Target /\ walk.seen \in Seq(Node)
  BY DEF IInv, Walks
<1> QED
  BY <1>1, <1>2, <1>3, <1>4, <1>5, <1>6 DEF TypeOK, Target

\* And links that agree: a tree of any shape has them.
LEMMA IInvLinks == IInv => LinksAgree
<1> SUFFICES ASSUME IInv PROVE LinksAgree
  OBVIOUS
<1> USE NullAssumption
<1>1. PICK I : I = InOf(life)
  OBVIOUS
<1>2. Tidy(mem) /\ Whole(mem, pRoot, I)
  BY <1>1 DEF IInv, StateRight
<1>3. \A n \in Node : n \in I <=> life[n] = "in"
  BY <1>1 DEF InOf
<1>4. ASSUME NEW n \in I
      PROVE  /\ n = pRoot <=> mem[n].pParent = NULL
             /\ mem[n].pNextSibling # NULL =>
                  /\ mem[mem[n].pNextSibling].pPrevSibling = n
                  /\ mem[mem[n].pNextSibling].pParent = mem[n].pParent
             /\ mem[n].pChild # NULL => /\ mem[mem[n].pChild].pParent = n
                                        /\ mem[mem[n].pChild].pPrevSibling = NULL
             /\ mem[n].pPrevSibling # NULL => mem[mem[n].pPrevSibling].pNextSibling = n
             /\ \A f \in DOMAIN Unlinked : mem[n][f] \in Node => mem[n][f] \in I
  <2>1. pRoot # NULL
    BY <1>2, <1>4 DEF Whole
  <2>2. PICK aft, hgt, ord : Shape(mem, pRoot, I, aft, hgt, ord)
    BY <1>2, <2>1 DEF Whole
  <2>3. Family(mem, pRoot, I, hgt, ord) /\ Threads(mem, pRoot, I, aft, hgt)
    BY <2>2 DEF Shape
  <2>4. n = pRoot <=> mem[n].pParent = NULL
    BY <2>3, <1>4 DEF Family, ParentRight
  <2>5. mem[n].pNextSibling # NULL =>
          /\ mem[mem[n].pNextSibling].pPrevSibling = n
          /\ mem[mem[n].pNextSibling].pParent = mem[n].pParent
    BY <2>3, <1>4 DEF Family, NextRight
  <2>6. mem[n].pChild # NULL => /\ mem[mem[n].pChild].pParent = n
                                /\ mem[mem[n].pChild].pPrevSibling = NULL
    BY <2>3, <1>4 DEF Family, ChildRight
  <2>7. mem[n].pPrevSibling # NULL => mem[mem[n].pPrevSibling].pNextSibling = n
    BY <2>3, <1>4 DEF Family, PrevRight
  <2>8. mem[n].pParent \in Node => mem[n].pParent \in I
    BY <2>3, <1>4, <2>4 DEF Family, ParentRight
  <2>9. mem[n].pChild \in Node => mem[n].pChild \in I
    BY <2>3, <1>4 DEF Family, ChildRight
  <2>10. mem[n].pNextSibling \in Node => mem[n].pNextSibling \in I
    BY <2>3, <1>4 DEF Family, NextRight
  <2>11. mem[n].pPrevSibling \in Node => mem[n].pPrevSibling \in I
    BY <2>3, <1>4 DEF Family, PrevRight
  <2>12. mem[n].pForward \in Node => mem[n].pForward \in I
    BY <2>3, <1>4 DEF Threads, ForwardRight
  <2>13. mem[n].pReverse \in Node => mem[n].pReverse \in I
    BY <2>3, <1>4 DEF Threads, ReverseRight, LastRight
  <2>14. \A f \in DOMAIN Unlinked : mem[n][f] \in Node => mem[n][f] \in I
    BY <2>8, <2>9, <2>10, <2>11, <2>12, <2>13, LinksAre DEF Links
  <2> QED
    BY <2>4, <2>5, <2>6, <2>7, <2>14
<1>5. ASSUME NEW n \in Node, life[n] = "in"
      PROVE  /\ n = pRoot <=> mem[n].pParent = NULL
             /\ mem[n].pNextSibling # NULL =>
                  /\ mem[mem[n].pNextSibling].pPrevSibling = n
                  /\ mem[mem[n].pNextSibling].pParent = mem[n].pParent
             /\ mem[n].pChild # NULL => /\ mem[mem[n].pChild].pParent = n
                                        /\ mem[mem[n].pChild].pPrevSibling = NULL
             /\ mem[n].pPrevSibling # NULL => mem[mem[n].pPrevSibling].pNextSibling = n
             /\ \A f \in DOMAIN Unlinked : mem[n][f] \in Node => life[mem[n][f]] = "in"
  BY <1>3, <1>4, <1>5
<1> QED
  BY <1>5, IInvType DEF LinksAgree

\* Before anything is made there is no tree.
LEMMA InitRight == Init => IInv
<1> SUFFICES ASSUME Init PROVE IInv
  OBVIOUS
<1> USE NullAssumption
<1>1. mem \in Memory /\ \A x \in Node : mem[x] = Unlinked
  <2>1. Unlinked \in [Links -> Target]
    BY LeafType DEF Unlinked, Target
  <2> QED
    BY <2>1 DEF Init, Memory
<1>2. Tidy(mem)
  BY <1>1, LeafIs DEF Tidy, Unlinked
<1>3. life \in [Node -> {"none", "made", "in", "out"}] /\ \A x \in Node : life[x] = "none"
  BY DEF Init
<1>4. InOf(life) = {}
  BY <1>3 DEF InOf
<1>5. InfoRight(mInfo, Cardinality(InOf(life)))
  <2>1. Cardinality(InOf(life)) = 0
    BY <1>4, FS_EmptySet
  <2>2. 0 \in Count
    BY CountIs DEF Count
  <2> QED
    BY <2>1, <2>2 DEF Init, InfoRight, Infos
<1>6. Whole(mem, pRoot, InOf(life))
  BY <1>4 DEF Init, Whole
<1>7. walk \in Walks
  BY DEF Init, NoWalk, Walks, Target
<1>8. LevelsRight(mem, pRoot, InOf(life), mInfo)
  BY <1>4 DEF Init, LevelsRight
<1> QED
  BY <1>1, <1>2, <1>3, <1>5, <1>6, <1>7, <1>8 DEF IInv, StateRight

\* A round of a loop takes the iterator to another node, or out of the tree.
LEMMA StepWalks ==
  ASSUME IInv, Step
  PROVE  walk' \in Walks
<1>1. mem \in Memory /\ walk \in Walks
  BY DEF IInv, StateRight
<1>2. PICK c \in Node : c = walk.current
  BY DEF Step
<1>3. PICK to \in Target :
        walk' = [walk EXCEPT !.seen = Append(walk.seen, c), !.current = to]
  <2>1. mem[c].pForward \in Target /\ mem[c].pReverse \in Target
    BY <1>1 DEF Memory, Links
  <2>2. CASE walk.kind = "forward"
    BY <2>1, <2>2, <1>2 DEF Step
  <2>3. CASE walk.kind # "forward"
    BY <2>1, <2>3, <1>2 DEF Step
  <2> QED
    BY <2>2, <2>3
<1>4. Append(walk.seen, c) \in Seq(Node)
  BY <1>1 DEF Walks
<1> QED
  BY <1>1, <1>3, <1>4 DEF Walks

\* Every step leaves a tree of some shape.
LEMMA NextRightly ==
  ASSUME IInv, [Next]_vars
  PROVE  IInv'
<1> USE NullAssumption
<1>0. StateRight(mem, pRoot, mInfo, life) /\ walk \in Walks
  BY DEF IInv
<1>1. ASSUME NEW n \in Node, Make(n) PROVE IInv'
  <2>1. PICK fwd \in FreshThread, rev \in FreshThread :
          mem' = [mem EXCEPT ![n] = Leaf(NULL, NULL, fwd, rev)]
    BY <1>1 DEF Make
  <2>2. fwd \in FreshThread \union {NULL} /\ rev \in FreshThread \union {NULL}
    BY <2>1
  <2>3. life[n] # "in" /\ life' = [life EXCEPT ![n] = "made"] /\ pRoot' = pRoot
        /\ mInfo' = mInfo /\ walk' = walk
    BY <1>1 DEF Make
  <2>4. StateRight([mem EXCEPT ![n] = Leaf(NULL, NULL, fwd, rev)], pRoot, mInfo,
                   [life EXCEPT ![n] = "made"])
    BY <1>0, <2>2, <2>3, OutsideRight
  <2> QED
    BY <1>0, <2>1, <2>3, <2>4 DEF IInv
<1>2. ASSUME NEW n \in Node, Delete(n) PROVE IInv'
  <2>1. /\ life[n] # "in" /\ life' = [life EXCEPT ![n] = "none"]
        /\ mem' = [mem EXCEPT ![n] = Leaf(NULL, NULL, NULL, NULL)]
        /\ pRoot' = pRoot /\ mInfo' = mInfo /\ walk' = walk
    BY <1>2 DEF Delete, Unlinked
  <2>2. StateRight([mem EXCEPT ![n] = Leaf(NULL, NULL, NULL, NULL)], pRoot, mInfo,
                   [life EXCEPT ![n] = "none"])
    BY <1>0, <2>1, OutsideRight
  <2> QED
    BY <1>0, <2>1, <2>2 DEF IInv
<1>3. ASSUME NEW n \in Node, RemoveSubtree(n) PROVE IInv'
  <2>1. PICK t : t = Removed(TreeOf(mem, pRoot, mInfo), n)
    OBVIOUS
  <2>2. PICK lg : lg = [x \in Node |-> IF x \in Reached(mem, n) THEN "out" ELSE life[x]]
    OBVIOUS
  <2>3. life[n] = "in" /\ life' = lg /\ walk' = walk
        /\ mem' = t.mem /\ pRoot' = t.pRoot /\ mInfo' = t.mInfo
    BY <1>3, <2>1, <2>2 DEF RemoveSubtree, Become
  <2>4. StateRight(t.mem, t.pRoot, t.mInfo, lg)
    BY <1>0, <2>1, <2>2, <2>3, RemovedRight
  <2> QED
    BY <1>0, <2>3, <2>4 DEF IInv
<1>4. ASSUME NEW n \in Node, NEW p \in Node \union {NULL}, Insert(n, p) PROVE IInv'
  <2>1. life[n] = "made" /\ life' = [life EXCEPT ![n] = "in"] /\ walk' = walk
    BY <1>4 DEF Insert
  <2>2. CASE p = NULL /\ pRoot = NULL /\ Become(InsertRoot(n))
    <3>1. PICK t : t = InsertRoot(n)
      OBVIOUS
    <3>2. mem' = t.mem /\ pRoot' = t.pRoot /\ mInfo' = t.mInfo
      BY <2>2, <3>1 DEF Become
    <3>3. StateRight(t.mem, t.pRoot, t.mInfo, [life EXCEPT ![n] = "in"])
      BY <1>0, <2>1, <2>2, <3>1, RootRight
    <3> QED
      BY <1>0, <2>1, <3>2, <3>3 DEF IInv
  <2>3. CASE /\ p \in Node /\ life[p] = "in"
             /\ IF mem[p].pChild = NULL THEN Become(InsertOnlyChild(n, p))
                                        ELSE Become(InsertFirstChild(n, p))
    <3>1. PICK t : t = IF mem[p].pChild = NULL THEN InsertOnlyChild(n, p)
                                               ELSE InsertFirstChild(n, p)
      OBVIOUS
    <3>2. mem' = t.mem /\ pRoot' = t.pRoot /\ mInfo' = t.mInfo
      BY <2>3, <3>1 DEF Become
    <3>3. StateRight(t.mem, t.pRoot, t.mInfo, [life EXCEPT ![n] = "in"])
      BY <1>0, <2>1, <2>3, <3>1, ChildComesRight
    <3> QED
      BY <1>0, <2>1, <3>2, <3>3 DEF IInv
  <2> QED
    BY <1>4, <2>2, <2>3 DEF Insert
<1>5. CASE GetInfo
  <2>1. /\ mInfo' = InfoRemoveNewLevel(mem, pRoot, mInfo) /\ mem' = mem /\ pRoot' = pRoot
        /\ life' = life /\ walk' = walk
    BY <1>5 DEF GetInfo
  <2>2. InfoRight(InfoRemoveNewLevel(mem, pRoot, mInfo), Cardinality(InOf(life)))
    BY <1>0, RemoveLevelIs DEF StateRight, Whole
  <2>3. LevelsRight(mem, pRoot, InOf(life), InfoRemoveNewLevel(mem, pRoot, mInfo))
    BY <1>0, RecountRight DEF StateRight
  <2>4. StateRight(mem, pRoot, InfoRemoveNewLevel(mem, pRoot, mInfo), life)
    BY <1>0, <2>2, <2>3 DEF StateRight
  <2> QED
    BY <1>0, <2>1, <2>4 DEF IInv
<1>6. ASSUME mem' = mem, pRoot' = pRoot, mInfo' = mInfo, life' = life, walk' \in Walks
      PROVE  IInv'
  BY <1>0, <1>6 DEF IInv
<1>7. ASSUME NEW kind \in {"forward", "reverse"}, First(kind) PROVE IInv'
  <2>1. PICK done \in BOOLEAN :
          walk' = [kind |-> kind, current |-> pRoot, bDone |-> done, seen |-> <<>>]
    <3>1. (IF kind = "forward" THEN FreshDone ELSE {FALSE}) \subseteq BOOLEAN
      BY FreshAssumption
    <3> QED
      BY <1>7, <3>1 DEF First
  <2>2. walk' \in Walks
    <3>1. pRoot \in Node \union {NULL}
      BY <1>0 DEF StateRight, Whole
    <3> QED
      BY <2>1, <3>1 DEF Walks, Target
  <2> QED
    BY <1>6, <1>7, <2>2 DEF First
<1>8. CASE Step
  BY <1>6, <1>8, StepWalks DEF Step
<1>9. CASE Leave
  BY <1>6, <1>9 DEF Leave, NoWalk, Walks, Target
<1>10. CASE UNCHANGED vars
  BY <1>0, <1>6, <1>10 DEF vars
<1> QED
  BY <1>1, <1>2, <1>3, <1>4, <1>5, <1>7, <1>8, <1>9, <1>10 DEF Next

\* The links form a tree in every state.
THEOREM AlwaysATree == Spec => []IInv
<1>1. Init => IInv
  BY InitRight
<1>2. IInv /\ [Next]_vars => IInv'
  BY NextRightly
<1> QED
  BY <1>1, <1>2, PTL DEF Spec

\* The variables of a PCSTree keep their types.
THEOREM TypeCorrect == Spec => []TypeOK
  BY AlwaysATree, IInvType, PTL

\* PCSTree::Insert and Remove: after any sequence of them the links that the tree keeps
\* of a place agree, for any number of nodes and whatever a new node's threads hold.
THEOREM LinksAlwaysAgree == Spec => []LinksAgree
  BY AlwaysATree, IInvLinks, PTL

------------------------------------------------------------------------------
(* Preorder: the threads lead where the tree does.                         *)

\* What After is made of.
Open(n) == {a \in Up(mem, pRoot, n) : mem[a].pNextSibling # NULL}
Nearest(S) == CHOOSE a \in S : S \subseteq Up(mem, pRoot, a)
AfterOf(S) == IF S = {} THEN NULL ELSE mem[Nearest(S)].pNextSibling

\* And this is how.
LEMMA AfterMade ==
  ASSUME NEW n
  PROVE  After(n) = AfterOf(Open(n))
  BY DEF After, AfterOf, Nearest, Open

\* One node of a tree at a time: after it comes its next sibling, or what comes after
\* its parent.
LEMMA AfterStep ==
  ASSUME NEW I, NEW aft, NEW hgt, NEW ord, Shape(mem, pRoot, I, aft, hgt, ord), NEW n \in I
  PROVE  /\ mem[n].pNextSibling # NULL => After(n) = mem[n].pNextSibling
         /\ mem[n].pNextSibling = NULL /\ n # pRoot => After(n) = After(mem[n].pParent)
         /\ mem[n].pNextSibling = NULL /\ n = pRoot => After(n) = NULL
<1> USE NullAssumption DEF Shape
<1>1. UpRight(mem, pRoot, I, hgt, n)
  BY UpIs
<1>2. ASSUME mem[n].pNextSibling # NULL
      PROVE  After(n) = mem[n].pNextSibling
  <2>1. n \in Open(n) /\ Open(n) \subseteq Up(mem, pRoot, n)
    BY <1>1, <1>2 DEF UpRight, Open
  <2>2. ASSUME NEW a \in Open(n), Open(n) \subseteq Up(mem, pRoot, a)
        PROVE  a = n
    <3>1. a \in I /\ (a # n => hgt[n] < hgt[a])
      BY <2>1, <1>1 DEF UpRight
    <3>2. UpRight(mem, pRoot, I, hgt, a)
      BY <3>1, UpIs
    <3>3. n # a => hgt[a] < hgt[n]
      BY <2>1, <2>2, <3>2 DEF UpRight
    <3>4. hgt[a] \in Nat /\ hgt[n] \in Nat
      BY <3>1
    <3> QED
      BY <3>1, <3>3, <3>4
  <2>3. Nearest(Open(n)) = n
    BY <2>1, <2>2, Zenon DEF Nearest
  <2> QED
    BY <2>1, <2>3, AfterMade DEF AfterOf
<1>3. ASSUME mem[n].pNextSibling = NULL, n # pRoot
      PROVE  After(n) = After(mem[n].pParent)
  <2>1. Up(mem, pRoot, n) = {n} \union Up(mem, pRoot, mem[n].pParent)
    BY <1>1, <1>3 DEF UpRight
  <2>2. Open(n) = Open(mem[n].pParent)
    BY <2>1, <1>3 DEF Open
  <2> QED
    BY <2>2, AfterMade
<1>4. ASSUME mem[n].pNextSibling = NULL, n = pRoot
      PROVE  After(n) = NULL
  <2>1. Open(n) = {}
    BY <1>1, <1>4 DEF UpRight, Open
  <2> QED
    BY <2>1, AfterMade DEF AfterOf
<1> QED
  BY <1>2, <1>3, <1>4

\* So After is what the shape of the tree says.
LEMMA AfterIs ==
  ASSUME NEW I, NEW aft, NEW hgt, NEW ord, Shape(mem, pRoot, I, aft, hgt, ord)
  PROVE  \A n \in I : After(n) = aft[n]
<1> USE NullAssumption DEF Shape
<1> DEFINE Wrong == {x \in I : After(x) # aft[x]}
           Gaps == {g \in Nat : \E x \in Wrong : g = hgt[pRoot] - hgt[x]}
<1>1. SUFFICES ASSUME Wrong # {} PROVE FALSE
  OBVIOUS
<1>2. \A x \in I : x # pRoot => /\ mem[x].pParent \in I /\ hgt[x] < hgt[mem[x].pParent]
                                /\ hgt[x] < hgt[pRoot]
  BY DEF Family, ParentRight
<1>3. pRoot \in I /\ \A x \in I : hgt[x] \in Nat
  BY DEF Family, ParentRight
<1>4. \A x \in I : hgt[pRoot] - hgt[x] \in Nat
  <2>1. TAKE x \in I
  <2>2. hgt[x] \in Nat /\ hgt[pRoot] \in Nat /\ hgt[x] <= hgt[pRoot]
    BY <1>2, <1>3
  <2> QED
    BY <2>2
<1>5. PICK g \in Gaps : \A h \in Gaps : g <= h
  <2>1. Gaps # {} /\ Gaps \in SUBSET Nat
    BY <1>1, <1>4
  <2> HIDE DEF Gaps
  <2> QED
    BY <2>1, LeastIs
<1>6. PICK x \in Wrong : g = hgt[pRoot] - hgt[x]
  BY <1>5
<1>7. /\ mem[x].pNextSibling # NULL => After(x) = mem[x].pNextSibling
      /\ mem[x].pNextSibling = NULL /\ x # pRoot => After(x) = After(mem[x].pParent)
      /\ mem[x].pNextSibling = NULL /\ x = pRoot => After(x) = NULL
  BY <1>6, AfterStep
<1>8. /\ mem[x].pNextSibling # NULL => aft[x] = mem[x].pNextSibling
      /\ mem[x].pNextSibling = NULL /\ x # pRoot => aft[x] = aft[mem[x].pParent]
      /\ x = pRoot => aft[x] = NULL
  BY <1>6 DEF Threads, AfterRight
<1>9. mem[x].pNextSibling = NULL /\ x # pRoot /\ After(mem[x].pParent) # aft[mem[x].pParent]
  BY <1>6, <1>7, <1>8
<1>10. PICK p \in I : p = mem[x].pParent /\ hgt[x] < hgt[p] /\ p \in Wrong
  BY <1>2, <1>6, <1>9
<1>11. g <= hgt[pRoot] - hgt[p]
  BY <1>4, <1>5, <1>10
<1>12. hgt[p] \in Nat /\ hgt[pRoot] \in Nat /\ hgt[x] \in Nat
  BY <1>3, <1>6, <1>10
<1> QED
  BY <1>6, <1>10, <1>11, <1>12

\* A node's forward thread leads to what follows it, and a reverse thread back; that of
\* the root leads to the last node.
ThreadsFollow(n, I) ==
  /\ mem[n].pForward = Following(n) /\ mem[n].pForward \in I \union {NULL}
  /\ n # pRoot => mem[n].pReverse \in I /\ Following(mem[n].pReverse) = n
  /\ n = pRoot => IF mem[n].pReverse = NULL THEN Following(n) = NULL
                  ELSE mem[n].pReverse \in I /\ Following(mem[n].pReverse) = NULL

\* So it is if the constructors set the threads.
LEMMA ThreadsAreOrder ==
  ASSUME FreshThread \subseteq {NULL},
         NEW I, NEW aft, NEW hgt, NEW ord, Shape(mem, pRoot, I, aft, hgt, ord), NEW n \in I
  PROVE  ThreadsFollow(n, I)
<1> USE NullAssumption DEF Shape
<1>1. I \subseteq Node /\ mem \in Memory /\ pRoot \in I
  BY DEF Family, ParentRight
<1>2. ASSUME NEW x \in I
      PROVE  mem[x].pForward = Following(x) /\ mem[x].pForward \in I \union {NULL}
  <2>1. Following(x) = IF mem[x].pChild # NULL THEN mem[x].pChild ELSE aft[x]
    BY AfterIs DEF Following
  <2>2. mem[x].pForward \in Node \union {NULL}
    BY <1>1 DEF Memory, Links, Target
  <2>3. mem[x].pForward \in I \union {NULL}
    BY <2>2 DEF Threads, ForwardRight
  <2> QED
    BY <2>1, <2>2, <2>3 DEF Threads, FollowRight
<1>3. n # pRoot => mem[n].pReverse \in I /\ Following(mem[n].pReverse) = n
  <2>1. n # pRoot => mem[n].pReverse \in I /\ mem[mem[n].pReverse].pForward = n
    BY DEF Threads, ReverseRight
  <2> QED
    BY <2>1, <1>2
<1>4. n = pRoot => IF mem[n].pReverse = NULL THEN Following(n) = NULL
                   ELSE mem[n].pReverse \in I /\ Following(mem[n].pReverse) = NULL
  <2>1. /\ mem[pRoot].pReverse \in I \union {NULL}
        /\ mem[pRoot].pReverse # NULL => aft[mem[pRoot].pReverse] = NULL
        /\ IF mem[pRoot].pReverse = NULL THEN mem[pRoot].pChild = NULL
                                         ELSE mem[mem[pRoot].pReverse].pChild = NULL
    BY DEF Threads, LastRight, TameThreads
  <2>2. \A x \in I : mem[x].pChild = NULL => Following(x) = aft[x]
    BY AfterIs DEF Following
  <2>3. aft[pRoot] = NULL
    BY <1>1 DEF Threads, AfterRight
  <2> QED
    BY <2>1, <2>2, <2>3, <1>1
<1> QED
  BY <1>2, <1>3, <1>4 DEF ThreadsFollow

\* In every state with a tree.
LEMMA TreeIsThreaded ==
  ASSUME FreshThread \subseteq {NULL}, IInv
  PROVE  \A n \in InOf(life) : ThreadsFollow(n, InOf(life))
<1>1. TAKE n \in InOf(life)
<1>2. PICK I : I = InOf(life)
  OBVIOUS
<1>3. Whole(mem, pRoot, I) /\ n \in I
  BY <1>2 DEF IInv, StateRight
<1>4. PICK aft, hgt, ord : Shape(mem, pRoot, I, aft, hgt, ord)
  BY <1>3 DEF Whole
<1> QED
  BY <1>2, <1>3, <1>4, ThreadsAreOrder
------------------------------------------------------------------------------
(* The iterators.                                                          *)

\* The thread that an iterator follows.
ThreadOf(m, kind, n) == IF kind = "forward" THEN m[n].pForward ELSE m[n].pReverse

\* A loop has followed a thread from the root, through nodes of the tree.
Followed(m, r, I, w) ==
  /\ w.current \in I \union {NULL}
  /\ Append(w.seen, w.current)[1] = r
  /\ \A i \in DOMAIN w.seen :
       /\ w.seen[i] \in I
       /\ Append(w.seen, w.current)[i + 1] = ThreadOf(m, w.kind, w.seen[i])

Walked == walk # NoWalk => Followed(mem, pRoot, InOf(life), walk)

\* Only the tree matters for that.
LEMMA WalkedSame ==
  ASSUME NEW m, NEW r, NEW I, NEW w, Followed(m, r, I, w), NEW e, \A x \in I : e[x] = m[x]
  PROVE  Followed(e, r, I, w)
  BY DEF Followed, ThreadOf

\* A round of a loop follows the thread of a node.
LEMMA StepFollowed ==
  ASSUME FreshThread \subseteq {NULL}, IInv, Walked, Step
  PROVE  Walked'
<1> USE NullAssumption
<1>1. PICK I : I = InOf(life)
  OBVIOUS
<1>2. PICK w : w = walk
  OBVIOUS
<1>3. PICK c : c = walk.current
  OBVIOUS
<1>4. w \in Walks /\ Followed(mem, pRoot, I, w) /\ c \in I
  BY <1>1, <1>2, <1>3 DEF Step, IInv, Walked, Followed
<1>5. PICK to \in I \union {NULL} : to = ThreadOf(mem, w.kind, c)
  <2>1. ThreadsFollow(c, I)
    BY <1>1, <1>4, TreeIsThreaded
  <2> QED
    BY <2>1 DEF ThreadsFollow, ThreadOf
<1>6. walk' = [w EXCEPT !.seen = Append(w.seen, c), !.current = to]
  BY <1>2, <1>3, <1>5 DEF Step, ThreadOf
<1>7. PICK v : v = [w EXCEPT !.seen = Append(w.seen, c), !.current = to]
  OBVIOUS
<1>8. v.seen = Append(w.seen, c) /\ v.current = to /\ v.kind = w.kind
      /\ w.current = c /\ w.seen \in Seq(Node)
  BY <1>2, <1>3, <1>4, <1>7 DEF Walks
<1>9. PICK s \in Seq(Node \union {NULL}) : s = w.seen
  BY <1>8
<1>10. PICK k \in Nat : k = Len(s)
  OBVIOUS
<1>11. c \in Node \union {NULL} /\ to \in Node \union {NULL} /\ I \subseteq Node
  BY <1>1, <1>4, <1>5 DEF InOf
<1>12. /\ \A i \in 1..k : s[i] \in I /\ Append(s, c)[i + 1] = ThreadOf(mem, w.kind, s[i])
       /\ Append(s, c)[1] = pRoot
  <2>1. w.seen = s /\ w.current = c /\ DOMAIN s = 1..k
    BY <1>8, <1>9, <1>10
  <2>2. /\ Append(w.seen, w.current)[1] = pRoot
        /\ \A i \in DOMAIN w.seen :
             /\ w.seen[i] \in I
             /\ Append(w.seen, w.current)[i + 1] = ThreadOf(mem, w.kind, w.seen[i])
    BY <1>4 DEF Followed
  <2> QED
    BY <2>1, <2>2
<1>13. PICK u \in Seq(Node \union {NULL}) : u = Append(s, c)
  <2>1. Append(s, c) \in Seq(Node \union {NULL})
    BY <1>9, <1>11
  <2> QED
    BY <2>1
<1>14. Len(u) = k + 1 /\ u[k + 1] = c /\ \A i \in 1..k : u[i] = s[i]
  BY <1>10, <1>11, <1>13
<1>15. \A i \in 1..(k + 1) : Append(u, to)[i] = u[i]
  BY <1>11, <1>14
<1>16. Append(u, to)[k + 2] = to
  BY <1>11, <1>14
<1>17. \A i \in 1..(k + 1) : u[i] \in I
  BY <1>4, <1>12, <1>14
<1>18. ASSUME NEW i \in 1..(k + 1)
       PROVE  Append(u, to)[i + 1] = ThreadOf(mem, w.kind, u[i])
  <2>1. CASE i = k + 1
    BY <2>1, <1>5, <1>14, <1>16
  <2>2. CASE i # k + 1
    <3>1. i \in 1..k /\ i + 1 \in 1..(k + 1)
      BY <2>2
    <3>2. Append(u, to)[i + 1] = u[i + 1] /\ u[i] = s[i]
      BY <3>1, <1>14, <1>15
    <3> QED
      BY <3>1, <3>2, <1>12, <1>13
  <2> QED
    BY <2>1, <2>2
<1>19. Append(u, to)[1] = pRoot
  BY <1>12, <1>13, <1>15
<1>20. DOMAIN u = 1..(k + 1) /\ v.seen = u
  BY <1>8, <1>9, <1>13, <1>14
<1>21. Followed(mem, pRoot, I, v)
  BY <1>5, <1>8, <1>17, <1>18, <1>19, <1>20 DEF Followed
<1>22. mem' = mem /\ pRoot' = pRoot /\ InOf(life)' = I
  BY <1>1 DEF Step, InOf
<1> QED
  BY <1>6, <1>7, <1>21, <1>22 DEF Walked

\* And no other step takes a loop off it.
LEMMA NextFollowed ==
  ASSUME FreshThread \subseteq {NULL}, IInv, Walked, [Next]_vars
  PROVE  Walked'
<1> USE NullAssumption
<1>1. ASSUME pRoot' = pRoot, walk' = walk, InOf(life)' = InOf(life),
             \A x \in InOf(life) : mem'[x] = mem[x]
      PROVE  Walked'
  BY <1>1, WalkedSame DEF Walked
<1>2. mem \in Memory /\ life \in [Node -> {"none", "made", "in", "out"}]
  BY DEF IInv, StateRight
<1>3. ASSUME NEW n \in Node, Make(n) PROVE Walked'
  <2>1. life[n] = "none" /\ life' = [life EXCEPT ![n] = "made"]
    BY <1>3 DEF Make
  <2>2. n \notin InOf(life) /\ \A x \in Node : life'[x] = "in" <=> life[x] = "in"
    BY <2>1, <1>2 DEF InOf
  <2>3. InOf(life)' = InOf(life)
    BY <2>2 DEF InOf
  <2>4. \A x \in InOf(life) : mem'[x] = mem[x]
    BY <2>2, <1>2, <1>3 DEF Make, Memory, InOf
  <2> QED
    BY <2>3, <2>4, <1>1, <1>3 DEF Make
<1>4. ASSUME NEW n \in Node, Delete(n) PROVE Walked'
  <2>1. life[n] = "out" /\ life' = [life EXCEPT ![n] = "none"]
    BY <1>4 DEF Delete
  <2>2. n \notin InOf(life) /\ \A x \in Node : life'[x] = "in" <=> life[x] = "in"
    BY <2>1, <1>2 DEF InOf
  <2>3. InOf(life)' = InOf(life)
    BY <2>2 DEF InOf
  <2>4. \A x \in InOf(life) : mem'[x] = mem[x]
    BY <2>2, <1>2, <1>4 DEF Delete, Memory, InOf
  <2> QED
    BY <2>3, <2>4, <1>1, <1>4 DEF Delete
<1>5. ASSUME NEW n \in Node, RemoveSubtree(n) PROVE Walked'
  BY <1>5 DEF RemoveSubtree, Walked
<1>6. ASSUME NEW n \in Node, NEW p \in Node \union {NULL}, Insert(n, p) PROVE Walked'
  BY <1>6 DEF Insert, Walked
<1>7. CASE GetInfo
  BY <1>1, <1>7 DEF GetInfo, InOf
<1>8. ASSUME NEW kind, First(kind) PROVE Walked'
  <2>1. PICK done : walk' = [kind |-> kind, current |-> pRoot, bDone |-> done, seen |-> <<>>]
    BY <1>8 DEF First
  <2>2. pRoot \in InOf(life)
    <3>1. Whole(mem, pRoot, InOf(life)) /\ pRoot # NULL
      BY <1>8 DEF First, IInv, StateRight
    <3> QED
      BY <3>1 DEF Whole, Shape, Family, ParentRight
  <2>3. Append(<<>>, pRoot)[1] = pRoot /\ DOMAIN <<>> = {}
    OBVIOUS
  <2>4. Followed(mem, pRoot, InOf(life),
                 [kind |-> kind, current |-> pRoot, bDone |-> done, seen |-> <<>>])
    BY <2>2, <2>3 DEF Followed
  <2>5. mem' = mem /\ pRoot' = pRoot /\ InOf(life)' = InOf(life)
    BY <1>8 DEF First, InOf
  <2> QED
    BY <2>1, <2>4, <2>5 DEF Walked
<1>9. CASE Step
  BY <1>9, StepFollowed
<1>10. CASE Leave
  BY <1>10 DEF Leave, Walked
<1>11. CASE UNCHANGED vars
  BY <1>1, <1>11 DEF vars, InOf
<1> QED
  BY <1>3, <1>4, <1>5, <1>6, <1>7, <1>8, <1>9, <1>10, <1>11 DEF Next

\* What follows the threads of a tree goes through it in order.
LEMMA WalkedInOrder ==
  ASSUME FreshThread \subseteq {NULL}, IInv, Walked
  PROVE  WalksInOrder
<1> USE NullAssumption
<1>1. SUFFICES ASSUME walk # NoWalk
               PROVE  LET path == Append(walk.seen, walk.current)
                      IN  /\ path[1] = pRoot
                          /\ \A i \in DOMAIN walk.seen :
                               IF walk.kind = "forward" THEN path[i + 1] = Following(path[i])
                               ELSE IF path[i + 1] = NULL
                                 THEN path[i] = pRoot /\ Following(pRoot) = NULL
                               ELSE Following(path[i + 1]) =
                                      IF path[i] = pRoot THEN NULL ELSE path[i]
  BY DEF WalksInOrder
<1>2. PICK I : I = InOf(life) /\ NULL \notin I
  BY DEF InOf
<1>3. Followed(mem, pRoot, I, walk) /\ walk \in Walks
  BY <1>1, <1>2 DEF Walked, IInv
<1>4. PICK path : path = Append(walk.seen, walk.current)
  OBVIOUS
<1>5. \A i \in DOMAIN walk.seen : path[i] = walk.seen[i]
  <2>1. walk.seen \in Seq(Node)
    BY <1>3 DEF Walks
  <2> QED
    BY <2>1, <1>4
<1>6. /\ path[1] = pRoot
      /\ \A i \in DOMAIN walk.seen :
           path[i] \in I /\ path[i + 1] = ThreadOf(mem, walk.kind, path[i])
  BY <1>3, <1>4, <1>5 DEF Followed
<1>7. ASSUME NEW i \in DOMAIN walk.seen
      PROVE  IF walk.kind = "forward" THEN path[i + 1] = Following(path[i])
             ELSE IF path[i + 1] = NULL THEN path[i] = pRoot /\ Following(pRoot) = NULL
             ELSE Following(path[i + 1]) = IF path[i] = pRoot THEN NULL ELSE path[i]
  <2>1. PICK n \in I : n = path[i] /\ path[i + 1] = ThreadOf(mem, walk.kind, n)
    BY <1>6
  <2>2. ThreadsFollow(n, I)
    BY <1>2, TreeIsThreaded
  <2> QED
    BY <2>1, <2>2, <1>2 DEF ThreadsFollow, ThreadOf
<1> QED
  BY <1>4, <1>6, <1>7

\* PCSTreeForwardIterator and PCSTreeReverseIterator: over nodes whose constructor sets
\* the threads, every walk meets the nodes in preorder, or the other way round, for any
\* number of nodes and after any sequence of insertions and removals.
THEOREM WalksAreInOrder ==
  ASSUME FreshThread \subseteq {NULL}
  PROVE  Spec => []WalksInOrder
<1>1. Init => IInv /\ Walked
  BY InitRight DEF Init, Walked
<1>2. IInv /\ Walked /\ [Next]_vars => IInv' /\ Walked'
  BY NextRightly, NextFollowed
<1>3. IInv /\ Walked => WalksInOrder
  BY WalkedInOrder
<1> QED
  BY <1>1, <1>2, <1>3, PTL DEF Spec

\* And then the forward threads end in null, which they need not do if a constructor
\* leaves them uninitialized.
THEOREM ForwardAlwaysEnds ==
  ASSUME FreshThread \subseteq {NULL}
  PROVE  Spec => []ForwardEndsInNull
<1>1. IInv => ForwardEndsInNull
  <2>1. SUFFICES ASSUME IInv, NEW n \in Node, life[n] = "in", Following(n) = NULL
                 PROVE  mem[n].pForward = NULL
    BY DEF ForwardEndsInNull
  <2>2. n \in InOf(life)
    BY <2>1 DEF InOf
  <2> QED
    BY <2>1, <2>2, TreeIsThreaded DEF ThreadsFollow
<1> QED
  BY <1>1, AlwaysATree, PTL

------------------------------------------------------------------------------
(* The ordered tree that the links stand for.                              *)

------------------------------------------------------------------------------
(* The ordered tree that the links stand for.                              *)

\* It has the nodes of the tree.
LEMMA InTreeIs ==
  ASSUME NEW m, NEW r, NEW I, Whole(m, r, I)
  PROVE  InTree(m, r) = I
<1>1. CASE r = NULL
  BY <1>1 DEF InTree, Whole
<1>2. CASE r # NULL
  BY <1>2, ReachedAll DEF InTree, Whole
<1> QED
  BY <1>1, <1>2

\* The parents and the order of the nodes in I.
Parents(m, I) == [x \in I |-> m[x].pParent]
Orders(m, I) == {e \in I \X I : e[2] \in Younger(m, e[1]) \ {e[1]}}

\* So it has their parents and their order.
LEMMA BarsAre ==
  ASSUME NEW m, NEW r, NEW I, Whole(m, r, I)
  PROVE  ParentBar(m, r) = Parents(m, I) /\ BeforeBar(m, r) = Orders(m, I)
<1>1. InTree(m, r) = I
  BY InTreeIs
<1> QED
  BY <1>1 DEF ParentBar, BeforeBar, Parents, Orders

\* It stays while they do.
LEMMA BarsSame ==
  ASSUME NEW m, NEW w, NEW I, SamePlaces(m, w, I)
  PROVE  Parents(w, I) = Parents(m, I) /\ Orders(w, I) = Orders(m, I)
  BY DEF SamePlaces, Parents, Orders

\* A node outside the tree changes nothing in it.
LEMMA PlacesStay ==
  ASSUME NEW m, NEW r, NEW I, Whole(m, r, I), NEW w, \A x \in I : w[x] = m[x]
  PROVE  SamePlaces(m, w, I)
<1>1. ASSUME NEW x \in I PROVE Younger(w, x) = Younger(m, x)
  <2>1. PICK aft, hgt, ord : Shape(m, r, I, aft, hgt, ord)
    BY <1>1 DEF Whole
  <2>2. PICK to : to = [y \in Node |-> {m[y].pNextSibling} \ {NULL}]
    OBVIOUS
  <2>3. PICK from : from = [y \in Node |-> {w[y].pNextSibling} \ {NULL}]
    OBVIOUS
  <2>4. I \in SUBSET Node /\ \A y \in I : m[y].pNextSibling # NULL => m[y].pNextSibling \in I
    BY <2>1 DEF Shape, Family, NextRight
  <2>5. \A y \in I : to[y] \subseteq I
    BY <2>2, <2>4
  <2>6. \A y \in I : from[y] = to[y]
    BY <2>2, <2>3, <2>4
  <2>7. Closure(x, from) = Closure(x, to)
    BY <1>1, <2>4, <2>5, <2>6, ClosureSame
  <2> QED
    BY <2>2, <2>3, <2>7 DEF Younger
<1> QED
  BY <1>1 DEF SamePlaces

\* Above a node are the nodes on its way up.
LEMMA AboveIs ==
  ASSUME NEW m, NEW r, NEW I, NEW aft, NEW hgt, NEW ord, Shape(m, r, I, aft, hgt, ord),
         NEW n \in I
  PROVE  Ordered!Above(Parents(m, I), n) = Up(m, r, n)
<1> USE NullAssumption
<1>1. PICK par : par = Parents(m, I)
  OBVIOUS
<1>2. PICK to : to = [x \in Node |-> IF x = r THEN {} ELSE {m[x].pParent} \ {NULL}]
  OBVIOUS
<1>3. Up(m, r, n) = Closure(n, to)
  BY <1>2 DEF Up
<1>4. /\ I \in SUBSET Node /\ DOMAIN par = I
      /\ \A x \in I : par[x] = m[x].pParent /\ (par[x] = NULL <=> x = r)
      /\ \A x \in I : x # r => m[x].pParent \in I
  BY <1>1 DEF Parents, Shape, Family, ParentRight
<1>5. \A x \in I : to[x] = {par[x]} \ {NULL}
  BY <1>2, <1>4
<1>6. Closure(n, to) \subseteq I /\ n \in Closure(n, to)
      /\ \A x \in Closure(n, to) : to[x] \subseteq Closure(n, to)
  <2>1. \A x \in I : to[x] \subseteq I
    BY <1>4, <1>5
  <2> QED
    BY <2>1, <1>4, ClosureStart, ClosureLeast, ClosureClosed
<1>7. PICK C : C = Closure(n, to)
  OBVIOUS
<1>8. PICK A : A = Ordered!Above(par, n)
  OBVIOUS
<1>9. A \subseteq C
  <2>1. C \in SUBSET DOMAIN par /\ n \in C
    BY <1>4, <1>6, <1>7
  <2>2. \A x \in C : par[x] # NULL => par[x] \in C
    BY <1>5, <1>6, <1>7
  <2> QED
    BY <2>1, <2>2, <1>8 DEF Ordered!Above
<1>10. ASSUME NEW a \in C PROVE a \in A
  <2>1. ASSUME NEW S \in SUBSET I, n \in S, \A x \in S : par[x] # NULL => par[x] \in S
        PROVE  a \in S
    <3>1. S \in SUBSET Node
      BY <1>4
    <3>2. \A x \in S : to[x] \subseteq S
      BY <2>1, <1>5
    <3>3. Closure(n, to) \subseteq S
      BY <2>1, <3>1, <3>2, ClosureLeast
    <3> QED
      BY <3>3, <1>7, <1>10
  <2>2. a \in I
    BY <1>6, <1>7, <1>10
  <2> QED
    BY <2>1, <2>2, <1>4, <1>8 DEF Ordered!Above
<1> QED
  BY <1>1, <1>3, <1>7, <1>8, <1>9, <1>10

\* Below a node is what Remove comes to.
LEMMA BelowIs ==
  ASSUME NEW m, NEW r, NEW I, NEW aft, NEW hgt, NEW ord, Shape(m, r, I, aft, hgt, ord),
         NEW n \in I
  PROVE  Ordered!Below(Parents(m, I), n) = Reached(m, n)
<1>1. DOMAIN Parents(m, I) = I
  BY DEF Parents
<1>2. \A x \in I : Ordered!Above(Parents(m, I), x) = Up(m, r, x)
  BY AboveIs
<1>3. Ordered!Below(Parents(m, I), n) = {x \in I : n \in Up(m, r, x)}
  BY <1>1, <1>2 DEF Ordered!Below
<1> QED
  BY <1>3, ReachedBelow

\* The ordered tree counts as the tree does.
LEMMA SameCounting ==
  ASSUME NEW S
  PROVE  Ordered!Cardinality(S) = Cardinality(S) /\ Ordered!Max(S) = Max(S)
<1>1. Ordered!Cardinality(S) = Cardinality(S)
  BY Zenon DEF Ordered!Cardinality, Cardinality
<1>2. Ordered!Max(S) = Max(S)
  BY Zenon DEF Ordered!Max, Max
<1> QED
  BY <1>1, <1>2

\* The number of levels is that of the tree.
LEMMA DepthIs ==
  ASSUME NEW m, NEW r, NEW I \in SUBSET Node, Whole(m, r, I),
         NEW info \in Infos, LevelsRight(m, r, I, info)
  PROVE  Ordered!Depth(Parents(m, I)) = IF r = NULL THEN 0 ELSE info.currNumLevels
<1>1. PICK L : L = {Cardinality(Ordered!Above(Parents(m, I), n)) : n \in I}
  OBVIOUS
<1>2. Ordered!Depth(Parents(m, I)) = Max({0} \union L)
  <2>1. DOMAIN Parents(m, I) = I
    BY DEF Parents
  <2>2. {Ordered!Cardinality(Ordered!Above(Parents(m, I), n)) : n \in DOMAIN Parents(m, I)} = L
    BY <1>1, <2>1, SameCounting
  <2> QED
    BY <2>2, SameCounting DEF Ordered!Depth
<1>3. 0 \in Count /\ \A x \in Count : x \in Nat
  BY CountIs DEF Count
<1>4. PICK k : k = IF r = NULL THEN 0 ELSE info.currNumLevels
  OBVIOUS
<1>5. {0} \union L \in SUBSET Count /\ Top({0} \union L, k)
  <2>1. CASE r = NULL
    <3>1. L = {}
      BY <1>1, <2>1 DEF Whole
    <3> QED
      BY <1>3, <1>4, <2>1, <3>1 DEF Top
  <2>2. CASE r # NULL
    <3>1. PICK aft, hgt, ord : Shape(m, r, I, aft, hgt, ord)
      BY <2>2 DEF Whole
    <3>2. \A n \in I : Cardinality(Ordered!Above(Parents(m, I), n)) = LevelOf(m, r, n)
      BY <3>1, AboveIs DEF LevelOf
    <3>3. L = TreeLevels(m, r, I)
      BY <1>1, <3>2 DEF TreeLevels
    <3>4. L \in SUBSET Count
      BY <3>3, LevelsAre
    <3>5. Top(L, k)
      BY <1>4, <2>2, <3>1, <3>3 DEF LevelsRight, Shape, Family, ParentRight
    <3>6. k \in Nat
      BY <1>3, <3>4, <3>5 DEF Top
    <3> QED
      BY <1>3, <3>4, <3>5, <3>6 DEF Top
  <2> QED
    BY <2>1, <2>2
<1>6. k = Max({0} \union L)
  BY <1>5, TopMax DEF Top
<1> QED
  BY <1>2, <1>4, <1>6

\* The larger of a maximum and a new count.
NewCounts(r, info, c) ==
  /\ info.maxNumNodes = Ordered!Larger(mInfo.maxNumNodes, c)
  /\ info.maxNumLevels = Ordered!Larger(mInfo.maxNumLevels,
                                        IF r = NULL THEN 0 ELSE info.currNumLevels)

\* Then the counts are what the ordered tree promises.
LEMMA CountedIs ==
  ASSUME mInfo \in Infos, NEW m, NEW r, NEW I \in SUBSET Node, Whole(m, r, I),
         NEW info, InfoRight(info, Cardinality(I)), LevelsRight(m, r, I, info),
         NewCounts(r, info, Cardinality(I))
  PROVE  InfoBar(r, info) = Ordered!Counted(Parents(m, I))
<1>1. info \in Infos /\ info.currNumNodes = Cardinality(I)
  BY DEF InfoRight
<1>2. PICK par : par = Parents(m, I)
  OBVIOUS
<1>3. PICK k : k = IF r = NULL THEN 0 ELSE info.currNumLevels
  OBVIOUS
<1>4. Ordered!Cardinality(DOMAIN par) = Cardinality(I) /\ Ordered!Depth(par) = k
  <2>1. DOMAIN par = I
    BY <1>2 DEF Parents
  <2>2. Ordered!Depth(par) = k
    BY <1>1, <1>2, <1>3, DepthIs
  <2> QED
    BY <2>1, <2>2, SameCounting
<1>5. /\ InfoBar(pRoot, mInfo).maxNumNodes = mInfo.maxNumNodes
      /\ InfoBar(pRoot, mInfo).maxNumLevels = mInfo.maxNumLevels
  BY DEF InfoBar, Infos
<1>6. Ordered!Counted(par) =
        [currNumNodes |-> Cardinality(I), maxNumNodes |-> info.maxNumNodes,
         currNumLevels |-> k, maxNumLevels |-> info.maxNumLevels]
  BY <1>3, <1>4, <1>5 DEF Ordered!Counted, NewCounts
<1>7. InfoBar(r, info) =
        [currNumNodes |-> Cardinality(I), maxNumNodes |-> info.maxNumNodes,
         currNumLevels |-> k, maxNumLevels |-> info.maxNumLevels]
  <2>1. InfoBar(r, info) = [info EXCEPT !.currNumLevels = k]
    BY <1>1, <1>3 DEF InfoBar, Infos
  <2> QED
    BY <1>1, <2>1 DEF Infos
<1> QED
  BY <1>2, <1>6, <1>7

\* A maximum that is as large already stays.
LEMMA LargerStays ==
  ASSUME NEW a \in Nat, NEW b \in Nat, b <= a
  PROVE  Ordered!Larger(a, b) = a
  BY DEF Ordered!Larger

\* The nodes that are in, and what is right about them.
LEMMA StateIs ==
  ASSUME NEW m, NEW r, NEW info, NEW lf, StateRight(m, r, info, lf), NEW I, I = InOf(lf)
  PROVE  /\ I \in SUBSET Node /\ m \in Memory /\ Whole(m, r, I)
         /\ InfoRight(info, Cardinality(I)) /\ LevelsRight(m, r, I, info)
         /\ info \in Infos /\ info.currNumNodes = Cardinality(I)
         /\ info.currNumNodes \in Nat /\ info.maxNumNodes \in Nat
         /\ info.currNumLevels \in Nat /\ info.maxNumLevels \in Nat
         /\ info.currNumNodes <= info.maxNumNodes /\ info.currNumLevels <= info.maxNumLevels
<1>1. /\ I \in SUBSET Node /\ m \in Memory /\ Whole(m, r, I)
      /\ InfoRight(info, Cardinality(I)) /\ LevelsRight(m, r, I, info)
  BY DEF StateRight, InOf
<1>2. /\ info \in Infos /\ info.currNumNodes = Cardinality(I)
      /\ info.currNumNodes <= info.maxNumNodes /\ info.currNumLevels <= info.maxNumLevels
  BY <1>1 DEF InfoRight, LevelsRight
<1>3. \A x \in Count : x \in Nat
  BY CountIs DEF Count
<1>4. /\ info.currNumNodes \in Count /\ info.maxNumNodes \in Count
      /\ info.currNumLevels \in Count /\ info.maxNumLevels \in Count
  BY <1>2 DEF Infos
<1> QED
  BY <1>1, <1>2, <1>3, <1>4

\* The first node.
LEMMA PlantIs ==
  ASSUME NEW w, NEW n \in Node, Whole(w, n, {n})
  PROVE  Parents(w, {n}) = [x \in {n} |-> NULL] /\ Orders(w, {n}) = {}
<1>1. w[n].pParent = NULL
  BY NullAssumption DEF Whole, Shape, Family, ParentRight
<1>2. \A e \in {n} \X {n} : e[1] = n /\ e[2] = n
  OBVIOUS
<1> QED
  BY <1>1, <1>2 DEF Parents, Orders

\* What the ordered tree has once n is the first child of p.
HungIn(m, w, I, n, p) ==
  /\ Parents(w, I \union {n}) =
       [x \in I \union {n} |-> IF x = n THEN p ELSE Parents(m, I)[x]]
  /\ Orders(w, I \union {n}) =
       Orders(m, I) \union {<<n, x>> : x \in {c \in I : Parents(m, I)[c] = p}}

\* A first child.
LEMMA HangIs ==
  ASSUME NEW m, NEW r, NEW I, Whole(m, r, I), NEW n \in Node \ I, NEW p \in I,
         NEW w, Hung(m, w, r, n, p), Whole(w, r, I \union {n})
  PROVE  HungIn(m, w, I, n, p)
<1> USE NullAssumption
<1>1. r # NULL
  BY DEF Whole
<1>2. PICK ma, mh, mo : Shape(m, r, I, ma, mh, mo)
  BY <1>1 DEF Whole
<1>3. PICK wa, wh, wo : Shape(w, r, I \union {n}, wa, wh, wo)
  BY <1>1 DEF Whole
<1>4. /\ I \in SUBSET Node /\ w[n].pParent = p /\ w[p].pChild = n
      /\ \A x \in I : w[x].pParent = m[x].pParent /\ w[x].pNextSibling = m[x].pNextSibling
  BY <1>2 DEF Hung, Shape
<1>5. Parents(w, I \union {n}) =
        [x \in I \union {n} |-> IF x = n THEN p ELSE Parents(m, I)[x]]
  BY <1>4 DEF Parents
<1>6. ASSUME NEW x \in I PROVE Younger(w, x) = Younger(m, x) /\ Younger(m, x) \subseteq I
  <2>1. PICK to : to = [y \in Node |-> {m[y].pNextSibling} \ {NULL}]
    OBVIOUS
  <2>2. PICK from : from = [y \in Node |-> {w[y].pNextSibling} \ {NULL}]
    OBVIOUS
  <2>3. \A y \in I : m[y].pNextSibling # NULL => m[y].pNextSibling \in I
    BY <1>2 DEF Shape, Family, NextRight
  <2>4. \A y \in I : to[y] \subseteq I
    BY <2>1, <2>3, <1>4
  <2>5. \A y \in I : from[y] = to[y]
    BY <2>1, <2>2, <1>4
  <2>6. Closure(x, from) = Closure(x, to)
    BY <1>4, <2>4, <2>5, ClosureSame
  <2>7. Closure(x, to) \subseteq I
    BY <1>4, <2>4, ClosureLeast
  <2> QED
    BY <2>1, <2>2, <2>6, <2>7 DEF Younger
<1>7. \A x \in I \union {n} : x \in Younger(w, n) \ {n} <=> x \in I /\ Parents(m, I)[x] = p
  <2>1. Younger(w, n) = {x \in I \union {n} : w[x].pParent = p}
    BY <1>3, <1>4, KidsYounger
  <2> QED
    BY <2>1, <1>4 DEF Parents
<1>8. PICK K : K = {c \in I : Parents(m, I)[c] = p}
  OBVIOUS
<1>9. ASSUME NEW a \in I \union {n}, NEW b \in I \union {n}
      PROVE  <<a, b>> \in Orders(w, I \union {n})
               <=> <<a, b>> \in Orders(m, I) \/ (a = n /\ b \in K)
  <2>1. CASE a \in I
    BY <2>1, <1>6 DEF Orders
  <2>2. CASE a = n
    BY <2>2, <1>7, <1>8 DEF Orders
  <2> QED
    BY <2>1, <2>2
<1>10. Orders(w, I \union {n}) = Orders(m, I) \union {<<n, x>> : x \in K}
  <2>1. PICK T : T = (I \union {n}) \X (I \union {n})
    OBVIOUS
  <2>2. Orders(w, I \union {n}) \subseteq T /\ Orders(m, I) \subseteq T
        /\ {<<n, x>> : x \in K} \subseteq T
    BY <2>1, <1>8 DEF Orders
  <2>3. \A e \in T : e \in Orders(w, I \union {n})
                       <=> e \in Orders(m, I) \union {<<n, x>> : x \in K}
    <3>1. TAKE e \in T
    <3>2. PICK a \in I \union {n}, b \in I \union {n} : e = <<a, b>>
      BY <2>1
    <3>3. <<a, b>> \in {<<n, x>> : x \in K} <=> a = n /\ b \in K
      OBVIOUS
    <3> QED
      BY <3>2, <3>3, <1>9
  <2> QED
    BY <2>2, <2>3
<1> QED
  BY <1>5, <1>8, <1>10 DEF HungIn

\* What the ordered tree has of K, once all else has gone.
CutTo(m, w, I, K) ==
  /\ Parents(w, K) = [x \in K |-> Parents(m, I)[x]]
  /\ Orders(w, K) = Orders(m, I) \intersect (K \X K)

\* All below a node go.
LEMMA CutIs ==
  ASSUME NEW m, NEW I, NEW K, K \subseteq I, NEW w, SamePlaces(m, w, K)
  PROVE  CutTo(m, w, I, K)
<1>1. Parents(w, K) = [x \in K |-> Parents(m, I)[x]]
  BY DEF Parents, SamePlaces
<1>2. Orders(w, K) = Orders(m, K)
  BY BarsSame
<1>3. Orders(m, K) = Orders(m, I) \intersect (K \X K)
  BY DEF Orders
<1> QED
  BY <1>1, <1>2, <1>3 DEF CutTo

\* What the mapping makes of a state, in terms of its nodes.
LEMMA MappedIs ==
  ASSUME NEW m, NEW r, NEW info, NEW lf, StateRight(m, r, info, lf), NEW I, I = InOf(lf)
  PROVE  ParentBar(m, r) = Parents(m, I) /\ BeforeBar(m, r) = Orders(m, I)
  BY StateIs, BarsAre

\* A step between trees with the same places and counts is none of the ordered tree's.
LEMMA Stutters ==
  ASSUME IInv, IInv', InOf(life') = InOf(life), SamePlaces(mem, mem', InOf(life)),
         pRoot' = pRoot, InfoBar(pRoot, mInfo') = InfoBar(pRoot, mInfo)
  PROVE  UNCHANGED Ordered!vars
<1>1. PICK I : I = InOf(life)
  OBVIOUS
<1>2. ParentBar(mem, pRoot) = Parents(mem, I) /\ BeforeBar(mem, pRoot) = Orders(mem, I)
  BY <1>1, MappedIs DEF IInv
<1>3. ParentBar(mem', pRoot') = Parents(mem', I) /\ BeforeBar(mem', pRoot') = Orders(mem', I)
  BY <1>1, MappedIs DEF IInv
<1>4. Parents(mem', I) = Parents(mem, I) /\ Orders(mem', I) = Orders(mem, I)
  BY <1>1, BarsSame
<1>5. /\ ParentBar(mem', pRoot') = ParentBar(mem, pRoot)
      /\ BeforeBar(mem', pRoot') = BeforeBar(mem, pRoot)
      /\ InfoBar(pRoot', mInfo') = InfoBar(pRoot, mInfo)
  BY <1>2, <1>3, <1>4
<1> QED
  BY <1>5 DEF Ordered!vars

\* The first node is planted.
LEMMA InsertPlants ==
  ASSUME IInv, IInv', NEW n \in Node, life[n] = "made", life' = [life EXCEPT ![n] = "in"],
         pRoot = NULL, Become(InsertRoot(n))
  PROVE  Ordered!Next
<1> USE NullAssumption
<1>1. PICK I : I = InOf(life)
  OBVIOUS
<1>2. /\ Whole(mem, pRoot, I) /\ mInfo \in Infos /\ mInfo.currNumNodes = Cardinality(I)
      /\ mInfo.currNumNodes \in Nat /\ mInfo.maxNumNodes \in Nat
      /\ mInfo.currNumNodes <= mInfo.maxNumNodes
  BY <1>1, StateIs DEF IInv
<1>3. I = {} /\ life \in [Node -> {"none", "made", "in", "out"}]
  BY <1>2 DEF Whole, IInv, StateRight
<1>4. InOf(life') = {n}
  <2>1. \A x \in Node : x \notin I
    BY <1>3
  <2>2. \A x \in Node : life'[x] = "in" <=> x = n
    BY <2>1, <1>1, <1>3 DEF InOf
  <2> QED
    BY <2>2 DEF InOf
<1>5. pRoot' = n /\ mInfo' = InfoAddNewLevel(mem', n, InfoAddNode(mInfo), n)
  BY DEF Become, InsertRoot, TreeOf
<1>6. /\ {n} \in SUBSET Node /\ Whole(mem', n, {n})
      /\ InfoRight(mInfo', Cardinality({n})) /\ LevelsRight(mem', n, {n}, mInfo')
  <2>1. StateRight(mem', pRoot', mInfo', life')
    BY DEF IInv
  <2>2. StateRight(mem', n, mInfo', life')
    BY <2>1, <1>5
  <2>3. PICK J : J = InOf(life')
    OBVIOUS
  <2>4. /\ J \in SUBSET Node /\ Whole(mem', n, J)
        /\ InfoRight(mInfo', Cardinality(J)) /\ LevelsRight(mem', n, J, mInfo')
    BY <2>2, <2>3, StateIs
  <2> QED
    BY <2>3, <2>4, <1>4
<1>7. ParentBar(mem, pRoot) = Parents(mem, {}) /\ BeforeBar(mem, pRoot) = Orders(mem, {})
  BY <1>1, <1>3, MappedIs DEF IInv
<1>8. ParentBar(mem', pRoot') = Parents(mem', {n}) /\ BeforeBar(mem', pRoot') = Orders(mem', {n})
  BY <1>4, MappedIs DEF IInv
<1>9. Parents(mem', {n}) = [x \in {n} |-> NULL] /\ Orders(mem', {n}) = {}
  BY <1>6, PlantIs
<1>10. Orders(mem, {}) = {}
  BY DEF Orders
<1>11. Ordered!Plant(n)
  BY <1>5, <1>7, <1>8, <1>9, <1>10 DEF Ordered!Plant
<1>12. NewCounts(n, mInfo', Cardinality({n}))
  <2>1. PICK j : j = InfoAddNode(mInfo)
    OBVIOUS
  <2>2. /\ j \in Infos /\ j.maxNumLevels = mInfo.maxNumLevels
        /\ j.maxNumNodes = IF mInfo.currNumNodes + 1 > mInfo.maxNumNodes
                             THEN mInfo.maxNumNodes + 1 ELSE mInfo.maxNumNodes
    <3>1. InfoRight(mInfo, Cardinality(I)) /\ I \union {n} = {n} /\ n \in Node \ I
          /\ I \in SUBSET Node
      BY <1>1, <1>3, StateIs DEF IInv
    <3>2. InfoRight(j, Cardinality(I \union {n}))
      BY <2>1, <3>1, AddCountIs
    <3> QED
      BY <2>1, <3>2, <1>2, AddInfoIs DEF InfoRight
  <2>3. LevelAdded(j, LevelOf(mem', n, n), mInfo')
    BY <2>1, <2>2, <1>5, AddLevelInfoIs
  <2>4. Cardinality({n}) = mInfo.currNumNodes + 1
    <3>1. Cardinality(I) = 0
      BY <1>3, FS_EmptySet
    <3>2. Cardinality({n}) = 1
      BY FS_Singleton
    <3> QED
      BY <3>1, <3>2, <1>2
  <2>5. mInfo'.maxNumNodes = Ordered!Larger(mInfo.maxNumNodes, mInfo.currNumNodes + 1)
    <3>1. PICK a \in Nat : a = mInfo.currNumNodes
      BY <1>2
    <3>2. PICK b \in Nat : b = mInfo.maxNumNodes /\ a <= b
      BY <1>2, <3>1
    <3>3. (IF a + 1 > b THEN b + 1 ELSE b) = IF b < a + 1 THEN a + 1 ELSE b
      BY <3>2
    <3> QED
      BY <2>2, <2>3, <3>1, <3>2, <3>3 DEF LevelAdded, Ordered!Larger
  <2>6. mInfo'.maxNumLevels = Ordered!Larger(mInfo.maxNumLevels, mInfo'.currNumLevels)
    BY <2>2, <2>3 DEF LevelAdded, Ordered!Larger
  <2> QED
    BY <2>4, <2>5, <2>6 DEF NewCounts
<1>13. InfoBar(pRoot', mInfo') = Ordered!Counted(ParentBar(mem', pRoot'))
  BY <1>2, <1>5, <1>6, <1>8, <1>12, CountedIs
<1> QED
  BY <1>11, <1>13 DEF Ordered!Next

\* Another node is hung in.
LEMMA InsertHangs ==
  ASSUME IInv, IInv', NEW n \in Node, life[n] = "made", life' = [life EXCEPT ![n] = "in"],
         NEW p \in Node, life[p] = "in",
         IF mem[p].pChild = NULL THEN Become(InsertOnlyChild(n, p))
                                 ELSE Become(InsertFirstChild(n, p))
  PROVE  Ordered!Next
<1> USE NullAssumption
<1>1. PICK I : I = InOf(life)
  OBVIOUS
<1>2. /\ Whole(mem, pRoot, I) /\ mInfo \in Infos /\ mInfo.currNumNodes = Cardinality(I)
      /\ mInfo.currNumNodes \in Nat /\ mInfo.maxNumNodes \in Nat
      /\ mInfo.currNumLevels \in Nat /\ mInfo.maxNumLevels \in Nat
      /\ mInfo.currNumNodes <= mInfo.maxNumNodes /\ mInfo.currNumLevels <= mInfo.maxNumLevels
      /\ InfoRight(mInfo, Cardinality(I)) /\ I \in SUBSET Node
  BY <1>1, StateIs DEF IInv
<1>3. /\ p \in I /\ n \in Node \ I /\ mem[n].pForward \notin Node
      /\ life \in [Node -> {"none", "made", "in", "out"}]
  BY <1>1 DEF InOf, IInv, StateRight
<1>4. InOf(life') = I \union {n}
  BY <1>1, <1>3 DEF InOf
<1>5. pRoot # NULL
  BY <1>2, <1>3 DEF Whole
<1>6. PICK aft, hgt, ord : Shape(mem, pRoot, I, aft, hgt, ord)
  BY <1>2, <1>5 DEF Whole
<1>7. Hung(mem, mem', pRoot, n, p) /\ pRoot' = pRoot
  <2>1. CASE mem[p].pChild = NULL
    <3>1. mem' = InsertOnlyChild(n, p).mem /\ pRoot' = InsertOnlyChild(n, p).pRoot
      BY <2>1 DEF Become
    <3>2. Hung(mem, InsertOnlyChild(n, p).mem, pRoot, n, p)
      BY <2>1, <1>3, <1>6, InsertOnlyHung
    <3>3. InsertOnlyChild(n, p).pRoot = pRoot
      BY DEF InsertOnlyChild, TreeOf
    <3> QED
      BY <3>1, <3>2, <3>3
  <2>2. CASE mem[p].pChild # NULL
    <3>1. mem' = InsertFirstChild(n, p).mem /\ pRoot' = InsertFirstChild(n, p).pRoot
      BY <2>2 DEF Become
    <3>2. Hung(mem, InsertFirstChild(n, p).mem, pRoot, n, p)
      BY <2>2, <1>3, <1>6, InsertFirstHung
    <3>3. InsertFirstChild(n, p).pRoot = pRoot
      BY DEF InsertFirstChild, TreeOf
    <3> QED
      BY <3>1, <3>2, <3>3
  <2> QED
    BY <2>1, <2>2
<1>8. PICK J : J = I \union {n}
  OBVIOUS
<1>9. /\ J \in SUBSET Node /\ Whole(mem', pRoot, J)
      /\ InfoRight(mInfo', Cardinality(J)) /\ LevelsRight(mem', pRoot, J, mInfo')
      /\ mInfo'.currNumLevels <= mInfo'.maxNumLevels
  <2>1. StateRight(mem', pRoot', mInfo', life')
    BY DEF IInv
  <2>2. StateRight(mem', pRoot, mInfo', life') /\ J = InOf(life')
    BY <2>1, <1>4, <1>7, <1>8
  <2> QED
    BY <2>2, StateIs
<1>10. ParentBar(mem, pRoot) = Parents(mem, I) /\ BeforeBar(mem, pRoot) = Orders(mem, I)
  BY <1>1, MappedIs DEF IInv
<1>11. ParentBar(mem', pRoot') = Parents(mem', J) /\ BeforeBar(mem', pRoot') = Orders(mem', J)
  BY <1>4, <1>8, MappedIs DEF IInv
<1>12. /\ Parents(mem', J) = [x \in I \union {n} |-> IF x = n THEN p ELSE Parents(mem, I)[x]]
       /\ Orders(mem', J) =
            Orders(mem, I) \union {<<n, x>> : x \in {c \in I : Parents(mem, I)[c] = p}}
  <2>1. /\ Whole(mem, pRoot, I) /\ n \in Node \ I /\ p \in I /\ Hung(mem, mem', pRoot, n, p)
        /\ Whole(mem', pRoot, I \union {n})
    BY <1>2, <1>3, <1>7, <1>8, <1>9
  <2>2. HungIn(mem, mem', I, n, p)
    BY <2>1, HangIs
  <2> QED
    BY <2>2, <1>8 DEF HungIn
<1>13. DOMAIN ParentBar(mem, pRoot) = I
  BY <1>10 DEF Parents
<1>14. Ordered!Hang(n, p)
  BY <1>3, <1>7, <1>10, <1>11, <1>12, <1>13 DEF Ordered!Hang
<1>15. NewCounts(pRoot, mInfo', Cardinality(J))
  <2>1. PICK j : j = InfoAddNode(mInfo)
    OBVIOUS
  <2>2. /\ j \in Infos /\ j.maxNumLevels = mInfo.maxNumLevels
        /\ j.currNumLevels = mInfo.currNumLevels
        /\ j.maxNumNodes = IF mInfo.currNumNodes + 1 > mInfo.maxNumNodes
                             THEN mInfo.maxNumNodes + 1 ELSE mInfo.maxNumNodes
    <3>1. InfoRight(j, Cardinality(I \union {n}))
      BY <2>1, <1>2, <1>3, AddCountIs
    <3> QED
      BY <2>1, <3>1, <1>2, AddInfoIs DEF InfoRight
  <2>3. \/ mem[p].pChild = NULL /\ LevelAdded(j, LevelOf(mem', pRoot, n), mInfo')
        \/ mInfo' = j
    <3>1. CASE mem[p].pChild = NULL
      <4>1. mInfo' = InfoAddNewLevel(mem', pRoot, j, n)
        BY <2>1, <3>1 DEF Become, InsertOnlyChild, TreeOf
      <4> QED
        BY <2>2, <3>1, <4>1, AddLevelInfoIs
    <3>2. CASE mem[p].pChild # NULL
      BY <2>1, <3>2 DEF Become, InsertFirstChild, TreeOf
    <3> QED
      BY <3>1, <3>2
  <2>4. Cardinality(J) = mInfo.currNumNodes + 1
    BY <1>2, <1>3, <1>8, CountIs, FS_AddElement
  <2>5. mInfo'.maxNumNodes = Ordered!Larger(mInfo.maxNumNodes, mInfo.currNumNodes + 1)
    <3>1. PICK a \in Nat : a = mInfo.currNumNodes
      BY <1>2
    <3>2. PICK b \in Nat : b = mInfo.maxNumNodes /\ a <= b
      BY <1>2, <3>1
    <3>3. (IF a + 1 > b THEN b + 1 ELSE b) = IF b < a + 1 THEN a + 1 ELSE b
      BY <3>2
    <3>4. mInfo'.maxNumNodes = j.maxNumNodes
      BY <2>3 DEF LevelAdded
    <3> QED
      BY <2>2, <3>1, <3>2, <3>3, <3>4 DEF Ordered!Larger
  <2>6. mInfo'.maxNumLevels = Ordered!Larger(mInfo.maxNumLevels, mInfo'.currNumLevels)
    <3>1. CASE LevelAdded(j, LevelOf(mem', pRoot, n), mInfo')
      BY <3>1, <2>2 DEF LevelAdded, Ordered!Larger
    <3>2. CASE mInfo' = j
      BY <3>2, <2>2, <1>2, LargerStays
    <3> QED
      BY <2>3, <3>1, <3>2
  <2> QED
    BY <2>4, <2>5, <2>6, <1>5 DEF NewCounts
<1>16. InfoBar(pRoot', mInfo') = Ordered!Counted(ParentBar(mem', pRoot'))
  BY <1>2, <1>7, <1>9, <1>11, <1>15, CountedIs
<1> QED
  BY <1>14, <1>16 DEF Ordered!Next

\* A node is cut off.
LEMMA RemoveCuts ==
  ASSUME IInv, IInv', NEW n \in Node, RemoveSubtree(n)
  PROVE  Ordered!Next
<1> USE NullAssumption
<1>1. PICK I : I = InOf(life)
  OBVIOUS
<1>2. /\ Whole(mem, pRoot, I) /\ mInfo \in Infos /\ Tidy(mem)
      /\ mInfo.currNumNodes = Cardinality(I)
      /\ mInfo.currNumNodes \in Nat /\ mInfo.maxNumNodes \in Nat
      /\ mInfo.currNumLevels \in Nat /\ mInfo.maxNumLevels \in Nat
      /\ mInfo.currNumNodes <= mInfo.maxNumNodes
      /\ InfoRight(mInfo, Cardinality(I)) /\ LevelsRight(mem, pRoot, I, mInfo)
      /\ I \in SUBSET Node
  <2>1. StateRight(mem, pRoot, mInfo, life)
    BY DEF IInv
  <2>2. Tidy(mem)
    BY <2>1 DEF StateRight
  <2> QED
    BY <1>1, <2>1, <2>2, StateIs
<1>3. n \in I
  BY <1>1 DEF RemoveSubtree, InOf
<1>4. pRoot # NULL
  BY <1>2, <1>3 DEF Whole
<1>5. PICK aft, hgt, ord : Shape(mem, pRoot, I, aft, hgt, ord)
  BY <1>2, <1>4 DEF Whole
<1>6. PICK t : t = Removed(TreeOf(mem, pRoot, mInfo), n)
  OBVIOUS
<1>7. /\ mem' = t.mem /\ pRoot' = t.pRoot /\ mInfo' = t.mInfo
      /\ life' = [m \in Node |-> IF m \in Reached(mem, n) THEN "out" ELSE life[m]]
  BY <1>6 DEF RemoveSubtree, Become
<1>8. PICK K : K = I \ Reached(mem, n)
  OBVIOUS
<1>9. t.pRoot = (IF n = pRoot THEN NULL ELSE pRoot) /\ Kept(mem, pRoot, mInfo, K, t)
  BY <1>2, <1>3, <1>5, <1>6, <1>8, RemovedShape
<1>10. InOf(life') = K
  BY <1>1, <1>7, <1>8 DEF InOf
<1>11. /\ K \in SUBSET Node /\ Whole(mem', pRoot', K)
       /\ InfoRight(mInfo', Cardinality(K)) /\ LevelsRight(mem', pRoot', K, mInfo')
       /\ mInfo'.currNumLevels \in Nat /\ mInfo'.currNumLevels <= mInfo'.maxNumLevels
  BY <1>10, StateIs DEF IInv
<1>12. ParentBar(mem, pRoot) = Parents(mem, I) /\ BeforeBar(mem, pRoot) = Orders(mem, I)
  BY <1>1, MappedIs DEF IInv
<1>13. ParentBar(mem', pRoot') = Parents(mem', K) /\ BeforeBar(mem', pRoot') = Orders(mem', K)
  BY <1>10, MappedIs DEF IInv
<1>14. /\ Parents(mem', K) = [x \in K |-> Parents(mem, I)[x]]
       /\ Orders(mem', K) = Orders(mem, I) \intersect (K \X K)
  <2>1. SamePlaces(mem, t.mem, K) /\ K \subseteq I
    BY <1>8, <1>9 DEF Kept
  <2>2. CutTo(mem, t.mem, I, K)
    BY <2>1, CutIs
  <2> QED
    BY <2>2, <1>7 DEF CutTo
<1>15. DOMAIN ParentBar(mem, pRoot) = I /\ K = I \ Ordered!Below(ParentBar(mem, pRoot), n)
  BY <1>3, <1>5, <1>8, <1>12, BelowIs DEF Parents
<1>16. Ordered!Cut(n)
  BY <1>3, <1>7, <1>9, <1>12, <1>13, <1>14, <1>15 DEF Ordered!Cut
<1>17. NewCounts(pRoot', mInfo', Cardinality(K))
  <2>1. mInfo'.maxNumNodes = mInfo.maxNumNodes /\ mInfo'.maxNumLevels = mInfo.maxNumLevels
    BY <1>7, <1>9 DEF Kept
  <2>2. Cardinality(K) \in Nat /\ Cardinality(K) <= mInfo.maxNumNodes
    <3>1. /\ Cardinality(K) <= Cardinality(I) /\ Cardinality(K) \in Nat
          /\ Cardinality(I) \in Nat
      BY <1>2, <1>8, CountIs, FS_Subset, FS_CardinalityType
    <3> QED
      BY <3>1, <1>2
  <2>3. PICK k \in Nat : k = (IF pRoot' = NULL THEN 0 ELSE mInfo'.currNumLevels)
                         /\ k <= mInfo.maxNumLevels
    BY <2>1, <1>2, <1>11
  <2>4. Ordered!Larger(mInfo.maxNumNodes, Cardinality(K)) = mInfo.maxNumNodes
    BY <2>2, <1>2, LargerStays
  <2>5. Ordered!Larger(mInfo.maxNumLevels, k) = mInfo.maxNumLevels
    BY <2>3, <1>2, LargerStays
  <2> QED
    BY <2>1, <2>3, <2>4, <2>5 DEF NewCounts
<1>18. InfoBar(pRoot', mInfo') = Ordered!Counted(ParentBar(mem', pRoot'))
  BY <1>2, <1>11, <1>13, <1>17, CountedIs
<1> QED
  BY <1>16, <1>18 DEF Ordered!Next

\* At first there is an empty tree.
LEMMA InitOrdered ==
  ASSUME Init
  PROVE  Ordered!Init
<1>1. IInv /\ InOf(life) = {} /\ pRoot = NULL
  BY InitRight DEF Init, InOf
<1>2. ParentBar(mem, pRoot) = Parents(mem, {}) /\ BeforeBar(mem, pRoot) = Orders(mem, {})
  BY <1>1, MappedIs DEF IInv
<1>3. Parents(mem, {}) = [n \in {} |-> NULL] /\ Orders(mem, {}) = {}
  BY DEF Parents, Orders
<1>4. InfoBar(pRoot, mInfo) = [currNumNodes |-> 0, maxNumNodes |-> 0,
                               currNumLevels |-> 0, maxNumLevels |-> 0]
  BY DEF Init, InfoBar
<1> QED
  BY <1>1, <1>2, <1>3, <1>4 DEF Ordered!Init

\* Every step is one of the ordered tree, or none.
LEMMA NextOrdered ==
  ASSUME IInv, IInv', [Next]_vars
  PROVE  [Ordered!Next]_(Ordered!vars)
<1> USE NullAssumption
<1>0. /\ Whole(mem, pRoot, InOf(life)) /\ mInfo \in Infos
      /\ life \in [Node -> {"none", "made", "in", "out"}] /\ mem \in Memory
      /\ LevelsRight(mem, pRoot, InOf(life), mInfo)
  BY DEF IInv, StateRight, InfoRight
<1>1. ASSUME NEW n \in Node, Make(n) \/ Delete(n)
      PROVE  UNCHANGED Ordered!vars
  <2>1. /\ life[n] # "in" /\ pRoot' = pRoot /\ mInfo' = mInfo
        /\ \A x \in Node \ {n} : life'[x] = life[x] /\ mem'[x] = mem[x]
        /\ life'[n] # "in"
    BY <1>0, <1>1 DEF Make, Delete, Memory
  <2>2. InOf(life') = InOf(life) /\ \A x \in InOf(life) : mem'[x] = mem[x]
    BY <2>1 DEF InOf
  <2>3. SamePlaces(mem, mem', InOf(life))
    BY <2>2, <1>0, PlacesStay
  <2> QED
    BY <2>1, <2>2, <2>3, Stutters
<1>2. CASE GetInfo
  <2>1. /\ mInfo' = InfoRemoveNewLevel(mem, pRoot, mInfo) /\ mem' = mem /\ pRoot' = pRoot
        /\ life' = life
    BY <1>2 DEF GetInfo
  <2>2. InfoBar(pRoot, mInfo') = InfoBar(pRoot, mInfo)
    <3>1. CASE pRoot = NULL
      BY <2>1, <3>1, <1>0 DEF InfoBar, InfoRemoveNewLevel, Infos
    <3>2. CASE pRoot # NULL
      <4>1. PICK aft, hgt, ord : Shape(mem, pRoot, InOf(life), aft, hgt, ord)
        BY <3>2, <1>0 DEF Whole
      <4>2. PICK L : L = TreeLevels(mem, pRoot, InOf(life))
        OBVIOUS
      <4>3. Reached(mem, pRoot) = InOf(life) /\ InOf(life) # {}
        BY <4>1, ReachedAll DEF Shape, Family, ParentRight
      <4>4. L \in SUBSET Count /\ L # {} /\ Top(L, mInfo.currNumLevels)
        BY <4>2, <4>3, <1>0, LevelsAre DEF TreeLevels, LevelsRight
      <4>5. mInfo.currNumLevels = Max(L)
        BY <4>4, TopMax DEF Top
      <4>6. mInfo' = [mInfo EXCEPT !.currNumLevels = Max(L)]
        BY <2>1, <3>2, <4>2, <4>3 DEF InfoRemoveNewLevel, TreeLevels
      <4>7. mInfo' = mInfo
        BY <4>5, <4>6, <1>0 DEF Infos
      <4> QED
        BY <4>7
    <3> QED
      BY <3>1, <3>2
  <2>3. SamePlaces(mem, mem', InOf(life)) /\ InOf(life') = InOf(life)
    BY <2>1 DEF SamePlaces
  <2> QED
    BY <2>1, <2>2, <2>3, Stutters
<1>3. ASSUME mem' = mem, pRoot' = pRoot, mInfo' = mInfo, life' = life
      PROVE  UNCHANGED Ordered!vars
  <2>1. SamePlaces(mem, mem', InOf(life)) /\ InOf(life') = InOf(life)
    BY <1>3 DEF SamePlaces
  <2>2. InfoBar(pRoot, mInfo') = InfoBar(pRoot, mInfo)
    BY <1>3
  <2> QED
    BY <1>3, <2>1, <2>2, Stutters
<1>4. ASSUME NEW n \in Node, NEW p \in Node \union {NULL}, Insert(n, p)
      PROVE  Ordered!Next
  <2>1. life[n] = "made" /\ life' = [life EXCEPT ![n] = "in"]
    BY <1>4 DEF Insert
  <2>2. CASE p = NULL /\ pRoot = NULL /\ Become(InsertRoot(n))
    BY <2>1, <2>2, InsertPlants
  <2>3. CASE /\ p \in Node /\ life[p] = "in"
             /\ IF mem[p].pChild = NULL THEN Become(InsertOnlyChild(n, p))
                                        ELSE Become(InsertFirstChild(n, p))
    BY <2>1, <2>3, InsertHangs
  <2> QED
    BY <1>4, <2>2, <2>3 DEF Insert
<1>5. ASSUME NEW n \in Node, RemoveSubtree(n)
      PROVE  Ordered!Next
  BY <1>5, RemoveCuts
<1>6. CASE First("forward") \/ First("reverse") \/ Step \/ Leave
  BY <1>3, <1>6 DEF First, Step, Leave
<1>7. CASE UNCHANGED vars
  BY <1>3, <1>7 DEF vars
<1> QED
  BY <1>1, <1>2, <1>4, <1>5, <1>6, <1>7 DEF Next

\* PCSTree.cpp and its Info: after any sequence of calls the links stand for the tree
\* that was hung in and not removed since, in its order, and the counts are its own,
\* though two branches alone count levels; for any number of nodes, and whatever the
\* threads of a new node hold.
THEOREM LinksAreTheTree == Spec => ImplementsOrderedTree
<1>1. Init => Ordered!Init
  BY InitOrdered
<1>2. IInv /\ IInv' /\ [Next]_vars => [Ordered!Next]_(Ordered!vars)
  BY NextOrdered
<1> QED
  BY <1>1, <1>2, AlwaysATree, PTL DEF Spec, ImplementsOrderedTree, Ordered!Spec
================================================================================
