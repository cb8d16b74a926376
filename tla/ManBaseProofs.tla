---------------------------- MODULE ManBaseProofs ----------------------------
(***************************************************************************)
(* The two lists behind every manager stay proper doubly linked lists that *)
(* share out the allocated nodes, the counters count them, and what they   *)
(* hand out is what NodePool promises, for any number of nodes, names and  *)
(* lists of any length.                                                    *)
(*                                                                         *)
(* The proof puts a sequence in place of each list.  Own(m, l, s) says     *)
(* that the memory m holds the sequence s as list l; it determines s       *)
(* (OneChain), so that the CHOOSE of Chain has only one choice (ChainIs).  *)
(* Each operation of DLinkMan is first described link by link              *)
(* (FrontLinks, EndLinks, OutLinks, FreshLinks), then by what it does to   *)
(* the sequence it works on (FrontOwn, EndOwn, OutOwn, FreshOwn), and then *)
(* by that together with the other list, which keeps its sequence because  *)
(* no node is on both (TwoFront, TwoEnd, TwoRemove, FilledOwns).  The      *)
(* inductive invariant PInv names the two sequences; the actions of        *)
(* ManBase only compose the operations.                                    *)
(***************************************************************************)
EXTENDS ManBase, WellFoundedInduction, SequenceTheorems, TLAPS

------------------------------------------------------------------------------
(* The operations of DLinkMan, link by link.                               *)

\* Set writes one cell.
Written(g, f, x, v) ==
  /\ g \in [Node -> Node \cup {null}]
  /\ \A y \in Node : g[y] = IF y = x THEN v ELSE f[y]

\* The guarded write through a pointer: one cell, or none when it is null.
LEMMA SetIs ==
  ASSUME NEW f \in [Node -> Node \cup {null}],
         NEW x \in Node \cup {null}, NEW v \in Node \cup {null}
  PROVE  Written(Set(f, x, v), f, x, v)
BY NullAssumption, MaxNodesAssumption DEF Set, Node, Written

\* A memory is its three fields.
LEMMA MemoryIs ==
  ASSUME NEW m \in Memory
  PROVE  /\ m = [poHead |-> m.poHead, pNext |-> m.pNext, pPrev |-> m.pPrev]
         /\ m.poHead \in [List -> Node \cup {null}]
         /\ m.pNext \in [Node -> Node \cup {null}]
         /\ m.pPrev \in [Node -> Node \cup {null}]
BY DEF Memory

\* Memory w is m with n before the head of l.
FrontLinks(m, l, n, w) ==
  /\ w \in Memory
  /\ w.poHead[l] = n /\ \A k \in List \ {l} : w.poHead[k] = m.poHead[k]
  /\ w.pNext[n] = m.poHead[l] /\ \A x \in Node \ {n} : w.pNext[x] = m.pNext[x]
  /\ w.pPrev[n] = null
  /\ m.poHead[l] # null => w.pPrev[m.poHead[l]] = n
  /\ \A x \in Node : x # n /\ x # m.poHead[l] => w.pPrev[x] = m.pPrev[x]

\* Memory w is m with n after the last node of l.
EndLinks(m, l, n, last, w) ==
  /\ w \in Memory
  /\ last = null => w.poHead[l] = n
  /\ last # null => w.poHead[l] = m.poHead[l] /\ w.pNext[last] = n
  /\ \A k \in List \ {l} : w.poHead[k] = m.poHead[k]
  /\ w.pNext[n] = null /\ w.pPrev[n] = last
  /\ \A x \in Node : x # n /\ x # last => w.pNext[x] = m.pNext[x]
  /\ \A x \in Node \ {n} : w.pPrev[x] = m.pPrev[x]

\* Memory w is m without n, which was on l between before and after.
OutLinks(m, l, n, before, after, w) ==
  /\ w \in Memory
  /\ before = null => w.poHead[l] = after
  /\ before # null => w.poHead[l] = m.poHead[l] /\ w.pNext[before] = after
  /\ after # null => w.pPrev[after] = before
  /\ \A k \in List \ {l} : w.poHead[k] = m.poHead[k]
  /\ \A x \in Node : x # n /\ x # before => w.pNext[x] = m.pNext[x]
  /\ \A x \in Node : x # n /\ x # after => w.pPrev[x] = m.pPrev[x]

\* AddToFront of a node that is not the head already.
LEMMA AddToFrontIs ==
  ASSUME NEW m \in Memory, NEW l \in List, NEW n \in Node, n # m.poHead[l]
  PROVE  FrontLinks(m, l, n, AddToFront(m, l, n))
<1> DEFINE b == [m.pPrev EXCEPT ![n] = null]
           c == Set(b, m.poHead[l], n)
           h == [m.poHead EXCEPT ![l] = n]
           f == [m.pNext EXCEPT ![n] = m.poHead[l]]
<1>1. /\ b \in [Node -> Node \cup {null}]
      /\ \A x \in Node : b[x] = IF x = n THEN null ELSE m.pPrev[x]
  BY MemoryIs
<1>2. /\ c \in [Node -> Node \cup {null}]
      /\ \A x \in Node : c[x] = IF x = m.poHead[l] THEN n ELSE b[x]
  <2> HIDE DEF b
  <2>1. m.poHead[l] \in Node \cup {null} BY MemoryIs
  <2>2. Written(c, b, m.poHead[l], n) BY <1>1, <2>1, SetIs
  <2> QED BY <2>2 DEF Written
<1>3. /\ h \in [List -> Node \cup {null}]
      /\ \A k \in List : h[k] = IF k = l THEN n ELSE m.poHead[k]
  BY MemoryIs
<1>4. /\ f \in [Node -> Node \cup {null}]
      /\ \A x \in Node : f[x] = IF x = n THEN m.poHead[l] ELSE m.pNext[x]
  BY MemoryIs
<1>6. AddToFront(m, l, n) = [poHead |-> h, pNext |-> f, pPrev |-> c]
  BY DEF AddToFront
<1> HIDE DEF b, c, h, f
<1>7. AddToFront(m, l, n) \in Memory
  BY <1>2, <1>3, <1>4, <1>6 DEF Memory
<1>8. m.poHead[l] \in Node \cup {null} BY MemoryIs
<1> QED BY <1>1, <1>2, <1>3, <1>4, <1>6, <1>7, <1>8 DEF FrontLinks

\* AddToEnd of a node that is not the last one already.
LEMMA AddToEndIs ==
  ASSUME NEW m \in Memory, NEW l \in List, NEW n \in Node,
         NEW last \in Node \cup {null}, last = LastOf(Chain(m, l)), n # last
  PROVE  EndLinks(m, l, n, last, AddToEnd(m, l, n))
<1> DEFINE b == [m.pNext EXCEPT ![n] = null]
           c == Set(b, last, n)
           h == [m.poHead EXCEPT ![l] = IF last = null THEN n ELSE m.poHead[l]]
           f == [m.pPrev EXCEPT ![n] = last]
<1>6. AddToEnd(m, l, n) = [poHead |-> h, pNext |-> c, pPrev |-> f]
  BY DEF AddToEnd
<1>1. /\ b \in [Node -> Node \cup {null}]
      /\ \A x \in Node : b[x] = IF x = n THEN null ELSE m.pNext[x]
  BY MemoryIs
<1>2. c \in [Node -> Node \cup {null}] /\ \A x \in Node : c[x] = IF x = last THEN n ELSE b[x]
  <2> HIDE DEF b
  <2>1. Written(c, b, last, n) BY <1>1, SetIs
  <2> QED BY <2>1 DEF Written
<1>3. /\ h \in [List -> Node \cup {null}]
      /\ \A k \in List : h[k] = IF k = l /\ last = null THEN n ELSE m.poHead[k]
  BY MemoryIs
<1>4. /\ f \in [Node -> Node \cup {null}]
      /\ \A x \in Node : f[x] = IF x = n THEN last ELSE m.pPrev[x]
  BY MemoryIs
<1> HIDE DEF b, c, h, f
<1>7. AddToEnd(m, l, n) \in Memory
  BY <1>2, <1>3, <1>4, <1>6 DEF Memory
<1> QED BY <1>1, <1>2, <1>3, <1>4, <1>6, <1>7 DEF EndLinks

\* Remove joins the neighbours of the node, whichever of them exist.
LEMMA RemoveIs ==
  ASSUME NEW m \in Memory, NEW l \in List, NEW n \in Node, n # m.pPrev[n], n # m.pNext[n]
  PROVE  OutLinks(m, l, n, m.pPrev[n], m.pNext[n], Remove(m, l, n))
<1> DEFINE before == m.pPrev[n]
           after == m.pNext[n]
           h == [m.poHead EXCEPT ![l] = IF before = null THEN after ELSE m.poHead[l]]
           b == Set(m.pNext, before, after)
           c == Set(m.pPrev, after, before)
           f == [b EXCEPT ![n] = null]
           g == [c EXCEPT ![n] = null]
<1>0. before \in Node \cup {null} /\ after \in Node \cup {null}
  BY MemoryIs
<1>7. Remove(m, l, n) = [poHead |-> h, pNext |-> f, pPrev |-> g]
  BY DEF Remove, Clear
<1>1. /\ b \in [Node -> Node \cup {null}]
      /\ \A x \in Node : b[x] = IF x = before THEN after ELSE m.pNext[x]
  <2> HIDE DEF before, after
  <2>1. m.pNext \in [Node -> Node \cup {null}] BY MemoryIs
  <2>2. Written(b, m.pNext, before, after) BY <1>0, <2>1, SetIs
  <2> QED BY <2>2 DEF Written
<1>2. /\ c \in [Node -> Node \cup {null}]
      /\ \A x \in Node : c[x] = IF x = after THEN before ELSE m.pPrev[x]
  <2> HIDE DEF before, after
  <2>1. m.pPrev \in [Node -> Node \cup {null}] BY MemoryIs
  <2>2. Written(c, m.pPrev, after, before) BY <1>0, <2>1, SetIs
  <2> QED BY <2>2 DEF Written
<1>3. /\ h \in [List -> Node \cup {null}]
      /\ \A k \in List : h[k] = IF k = l /\ before = null THEN after ELSE m.poHead[k]
  BY <1>0, MemoryIs
<1> HIDE DEF b, c, h, before, after
<1>4. /\ f \in [Node -> Node \cup {null}] /\ \A x \in Node : f[x] = IF x = n THEN null ELSE b[x]
      /\ g \in [Node -> Node \cup {null}] /\ \A x \in Node : g[x] = IF x = n THEN null ELSE c[x]
  BY <1>1, <1>2
<1> HIDE DEF f, g
<1>8. Remove(m, l, n) \in Memory
  BY <1>3, <1>4, <1>7 DEF Memory
<1>9. OutLinks(m, l, n, before, after, Remove(m, l, n))
  <2>1. n # before /\ n # after BY DEF before, after
  <2> QED BY <1>0, <1>1, <1>2, <1>3, <1>4, <1>7, <1>8, <2>1 DEF OutLinks
<1> QED BY <1>9 DEF before, after

\* RemoveFromFront is a Remove of the head, which has no predecessor.
LEMMA RemoveFromFrontIs ==
  ASSUME NEW m \in Memory, NEW l \in List, NEW n \in Node, n = m.poHead[l], n # m.pNext[n]
  PROVE  OutLinks(m, l, n, null, m.pNext[n], RemoveFromFront(m, l))
<1> DEFINE after == m.pNext[n]
           h == [m.poHead EXCEPT ![l] = after]
           c == Set(m.pPrev, after, null)
           f == [m.pNext EXCEPT ![n] = null]
           g == [c EXCEPT ![n] = null]
<1>0. after \in Node \cup {null}
  BY MemoryIs
<1>7. RemoveFromFront(m, l) = [poHead |-> h, pNext |-> f, pPrev |-> g]
  BY DEF RemoveFromFront, Clear
<1>2. /\ c \in [Node -> Node \cup {null}]
      /\ \A x \in Node : c[x] = IF x = after THEN null ELSE m.pPrev[x]
  <2> HIDE DEF after
  <2>1. m.pPrev \in [Node -> Node \cup {null}] BY MemoryIs
  <2>2. Written(c, m.pPrev, after, null) BY <1>0, <2>1, SetIs
  <2> QED BY <2>2 DEF Written
<1>3. /\ h \in [List -> Node \cup {null}]
      /\ \A k \in List : h[k] = IF k = l THEN after ELSE m.poHead[k]
  BY <1>0, MemoryIs
<1> HIDE DEF c, h, after
<1>4. /\ f \in [Node -> Node \cup {null}]
      /\ \A x \in Node : f[x] = IF x = n THEN null ELSE m.pNext[x]
      /\ g \in [Node -> Node \cup {null}] /\ \A x \in Node : g[x] = IF x = n THEN null ELSE c[x]
  BY <1>0, <1>2, MemoryIs
<1> HIDE DEF f, g
<1>8. RemoveFromFront(m, l) \in Memory
  BY <1>3, <1>4, <1>7 DEF Memory
<1>9. OutLinks(m, l, n, null, after, RemoveFromFront(m, l))
  <2>1. n # after BY DEF after
  <2> QED BY <1>0, <1>2, <1>3, <1>4, <1>7, <1>8, <2>1, MemoryIs, NullAssumption
          DEF OutLinks, Node
<1> QED BY <1>9 DEF after

------------------------------------------------------------------------------
(* Lists and the sequences they hold.                                      *)

On(s, n) == \E i \in 1..Len(s) : s[i] = n

Once(s) == \A i, j \in 1..Len(s) : s[i] = s[j] => i = j

\* Linked, without the empty sequence.
Chained(m, l, s) ==
  /\ Len(s) = 0 => m.poHead[l] = null
  /\ Len(s) > 0 => m.poHead[l] = s[1]
  /\ \A i \in 1..Len(s) :
       /\ i = Len(s) => m.pNext[s[i]] = null
       /\ i < Len(s) => m.pNext[s[i]] = s[i + 1]
       /\ i = 1 => m.pPrev[s[i]] = null
       /\ i > 1 => m.pPrev[s[i]] = s[i - 1]

\* List l of memory m is s.
Own(m, l, s) == s \in Seq(Node) /\ Once(s) /\ Chained(m, l, s)

\* A sequence of nodes never holds null.
LEMMA SeqIs ==
  ASSUME NEW s \in Seq(Node)
  PROVE  /\ Len(s) \in Nat /\ (s = <<>> <=> Len(s) = 0)
         /\ \A i \in 1..Len(s) : s[i] \in Node /\ s[i] # null
<1>1. Len(s) \in Nat /\ \A i \in 1..Len(s) : s[i] \in Node
  OBVIOUS
<1>2. s = <<>> <=> Len(s) = 0
  BY EmptySeq
<1>3. \A n \in Node : n # null
  BY NullAssumption, MaxNodesAssumption DEF Node
<1> QED BY <1>1, <1>2, <1>3

\* Chained is ManBase's own Linked.
LEMMA LinkedIs ==
  ASSUME NEW m, NEW l, NEW s \in Seq(Node)
  PROVE  Linked(m, l, s) <=> Chained(m, l, s)
<1>1. Len(s) \in Nat /\ (s = <<>> <=> Len(s) = 0)
  BY SeqIs
<1>2. m.poHead[l] = (IF s = <<>> THEN null ELSE s[1]) <=>
        (Len(s) = 0 => m.poHead[l] = null) /\ (Len(s) > 0 => m.poHead[l] = s[1])
  BY <1>1
<1>3. ASSUME NEW i \in 1..Len(s)
      PROVE  /\ m.pNext[s[i]] = (IF i = Len(s) THEN null ELSE s[i + 1]) <=>
                  /\ i = Len(s) => m.pNext[s[i]] = null
                  /\ i < Len(s) => m.pNext[s[i]] = s[i + 1]
             /\ m.pPrev[s[i]] = (IF i = 1 THEN null ELSE s[i - 1]) <=>
                  /\ i = 1 => m.pPrev[s[i]] = null
                  /\ i > 1 => m.pPrev[s[i]] = s[i - 1]
  BY <1>1
<1> QED BY <1>2, <1>3 DEF Linked, IsChain, Chained

\* An operation that leaves the head of a list and the links of its nodes alone
\* leaves the list alone.
LEMMA Untouched ==
  ASSUME NEW m, NEW l, NEW s, Own(m, l, s), NEW w,
         w.poHead[l] = m.poHead[l],
         \A i \in 1..Len(s) : w.pNext[s[i]] = m.pNext[s[i]] /\ w.pPrev[s[i]] = m.pPrev[s[i]]
  PROVE  Own(w, l, s)
BY DEF Own, Chained

\* The least of a set of numbers.
LEMMA LeastIs ==
  ASSUME NEW S, S \subseteq Nat, S # {}
  PROVE  \E n \in S : \A m \in S : n <= m
<1>1. PICK n \in S : \A m \in S : <<m, n>> \notin OpToRel(<, Nat)
  BY WFMin, NatLessThanWellFounded, Zenon
<1>2. \A m \in S : ~ (m < n)
  BY <1>1 DEF OpToRel
<1>3. ASSUME NEW m \in S PROVE n <= m
  <2>1. m \in Nat /\ n \in Nat /\ ~(m < n) BY <1>1, <1>2
  <2> QED BY <2>1
<1> QED BY <1>3

\* A walk along pNext has no choice: two chains of one list are equal.
LEMMA OneChain ==
  ASSUME NEW m, NEW l, NEW s \in Seq(Node), NEW t \in Seq(Node),
         IsChain(m, l, s), IsChain(m, l, t)
  PROVE  s = t
<1>1. /\ Len(s) \in Nat /\ (s = <<>> <=> Len(s) = 0) /\ \A i \in 1..Len(s) : s[i] # null
      /\ Len(t) \in Nat /\ (t = <<>> <=> Len(t) = 0) /\ \A i \in 1..Len(t) : t[i] # null
  BY SeqIs
<1>2. /\ m.poHead[l] = IF s = <<>> THEN null ELSE s[1]
      /\ m.poHead[l] = IF t = <<>> THEN null ELSE t[1]
      /\ \A i \in 1..Len(s) : m.pNext[s[i]] = IF i = Len(s) THEN null ELSE s[i + 1]
      /\ \A i \in 1..Len(t) : m.pNext[t[i]] = IF i = Len(t) THEN null ELSE t[i + 1]
  BY DEF IsChain
<1> DEFINE bad == {i \in Nat : i \in 1..Len(s) /\ i \in 1..Len(t) /\ s[i] # t[i]}
<1>3. bad = {}
  <2> SUFFICES ASSUME bad # {} PROVE FALSE
    OBVIOUS
  <2>1. PICK k \in bad : \A j \in bad : k <= j
    BY LeastIs
  <2>2. k \in Nat /\ k \in 1..Len(s) /\ k \in 1..Len(t) /\ s[k] # t[k]
    BY <2>1
  <2>3. k # 1
    BY <1>1, <1>2, <2>2
  <2>4. k - 1 \in Nat /\ k - 1 \in 1..Len(s) /\ k - 1 \in 1..Len(t) /\ (k - 1) + 1 = k
        /\ k - 1 # Len(s) /\ k - 1 # Len(t) /\ ~(k <= k - 1)
    BY <1>1, <2>2, <2>3
  <2>5. s[k - 1] = t[k - 1]
    BY <2>1, <2>4
  <2>6. m.pNext[s[k - 1]] = s[k] /\ m.pNext[t[k - 1]] = t[k]
    BY <1>2, <2>4
  <2> QED BY <2>2, <2>5, <2>6
<1>4. \A i \in 1..Len(s) : i \in 1..Len(t) => s[i] = t[i]
  BY <1>1, <1>3
<1> HIDE DEF bad
<1>5. ~(Len(s) < Len(t))
  <2> SUFFICES ASSUME Len(s) < Len(t) PROVE FALSE
    OBVIOUS
  <2>1. CASE Len(s) = 0
    BY <1>1, <1>2, <2>1
  <2>2. CASE Len(s) > 0
    <3>1. /\ Len(s) \in 1..Len(s) /\ Len(s) \in 1..Len(t) /\ Len(s) + 1 \in 1..Len(t)
          /\ Len(s) # Len(t)
      BY <1>1, <2>2
    <3>2. m.pNext[s[Len(s)]] = null /\ m.pNext[t[Len(s)]] = t[Len(s) + 1]
      BY <1>2, <3>1
    <3> QED BY <1>1, <1>4, <3>1, <3>2
  <2> QED BY <1>1, <2>1, <2>2
<1>6. ~(Len(t) < Len(s))
  <2> SUFFICES ASSUME Len(t) < Len(s) PROVE FALSE
    OBVIOUS
  <2>1. CASE Len(t) = 0
    BY <1>1, <1>2, <2>1
  <2>2. CASE Len(t) > 0
    <3>1. /\ Len(t) \in 1..Len(t) /\ Len(t) \in 1..Len(s) /\ Len(t) + 1 \in 1..Len(s)
          /\ Len(s) # Len(t)
      BY <1>1, <2>2
    <3>2. m.pNext[t[Len(t)]] = null /\ m.pNext[s[Len(t)]] = s[Len(t) + 1]
      BY <1>2, <3>1
    <3> QED BY <1>1, <1>4, <3>1, <3>2
  <2> QED BY <1>1, <2>1, <2>2
<1>7. Len(s) = Len(t)
  BY <1>1, <1>5, <1>6
<1> QED BY <1>4, <1>7, SeqEqual

\* So the iterator visits what the list holds.
LEMMA ChainIs ==
  ASSUME NEW m, NEW l, NEW s, Own(m, l, s), Len(s) <= MaxNodes
  PROVE  Chain(m, l) = s /\ s \in NodeSeq
<1>1. s \in Seq(Node) /\ IsChain(m, l, s)
  BY LinkedIs DEF Own, Linked
<1>2. Len(s) \in 0..MaxNodes /\ s \in [1..Len(s) -> Node]
  BY <1>1, MaxNodesAssumption, LenProperties, SeqIs
<1>3. s \in NodeSeq
  BY <1>2 DEF NodeSeq
<1>4. \A t \in NodeSeq : t \in Seq(Node)
  BY MaxNodesAssumption DEF NodeSeq
<1>5. Chain(m, l) \in NodeSeq /\ IsChain(m, l, Chain(m, l))
  BY <1>1, <1>3, Zenon DEF Chain
<1> QED BY <1>1, <1>3, <1>4, <1>5, OneChain

------------------------------------------------------------------------------
(* What the operations do to the sequence of a list.                       *)

\* A sequence with a node put before it.
LEMMA FrontIs ==
  ASSUME NEW s \in Seq(Node), NEW n \in Node
  PROVE  /\ <<n>> \o s \in Seq(Node) /\ Len(<<n>> \o s) = Len(s) + 1 /\ (<<n>> \o s)[1] = n
         /\ \A i \in 1..Len(s) : (<<n>> \o s)[i + 1] = s[i]
<1>1. <<n>> \in Seq(Node) /\ Len(<<n>>) = 1 /\ <<n>>[1] = n
  OBVIOUS
<1>2. /\ <<n>> \o s \in Seq(Node) /\ Len(<<n>> \o s) = 1 + Len(s)
      /\ \A i \in 1..(1 + Len(s)) : (<<n>> \o s)[i] = IF i <= 1 THEN <<n>>[i] ELSE s[i - 1]
  BY <1>1, ConcatProperties
<1>3. Len(s) \in Nat BY SeqIs
<1>4. ASSUME NEW i \in 1..Len(s) PROVE (<<n>> \o s)[i + 1] = s[i]
  <2>1. i + 1 \in 1..(1 + Len(s)) /\ ~(i + 1 <= 1) /\ (i + 1) - 1 = i BY <1>3
  <2> QED BY <1>2, <2>1
<1>5. (<<n>> \o s)[1] = n
  <2>1. 1 \in 1..(1 + Len(s)) BY <1>3
  <2> QED BY <1>1, <1>2, <2>1
<1>6. 1 + Len(s) = Len(s) + 1 BY <1>3
<1> QED BY <1>2, <1>4, <1>5, <1>6

\* A node linked in at the head comes before the sequence of the list.
LEMMA FrontOwn ==
  ASSUME NEW m, NEW l \in List, NEW s, Own(m, l, s), NEW n \in Node, ~On(s, n),
         NEW w, FrontLinks(m, l, n, w)
  PROVE  Own(w, l, <<n>> \o s)
<1> DEFINE t == <<n>> \o s
<1>1. s \in Seq(Node) /\ Once(s) /\ Chained(m, l, s)
  BY DEF Own
<1>2. Len(s) \in Nat /\ \A i \in 1..Len(s) : s[i] \in Node /\ s[i] # null /\ s[i] # n
  BY <1>1, SeqIs DEF On
<1>3. t \in Seq(Node) /\ Len(t) = Len(s) + 1 /\ t[1] = n /\ \A i \in 1..Len(s) : t[i + 1] = s[i]
  BY <1>1, FrontIs
<1> HIDE DEF t
<1>4. /\ Len(s) = 0 => m.poHead[l] = null
      /\ Len(s) > 0 => m.poHead[l] = s[1]
      /\ \A i \in 1..Len(s) :
           /\ i = Len(s) => m.pNext[s[i]] = null
           /\ i < Len(s) => m.pNext[s[i]] = s[i + 1]
           /\ i = 1 => m.pPrev[s[i]] = null
           /\ i > 1 => m.pPrev[s[i]] = s[i - 1]
  BY <1>1 DEF Chained
<1>5. \A i, j \in 1..Len(s) : s[i] = s[j] => i = j
  BY <1>1 DEF Once
<1>6. ASSUME NEW i \in 1..Len(t), i # 1
      PROVE  /\ i - 1 \in 1..Len(s) /\ (i - 1) + 1 = i /\ t[i] = s[i - 1]
             /\ (i = Len(t) <=> i - 1 = Len(s)) /\ (i < Len(t) <=> i - 1 < Len(s)) /\ i > 1
  <2>1. /\ i - 1 \in 1..Len(s) /\ (i - 1) + 1 = i
        /\ (i = Len(t) <=> i - 1 = Len(s)) /\ (i < Len(t) <=> i - 1 < Len(s)) /\ i > 1
    BY <1>2, <1>3, <1>6
  <2>2. t[(i - 1) + 1] = s[i - 1] BY <1>3, <2>1
  <2> QED BY <2>1, <2>2
<1>7. Once(t)
  <2> SUFFICES ASSUME NEW i \in 1..Len(t), NEW j \in 1..Len(t), t[i] = t[j] PROVE i = j
    BY DEF Once
  <2>1. CASE i = 1 \/ j = 1 BY <1>2, <1>3, <1>6, <2>1
  <2>2. CASE i # 1 /\ j # 1
    <3>1. i - 1 = j - 1 BY <1>5, <1>6, <2>2
    <3>2. i = (i - 1) + 1 /\ j = (j - 1) + 1 BY <1>6, <2>2
    <3> QED BY <3>1, <3>2
  <2> QED BY <2>1, <2>2
<1>8. ASSUME NEW i \in 1..Len(t)
      PROVE  /\ i = Len(t) => w.pNext[t[i]] = null
             /\ i < Len(t) => w.pNext[t[i]] = t[i + 1]
             /\ i = 1 => w.pPrev[t[i]] = null
             /\ i > 1 => w.pPrev[t[i]] = t[i - 1]
  <2>1. CASE i = 1
    <3>1. w.pNext[n] = m.poHead[l] /\ w.pPrev[n] = null BY Zenon DEF FrontLinks
    <3>2. i = Len(t) => Len(s) = 0 BY <1>2, <1>3, <2>1
    <3>3. i < Len(t) => Len(s) > 0 /\ t[i + 1] = s[1]
      <4> SUFFICES ASSUME i < Len(t) PROVE Len(s) > 0 /\ t[i + 1] = s[1]
        OBVIOUS
      <4>1. Len(s) > 0 /\ 1 \in 1..Len(s) BY <1>2, <1>3, <2>1
      <4> QED BY <1>3, <2>1, <4>1
    <3> QED BY <1>3, <1>4, <2>1, <3>1, <3>2, <3>3
  <2>2. CASE i # 1
    <3>1. PICK j \in 1..Len(s) : j = i - 1 BY <1>6, <2>2
    <3>2. /\ t[i] = s[j] /\ i = j + 1 /\ i > 1 /\ (i = Len(t) <=> j = Len(s))
          /\ (i < Len(t) <=> j < Len(s))
      BY <1>6, <2>2, <3>1
    <3>3. s[j] \in Node \ {n} BY <1>2
    <3>4. w.pNext[s[j]] = m.pNext[s[j]]
      BY <3>3 DEF FrontLinks
    <3>5. j < Len(s) => t[i + 1] = s[j + 1]
      <4> SUFFICES ASSUME j < Len(s) PROVE t[i + 1] = s[j + 1]
        OBVIOUS
      <4>1. j + 1 \in 1..Len(s) BY <1>2
      <4> QED BY <1>3, <3>2, <4>1
    <3>6. w.pPrev[s[j]] = t[j]
      <4>1. 1 \in 1..Len(s) /\ Len(s) > 0 BY <1>2
      <4>2. m.poHead[l] = s[1] BY <1>4, <4>1
      <4>3. CASE j = 1
        <5>1. m.poHead[l] = s[j] /\ s[j] # null BY <1>2, <4>2, <4>3
        <5>2. m.poHead[l] # null => w.pPrev[m.poHead[l]] = n BY Zenon DEF FrontLinks
        <5> QED BY <1>3, <4>3, <5>1, <5>2
      <4>4. CASE j # 1
        <5>1. j > 1 /\ j - 1 \in 1..Len(s) /\ (j - 1) + 1 = j BY <1>2, <4>4
        <5>2. s[j] # m.poHead[l] BY <1>5, <4>1, <4>2, <4>4
        <5>3. w.pPrev[s[j]] = m.pPrev[s[j]] BY <3>3, <5>2 DEF FrontLinks
        <5>4. m.pPrev[s[j]] = s[j - 1] BY <1>4, <5>1
        <5>5. t[j] = s[j - 1] BY <1>3, <5>1
        <5> QED BY <5>3, <5>4, <5>5
      <4> QED BY <4>3, <4>4
    <3>7. w.pPrev[t[i]] = t[i - 1] BY <3>1, <3>2, <3>6
    <3>8. (i = Len(t) => w.pNext[t[i]] = null) /\ (i < Len(t) => w.pNext[t[i]] = t[i + 1])
      BY <1>4, <3>2, <3>4, <3>5
    <3> QED BY <2>2, <3>7, <3>8
  <2> QED BY <2>1, <2>2
<1>9. Len(t) > 0 /\ Len(t) # 0 BY <1>2, <1>3
<1>10. w.poHead[l] = t[1] BY <1>3 DEF FrontLinks
<1>11. Chained(w, l, t)
  BY <1>8, <1>9, <1>10 DEF Chained
<1> QED BY <1>3, <1>7, <1>11 DEF Own, t

\* A node linked in after the last one comes after the sequence.
LEMMA EndOwn ==
  ASSUME NEW m, NEW l \in List, NEW s, Own(m, l, s), NEW n \in Node, ~On(s, n),
         NEW last, last = LastOf(s), NEW w, EndLinks(m, l, n, last, w)
  PROVE  Own(w, l, Append(s, n))
<1> DEFINE t == Append(s, n)
<1>1. s \in Seq(Node) /\ Once(s) /\ Chained(m, l, s)
  BY DEF Own
<1>2. Len(s) \in Nat /\ \A i \in 1..Len(s) : s[i] \in Node /\ s[i] # null /\ s[i] # n
  BY <1>1, SeqIs DEF On
<1>3. /\ t \in Seq(Node) /\ Len(t) = Len(s) + 1 /\ t[Len(s) + 1] = n
      /\ \A i \in 1..Len(s) : t[i] = s[i]
  BY <1>1
<1> HIDE DEF t
<1>4. /\ Len(s) = 0 => m.poHead[l] = null
      /\ Len(s) > 0 => m.poHead[l] = s[1]
      /\ \A i \in 1..Len(s) :
           /\ i = Len(s) => m.pNext[s[i]] = null
           /\ i < Len(s) => m.pNext[s[i]] = s[i + 1]
           /\ i = 1 => m.pPrev[s[i]] = null
           /\ i > 1 => m.pPrev[s[i]] = s[i - 1]
  BY <1>1 DEF Chained
<1>5. \A i, j \in 1..Len(s) : s[i] = s[j] => i = j
  BY <1>1 DEF Once
<1>6. \A i \in 1..Len(t) : i \in 1..Len(s) \/ i = Len(s) + 1
  BY <1>2, <1>3
<1>7. (Len(s) = 0 => last = null) /\ (Len(s) > 0 => last = s[Len(s)] /\ last # null)
  <2>1. s = <<>> <=> Len(s) = 0 BY <1>1, SeqIs
  <2>2. Len(s) > 0 => Len(s) \in 1..Len(s) BY <1>2
  <2> QED BY <1>2, <2>1, <2>2 DEF LastOf
<1>8. Once(t)
  BY <1>2, <1>3, <1>5, <1>6 DEF Once
<1>9. w.pNext[n] = null /\ w.pPrev[n] = last BY Zenon DEF EndLinks
<1>10. ASSUME NEW i \in 1..Len(t)
       PROVE  /\ i = Len(t) => w.pNext[t[i]] = null
              /\ i < Len(t) => w.pNext[t[i]] = t[i + 1]
              /\ i = 1 => w.pPrev[t[i]] = null
              /\ i > 1 => w.pPrev[t[i]] = t[i - 1]
  <2>1. CASE i = Len(s) + 1
    <3>1. t[i] = n /\ i = Len(t) /\ (i = 1 => Len(s) = 0) BY <1>2, <1>3, <2>1
    <3>2. i > 1 => Len(s) > 0 /\ i - 1 = Len(s) /\ i - 1 \in 1..Len(s) BY <1>2, <2>1
    <3>3. i > 1 => last = t[i - 1] BY <1>3, <1>7, <3>2
    <3>4. ~(i < Len(t)) BY <1>2, <3>1
    <3> QED BY <1>7, <1>9, <3>1, <3>3, <3>4
  <2>2. CASE i \in 1..Len(s)
    <3>1. t[i] = s[i] /\ i < Len(t) /\ i # Len(t) /\ Len(s) > 0 BY <1>2, <1>3, <2>2
    <3>2. s[i] \in Node \ {n} BY <1>2, <2>2
    <3>3. w.pPrev[s[i]] = m.pPrev[s[i]] BY <3>2 DEF EndLinks
    <3>4. i > 1 => t[i - 1] = s[i - 1] /\ i - 1 \in 1..Len(s) BY <1>2, <1>3, <2>2
    <3>5. w.pNext[s[i]] = t[i + 1]
      <4>1. CASE i = Len(s)
        <5>1. last = s[i] /\ last # null BY <1>7, <3>1, <4>1
        <5>2. last # null => w.pNext[last] = n BY Zenon DEF EndLinks
        <5> QED BY <1>3, <4>1, <5>1, <5>2
      <4>2. CASE i # Len(s)
        <5>1. i < Len(s) /\ i + 1 \in 1..Len(s) BY <1>2, <2>2, <4>2
        <5>2. s[i] # last
          <6>1. Len(s) \in 1..Len(s) BY <1>2, <3>1
          <6> QED BY <1>5, <1>7, <2>2, <3>1, <4>2, <6>1
        <5>3. w.pNext[s[i]] = m.pNext[s[i]] BY <3>2, <5>2 DEF EndLinks
        <5> QED BY <1>3, <1>4, <2>2, <5>1, <5>3
      <4> QED BY <4>1, <4>2
    <3> QED BY <1>4, <2>2, <3>1, <3>3, <3>4, <3>5
  <2> QED BY <1>6, <2>1, <2>2
<1>11. Len(t) > 0 /\ Len(t) # 0 BY <1>2, <1>3
<1>12. w.poHead[l] = t[1]
  <2>1. CASE Len(s) = 0
    <3>1. last = null => w.poHead[l] = n BY Zenon DEF EndLinks
    <3> QED BY <1>3, <1>7, <2>1, <3>1
  <2>2. CASE Len(s) > 0
    <3>1. last # null => w.poHead[l] = m.poHead[l] BY Zenon DEF EndLinks
    <3>2. 1 \in 1..Len(s) BY <1>2, <2>2
    <3> QED BY <1>3, <1>4, <1>7, <2>2, <3>1, <3>2
  <2> QED BY <1>2, <2>1, <2>2
<1>13. Chained(w, l, t)
  BY <1>10, <1>11, <1>12 DEF Chained
<1> QED BY <1>3, <1>8, <1>13 DEF Own, t

\* s without the node at p.
Without(s, p) == SubSeq(s, 1, p - 1) \o SubSeq(s, p + 1, Len(s))

\* The nodes before p keep their place, those after it move up by one.
LEMMA WithoutIs ==
  ASSUME NEW s \in Seq(Node), NEW p \in 1..Len(s)
  PROVE  /\ Without(s, p) \in Seq(Node) /\ Len(Without(s, p)) = Len(s) - 1
         /\ \A i \in 1..(Len(s) - 1) :
              Without(s, p)[i] = s[IF i < p THEN i ELSE i + 1]
<1>1. Len(s) \in Nat /\ p \in Nat /\ \A i \in 1..Len(s) : s[i] \in Node
  BY SeqIs
<1> DEFINE a == SubSeq(s, 1, p - 1)
           b == SubSeq(s, p + 1, Len(s))
<1>2. /\ a \in Seq(Node) /\ Len(a) = p - 1
      /\ \A i \in 1..(p - 1) : a[i] = s[i]
  <2>1. \A i \in 1..(p - 1) : s[i] \in Node BY <1>1
  <2>2. 1 \in Int /\ p - 1 \in Int BY <1>1
  <2>3. /\ a \in Seq(Node) /\ Len(a) = IF 1 <= p - 1 THEN p - 1 - 1 + 1 ELSE 0
        /\ \A i \in 1..p - 1 - 1 + 1 : a[i] = s[1 + i - 1]
    BY <2>1, <2>2, SubSeqProperties
  <2>4. Len(a) = p - 1 BY <1>1, <2>3
  <2>5. ASSUME NEW i \in 1..(p - 1) PROVE a[i] = s[i]
    <3>1. i \in 1..p - 1 - 1 + 1 /\ 1 + i - 1 = i BY <1>1
    <3> QED BY <2>3, <3>1
  <2> QED BY <2>3, <2>4, <2>5
<1>3. /\ b \in Seq(Node) /\ Len(b) = Len(s) - p
      /\ \A i \in 1..(Len(s) - p) : b[i] = s[p + i]
  <2>1. \A i \in (p + 1)..Len(s) : s[i] \in Node BY <1>1
  <2>2. p + 1 \in Int /\ Len(s) \in Int BY <1>1
  <2>3. /\ b \in Seq(Node) /\ Len(b) = IF p + 1 <= Len(s) THEN Len(s) - (p + 1) + 1 ELSE 0
        /\ \A i \in 1..Len(s) - (p + 1) + 1 : b[i] = s[(p + 1) + i - 1]
    BY <2>1, <2>2, SubSeqProperties
  <2>4. Len(b) = Len(s) - p BY <1>1, <2>3
  <2>5. ASSUME NEW i \in 1..(Len(s) - p) PROVE b[i] = s[p + i]
    <3>1. i \in 1..Len(s) - (p + 1) + 1 /\ (p + 1) + i - 1 = p + i BY <1>1
    <3> QED BY <2>3, <3>1
  <2> QED BY <2>3, <2>4, <2>5
<1> HIDE DEF a, b
<1>4. /\ a \o b \in Seq(Node) /\ Len(a \o b) = Len(a) + Len(b)
      /\ \A i \in 1..Len(a) + Len(b) : (a \o b)[i] = IF i <= Len(a) THEN a[i] ELSE b[i - Len(a)]
  BY <1>2, <1>3, ConcatProperties
<1>5. Len(a) + Len(b) = Len(s) - 1
  BY <1>1, <1>2, <1>3
<1>6. ASSUME NEW i \in 1..(Len(s) - 1) PROVE (a \o b)[i] = s[IF i < p THEN i ELSE i + 1]
  <2>0. (a \o b)[i] = IF i <= Len(a) THEN a[i] ELSE b[i - Len(a)] BY <1>4, <1>5
  <2>1. CASE i < p
    <3>1. i <= Len(a) /\ i \in 1..(p - 1) BY <1>1, <1>2, <2>1
    <3> QED BY <1>2, <2>0, <2>1, <3>1
  <2>2. CASE ~(i < p)
    <3>1. /\ ~(i <= Len(a)) /\ i - Len(a) \in 1..(Len(s) - p) /\ p + (i - Len(a)) = i + 1
      BY <1>1, <1>2, <2>2
    <3> QED BY <1>3, <2>0, <2>2, <3>1
  <2> QED BY <2>1, <2>2
<1> QED BY <1>4, <1>5, <1>6 DEF Without, a, b

\* The node at p has left, and its neighbours are joined.
LEMMA OutOwn ==
  ASSUME NEW m, NEW l \in List, NEW s, Own(m, l, s), NEW p \in 1..Len(s), NEW n, n = s[p],
         NEW w, OutLinks(m, l, n, m.pPrev[n], m.pNext[n], w)
  PROVE  Own(w, l, Without(s, p)) /\ ~On(Without(s, p), n)
<1> DEFINE t == Without(s, p)
           before == m.pPrev[n]
           after == m.pNext[n]
           o(i) == IF i < p THEN i ELSE i + 1
<1>1. s \in Seq(Node) /\ Once(s) /\ Chained(m, l, s)
  BY DEF Own
<1>2. Len(s) \in Nat /\ \A i \in 1..Len(s) : s[i] \in Node /\ s[i] # null
  BY <1>1, SeqIs
<1>3. t \in Seq(Node) /\ Len(t) = Len(s) - 1 /\ \A i \in 1..Len(t) : t[i] = s[o(i)]
  BY <1>1, WithoutIs
<1> HIDE DEF t
<1>4. /\ Len(s) = 0 => m.poHead[l] = null
      /\ Len(s) > 0 => m.poHead[l] = s[1]
      /\ \A i \in 1..Len(s) :
           /\ i = Len(s) => m.pNext[s[i]] = null
           /\ i < Len(s) => m.pNext[s[i]] = s[i + 1]
           /\ i = 1 => m.pPrev[s[i]] = null
           /\ i > 1 => m.pPrev[s[i]] = s[i - 1]
  BY <1>1 DEF Chained
<1>5. \A i, j \in 1..Len(s) : s[i] = s[j] => i = j
  BY <1>1 DEF Once
<1>6. \A i \in 1..Len(t) : o(i) \in 1..Len(s) /\ o(i) # p
  BY <1>2, <1>3
<1>7. \A i \in 1..Len(t) : t[i] \in Node /\ t[i] # n /\ t[i] # null
  BY <1>2, <1>3, <1>5, <1>6
<1>8. Once(t)
  <2> SUFFICES ASSUME NEW i \in 1..Len(t), NEW j \in 1..Len(t), t[i] = t[j] PROVE i = j
    BY DEF Once
  <2>1. o(i) = o(j) BY <1>3, <1>5, <1>6
  <2> QED BY <2>1
<1>9. /\ p = 1 => before = null
      /\ p > 1 => before = s[p - 1] /\ p - 1 \in 1..Len(s)
      /\ p = Len(s) => after = null
      /\ p < Len(s) => after = s[p + 1] /\ p + 1 \in 1..Len(s)
  BY <1>2, <1>4
<1>10. /\ before = null => w.poHead[l] = after
       /\ before # null => w.poHead[l] = m.poHead[l] /\ w.pNext[before] = after
       /\ after # null => w.pPrev[after] = before
       /\ \A x \in Node : x # n /\ x # before => w.pNext[x] = m.pNext[x]
       /\ \A x \in Node : x # n /\ x # after => w.pPrev[x] = m.pPrev[x]
  BY Zenon DEF OutLinks
<1> HIDE DEF before, after
<1>11. ASSUME NEW i \in 1..Len(t)
       PROVE  /\ i = Len(t) => w.pNext[t[i]] = null
              /\ i < Len(t) => w.pNext[t[i]] = t[i + 1]
  <2>1. CASE i = p - 1
    <3>1. /\ p > 1 /\ o(i) = i /\ t[i] = s[p - 1] /\ (i = Len(t) <=> p = Len(s))
          /\ (i < Len(t) => p < Len(s))
      BY <1>2, <1>3, <2>1
    <3>2. i < Len(t) => t[i + 1] = s[p + 1]
      <4> SUFFICES ASSUME i < Len(t) PROVE t[i + 1] = s[p + 1]
        OBVIOUS
      <4>1. i + 1 \in 1..Len(t) /\ o(i + 1) = p + 1 BY <1>2, <1>3, <2>1
      <4> QED BY <1>3, <4>1
    <3>3. before = t[i] BY <1>9, <3>1
    <3>4. w.pNext[t[i]] = after BY <1>7, <1>10, <3>3
    <3> QED BY <1>9, <3>1, <3>2, <3>4
  <2>2. CASE i # p - 1
    <3>1. PICK j \in 1..Len(s) : j = o(i) BY <1>6
    <3>2. t[i] = s[j] /\ j # p - 1 BY <1>2, <1>3, <2>2, <3>1
    <3>3. t[i] # before
      <4>1. CASE p = 1 BY <1>7, <1>9, <4>1
      <4>2. CASE p > 1 BY <1>5, <1>9, <3>2, <4>2
      <4> QED BY <1>2, <4>1, <4>2
    <3>4. w.pNext[t[i]] = m.pNext[s[j]] BY <1>7, <1>10, <3>2, <3>3
    <3>5. (i = Len(t) <=> j = Len(s)) /\ (i < Len(t) => j < Len(s))
      BY <1>2, <1>3, <2>2, <3>1
    <3>6. i < Len(t) => t[i + 1] = s[j + 1]
      <4> SUFFICES ASSUME i < Len(t) PROVE t[i + 1] = s[j + 1]
        OBVIOUS
      <4>1. i + 1 \in 1..Len(t) /\ o(i + 1) = j + 1 BY <1>2, <1>3, <2>2, <3>1
      <4> QED BY <1>3, <4>1
    <3> QED BY <1>4, <3>4, <3>5, <3>6
  <2> QED BY <2>1, <2>2
<1>12. ASSUME NEW i \in 1..Len(t)
       PROVE  /\ i = 1 => w.pPrev[t[i]] = null
              /\ i > 1 => w.pPrev[t[i]] = t[i - 1]
  <2>1. CASE i = p
    <3>1. p < Len(s) /\ o(i) = p + 1 /\ t[i] = s[p + 1]
      BY <1>2, <1>3, <2>1
    <3>2. i > 1 => t[i - 1] = s[p - 1]
      <4> SUFFICES ASSUME i > 1 PROVE t[i - 1] = s[p - 1]
        OBVIOUS
      <4>1. i - 1 \in 1..Len(t) /\ o(i - 1) = p - 1 BY <1>2, <1>3, <2>1
      <4> QED BY <1>3, <4>1
    <3>3. after = t[i] BY <1>9, <3>1
    <3>4. w.pPrev[t[i]] = before BY <1>7, <1>10, <3>3
    <3> QED BY <1>9, <2>1, <3>2, <3>4
  <2>2. CASE i # p
    <3>1. PICK j \in 1..Len(s) : j = o(i) BY <1>6
    <3>2. t[i] = s[j] /\ j # p + 1 BY <1>2, <1>3, <2>2, <3>1
    <3>3. t[i] # after
      <4>1. CASE p = Len(s) BY <1>7, <1>9, <4>1
      <4>2. CASE p < Len(s) BY <1>5, <1>9, <3>2, <4>2
      <4> QED BY <1>2, <4>1, <4>2
    <3>4. w.pPrev[t[i]] = m.pPrev[s[j]] BY <1>7, <1>10, <3>2, <3>3
    <3>5. (i = 1 => j = 1) /\ (i > 1 => j > 1)
      BY <1>2, <1>3, <2>2, <3>1
    <3>6. i > 1 => t[i - 1] = s[j - 1]
      <4> SUFFICES ASSUME i > 1 PROVE t[i - 1] = s[j - 1]
        OBVIOUS
      <4>1. i - 1 \in 1..Len(t) /\ o(i - 1) = j - 1 BY <1>2, <1>3, <2>2, <3>1
      <4> QED BY <1>3, <4>1
    <3> QED BY <1>4, <3>4, <3>5, <3>6
  <2> QED BY <2>1, <2>2
<1>13. (Len(t) = 0 => w.poHead[l] = null) /\ (Len(t) > 0 => w.poHead[l] = t[1])
  <2>1. CASE p = 1
    <3>1. w.poHead[l] = after BY <1>9, <1>10, <2>1
    <3>2. Len(t) = 0 => p = Len(s) BY <1>2, <1>3, <2>1
    <3>3. Len(t) > 0 => p < Len(s) /\ 1 \in 1..Len(t) /\ o(1) = 2 BY <1>2, <1>3, <2>1
    <3>4. p + 1 = 2 BY <2>1
    <3> QED BY <1>3, <1>9, <3>1, <3>2, <3>3, <3>4
  <2>2. CASE p > 1
    <3>1. before # null BY <1>2, <1>9, <2>2
    <3>2. w.poHead[l] = s[1] /\ Len(t) > 0 /\ Len(t) # 0 /\ 1 \in 1..Len(t) /\ o(1) = 1
      BY <1>2, <1>3, <1>4, <1>10, <2>2, <3>1
    <3> QED BY <1>3, <3>2
  <2> QED BY <1>2, <2>1, <2>2
<1>14. Chained(w, l, t)
  BY <1>11, <1>12, <1>13 DEF Chained
<1>15. ~On(t, n) BY <1>7 DEF On
<1> QED BY <1>3, <1>8, <1>14, <1>15 DEF Own, t

------------------------------------------------------------------------------
(* Two lists with no node in common.                                       *)

Apart(s, t) == \A i \in 1..Len(s), j \in 1..Len(t) : s[i] # t[j]

\* Memory m holds s as list k and t as list l, and no node is on both.
Two(m, k, s, l, t) ==
  /\ m \in Memory
  /\ k \in List /\ l \in List /\ k # l
  /\ Own(m, k, s) /\ Own(m, l, t)
  /\ Apart(s, t)

\* The two lists play the same part.
LEMMA TwoSwap ==
  ASSUME NEW m, NEW k, NEW s, NEW l, NEW t, Two(m, k, s, l, t)
  PROVE  Two(m, l, t, k, s)
BY DEF Two, Apart

\* The head of a list, and the neighbours of a node.
LEMMA LinksIn ==
  ASSUME NEW m, NEW l, NEW s, Own(m, l, s)
  PROVE  /\ m.poHead[l] = null \/ On(s, m.poHead[l])
         /\ LastOf(s) = null \/ On(s, LastOf(s))
         /\ Len(s) > 0 => m.poHead[l] = s[1] /\ m.poHead[l] # null
         /\ m.poHead[l] = null => Len(s) = 0
         /\ LastOf(s) \in Node \cup {null}
         /\ \A i \in 1..Len(s) :
              /\ m.pNext[s[i]] = null \/ On(s, m.pNext[s[i]])
              /\ m.pPrev[s[i]] = null \/ On(s, m.pPrev[s[i]])
              /\ m.pNext[s[i]] # s[i] /\ m.pPrev[s[i]] # s[i]
<1>1. s \in Seq(Node) /\ Once(s) /\ Chained(m, l, s)
  BY DEF Own
<1>2. /\ Len(s) \in Nat /\ (s = <<>> <=> Len(s) = 0)
      /\ \A i \in 1..Len(s) : s[i] \in Node /\ s[i] # null
  BY <1>1, SeqIs
<1>3. \A i \in 1..Len(s) : On(s, s[i])
  BY DEF On
<1>4. Len(s) > 0 => 1 \in 1..Len(s) /\ Len(s) \in 1..Len(s)
  BY <1>2
<1>5. m.poHead[l] = null \/ On(s, m.poHead[l])
  BY <1>1, <1>2, <1>3, <1>4 DEF Chained
<1>6. /\ LastOf(s) = null \/ On(s, LastOf(s))
      /\ LastOf(s) \in Node \cup {null}
  BY <1>2, <1>3, <1>4 DEF LastOf
<1>7. /\ Len(s) > 0 => m.poHead[l] = s[1] /\ m.poHead[l] # null
      /\ m.poHead[l] = null => Len(s) = 0
  BY <1>1, <1>2, <1>4 DEF Chained
<1>8. ASSUME NEW i \in 1..Len(s)
      PROVE  /\ m.pNext[s[i]] = null \/ On(s, m.pNext[s[i]])
             /\ m.pPrev[s[i]] = null \/ On(s, m.pPrev[s[i]])
             /\ m.pNext[s[i]] # s[i] /\ m.pPrev[s[i]] # s[i]
  <2>1. /\ i = Len(s) => m.pNext[s[i]] = null
        /\ i < Len(s) => m.pNext[s[i]] = s[i + 1]
        /\ i = 1 => m.pPrev[s[i]] = null
        /\ i > 1 => m.pPrev[s[i]] = s[i - 1]
    BY <1>1 DEF Chained
  <2>2. i < Len(s) => i + 1 \in 1..Len(s) /\ i + 1 # i
    BY <1>2
  <2>3. i > 1 => i - 1 \in 1..Len(s) /\ i - 1 # i
    BY <1>2
  <2>4. i = Len(s) \/ i < Len(s)
    BY <1>2
  <2>5. i = 1 \/ i > 1
    BY <1>2
  <2>6. \A j \in 1..Len(s) : s[j] = s[i] => j = i
    BY <1>1 DEF Once
  <2>7. /\ m.pNext[s[i]] = null \/ On(s, m.pNext[s[i]])
        /\ m.pNext[s[i]] # s[i]
    BY <1>2, <1>3, <2>1, <2>2, <2>4, <2>6
  <2>8. /\ m.pPrev[s[i]] = null \/ On(s, m.pPrev[s[i]])
        /\ m.pPrev[s[i]] # s[i]
    BY <1>2, <1>3, <2>1, <2>3, <2>5, <2>6
  <2> QED BY <2>7, <2>8
<1> QED BY <1>5, <1>6, <1>7, <1>8

\* No node of t is null or on s.
LEMMA NotOf ==
  ASSUME NEW m, NEW k, NEW s, NEW l, NEW t, Two(m, k, s, l, t),
         NEW x, x = null \/ On(s, x)
  PROVE  \A i \in 1..Len(t) : t[i] \in Node /\ t[i] # x
<1>1. t \in Seq(Node) BY DEF Two, Own
<1>2. \A i \in 1..Len(t) : t[i] \in Node /\ t[i] # null BY <1>1, SeqIs
<1> QED BY <1>2 DEF Two, Apart, On

\* AddToFront changes one list by one node and leaves the other alone.
LEMMA TwoFront ==
  ASSUME NEW m, NEW k, NEW s, NEW l, NEW t, Two(m, k, s, l, t),
         NEW n \in Node, ~On(s, n), ~On(t, n)
  PROVE  Two(AddToFront(m, k, n), k, <<n>> \o s, l, t)
<1> DEFINE w == AddToFront(m, k, n)
<1>1. m \in Memory /\ k \in List /\ l \in List /\ k # l /\ Own(m, k, s) /\ Own(m, l, t)
  BY DEF Two
<1>2. m.poHead[k] = null \/ On(s, m.poHead[k])
  BY <1>1, LinksIn
<1>3. n # null
  BY NullAssumption, MaxNodesAssumption DEF Node
<1>4. FrontLinks(m, k, n, w)
  BY <1>1, <1>2, <1>3, AddToFrontIs
<1> HIDE DEF w
<1>5. Own(w, k, <<n>> \o s)
  BY <1>1, <1>4, FrontOwn
<1>6. \A i \in 1..Len(t) : t[i] \in Node /\ t[i] # m.poHead[k]
  BY <1>2, NotOf
<1>7. \A i \in 1..Len(t) : t[i] # n
  BY DEF On
<1>8. w.poHead[l] = m.poHead[l]
  BY <1>1, <1>4 DEF FrontLinks
<1>9. \A i \in 1..Len(t) : w.pNext[t[i]] = m.pNext[t[i]] /\ w.pPrev[t[i]] = m.pPrev[t[i]]
  BY <1>4, <1>6, <1>7 DEF FrontLinks
<1>10. Own(w, l, t)
  BY <1>1, <1>8, <1>9, Untouched
<1>11. Apart(<<n>> \o s, t)
  <2>1. /\ Len(<<n>> \o s) = Len(s) + 1 /\ (<<n>> \o s)[1] = n /\ Len(s) \in Nat
        /\ \A i \in 1..Len(s) : (<<n>> \o s)[i + 1] = s[i]
    BY <1>1, FrontIs, SeqIs DEF Own
  <2>2. SUFFICES ASSUME NEW i \in 1..Len(<<n>> \o s), NEW j \in 1..Len(t)
                 PROVE  (<<n>> \o s)[i] # t[j]
    BY DEF Apart
  <2>3. CASE i = 1 BY <1>7, <2>1, <2>3
  <2>4. CASE i # 1
    <3>1. i - 1 \in 1..Len(s) /\ (i - 1) + 1 = i BY <2>1, <2>4
    <3>2. (<<n>> \o s)[(i - 1) + 1] = s[i - 1] BY <2>1, <3>1
    <3>3. (<<n>> \o s)[i] = s[i - 1] BY <3>1, <3>2
    <3> QED BY <3>1, <3>3 DEF Two, Apart
  <2> QED BY <2>3, <2>4
<1>12. w \in Memory BY <1>4 DEF FrontLinks
<1>13. Two(w, k, <<n>> \o s, l, t)
  BY <1>1, <1>5, <1>10, <1>11, <1>12 DEF Two
<1> QED BY <1>13 DEF w

\* So does AddToEnd, which walks the list to find its end.
LEMMA TwoEnd ==
  ASSUME NEW m, NEW k, NEW s, NEW l, NEW t, Two(m, k, s, l, t), Len(s) <= MaxNodes,
         NEW n \in Node, ~On(s, n), ~On(t, n)
  PROVE  Two(AddToEnd(m, k, n), k, Append(s, n), l, t)
<1> DEFINE w == AddToEnd(m, k, n)
<1>1. m \in Memory /\ k \in List /\ l \in List /\ k # l /\ Own(m, k, s) /\ Own(m, l, t)
  BY DEF Two
<1>2. PICK last : last = LastOf(s)
  OBVIOUS
<1>3. last \in Node \cup {null} /\ (last = null \/ On(s, last))
  BY <1>1, <1>2, LinksIn
<1>4. n # null
  BY NullAssumption, MaxNodesAssumption DEF Node
<1>5. last = LastOf(Chain(m, k))
  BY <1>1, <1>2, ChainIs
<1>6. EndLinks(m, k, n, last, w)
  BY <1>1, <1>3, <1>4, <1>5, AddToEndIs
<1> HIDE DEF w
<1>7. Own(w, k, Append(s, n))
  BY <1>1, <1>2, <1>6, EndOwn
<1>8. \A i \in 1..Len(t) : t[i] \in Node /\ t[i] # last
  BY <1>3, NotOf
<1>9. \A i \in 1..Len(t) : t[i] # n
  BY DEF On
<1>10. w.poHead[l] = m.poHead[l]
  BY <1>1, <1>6 DEF EndLinks
<1>11. \A i \in 1..Len(t) : w.pNext[t[i]] = m.pNext[t[i]] /\ w.pPrev[t[i]] = m.pPrev[t[i]]
  BY <1>6, <1>8, <1>9 DEF EndLinks
<1>12. Own(w, l, t)
  BY <1>1, <1>10, <1>11, Untouched
<1>13. Apart(Append(s, n), t)
  <2>0. s \in Seq(Node) /\ Len(s) \in Nat BY <1>1, SeqIs DEF Own
  <2>1. /\ Len(Append(s, n)) = Len(s) + 1 /\ Append(s, n)[Len(s) + 1] = n
        /\ \A i \in 1..Len(s) : Append(s, n)[i] = s[i]
    BY <2>0
  <2>2. SUFFICES ASSUME NEW i \in 1..Len(Append(s, n)), NEW j \in 1..Len(t)
                 PROVE Append(s, n)[i] # t[j]
    BY DEF Apart
  <2>3. i = Len(s) + 1 \/ i \in 1..Len(s) BY <2>0, <2>1
  <2> QED BY <1>9, <2>1, <2>3 DEF Two, Apart
<1>14. w \in Memory BY <1>6 DEF EndLinks
<1>15. Two(w, k, Append(s, n), l, t)
  BY <1>1, <1>7, <1>12, <1>13, <1>14 DEF Two
<1> QED BY <1>15 DEF w

\* The rest of a list from which one node was unlinked.
LEMMA TwoWithout ==
  ASSUME NEW m, NEW k, NEW s, NEW l, NEW t, Two(m, k, s, l, t), NEW p \in 1..Len(s),
         NEW n, n = s[p], NEW w, OutLinks(m, k, n, m.pPrev[n], m.pNext[n], w)
  PROVE  /\ Two(w, k, Without(s, p), l, t)
         /\ ~On(Without(s, p), n) /\ ~On(t, n) /\ n \in Node
<1>1. m \in Memory /\ k \in List /\ l \in List /\ k # l /\ Own(m, k, s) /\ Own(m, l, t)
  BY DEF Two
<1>2. Own(w, k, Without(s, p)) /\ ~On(Without(s, p), n)
  BY <1>1, OutOwn
<1>3. /\ m.pNext[n] = null \/ On(s, m.pNext[n])
      /\ m.pPrev[n] = null \/ On(s, m.pPrev[n])
  BY <1>1, LinksIn
<1>4. On(s, n) BY DEF On
<1>5. \A i \in 1..Len(t) : t[i] \in Node /\ t[i] # m.pNext[n] BY <1>3, NotOf
<1>6. \A i \in 1..Len(t) : t[i] # m.pPrev[n] BY <1>3, NotOf
<1>7. \A i \in 1..Len(t) : t[i] # n BY <1>4, NotOf
<1>8. w.poHead[l] = m.poHead[l]
  BY <1>1 DEF OutLinks
<1>9. \A i \in 1..Len(t) : w.pNext[t[i]] = m.pNext[t[i]] /\ w.pPrev[t[i]] = m.pPrev[t[i]]
  BY <1>5, <1>6, <1>7 DEF OutLinks
<1>10. Own(w, l, t)
  BY <1>1, <1>8, <1>9, Untouched
<1>11. s \in Seq(Node) /\ Len(s) \in Nat
  BY <1>1, SeqIs DEF Own
<1>12. Apart(Without(s, p), t)
  <2>1. /\ Len(Without(s, p)) = Len(s) - 1
        /\ \A i \in 1..(Len(s) - 1) : Without(s, p)[i] = s[IF i < p THEN i ELSE i + 1]
    BY <1>11, WithoutIs
  <2>2. \A i \in 1..(Len(s) - 1) : (IF i < p THEN i ELSE i + 1) \in 1..Len(s)
    BY <1>11
  <2> QED BY <2>1, <2>2 DEF Two, Apart
<1>13. w \in Memory BY DEF OutLinks
<1>14. n \in Node BY <1>11, SeqIs
<1> QED BY <1>1, <1>2, <1>7, <1>10, <1>12, <1>13, <1>14 DEF Two, On

\* Remove takes the node off its list, after which it is on neither.
LEMMA TwoRemove ==
  ASSUME NEW m, NEW k, NEW s, NEW l, NEW t, Two(m, k, s, l, t), NEW p \in 1..Len(s),
         NEW n, n = s[p]
  PROVE  /\ Two(Remove(m, k, n), k, Without(s, p), l, t)
         /\ ~On(Without(s, p), n) /\ ~On(t, n) /\ n \in Node
<1>1. m \in Memory /\ k \in List /\ Own(m, k, s) /\ s \in Seq(Node)
  BY DEF Two, Own
<1>2. n \in Node BY <1>1, SeqIs
<1>3. n # m.pPrev[n] /\ n # m.pNext[n] BY <1>1, LinksIn
<1>4. OutLinks(m, k, n, m.pPrev[n], m.pNext[n], Remove(m, k, n))
  BY <1>1, <1>2, <1>3, RemoveIs
<1> QED BY <1>4, TwoWithout

\* So does RemoveFromFront, with the head.
LEMMA TwoRemoveFront ==
  ASSUME NEW m, NEW k, NEW s, NEW l, NEW t, Two(m, k, s, l, t), Len(s) > 0,
         NEW n, n = m.poHead[k]
  PROVE  /\ Two(RemoveFromFront(m, k), k, Without(s, 1), l, t)
         /\ ~On(Without(s, 1), n) /\ ~On(t, n) /\ n \in Node
<1>1. m \in Memory /\ k \in List /\ Own(m, k, s) /\ s \in Seq(Node) /\ Chained(m, k, s)
  BY DEF Two, Own
<1>2. Len(s) \in Nat /\ 1 \in 1..Len(s) BY <1>1, SeqIs
<1>3. n = s[1] BY <1>1, LinksIn
<1>4. n \in Node BY <1>1, <1>2, <1>3, SeqIs
<1>5. n # m.pPrev[n] /\ n # m.pNext[n] BY <1>1, <1>2, <1>3, LinksIn
<1>6. m.pPrev[n] = null BY <1>1, <1>2, <1>3 DEF Chained
<1>7. OutLinks(m, k, n, null, m.pNext[n], RemoveFromFront(m, k))
  BY <1>1, <1>4, <1>5, RemoveFromFrontIs
<1>8. OutLinks(m, k, n, m.pPrev[n], m.pNext[n], RemoveFromFront(m, k))
  BY <1>6, <1>7
<1> QED BY <1>2, <1>3, <1>8, TwoWithout

------------------------------------------------------------------------------
(* What is on a list after an operation.                                   *)

\* The nodes of a list after an AddToFront.
LEMMA OnFront ==
  ASSUME NEW s \in Seq(Node), NEW n \in Node
  PROVE  \A x : On(<<n>> \o s, x) <=> x = n \/ On(s, x)
<1> DEFINE t == <<n>> \o s
<1>1. /\ Len(t) = Len(s) + 1 /\ t[1] = n /\ Len(s) \in Nat
      /\ \A i \in 1..Len(s) : t[i + 1] = s[i]
  BY FrontIs, SeqIs
<1> HIDE DEF t
<1>2. \A i \in 1..Len(s) : i + 1 \in 1..Len(t)
  BY <1>1
<1>3. 1 \in 1..Len(t)
  BY <1>1
<1>4. \A i \in 1..Len(t) : i = 1 \/ \E j \in 1..Len(s) : i = j + 1
  <2> TAKE i \in 1..Len(t)
  <2>1. i # 1 => i - 1 \in 1..Len(s) /\ i = (i - 1) + 1 BY <1>1
  <2> QED BY <2>1
<1>5. ASSUME NEW x PROVE On(t, x) <=> x = n \/ On(s, x)
  BY <1>1, <1>2, <1>3, <1>4 DEF On
<1> QED BY <1>5 DEF t

\* The nodes of a list after an AddToEnd.
LEMMA OnEnd ==
  ASSUME NEW s \in Seq(Node), NEW n \in Node
  PROVE  \A x : On(Append(s, n), x) <=> x = n \/ On(s, x)
<1> DEFINE t == Append(s, n)
<1>1. /\ Len(t) = Len(s) + 1 /\ t[Len(s) + 1] = n /\ Len(s) \in Nat
      /\ \A i \in 1..Len(s) : t[i] = s[i]
  BY SeqIs
<1> HIDE DEF t
<1>2. \A i \in 1..Len(s) : i \in 1..Len(t)
  BY <1>1
<1>3. Len(s) + 1 \in 1..Len(t)
  BY <1>1
<1>4. \A i \in 1..Len(t) : i \in 1..Len(s) \/ i = Len(s) + 1
  BY <1>1
<1>5. ASSUME NEW x PROVE On(t, x) <=> x = n \/ On(s, x)
  BY <1>1, <1>2, <1>3, <1>4 DEF On
<1> QED BY <1>5 DEF t

\* The nodes of a list after a removal.
LEMMA OnWithout ==
  ASSUME NEW s \in Seq(Node), Once(s), NEW p \in 1..Len(s)
  PROVE  \A x : On(Without(s, p), x) <=> On(s, x) /\ x # s[p]
<1> DEFINE t == Without(s, p)
<1>1. /\ Len(t) = Len(s) - 1 /\ Len(s) \in Nat
      /\ \A i \in 1..Len(t) : t[i] = s[IF i < p THEN i ELSE i + 1]
  BY WithoutIs, SeqIs
<1> HIDE DEF t
<1>2. ASSUME NEW i \in 1..Len(t) PROVE \E j \in 1..Len(s) : j # p /\ t[i] = s[j]
  <2>1. (IF i < p THEN i ELSE i + 1) \in 1..Len(s) /\ (IF i < p THEN i ELSE i + 1) # p
    BY <1>1
  <2> QED BY <1>1, <2>1
<1>3. ASSUME NEW j \in 1..Len(s), j # p PROVE \E i \in 1..Len(t) : t[i] = s[j]
  <2>1. CASE j < p
    <3>1. j \in 1..Len(t) BY <1>1, <2>1
    <3> QED BY <1>1, <2>1, <3>1
  <2>2. CASE ~(j < p)
    <3>1. j - 1 \in 1..Len(t) /\ ~(j - 1 < p) /\ (j - 1) + 1 = j BY <1>1, <1>3, <2>2
    <3>2. t[j - 1] = s[(j - 1) + 1] BY <1>1, <3>1
    <3> QED BY <3>1, <3>2
  <2> QED BY <2>1, <2>2
<1>4. \A i, j \in 1..Len(s) : s[i] = s[j] => i = j
  BY DEF Once
<1>5. ASSUME NEW x PROVE On(t, x) <=> On(s, x) /\ x # s[p]
  BY <1>2, <1>3, <1>4 DEF On
<1> QED BY <1>5 DEF t

------------------------------------------------------------------------------
(* Allocating.                                                             *)

\* The spare list r after count nodes more than the first total came to its
\* front, one by one.
Fresh(r, total, count) ==
  [i \in 1..(Len(r) + count) |-> IF i <= count THEN total + count + 1 - i ELSE r[i - count]]

\* The new nodes come first, the last one allocated before all others.
LEMMA FreshIs ==
  ASSUME NEW r \in Seq(Node), NEW total \in Nat, NEW count \in Nat,
         total + count <= MaxNodes
  PROVE  /\ Fresh(r, total, count) \in Seq(Node)
         /\ Len(Fresh(r, total, count)) = Len(r) + count
         /\ \A i \in 1..count : Fresh(r, total, count)[i] = total + count + 1 - i
         /\ \A i \in 1..Len(r) : Fresh(r, total, count)[count + i] = r[i]
         /\ \A x : On(Fresh(r, total, count), x)
                     <=> On(r, x) \/ x \in (total + 1)..(total + count)
<1> DEFINE t == Fresh(r, total, count)
<1>1. Len(r) \in Nat /\ \A i \in 1..Len(r) : r[i] \in Node
  BY SeqIs
<1>2. \A i \in 1..(Len(r) + count) :
        (IF i <= count THEN total + count + 1 - i ELSE r[i - count]) \in Node
  <2> TAKE i \in 1..(Len(r) + count)
  <2>1. CASE i <= count BY <1>1, <2>1, MaxNodesAssumption DEF Node
  <2>2. CASE ~(i <= count)
    <3>1. i - count \in 1..Len(r) BY <1>1, <2>2
    <3> QED BY <1>1, <2>2, <3>1
  <2> QED BY <2>1, <2>2
<1>3. t \in [1..(Len(r) + count) -> Node]
  BY <1>2 DEF Fresh
<1>4. Len(r) + count \in Nat
  BY <1>1
<1>5. t \in Seq(Node) /\ Len(t) = Len(r) + count
  <2> HIDE DEF t
  <2>1. t \in Seq(Node) BY <1>3, <1>4, SeqDef
  <2>2. DOMAIN t = 1..(Len(r) + count) BY <1>3
  <2> QED BY <1>4, <2>1, <2>2, LenProperties
<1>6. ASSUME NEW i \in 1..count PROVE t[i] = total + count + 1 - i
  <2>1. i \in 1..(Len(r) + count) /\ i <= count BY <1>1
  <2> QED BY <2>1 DEF Fresh
<1>7. ASSUME NEW i \in 1..Len(r) PROVE t[count + i] = r[i]
  <2>1. /\ count + i \in 1..(Len(r) + count) /\ ~(count + i <= count)
        /\ count + i - count = i
    BY <1>1
  <2> QED BY <2>1 DEF Fresh
<1> HIDE DEF t
<1>8. ASSUME NEW x PROVE On(t, x) <=> On(r, x) \/ x \in (total + 1)..(total + count)
  <2>1. ASSUME On(t, x) PROVE On(r, x) \/ x \in (total + 1)..(total + count)
    <3>1. PICK i \in 1..Len(t) : t[i] = x BY <2>1 DEF On
    <3>2. CASE i <= count
      <4>1. i \in 1..count BY <1>1, <1>5, <3>2
      <4>2. x = total + count + 1 - i BY <1>6, <3>1, <4>1
      <4> QED BY <4>1, <4>2
    <3>3. CASE ~(i <= count)
      <4>1. i - count \in 1..Len(r) /\ count + (i - count) = i BY <1>1, <1>5, <3>3
      <4>2. t[count + (i - count)] = r[i - count] BY <1>7, <4>1
      <4> QED BY <3>1, <4>1, <4>2 DEF On
    <3> QED BY <3>2, <3>3
  <2>2. ASSUME On(r, x) PROVE On(t, x)
    <3>1. PICK i \in 1..Len(r) : r[i] = x BY <2>2 DEF On
    <3>2. count + i \in 1..Len(t) BY <1>1, <1>5
    <3> QED BY <1>7, <3>1, <3>2 DEF On
  <2>3. ASSUME x \in (total + 1)..(total + count) PROVE On(t, x)
    <3>1. PICK y \in (total + 1)..(total + count) : y = x BY <2>3
    <3>2. total + count + 1 - y \in 1..count /\ total + count + 1 - (total + count + 1 - y) = y
      OBVIOUS
    <3>3. t[total + count + 1 - y] = y BY <1>6, <3>2
    <3>4. total + count + 1 - y \in 1..Len(t) BY <1>1, <1>5, <3>2
    <3> QED BY <3>1, <3>3, <3>4 DEF On
  <2> QED BY <2>1, <2>2, <2>3
<1> QED BY <1>5, <1>6, <1>7, <1>8 DEF t

\* The memory after the allocation of the nodes from first to last in front of
\* the list l.
FreshLinks(m, l, first, last, w) ==
  /\ w \in Memory
  /\ w.poHead[l] = last /\ \A k \in List \ {l} : w.poHead[k] = m.poHead[k]
  /\ \A x \in first..last :
       /\ w.pNext[x] = IF x = first THEN m.poHead[l] ELSE x - 1
       /\ w.pPrev[x] = IF x = last THEN null ELSE x + 1
  /\ m.poHead[l] # null => w.pPrev[m.poHead[l]] = first
  /\ \A x \in Node : x \notin first..last => w.pNext[x] = m.pNext[x]
  /\ \A x \in Node : x \notin first..last /\ x # m.poHead[l] => w.pPrev[x] = m.pPrev[x]

\* proFillReservedPool writes the links of FreshLinks.
LEMMA FilledIs ==
  ASSUME NEW p, p.mem \in Memory, p.total \in Nat, NEW count \in Nat \ {0},
         p.total + count <= MaxNodes, reserve \in List,
         p.mem.poHead[reserve] \notin (p.total + 1)..(p.total + count)
  PROVE  FreshLinks(p.mem, reserve, p.total + 1, p.total + count, Filled(p, count).mem)
<1> DEFINE m == p.mem
           first == p.total + 1
           last == p.total + count
           head == m.poHead[reserve]
           h == [m.poHead EXCEPT ![reserve] = last]
           f == [x \in Node |-> IF x \in first..last
                                THEN IF x = first THEN head ELSE x - 1 ELSE m.pNext[x]]
           b == [x \in Node |-> IF x \in first..last
                                THEN IF x = last THEN null ELSE x + 1 ELSE m.pPrev[x]]
           c == Set(b, head, first)
<1>1. Filled(p, count).mem = [poHead |-> h, pNext |-> f, pPrev |-> c]
  BY DEF Filled
<1>2. first \in Node /\ last \in Node /\ first..last \subseteq Node
      /\ \A x \in first..last : (x # first => x - 1 \in Node) /\ (x # last => x + 1 \in Node)
  BY MaxNodesAssumption DEF Node
<1>3. head \in Node \cup {null} /\ head \notin first..last
  BY MemoryIs
<1>4. /\ h \in [List -> Node \cup {null}]
      /\ \A k \in List : h[k] = IF k = reserve THEN last ELSE m.poHead[k]
  BY <1>2, MemoryIs
<1>5. f \in [Node -> Node \cup {null}]
      /\ \A x \in Node : f[x] = IF x \in first..last
                                THEN IF x = first THEN head ELSE x - 1 ELSE m.pNext[x]
  <2> HIDE DEF first, last, head, m
  <2>1. m.pNext \in [Node -> Node \cup {null}] BY MemoryIs DEF m
  <2> QED BY <1>2, <1>3, <2>1
<1>6. b \in [Node -> Node \cup {null}]
      /\ \A x \in Node : b[x] = IF x \in first..last
                                THEN IF x = last THEN null ELSE x + 1 ELSE m.pPrev[x]
  <2> HIDE DEF first, last, head, m
  <2>1. m.pPrev \in [Node -> Node \cup {null}] BY MemoryIs DEF m
  <2> QED BY <1>2, <1>3, <2>1
<1> HIDE DEF m, first, last, head, h, f, b
<1>7. Written(c, b, head, first)
  BY <1>2, <1>3, <1>6, SetIs
<1>8. /\ c \in [Node -> Node \cup {null}]
      /\ \A x \in Node : c[x] = IF x = head THEN first ELSE b[x]
  BY <1>7 DEF Written
<1> HIDE DEF c
<1>9. Filled(p, count).mem \in Memory
  BY <1>1, <1>4, <1>5, <1>8 DEF Memory
<1>10. FreshLinks(m, reserve, first, last, Filled(p, count).mem)
  <2>1. \A x \in first..last : x \in Node /\ x # head BY <1>2, <1>3
  <2>2. head # null => head \in Node BY <1>3
  <2>3. m.poHead[reserve] = head BY DEF head
  <2> QED BY <1>1, <1>4, <1>5, <1>6, <1>8, <1>9, <2>1, <2>2, <2>3 DEF FreshLinks
<1> QED BY <1>10 DEF m, first, last

\* So it leaves the new nodes in front of the old spare list.
LEMMA FreshOwn ==
  ASSUME NEW m, NEW l \in List, NEW r, Own(m, l, r), NEW total \in Nat, NEW count \in Nat \ {0},
         total + count <= MaxNodes, \A x : On(r, x) => x <= total,
         NEW w, FreshLinks(m, l, total + 1, total + count, w)
  PROVE  Own(w, l, Fresh(r, total, count))
<1> DEFINE t == Fresh(r, total, count)
<1>1. r \in Seq(Node) /\ Once(r) /\ Chained(m, l, r)
  BY DEF Own
<1>2. Len(r) \in Nat /\ \A i \in 1..Len(r) : r[i] \in Node /\ r[i] # null /\ r[i] <= total
  BY <1>1, SeqIs DEF On
<1>3. /\ t \in Seq(Node) /\ Len(t) = Len(r) + count
      /\ \A i \in 1..count : t[i] = total + count + 1 - i
      /\ \A i \in 1..Len(r) : t[count + i] = r[i]
  BY <1>1, FreshIs
<1> HIDE DEF t
<1>4. /\ Len(r) = 0 => m.poHead[l] = null
      /\ Len(r) > 0 => m.poHead[l] = r[1]
      /\ \A i \in 1..Len(r) :
           /\ i = Len(r) => m.pNext[r[i]] = null
           /\ i < Len(r) => m.pNext[r[i]] = r[i + 1]
           /\ i = 1 => m.pPrev[r[i]] = null
           /\ i > 1 => m.pPrev[r[i]] = r[i - 1]
  BY <1>1 DEF Chained
<1>5. \A i, j \in 1..Len(r) : r[i] = r[j] => i = j
  BY <1>1 DEF Once
<1>6. \A i \in 1..Len(t) : i \in 1..count \/ \E j \in 1..Len(r) : i = count + j
  <2> TAKE i \in 1..Len(t)
  <2>1. ~(i <= count) => i - count \in 1..Len(r) /\ i = count + (i - count) BY <1>2, <1>3
  <2>2. i <= count => i \in 1..count BY <1>2, <1>3
  <2> QED BY <2>1, <2>2
<1>7. \A i \in 1..Len(r) : r[i] \notin (total + 1)..(total + count) /\ r[i] \in Node
  BY <1>2 DEF Node
<1>8. Once(t)
  <2> SUFFICES ASSUME NEW i \in 1..Len(t), NEW j \in 1..Len(t), t[i] = t[j] PROVE i = j
    BY DEF Once
  <2>1. CASE i \in 1..count /\ j \in 1..count
    <3>1. total + count + 1 - i = total + count + 1 - j BY <1>3, <2>1
    <3> QED BY <2>1, <3>1
  <2>2. CASE i \in 1..count /\ \E k \in 1..Len(r) : j = count + k
    <3>1. PICK k \in 1..Len(r) : j = count + k BY <2>2
    <3>2. /\ r[k] = total + count + 1 - i /\ r[k] \notin (total + 1)..(total + count)
      BY <1>3, <1>7, <2>2, <3>1
    <3> QED BY <2>2, <3>2
  <2>3. CASE j \in 1..count /\ \E k \in 1..Len(r) : i = count + k
    <3>1. PICK k \in 1..Len(r) : i = count + k BY <2>3
    <3>2. /\ r[k] = total + count + 1 - j /\ r[k] \notin (total + 1)..(total + count)
      BY <1>3, <1>7, <2>3, <3>1
    <3> QED BY <2>3, <3>2
  <2>4. CASE (\E k \in 1..Len(r) : i = count + k) /\ (\E k \in 1..Len(r) : j = count + k)
    <3>1. PICK k \in 1..Len(r), g \in 1..Len(r) : i = count + k /\ j = count + g BY <2>4
    <3>2. r[k] = r[g] BY <1>3, <3>1
    <3> QED BY <1>5, <3>1, <3>2
  <2> QED BY <1>6, <2>1, <2>2, <2>3, <2>4
<1>9. /\ w.poHead[l] = total + count
      /\ \A x \in (total + 1)..(total + count) :
           /\ w.pNext[x] = IF x = total + 1 THEN m.poHead[l] ELSE x - 1
           /\ w.pPrev[x] = IF x = total + count THEN null ELSE x + 1
      /\ m.poHead[l] # null => w.pPrev[m.poHead[l]] = total + 1
      /\ \A x \in Node : x \notin (total + 1)..(total + count) => w.pNext[x] = m.pNext[x]
      /\ \A x \in Node : x \notin (total + 1)..(total + count) /\ x # m.poHead[l]
                            => w.pPrev[x] = m.pPrev[x]
  BY DEF FreshLinks
<1>10. ASSUME NEW i \in 1..Len(t)
       PROVE  /\ i = Len(t) => w.pNext[t[i]] = null
              /\ i < Len(t) => w.pNext[t[i]] = t[i + 1]
              /\ i = 1 => w.pPrev[t[i]] = null
              /\ i > 1 => w.pPrev[t[i]] = t[i - 1]
  <2>1. CASE i \in 1..count
    <3>1. PICK x \in (total + 1)..(total + count) : x = total + count + 1 - i
      BY <2>1
    <3>2. t[i] = x BY <1>3, <2>1, <3>1
    <3>3. (x = total + 1 <=> i = count) /\ (x = total + count <=> i = 1)
      BY <2>1, <3>1
    <3>4. /\ i = Len(t) => i = count /\ Len(r) = 0
          /\ i < Len(t) /\ i = count => Len(r) > 0 /\ 1 \in 1..Len(r)
      BY <1>2, <1>3, <2>1
    <3>5. i = count => w.pNext[x] = m.poHead[l]
      BY <1>9, <3>3
    <3>6. i # count => w.pNext[x] = x - 1
      BY <1>9, <3>3
    <3>7. i # count => t[i + 1] = x - 1
      <4> SUFFICES ASSUME i # count PROVE t[i + 1] = x - 1
        OBVIOUS
      <4>1. i + 1 \in 1..count /\ total + count + 1 - (i + 1) = x - 1 BY <2>1, <3>1
      <4> QED BY <1>3, <4>1
    <3>8. i < Len(t) /\ i = count => t[i + 1] = r[1]
      BY <1>3, <3>4
    <3>9. i = 1 => w.pPrev[x] = null
      BY <1>9, <3>3
    <3>10. i > 1 => w.pPrev[x] = t[i - 1]
      <4> SUFFICES ASSUME i > 1 PROVE w.pPrev[x] = t[i - 1]
        OBVIOUS
      <4>1. i - 1 \in 1..count /\ total + count + 1 - (i - 1) = x + 1 BY <2>1, <3>1
      <4>2. w.pPrev[x] = x + 1 BY <1>9, <3>3
      <4> QED BY <1>3, <4>1, <4>2
    <3> QED BY <1>4, <3>2, <3>4, <3>5, <3>6, <3>7, <3>8, <3>9, <3>10
  <2>2. CASE \E j \in 1..Len(r) : i = count + j
    <3>1. PICK j \in 1..Len(r) : i = count + j BY <2>2
    <3>2. /\ t[i] = r[j] /\ i > 1 /\ i # 1
          /\ (i = Len(t) <=> j = Len(r)) /\ (i < Len(t) <=> j < Len(r))
      BY <1>2, <1>3, <3>1
    <3>3. w.pNext[r[j]] = m.pNext[r[j]]
      BY <1>7, <1>9
    <3>4. j < Len(r) => t[i + 1] = r[j + 1]
      <4> SUFFICES ASSUME j < Len(r) PROVE t[i + 1] = r[j + 1]
        OBVIOUS
      <4>1. j + 1 \in 1..Len(r) /\ i + 1 = count + (j + 1) BY <1>2, <3>1
      <4>2. t[count + (j + 1)] = r[j + 1] BY <1>3, <4>1
      <4> QED BY <4>1, <4>2
    <3>5. w.pPrev[r[j]] = t[i - 1]
      <4>1. 1 \in 1..Len(r) /\ Len(r) > 0 BY <1>2
      <4>2. m.poHead[l] = r[1] BY <1>4, <4>1
      <4>3. CASE j = 1
        <5>1. m.poHead[l] = r[j] /\ r[j] # null BY <1>2, <4>2, <4>3
        <5>2. i - 1 = count /\ count \in 1..count /\ total + count + 1 - count = total + 1
          BY <3>1, <4>3
        <5> QED BY <1>3, <1>9, <5>1, <5>2
      <4>4. CASE j # 1
        <5>1. j > 1 /\ j - 1 \in 1..Len(r) /\ i - 1 = count + (j - 1) BY <1>2, <3>1, <4>4
        <5>2. r[j] # m.poHead[l] BY <1>5, <4>1, <4>2, <4>4
        <5>3. w.pPrev[r[j]] = m.pPrev[r[j]] BY <1>7, <1>9, <5>2
        <5>4. t[i - 1] = r[j - 1] BY <1>3, <5>1
        <5> QED BY <1>4, <5>1, <5>3, <5>4
      <4> QED BY <4>3, <4>4
    <3> QED BY <1>4, <3>2, <3>3, <3>4, <3>5
  <2> QED BY <1>6, <2>1, <2>2
<1>11. Len(t) > 0 /\ Len(t) # 0 BY <1>2, <1>3
<1>12. w.poHead[l] = t[1]
  <2>1. 1 \in 1..count /\ total + count + 1 - 1 = total + count OBVIOUS
  <2> QED BY <1>3, <1>9, <2>1
<1>13. Chained(w, l, t)
  BY <1>10, <1>11, <1>12 DEF Chained
<1> QED BY <1>3, <1>8, <1>13 DEF Own, t

------------------------------------------------------------------------------
(* The invariant.                                                          *)

\* The pool p hands out the nodes of a and keeps those of r: each node
\* allocated so far is on exactly one of the two lists, the counters count
\* them, and the washed nodes are those that are not handed out.
WF(p, a, r) ==
  /\ Two(p.mem, active, a, reserve, r)
  /\ p.name \in [Node -> Name \cup {Washed}]
  /\ p.total \in 0..MaxNodes
  /\ p.active = Len(a) /\ p.reserved = Len(r) /\ p.total = Len(a) + Len(r)
  /\ \A n \in Node : n <= p.total <=> On(a, n) \/ On(r, n)
  /\ \A n \in Node : p.name[n] = Washed <=> ~On(a, n)

PInv == mDeltaGrow \in Nat \ {0} /\ \E a, r : WF(Pool, a, r)

\* What WF says of its two sequences.
LEMMA WFSeqs ==
  ASSUME NEW p, NEW a, NEW r, WF(p, a, r)
  PROVE  /\ a \in Seq(Node) /\ r \in Seq(Node) /\ Len(a) \in Nat /\ Len(r) \in Nat
         /\ Len(a) <= MaxNodes /\ Len(r) <= MaxNodes
         /\ Once(a) /\ Once(r) /\ p.mem \in Memory
         /\ Own(p.mem, active, a) /\ Own(p.mem, reserve, r)
<1>1. a \in Seq(Node) /\ r \in Seq(Node) /\ Once(a) /\ Once(r) /\ p.mem \in Memory
      /\ Own(p.mem, active, a) /\ Own(p.mem, reserve, r)
  BY DEF WF, Two, Own
<1>2. Len(a) \in Nat /\ Len(r) \in Nat
  BY <1>1, SeqIs
<1>3. Len(a) + Len(r) \in 0..MaxNodes
  BY DEF WF
<1> QED BY <1>1, <1>2, <1>3, MaxNodesAssumption

\* Allocating nodes adds to the spare list only.
LEMMA FilledOwns ==
  ASSUME NEW p, NEW a, NEW r, WF(p, a, r), NEW count \in Nat, p.total + count <= MaxNodes
  PROVE  \E s : WF(Filled(p, count), a, s) /\ (count > 0 => Len(s) > 0)
<1>1. CASE count = 0
  <2>1. Filled(p, count) = p BY <1>1 DEF Filled
  <2> QED BY <1>1, <2>1
<1>2. CASE count # 0
  <2> DEFINE q == Filled(p, count)
             s == Fresh(r, p.total, count)
             first == p.total + 1
             last == p.total + count
  <2>1. q.name = p.name /\ q.total = p.total + count /\ q.reserved = p.reserved + count
        /\ q.active = p.active
    BY <1>2 DEF Filled
  <2>2. /\ a \in Seq(Node) /\ r \in Seq(Node) /\ Len(a) \in Nat /\ Len(r) \in Nat
        /\ Own(p.mem, active, a) /\ Own(p.mem, reserve, r) /\ p.mem \in Memory
    BY WFSeqs
  <2>3. /\ p.total \in 0..MaxNodes /\ p.active = Len(a) /\ p.reserved = Len(r)
        /\ p.total = Len(a) + Len(r)
        /\ \A n \in Node : n <= p.total <=> On(a, n) \/ On(r, n)
        /\ p.name \in [Node -> Name \cup {Washed}]
        /\ \A n \in Node : p.name[n] = Washed <=> ~On(a, n)
        /\ Two(p.mem, active, a, reserve, r)
    BY DEF WF
  <2>4. (\A x : On(a, x) => x \in Node) /\ (\A x : On(r, x) => x \in Node)
    BY <2>2, SeqIs DEF On
  <2>5. (\A x : On(a, x) => x <= p.total) /\ (\A x : On(r, x) => x <= p.total)
    BY <2>3, <2>4
  <2>6. active \in List /\ reserve \in List /\ active # reserve
    BY <2>3 DEF Two
  <2>7. p.mem.poHead[reserve] = null \/ On(r, p.mem.poHead[reserve])
    BY <2>2, LinksIn
  <2>8. p.mem.poHead[reserve] \notin first..last
    <3>1. null \notin first..last BY <2>3, NullAssumption
    <3>2. \A x : On(r, x) => x \notin first..last
      <4> TAKE x
      <4>1. On(r, x) => x \in Node /\ x <= p.total BY <2>4, <2>5
      <4> QED BY <2>3, <4>1 DEF Node
    <3> QED BY <2>7, <3>1, <3>2
  <2>9. FreshLinks(p.mem, reserve, first, last, q.mem)
    <3>1. /\ p.mem \in Memory /\ p.total \in Nat /\ count \in Nat \ {0}
          /\ p.total + count <= MaxNodes
      BY <1>2, <2>2, <2>3
    <3>2. reserve \in List /\ p.mem.poHead[reserve] \notin (p.total + 1)..(p.total + count)
      BY <2>6, <2>8
    <3> QED BY <3>1, <3>2, FilledIs, Zenon
  <2> HIDE DEF q
  <2>10. Own(q.mem, reserve, s)
    <3>1. p.total \in Nat /\ count \in Nat \ {0} /\ p.total + count <= MaxNodes
      BY <1>2, <2>3
    <3>2. FreshLinks(p.mem, reserve, p.total + 1, p.total + count, q.mem)
      BY <2>9
    <3> QED BY <2>2, <2>5, <2>6, <3>1, <3>2, FreshOwn, Zenon
  <2>11. /\ Len(s) = Len(r) + count
         /\ \A x : On(s, x) <=> On(r, x) \/ x \in first..last
    <3>1. p.total \in Nat /\ count \in Nat /\ p.total + count <= MaxNodes
      BY <2>3
    <3> QED BY <2>2, <3>1, FreshIs, Zenon
  <2> HIDE DEF s
  <2>12. \A i \in 1..Len(a) : a[i] \in Node /\ a[i] # p.mem.poHead[reserve]
    BY <2>3, <2>7, NotOf, TwoSwap
  <2>13. \A i \in 1..Len(a) : a[i] \notin first..last
    <3> TAKE i \in 1..Len(a)
    <3>1. a[i] \in Node /\ a[i] <= p.total BY <2>4, <2>5 DEF On
    <3> QED BY <2>3, <3>1 DEF Node
  <2>14. Own(q.mem, active, a)
    <3>1. q.mem.poHead[active] = p.mem.poHead[active] BY <2>6, <2>9 DEF FreshLinks
    <3>2. \A i \in 1..Len(a) : /\ q.mem.pNext[a[i]] = p.mem.pNext[a[i]]
                               /\ q.mem.pPrev[a[i]] = p.mem.pPrev[a[i]]
      BY <2>9, <2>12, <2>13 DEF FreshLinks
    <3> QED BY <2>2, <3>1, <3>2, Untouched
  <2>15. Apart(a, s)
    <3>1. SUFFICES ASSUME NEW i \in 1..Len(a), NEW j \in 1..Len(s), a[i] = s[j] PROVE FALSE
      BY DEF Apart
    <3>2. On(s, a[i]) BY <3>1 DEF On
    <3>3. On(r, a[i]) BY <2>11, <2>13, <3>2
    <3> QED BY <2>3, <3>3 DEF On, Two, Apart
  <2>16. Two(q.mem, active, a, reserve, s)
    <3>1. q.mem \in Memory BY <2>9 DEF FreshLinks
    <3> QED BY <2>6, <2>10, <2>14, <2>15, <3>1 DEF Two
  <2>17. \A n \in Node : n <= q.total <=> On(a, n) \/ On(s, n)
    <3> TAKE n \in Node
    <3>1. n \in Nat /\ (n \in first..last <=> n <= q.total /\ ~(n <= p.total))
      BY <2>1, <2>3 DEF Node
    <3>2. n <= p.total => n <= q.total BY <2>1, <2>3, <3>1
    <3> QED BY <2>3, <2>11, <3>1, <3>2
  <2>18. q.total \in 0..MaxNodes /\ q.active = Len(a) /\ q.reserved = Len(s)
         /\ q.total = Len(a) + Len(s) /\ Len(s) > 0
    BY <1>2, <2>1, <2>2, <2>3, <2>11
  <2>19. WF(q, a, s)
    BY <2>1, <2>3, <2>16, <2>17, <2>18 DEF WF
  <2> QED BY <2>18, <2>19 DEF q
<1> QED BY <1>1, <1>2

\* After the refill of an add there is a spare node.
LEMMA RefilledOwns ==
  ASSUME NEW p, NEW a, NEW r, WF(p, a, r), mDeltaGrow \in Nat \ {0},
         Refilled(p).total <= MaxNodes
  PROVE  \E s : WF(Refilled(p), a, s) /\ Len(s) > 0
<1>1. CASE p.mem.poHead[reserve] = null
  <2>1. Refilled(p) = Filled(p, mDeltaGrow) BY <1>1 DEF Refilled
  <2>2. Filled(p, mDeltaGrow).total = p.total + mDeltaGrow BY DEF Filled
  <2>3. p.total + mDeltaGrow <= MaxNodes BY <2>1, <2>2
  <2>4. \E s : WF(Filled(p, mDeltaGrow), a, s) /\ (mDeltaGrow > 0 => Len(s) > 0)
    BY <2>3, FilledOwns
  <2> QED BY <2>1, <2>4
<1>2. CASE p.mem.poHead[reserve] # null
  <2>1. Refilled(p) = p BY <1>2 DEF Refilled
  <2>2. Own(p.mem, reserve, r) /\ Len(r) \in Nat BY WFSeqs
  <2>3. Len(r) = 0 => p.mem.poHead[reserve] = null BY <2>2 DEF Own, Chained
  <2> QED BY <1>2, <2>1, <2>2, <2>3
<1> QED BY <1>1, <1>2

\* The first half of both adds: the head of the spare list leaves it.
LEMMA HeadLeaves ==
  ASSUME NEW p, NEW a, NEW r, WF(p, a, r), Len(r) > 0,
         NEW n, n = p.mem.poHead[reserve]
  PROVE  /\ Two(RemoveFromFront(p.mem, reserve), active, a, reserve, Without(r, 1))
         /\ n \in Node /\ On(r, n)
         /\ ~On(a, n) /\ ~On(Without(r, 1), n)
         /\ Len(Without(r, 1)) = Len(r) - 1
         /\ \A x : On(Without(r, 1), x) <=> On(r, x) /\ x # n
<1>1. Two(p.mem, reserve, r, active, a)
  BY TwoSwap DEF WF
<1>2. /\ Two(RemoveFromFront(p.mem, reserve), reserve, Without(r, 1), active, a)
      /\ ~On(Without(r, 1), n) /\ ~On(a, n) /\ n \in Node /\ n = r[1]
  <2>1. PICK m : m = p.mem
    OBVIOUS
  <2>2. Two(m, reserve, r, active, a) /\ n = m.poHead[reserve]
    BY <1>1, <2>1
  <2>3. Two(RemoveFromFront(m, reserve), reserve, Without(r, 1), active, a)
    BY <2>2, TwoRemoveFront
  <2>4. ~On(Without(r, 1), n) /\ ~On(a, n) /\ n \in Node
    BY <2>2, TwoRemoveFront
  <2>5. n = r[1]
    BY <2>2, LinksIn DEF Two
  <2> QED BY <2>1, <2>3, <2>4, <2>5
<1>3. r \in Seq(Node) /\ Once(r) /\ Len(r) \in Nat
  BY WFSeqs
<1>4. 1 \in 1..Len(r)
  BY <1>3
<1>5. Two(RemoveFromFront(p.mem, reserve), active, a, reserve, Without(r, 1))
  BY <1>2, TwoSwap
<1>6. /\ Len(Without(r, 1)) = Len(r) - 1
      /\ \A x : On(Without(r, 1), x) <=> On(r, x) /\ x # r[1]
  BY <1>3, <1>4, OnWithout, WithoutIs
<1>7. On(r, n)
  BY <1>2, <1>4 DEF On
<1> QED BY <1>2, <1>5, <1>6, <1>7

\* An add moves the spare head to the list b, however it is linked in there.
LEMMA TakenOwns ==
  ASSUME NEW p, NEW a, NEW r, WF(p, a, r), Len(r) > 0, NEW k \in Name,
         NEW n, n = p.mem.poHead[reserve], NEW linked, NEW b,
         Two(linked, active, b, reserve, Without(r, 1)), Len(b) = Len(a) + 1,
         \A x : On(b, x) <=> x = n \/ On(a, x)
  PROVE  WF(Taken(p, k, linked), b, Without(r, 1))
<1> DEFINE q == Taken(p, k, linked)
<1>1. /\ q.mem = linked /\ q.total = p.total
      /\ q.reserved = p.reserved - 1 /\ q.active = p.active + 1
      /\ q.name = [p.name EXCEPT ![n] = k]
  BY DEF Taken
<1> HIDE DEF q
<1>2. /\ n \in Node /\ On(r, n) /\ Len(Without(r, 1)) = Len(r) - 1
      /\ \A x : On(Without(r, 1), x) <=> On(r, x) /\ x # n
  BY HeadLeaves
<1>3. Len(a) \in Nat /\ Len(r) \in Nat
  BY WFSeqs
<1>4. /\ p.total \in 0..MaxNodes /\ p.active = Len(a) /\ p.reserved = Len(r)
      /\ p.total = Len(a) + Len(r)
      /\ \A x \in Node : x <= p.total <=> On(a, x) \/ On(r, x)
      /\ p.name \in [Node -> Name \cup {Washed}]
      /\ \A x \in Node : p.name[x] = Washed <=> ~On(a, x)
  BY DEF WF
<1>5. /\ q.name \in [Node -> Name \cup {Washed}]
      /\ \A x \in Node : q.name[x] = Washed <=> ~On(b, x)
  BY <1>1, <1>2, <1>4, NameAssumption
<1>6. \A x \in Node : x <= q.total <=> On(b, x) \/ On(Without(r, 1), x)
  BY <1>1, <1>2, <1>4
<1>7. q.active = Len(b) /\ q.reserved = Len(Without(r, 1))
      /\ q.total = Len(b) + Len(Without(r, 1)) /\ q.total \in 0..MaxNodes
  BY <1>1, <1>2, <1>3, <1>4
<1>8. WF(q, b, Without(r, 1))
  BY <1>1, <1>5, <1>6, <1>7 DEF WF
<1> QED BY <1>8 DEF q

\* The add of baseAddToFront.
LEMMA AddFrontOwns ==
  ASSUME NEW p, NEW a, NEW r, WF(p, a, r), Len(r) > 0, NEW k \in Name,
         NEW n, n = p.mem.poHead[reserve]
  PROVE  WF(Taken(p, k, AddToFront(RemoveFromFront(p.mem, reserve), active, n)),
            <<n>> \o a, Without(r, 1))
<1>1. /\ Two(RemoveFromFront(p.mem, reserve), active, a, reserve, Without(r, 1))
      /\ n \in Node /\ ~On(a, n) /\ ~On(Without(r, 1), n)
  BY HeadLeaves
<1>2. Two(AddToFront(RemoveFromFront(p.mem, reserve), active, n), active, <<n>> \o a,
          reserve, Without(r, 1))
  BY <1>1, TwoFront
<1>3. a \in Seq(Node) BY WFSeqs
<1>4. \A x : On(<<n>> \o a, x) <=> x = n \/ On(a, x)
  BY <1>1, <1>3, OnFront
<1>5. Len(<<n>> \o a) = Len(a) + 1
  BY <1>1, <1>3, FrontIs
<1> QED BY <1>2, <1>4, <1>5, TakenOwns

\* The add of baseAddToEnd.
LEMMA AddEndOwns ==
  ASSUME NEW p, NEW a, NEW r, WF(p, a, r), Len(r) > 0, NEW k \in Name,
         NEW n, n = p.mem.poHead[reserve]
  PROVE  WF(Taken(p, k, AddToEnd(RemoveFromFront(p.mem, reserve), active, n)),
            Append(a, n), Without(r, 1))
<1>1. /\ Two(RemoveFromFront(p.mem, reserve), active, a, reserve, Without(r, 1))
      /\ n \in Node /\ ~On(a, n) /\ ~On(Without(r, 1), n)
  BY HeadLeaves
<1>2. a \in Seq(Node) /\ Len(a) <= MaxNodes BY WFSeqs
<1>3. Two(AddToEnd(RemoveFromFront(p.mem, reserve), active, n), active, Append(a, n),
          reserve, Without(r, 1))
  BY <1>1, <1>2, TwoEnd
<1>4. \A x : On(Append(a, n), x) <=> x = n \/ On(a, x)
  BY <1>1, <1>2, OnEnd
<1>5. Len(Append(a, n)) = Len(a) + 1
  BY <1>1, <1>2
<1> QED BY <1>3, <1>4, <1>5, TakenOwns

\* The pool after baseRemove of n.
Returned(p, n) ==
  [mem |-> AddToFront(Remove(p.mem, active, n), reserve, n),
   name |-> [p.name EXCEPT ![n] = Washed],
   total |-> p.total,
   reserved |-> p.reserved + 1,
   active |-> p.active - 1]

\* A removal moves the node to the front of the spare list.
LEMMA ReturnedOwns ==
  ASSUME NEW p, NEW a, NEW r, WF(p, a, r), NEW i \in 1..Len(a), NEW n, n = a[i]
  PROVE  WF(Returned(p, n), Without(a, i), <<n>> \o r)
<1> DEFINE q == Returned(p, n)
           b == Without(a, i)
           s == <<n>> \o r
<1>1. /\ q.mem = AddToFront(Remove(p.mem, active, n), reserve, n) /\ q.total = p.total
      /\ q.reserved = p.reserved + 1 /\ q.active = p.active - 1
      /\ q.name = [p.name EXCEPT ![n] = Washed]
  BY DEF Returned
<1> HIDE DEF q
<1>2. Two(p.mem, active, a, reserve, r)
  BY DEF WF
<1>3. /\ Two(Remove(p.mem, active, n), active, b, reserve, r)
      /\ ~On(b, n) /\ ~On(r, n) /\ n \in Node
  BY <1>2, TwoRemove
<1>4. Two(AddToFront(Remove(p.mem, active, n), reserve, n), reserve, s, active, b)
  BY <1>3, TwoFront, TwoSwap
<1>5. Two(q.mem, active, b, reserve, s)
  BY <1>1, <1>4, TwoSwap
<1>6. a \in Seq(Node) /\ Once(a) /\ r \in Seq(Node) /\ Len(a) \in Nat /\ Len(r) \in Nat
  BY WFSeqs
<1>7. /\ Len(b) = Len(a) - 1 /\ Len(s) = Len(r) + 1
      /\ \A x : On(b, x) <=> On(a, x) /\ x # n
      /\ \A x : On(s, x) <=> x = n \/ On(r, x)
  BY <1>3, <1>6, WithoutIs, FrontIs, OnWithout, OnFront
<1> HIDE DEF b, s
<1>8. On(a, n) BY DEF On
<1>9. /\ p.total \in 0..MaxNodes /\ p.active = Len(a) /\ p.reserved = Len(r)
      /\ p.total = Len(a) + Len(r)
      /\ \A x \in Node : x <= p.total <=> On(a, x) \/ On(r, x)
      /\ p.name \in [Node -> Name \cup {Washed}]
      /\ \A x \in Node : p.name[x] = Washed <=> ~On(a, x)
  BY DEF WF
<1>10. /\ q.name \in [Node -> Name \cup {Washed}]
       /\ \A x \in Node : q.name[x] = Washed <=> ~On(b, x)
  BY <1>1, <1>3, <1>7, <1>9
<1>11. \A x \in Node : x <= q.total <=> On(b, x) \/ On(s, x)
  BY <1>1, <1>7, <1>8, <1>9
<1>12. q.active = Len(b) /\ q.reserved = Len(s)
       /\ q.total = Len(b) + Len(s) /\ q.total \in 0..MaxNodes
  BY <1>1, <1>6, <1>7, <1>9
<1>13. WF(q, b, s)
  BY <1>1, <1>5, <1>10, <1>11, <1>12 DEF WF
<1> QED BY <1>13 DEF q, b, s

------------------------------------------------------------------------------
(* Every step keeps the invariant.                                         *)

\* A new pool, with the spare nodes its constructor allocated.
LEMMA PInvInit ==
  ASSUME Init
  PROVE  PInv
<1> DEFINE none == [mem |-> Empty, name |-> [n \in Node |-> Washed],
                    total |-> 0, reserved |-> 0, active |-> 0]
<1>1. WF(none, <<>>, <<>>)
  <2> DEFINE e == <<>>
  <2>0. e \in Seq(Node) /\ Len(e) = 0 OBVIOUS
  <2>1. Empty \in Memory BY DEF Empty, Memory
  <2>2. active \in List /\ reserve \in List /\ active # reserve BY ListAssumption
  <2>3. Empty.poHead[active] = null /\ Empty.poHead[reserve] = null
    BY <2>2 DEF Empty
  <2> HIDE DEF e
  <2>4. Own(Empty, active, e) /\ Own(Empty, reserve, e)
    BY <2>0, <2>3 DEF Own, Once, Chained
  <2>5. Two(Empty, active, e, reserve, e)
    BY <2>0, <2>1, <2>2, <2>4 DEF Two, Apart
  <2>6. \A n \in Node : ~(n <= 0) /\ ~On(e, n)
    BY <2>0, MaxNodesAssumption DEF Node, On
  <2>7. /\ [n \in Node |-> Washed] \in [Node -> Name \cup {Washed}]
        /\ \A n \in Node : [x \in Node |-> Washed][n] = Washed
    OBVIOUS
  <2>8. WF(none, e, e)
    BY <2>0, <2>5, <2>6, <2>7, MaxNodesAssumption DEF WF
  <2> QED BY <2>8 DEF e
<1>2. PICK reserveNum \in 0..MaxReserve, grow \in 1..MaxGrow :
        /\ mDeltaGrow = grow
        /\ mem = Filled(none, reserveNum).mem
        /\ name = Filled(none, reserveNum).name
        /\ mTotalNumNodes = Filled(none, reserveNum).total
        /\ mNumReserved = Filled(none, reserveNum).reserved
        /\ mNumActive = Filled(none, reserveNum).active
  BY DEF Init
<1>3. reserveNum \in Nat /\ none.total + reserveNum <= MaxNodes
  BY <1>2, GrowAssumption, MaxNodesAssumption
<1> HIDE DEF none
<1>4. PICK s : WF(Filled(none, reserveNum), <<>>, s)
  BY <1>1, <1>3, FilledOwns
<1>5. WF(Pool, <<>>, s)
  BY <1>2, <1>4 DEF WF, Pool
<1>6. mDeltaGrow \in Nat \ {0}
  BY <1>2, GrowAssumption
<1> QED BY <1>5, <1>6 DEF PInv

\* What a step leaves behind is the pool it builds.
LEMMA BecomesIs ==
  ASSUME NEW p, NEW a, NEW r, WF(p, a, r), Becomes(p), mDeltaGrow' \in Nat \ {0}
  PROVE  PInv'
<1>1. WF(Pool, a, r)'
  BY DEF WF, Pool, Becomes
<1> QED BY <1>1 DEF PInv

\* Each action is one of the moves above, after a refill or not.
LEMMA PInvNext ==
  ASSUME PInv, [Next]_vars
  PROVE  PInv'
<1>1. PICK a, r : WF(Pool, a, r)
  BY DEF PInv
<1>2. mDeltaGrow \in Nat \ {0}
  BY DEF PInv
<1>3. ASSUME NEW k \in Name, AddFront(k) PROVE PInv'
  <2>1. PICK p : p = Refilled(Pool)
    OBVIOUS
  <2>2. PICK n : n = p.mem.poHead[reserve]
    OBVIOUS
  <2>3. p.total <= MaxNodes
    BY <1>3, <2>1 DEF AddFront
  <2>4. PICK s : WF(p, a, s) /\ Len(s) > 0
    BY <1>1, <1>2, <2>1, <2>3, RefilledOwns
  <2>5. WF(Taken(p, k, AddToFront(RemoveFromFront(p.mem, reserve), active, n)),
           <<n>> \o a, Without(s, 1))
    BY <2>2, <2>4, AddFrontOwns
  <2>6. /\ Becomes(Taken(p, k, AddToFront(RemoveFromFront(p.mem, reserve), active, n)))
        /\ mDeltaGrow' \in Nat \ {0}
    BY <1>2, <1>3, <2>1, <2>2 DEF AddFront
  <2> QED BY <2>5, <2>6, BecomesIs
<1>4. ASSUME NEW k \in Name, AddEnd(k) PROVE PInv'
  <2>1. PICK p : p = Refilled(Pool)
    OBVIOUS
  <2>2. PICK n : n = p.mem.poHead[reserve]
    OBVIOUS
  <2>3. p.total <= MaxNodes
    BY <1>4, <2>1 DEF AddEnd
  <2>4. PICK s : WF(p, a, s) /\ Len(s) > 0
    BY <1>1, <1>2, <2>1, <2>3, RefilledOwns
  <2>5. WF(Taken(p, k, AddToEnd(RemoveFromFront(p.mem, reserve), active, n)),
           Append(a, n), Without(s, 1))
    BY <2>2, <2>4, AddEndOwns
  <2>6. /\ Becomes(Taken(p, k, AddToEnd(RemoveFromFront(p.mem, reserve), active, n)))
        /\ mDeltaGrow' \in Nat \ {0}
    BY <1>2, <1>4, <2>1, <2>2 DEF AddEnd
  <2> QED BY <2>5, <2>6, BecomesIs
<1>5. ASSUME NEW n \in Node, BaseRemove(n) PROVE PInv'
  <2>1. On(a, n)
    BY <1>1, <1>5 DEF BaseRemove, WF, Pool
  <2>2. PICK i \in 1..Len(a) : n = a[i]
    BY <2>1 DEF On
  <2>3. WF(Returned(Pool, n), Without(a, i), <<n>> \o r)
    BY <1>1, <2>2, ReturnedOwns
  <2>4. Becomes(Returned(Pool, n)) /\ mDeltaGrow' \in Nat \ {0}
    BY <1>2, <1>5 DEF BaseRemove, Returned, Pool
  <2> QED BY <2>3, <2>4, BecomesIs
<1>6. ASSUME NEW num \in 0..MaxReserve, NEW grow \in 1..MaxGrow, SetReserve(num, grow)
      PROVE  PInv'
  <2>1. mDeltaGrow' \in Nat \ {0}
    BY <1>6, GrowAssumption DEF SetReserve
  <2>2. CASE num > mNumReserved
    <3>1. Becomes(Filled(Pool, num - mNumReserved))
      BY <1>6, <2>2 DEF SetReserve
    <3>2. mTotalNumNodes + num - mNumReserved <= MaxNodes
      BY <1>6, <2>2 DEF SetReserve
    <3>3. mNumReserved \in Nat /\ mTotalNumNodes \in Nat
      <4>1. Len(r) \in Nat BY <1>1, WFSeqs
      <4> QED BY <1>1, <4>1 DEF WF, Pool
    <3>4. PICK count \in Nat : count = num - mNumReserved
      BY <2>2, <3>3
    <3>5. Pool.total + count <= MaxNodes
      BY <3>2, <3>3, <3>4 DEF Pool
    <3>6. PICK s : WF(Filled(Pool, count), a, s)
      BY <1>1, <3>5, FilledOwns
    <3> QED BY <2>1, <3>1, <3>4, <3>6, BecomesIs
  <2>3. CASE ~(num > mNumReserved)
    <3>1. Becomes(Pool)
      BY <1>6, <2>3 DEF SetReserve
    <3> QED BY <1>1, <2>1, <3>1, BecomesIs
  <2> QED BY <2>2, <2>3
<1>7. ASSUME UNCHANGED vars PROVE PInv'
  <2>1. Becomes(Pool) /\ mDeltaGrow' \in Nat \ {0}
    BY <1>2, <1>7 DEF vars, counters, Becomes, Pool
  <2> QED BY <1>1, <2>1, BecomesIs
<1> QED BY <1>3, <1>4, <1>5, <1>6, <1>7 DEF Next

\* PInv holds in every reachable state.
LEMMA PInvAlways == Spec => []PInv
<1>1. Init => PInv BY PInvInit
<1>2. PInv /\ [Next]_vars => PInv' BY PInvNext
<1> QED BY <1>1, <1>2, PTL DEF Spec

------------------------------------------------------------------------------
(* What the invariant says of the runs' properties.                        *)

\* The iterators see the two sequences of the invariant.
LEMMA WalksAre ==
  ASSUME NEW a, NEW r, WF(Pool, a, r)
  PROVE  /\ Active = a /\ Reserve = r
         /\ a \in NodeSeq /\ r \in NodeSeq
<1>1. /\ Own(mem, active, a) /\ Own(mem, reserve, r)
      /\ Len(a) <= MaxNodes /\ Len(r) <= MaxNodes
  BY WFSeqs DEF Pool
<1> QED BY <1>1, ChainIs DEF Active, Reserve

\* PInv bounds the counters by the lengths of the two sequences.
LEMMA PInvTypeOK ==
  ASSUME PInv
  PROVE  TypeOK
<1>1. PICK a, r : WF(Pool, a, r) BY DEF PInv
<1>2. Len(a) \in Nat /\ Len(r) \in Nat /\ mem \in Memory BY <1>1, WFSeqs DEF Pool
<1>3. mDeltaGrow \in Nat \ {0} BY DEF PInv
<1> QED BY <1>1, <1>2, <1>3 DEF TypeOK, WF, Pool

\* The sequences PInv names are the ones ListsLinked asks for.
LEMMA PInvListsLinked ==
  ASSUME PInv
  PROVE  ListsLinked
<1>1. PICK a, r : WF(Pool, a, r) BY DEF PInv
<1>2. /\ a \in Seq(Node) /\ r \in Seq(Node)
      /\ Own(mem, active, a) /\ Own(mem, reserve, r)
  BY <1>1, WFSeqs DEF Pool
<1>3. Linked(mem, active, a) /\ Linked(mem, reserve, r)
  BY <1>2, LinkedIs DEF Own
<1>4. a \in NodeSeq /\ r \in NodeSeq BY <1>1, WalksAre
<1>5. /\ Len(a) + Len(r) = mTotalNumNodes /\ mTotalNumNodes \in 0..MaxNodes
      /\ \A n \in Node : n <= mTotalNumNodes <=> On(a, n) \/ On(r, n)
  BY <1>1 DEF WF, Pool
<1>6. {a[i] : i \in 1..Len(a)} \cup {r[i] : i \in 1..Len(r)} = 1..mTotalNumNodes
  <2>1. \A n : On(a, n) \/ On(r, n) => n \in Node
    BY <1>2, SeqIs DEF On
  <2>2. \A n : n \in 1..mTotalNumNodes <=> n \in Node /\ n <= mTotalNumNodes
    BY <1>5, MaxNodesAssumption DEF Node
  <2>3. \A n : n \in 1..mTotalNumNodes <=> On(a, n) \/ On(r, n)
    BY <1>5, <2>1, <2>2
  <2> QED BY <2>3, Zenon DEF On
<1> QED BY <1>3, <1>4, <1>5, <1>6 DEF ListsLinked

\* The counters are the lengths of what the iterators visit.
LEMMA PInvCountersExact ==
  ASSUME PInv
  PROVE  CountersExact
<1>1. PICK a, r : WF(Pool, a, r) BY DEF PInv
<1>2. Active = a /\ Reserve = r BY <1>1, WalksAre
<1> QED BY <1>1, <1>2 DEF CountersExact, WF, Pool

\* The washed nodes are those the active list does not visit.
LEMMA PInvSpareMeansWashed ==
  ASSUME PInv
  PROVE  SpareMeansWashed
<1>1. PICK a, r : WF(Pool, a, r) BY DEF PInv
<1>2. Active = a BY <1>1, WalksAre
<1>3. \A n \in Node : name[n] = Washed <=> ~On(a, n) BY <1>1 DEF WF, Pool
<1> QED BY <1>2, <1>3, Zenon DEF SpareMeansWashed, On

\* The links, names and counters of a pool keep their types: no counter goes
\* below zero, and no more nodes are allocated than the bound allows
\* (ManBase.cpp).
THEOREM TypesKept == Spec => []TypeOK
BY PInvAlways, PInvTypeOK, PTL

\* Whatever is added, removed and refilled in whatever order, both lists are
\* linked both ways, and each allocated node is on exactly one of them
\* (ManBase.cpp over DLinkMan.cpp).
THEOREM ListsAreLinked == Spec => []ListsLinked
BY PInvAlways, PInvListsLinked, PTL

\* mNumActive, mNumReserved and mTotalNumNodes are the lengths of the lists
\* they stand for after every operation (ManBase.cpp).
THEOREM CountersCount == Spec => []CountersExact
BY PInvAlways, PInvCountersExact, PTL

\* A node holds a payload exactly as long as it is on the active list: what
\* baseRemove puts back is washed, what an add hands out is named.
THEOREM SpareNodesAreWashed == Spec => []SpareMeansWashed
BY PInvAlways, PInvSpareMeansWashed, PTL

------------------------------------------------------------------------------
(* The lists implement NodePool.                                           *)

\* The names of the nodes handed out, as NodePool keeps them.
Names == [n \in {m \in Node : name[m] # Washed} |-> name[n]]

\* After a step the iterator over the active list sees the new sequence.
LEMMA NextWalk ==
  ASSUME NEW p, NEW a, NEW r, WF(p, a, r), Becomes(p)
  PROVE  Active' = a
<1>1. Own(p.mem, active, a) /\ Len(a) <= MaxNodes
  BY WFSeqs
<1>2. Chain(p.mem, active) = a
  BY <1>1, ChainIs
<1>3. p.mem = mem'
  BY DEF Becomes
<1>4. Chain(mem', active) = a
  BY <1>2, <1>3
<1> QED BY <1>4 DEF Active, Chain, IsChain

\* No node is handed out by a new pool.
LEMMA PoolInit ==
  ASSUME Init
  PROVE  Nodes!Init
<1>1. PInv BY PInvInit
<1>2. PICK a, r : WF(Pool, a, r) BY <1>1 DEF PInv
<1>3. Active = a /\ a \in Seq(Node) /\ Len(a) \in Nat BY <1>2, WalksAre, WFSeqs
<1>4. mNumActive = 0
  BY DEF Init, Filled
<1>5. Len(a) = 0
  BY <1>2, <1>4 DEF WF, Pool
<1>6. Active = <<>>
  BY <1>3, <1>5, SeqIs
<1>7. \A n \in Node : name[n] = Washed
  BY <1>2, <1>5 DEF WF, Pool, On
<1>8. Names = [n \in {} |-> 0]
  BY <1>7 DEF Names
<1> QED BY <1>6, <1>8 DEF Nodes!Init, Names

\* The names after a node of no name got one.
LEMMA NamedIs ==
  ASSUME NEW n \in Node, name[n] = Washed, NEW k \in Name,
         name \in [Node -> Name \cup {Washed}], name' = [name EXCEPT ![n] = k]
  PROVE  /\ n \notin DOMAIN Names
         /\ Names' = [m \in DOMAIN Names \cup {n} |-> IF m = n THEN k ELSE Names[m]]
<1>1. \A m \in Node : name'[m] = IF m = n THEN k ELSE name[m]
  OBVIOUS
<1>2. \A m \in Node : name'[m] # Washed <=> m = n \/ name[m] # Washed
  BY <1>1, NameAssumption
<1>3. {m \in Node : name'[m] # Washed} = {m \in Node : name[m] # Washed} \cup {n}
  BY <1>2
<1> QED BY <1>1, <1>3 DEF Names

\* An add is NodePool's add, a removal its Retire, and a refill changes
\* nothing that a caller can see.
LEMMA PoolNext ==
  ASSUME PInv, [Next]_vars
  PROVE  [Nodes!Next]_(Nodes!poolVars)
<1>1. PICK a, r : WF(Pool, a, r)
  BY DEF PInv
<1>2. mDeltaGrow \in Nat \ {0}
  BY DEF PInv
<1>3. Active = a /\ a \in Seq(Node) /\ Once(a) /\ Len(a) \in Nat
  BY <1>1, WalksAre, WFSeqs
<1>4. /\ name \in [Node -> Name \cup {Washed}]
      /\ \A n \in Node : name[n] = Washed <=> ~On(a, n)
  BY <1>1 DEF WF, Pool
<1>5. ASSUME NEW k \in Name, AddFront(k) PROVE Nodes!Next
  <2>1. PICK p : p = Refilled(Pool)
    OBVIOUS
  <2>2. PICK n : n = p.mem.poHead[reserve]
    OBVIOUS
  <2>3. PICK linked : linked = AddToFront(RemoveFromFront(p.mem, reserve), active, n)
    OBVIOUS
  <2>4. p.total <= MaxNodes /\ Becomes(Taken(p, k, linked))
    BY <1>5, <2>1, <2>2, <2>3 DEF AddFront
  <2>5. PICK s : WF(p, a, s) /\ Len(s) > 0
    BY <1>1, <1>2, <2>1, <2>4, RefilledOwns
  <2>6. /\ n \in Node /\ n \notin DOMAIN Names
        /\ Names' = [m \in DOMAIN Names \cup {n} |-> IF m = n THEN k ELSE Names[m]]
    <3>1. p.name = name BY <2>1 DEF Refilled, Filled, Pool
    <3>2. n \in Node /\ ~On(a, n) BY <2>2, <2>5, HeadLeaves
    <3>3. name' = [name EXCEPT ![n] = k] BY <2>2, <2>4, <3>1 DEF Becomes, Taken
    <3>4. name[n] = Washed BY <1>4, <3>2
    <3> QED BY <1>4, <3>2, <3>3, <3>4, NamedIs
  <2>7. WF(Taken(p, k, linked), <<n>> \o a, Without(s, 1))
    BY <2>2, <2>3, <2>5, AddFrontOwns
  <2>8. Active' = <<n>> \o Active
    BY <1>3, <2>4, <2>7, NextWalk
  <2>9. Nodes!AddToFront(n, k)
    BY <2>6, <2>8 DEF Nodes!AddToFront, Nodes!Named, Names
  <2> QED BY <2>6, <2>9 DEF Nodes!Next
<1>6. ASSUME NEW k \in Name, AddEnd(k) PROVE Nodes!Next
  <2>1. PICK p : p = Refilled(Pool)
    OBVIOUS
  <2>2. PICK n : n = p.mem.poHead[reserve]
    OBVIOUS
  <2>3. PICK linked : linked = AddToEnd(RemoveFromFront(p.mem, reserve), active, n)
    OBVIOUS
  <2>4. p.total <= MaxNodes /\ Becomes(Taken(p, k, linked))
    BY <1>6, <2>1, <2>2, <2>3 DEF AddEnd
  <2>5. PICK s : WF(p, a, s) /\ Len(s) > 0
    BY <1>1, <1>2, <2>1, <2>4, RefilledOwns
  <2>6. /\ n \in Node /\ n \notin DOMAIN Names
        /\ Names' = [m \in DOMAIN Names \cup {n} |-> IF m = n THEN k ELSE Names[m]]
    <3>1. p.name = name BY <2>1 DEF Refilled, Filled, Pool
    <3>2. n \in Node /\ ~On(a, n) BY <2>2, <2>5, HeadLeaves
    <3>3. name' = [name EXCEPT ![n] = k] BY <2>2, <2>4, <3>1 DEF Becomes, Taken
    <3>4. name[n] = Washed BY <1>4, <3>2
    <3> QED BY <1>4, <3>2, <3>3, <3>4, NamedIs
  <2>7. WF(Taken(p, k, linked), Append(a, n), Without(s, 1))
    BY <2>2, <2>3, <2>5, AddEndOwns
  <2>8. Active' = Append(Active, n)
    BY <1>3, <2>4, <2>7, NextWalk
  <2>9. Nodes!AddToEnd(n, k)
    BY <2>6, <2>8 DEF Nodes!AddToEnd, Nodes!Named, Names
  <2> QED BY <2>6, <2>9 DEF Nodes!Next
<1>7. ASSUME NEW n \in Node, BaseRemove(n) PROVE Nodes!Next
  <2>1. name[n] # Washed /\ On(a, n)
    BY <1>4, <1>7 DEF BaseRemove
  <2>2. PICK i \in 1..Len(a) : n = a[i]
    BY <2>1 DEF On
  <2>3. WF(Returned(Pool, n), Without(a, i), <<n>> \o r)
    BY <1>1, <2>2, ReturnedOwns
  <2>4. Becomes(Returned(Pool, n))
    BY <1>7 DEF BaseRemove, Returned, Pool
  <2>5. Active' = Without(Active, i)
    BY <1>3, <2>3, <2>4, NextWalk
  <2>6. name' = [name EXCEPT ![n] = Washed]
    BY <1>7 DEF BaseRemove, Becomes
  <2>7. \A m \in Node : name'[m] = IF m = n THEN Washed ELSE name[m]
    BY <1>4, <2>6
  <2>8. {m \in Node : name'[m] # Washed} = {m \in Node : name[m] # Washed} \ {n}
    BY <2>7
  <2>9. n \in DOMAIN Names /\ Names' = [m \in DOMAIN Names \ {n} |-> Names[m]]
    BY <2>1, <2>7, <2>8 DEF Names
  <2>10. i \in 1..Len(Active) /\ Active[i] = n
    BY <1>3, <2>2
  <2>11. Nodes!Retire(n)
    BY <2>5, <2>9, <2>10 DEF Nodes!Retire, Names, Without
  <2> QED BY <2>11 DEF Nodes!Next
<1>8. ASSUME NEW p, NEW s, WF(p, a, s), Becomes(p), p.name = name
      PROVE  UNCHANGED Nodes!poolVars
  <2>1. Active' = Active
    BY <1>3, <1>8, NextWalk
  <2>2. name' = name
    BY <1>8 DEF Becomes
  <2>3. Names' = Names
    BY <2>2 DEF Names
  <2> QED BY <2>1, <2>3 DEF Nodes!poolVars, Names
<1>9. ASSUME NEW num \in 0..MaxReserve, NEW grow \in 1..MaxGrow, SetReserve(num, grow)
      PROVE  UNCHANGED Nodes!poolVars
  <2>1. CASE num > mNumReserved
    <3>1. Becomes(Filled(Pool, num - mNumReserved))
      BY <1>9, <2>1 DEF SetReserve
    <3>2. mTotalNumNodes + num - mNumReserved <= MaxNodes
      BY <1>9, <2>1 DEF SetReserve
    <3>3. mNumReserved \in Nat /\ mTotalNumNodes \in Nat
      <4>1. Len(r) \in Nat BY <1>1, WFSeqs
      <4> QED BY <1>1, <4>1 DEF WF, Pool
    <3>4. PICK count \in Nat : count = num - mNumReserved
      BY <2>1, <3>3
    <3>5. Pool.total + count <= MaxNodes
      BY <3>2, <3>3, <3>4 DEF Pool
    <3>6. PICK s : WF(Filled(Pool, count), a, s)
      BY <1>1, <3>5, FilledOwns
    <3>7. Filled(Pool, count).name = name
      BY DEF Filled, Pool
    <3> QED BY <1>8, <3>1, <3>4, <3>6, <3>7
  <2>2. CASE ~(num > mNumReserved)
    <3>1. Becomes(Pool) /\ Pool.name = name
      BY <1>9, <2>2 DEF SetReserve, Pool
    <3> QED BY <1>1, <1>8, <3>1
  <2> QED BY <2>1, <2>2
<1>10. ASSUME UNCHANGED vars PROVE UNCHANGED Nodes!poolVars
  <2>1. Becomes(Pool) /\ Pool.name = name
    BY <1>10 DEF vars, counters, Becomes, Pool
  <2> QED BY <1>1, <1>8, <2>1
<1> QED BY <1>5, <1>6, <1>7, <1>9, <1>10 DEF Next

\* The linked lists implement the pool without pointers of NodePool: nodes in
\* use keep their order and their names, and none is handed out twice
\* (ManBase.cpp).
THEOREM TheListsAreThePool == Spec => ImplementsPool
<1>1. Init => Nodes!Init BY PoolInit
<1>2. PInv /\ [Next]_vars => [Nodes!Next]_(Nodes!poolVars) BY PoolNext
<1>3. Spec => []PInv BY PInvAlways
<1> QED BY <1>1, <1>2, <1>3, PTL DEF Spec, ImplementsPool, Nodes!Spec
==============================================================================
