------------------------------- MODULE DLinkMan -------------------------------
(***************************************************************************)
(* The intrusive doubly linked lists of Libs/Manager: DLinkMan.cpp with    *)
(* DLink.cpp and DLinkIterator.cpp.                                        *)
(*                                                                         *)
(* A node carries its own two links, so it can be on one list at a time.   *)
(* The memory of all lists is one record: poHead[l] is the first node of   *)
(* list l, pNext[n] and pPrev[n] the links of node n.  Each operation      *)
(* takes the memory and returns it changed; as the code does, it trusts    *)
(* its caller that a node to be added is on no list and that a node to be  *)
(* removed is on this one.                                                 *)
(***************************************************************************)
EXTENDS Naturals, Sequences

CONSTANTS
  List,       \* the lists
  MaxNodes,   \* bound: nodes ever allocated
  null        \* nullptr

ASSUME MaxNodesAssumption == MaxNodes \in Nat
ASSUME NullAssumption == null \notin Nat

Node == 1..MaxNodes

Memory == [poHead : [List -> Node \cup {null}],
           pNext  : [Node -> Node \cup {null}],
           pPrev  : [Node -> Node \cup {null}]]

Empty == [poHead |-> [l \in List |-> null],
          pNext  |-> [n \in Node |-> null],
          pPrev  |-> [n \in Node |-> null]]

\* f with the value v at x, or f itself where the code writes through no
\* pointer because x is null.
Set(f, x, v) == IF x = null THEN f ELSE [f EXCEPT ![x] = v]

------------------------------------------------------------------------------
(* Walking a list.                                                         *)

\* s is what an iterator over list l visits: the head, then pNext to pNext,
\* until null.
IsChain(mem, l, s) ==
  /\ mem.poHead[l] = IF s = <<>> THEN null ELSE s[1]
  /\ \A i \in 1..Len(s) :
       mem.pNext[s[i]] = IF i = Len(s) THEN null ELSE s[i + 1]

\* No walk that ends visits a node twice, so no chain is longer.
NodeSeq == UNION {[1..k -> Node] : k \in 0..MaxNodes}

Chain(mem, l) == CHOOSE s \in NodeSeq : IsChain(mem, l, s)

\* The node an AddToEnd spins to.
LastOf(s) == IF s = <<>> THEN null ELSE s[Len(s)]

------------------------------------------------------------------------------
(* DLinkMan.                                                               *)

AddToFront(mem, l, n) ==
  LET head == mem.poHead[l]
  IN  [poHead |-> [mem.poHead EXCEPT ![l] = n],
       pNext  |-> [mem.pNext EXCEPT ![n] = head],
       pPrev  |-> Set([mem.pPrev EXCEPT ![n] = null], head, n)]

AddToEnd(mem, l, n) ==
  LET last == LastOf(Chain(mem, l))
  IN  [poHead |-> [mem.poHead EXCEPT ![l] = IF last = null THEN n ELSE @],
       pNext  |-> Set([mem.pNext EXCEPT ![n] = null], last, n),
       pPrev  |-> [mem.pPrev EXCEPT ![n] = last]]

\* DLink::Clear.
Clear(mem, n) ==
  [poHead |-> mem.poHead,
   pNext  |-> [mem.pNext EXCEPT ![n] = null],
   pPrev  |-> [mem.pPrev EXCEPT ![n] = null]]

\* Mutant: the successor keeps its link to the node that left.
RemoveOneWay(mem, l, n) ==
  Clear([poHead |-> [mem.poHead EXCEPT ![l] = IF mem.pPrev[n] = null
                                              THEN mem.pNext[n] ELSE @],
         pNext  |-> Set(mem.pNext, mem.pPrev[n], mem.pNext[n]),
         pPrev  |-> mem.pPrev], n)

\* The four cases of the code: the neighbours are joined, and the head moves
\* when there is no predecessor, whatever the head was.
Remove(mem, l, n) ==
  LET before == mem.pPrev[n]
      after == mem.pNext[n]
  IN  Clear([poHead |-> [mem.poHead EXCEPT ![l] = IF before = null THEN after
                                                  ELSE @],
             pNext  |-> Set(mem.pNext, before, after),
             pPrev  |-> Set(mem.pPrev, after, before)], n)

\* RemoveFromFront, whose result is the old head.
RemoveFromFront(mem, l) ==
  LET n == mem.poHead[l]
      after == mem.pNext[n]
  IN  Clear([poHead |-> [mem.poHead EXCEPT ![l] = after],
             pNext  |-> mem.pNext,
             pPrev  |-> Set(mem.pPrev, after, null)], n)

------------------------------------------------------------------------------
(* Properties.                                                             *)

\* The links of list l are those of the sequence s, in both directions.
Linked(mem, l, s) ==
  /\ IsChain(mem, l, s)
  /\ \A i \in 1..Len(s) :
       mem.pPrev[s[i]] = IF i = 1 THEN null ELSE s[i - 1]
==============================================================================
