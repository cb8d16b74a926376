-------------------------------- MODULE ManBase --------------------------------
(***************************************************************************)
(* The object pool behind every manager: Libs/Manager/src/ManBase.cpp over *)
(* two lists of DLinkMan, one of nodes handed out and one of spare nodes.  *)
(*                                                                         *)
(* The concrete managers (MeshNodeMan, TexNodeMan, ImageMan, AnimMan, ...) *)
(* add nothing to it but the payload: their Add takes a node and sets its  *)
(* name, their Find compares names, their Remove returns the node, whose   *)
(* Wash frees the payload.                                                 *)
(***************************************************************************)
EXTENDS DLinkMan, FiniteSetsExt

CONSTANTS
  Name,       \* what the compare strategy tells apart
  Washed,     \* the name of a node without a payload
  active, reserve,   \* the two lists
  MaxReserve, \* bound: largest reserveNum a manager is created with
  MaxGrow     \* bound: largest DeltaGrow

ASSUME NameAssumption == Washed \notin Name
ASSUME ListAssumption == List = {active, reserve} /\ active # reserve
ASSUME GrowAssumption == MaxReserve \in 0..MaxNodes /\ MaxGrow \in Nat \ {0}

VARIABLES
  mem,             \* the links of all nodes and the heads of both lists
  name,            \* the payload of every node
  mDeltaGrow, mTotalNumNodes, mNumReserved, mNumActive

counters == <<mDeltaGrow, mTotalNumNodes, mNumReserved, mNumActive>>
vars == <<mem, name, counters>>

Active == Chain(mem, active)
Reserve == Chain(mem, reserve)

------------------------------------------------------------------------------
(* Helpers: functions from one state of the pool to the next.              *)

Pool == [mem |-> mem, name |-> name, total |-> mTotalNumNodes,
         reserved |-> mNumReserved, active |-> mNumActive]

Becomes(p) ==
  /\ mem' = p.mem
  /\ name' = p.name
  /\ mTotalNumNodes' = p.total
  /\ mNumReserved' = p.reserved
  /\ mNumActive' = p.active

\* proFillReservedPool: each of the count new nodes goes to the front of the
\* spare list, so the last one allocated is the first one handed out.
Filled(p, count) ==
  LET new == (p.total + 1)..(p.total + count)
      head == p.mem.poHead[reserve]
      link(n) == IF n = p.total + 1 THEN head ELSE n - 1
      back(n) == IF n = p.total + count THEN null ELSE n + 1
  IN  IF count = 0 THEN p
      ELSE [mem |->
              [poHead |-> [p.mem.poHead EXCEPT ![reserve] = p.total + count],
               pNext  |-> [n \in Node |-> IF n \in new THEN link(n) ELSE p.mem.pNext[n]],
               pPrev  |-> Set([n \in Node |-> IF n \in new THEN back(n)
                                             ELSE p.mem.pPrev[n]],
                              head, p.total + 1)],
            name |-> p.name,
            total |-> p.total + count,
            reserved |-> p.reserved + count,
            active |-> p.active]

\* The middle of both adds: the first spare node leaves the spare list, is
\* washed, counted, and named by the caller; the last step links it in.
Taken(p, k, linked) ==
  [mem |-> linked,
   name |-> [p.name EXCEPT ![p.mem.poHead[reserve]] = k],
   total |-> p.total,
   reserved |-> p.reserved - 1,
   active |-> p.active + 1]

\* Mutant: the refill is not counted.
RefilledUncounted(p) ==
  IF p.mem.poHead[reserve] = null
  THEN [Filled(p, mDeltaGrow) EXCEPT !.reserved = p.reserved]
  ELSE p

\* Mutant: a dry spare list takes back the newest node in use.
RefilledByStealing(p) ==
  LET n == p.mem.poHead[active]
  IN  IF p.mem.poHead[reserve] # null THEN p
      ELSE IF n = null THEN Filled(p, mDeltaGrow)
      ELSE [p EXCEPT !.mem = AddToFront(Remove(@, active, n), reserve, n),
                     !.reserved = @ + 1, !.active = @ - 1]

\* A spare list that ran dry is refilled by mDeltaGrow nodes first.
Refilled(p) ==
  IF p.mem.poHead[reserve] = null THEN Filled(p, mDeltaGrow) ELSE p

\* baseFind: the first node of the list with the name.  When none has it the
\* search ends on the last node of the list, and that is what is returned.
BaseFind(k) ==
  LET hits == {i \in 1..Len(Active) : name[Active[i]] = k}
  IN  IF hits = {} THEN LastOf(Active) ELSE Active[Min(hits)]

------------------------------------------------------------------------------
\* The constructors: ManBase zeroes the counters, the derived class fills the
\* spare list.
Init ==
  \E reserveNum \in 0..MaxReserve, grow \in 1..MaxGrow :
    LET p == Filled([mem |-> Empty, name |-> [n \in Node |-> Washed],
                     total |-> 0, reserved |-> 0, active |-> 0], reserveNum)
    IN  /\ mDeltaGrow = grow
        /\ mem = p.mem
        /\ name = p.name
        /\ mTotalNumNodes = p.total
        /\ mNumReserved = p.reserved
        /\ mNumActive = p.active

\* baseAddToFront and the Set of the derived Add.
AddFront(k) ==
  /\ Refilled(Pool).total <= MaxNodes
  /\ LET p == Refilled(Pool)
     IN  Becomes(Taken(p, k, AddToFront(RemoveFromFront(p.mem, reserve), active,
                                        p.mem.poHead[reserve])))
  /\ UNCHANGED mDeltaGrow

\* baseAddToEnd, which no manager of the engine calls.
AddEnd(k) ==
  /\ Refilled(Pool).total <= MaxNodes
  /\ LET p == Refilled(Pool)
     IN  Becomes(Taken(p, k, AddToEnd(RemoveFromFront(p.mem, reserve), active,
                                      p.mem.poHead[reserve])))
  /\ UNCHANGED mDeltaGrow

\* Mutant: grows by the number asked for, not by what is missing.
SetReserveByAll(num, grow) ==
  /\ mDeltaGrow' = grow
  /\ IF num > mNumReserved
     THEN /\ mTotalNumNodes + num <= MaxNodes
          /\ Becomes([Filled(Pool, num) EXCEPT !.reserved = num])
     ELSE Becomes(Pool)

\* Mutant: removed but not washed.
RemovedUnwashed(n) ==
  /\ name[n] # Washed
  /\ Becomes([Pool EXCEPT
       !.mem = AddToFront(Remove(@, active, n), reserve, n),
       !.reserved = @ + 1,
       !.active = @ - 1])
  /\ UNCHANGED mDeltaGrow

\* baseRemove of a node its caller got from an Add and has not removed yet.
BaseRemove(n) ==
  /\ name[n] # Washed
  /\ Becomes([mem |-> AddToFront(Remove(mem, active, n), reserve, n),
              name |-> [name EXCEPT ![n] = Washed],
              total |-> mTotalNumNodes,
              reserved |-> mNumReserved + 1,
              active |-> mNumActive - 1])
  /\ UNCHANGED mDeltaGrow

\* baseSetReserve: never shrinks.
SetReserve(num, grow) ==
  /\ mDeltaGrow' = grow
  /\ IF num > mNumReserved
     THEN /\ mTotalNumNodes + num - mNumReserved <= MaxNodes
          /\ Becomes(Filled(Pool, num - mNumReserved))
     ELSE Becomes(Pool)

Next ==
  \/ \E k \in Name : AddFront(k) \/ AddEnd(k)
  \/ \E n \in Node : BaseRemove(n)
  \/ \E num \in 0..MaxReserve, grow \in 1..MaxGrow : SetReserve(num, grow)

Spec == Init /\ [][Next]_vars

------------------------------------------------------------------------------
(* Properties.                                                             *)

\* The memory holds links of nodes, the counters are numbers, and a node has
\* a name or is washed.
TypeOK ==
  /\ mem \in Memory
  /\ name \in [Node -> Name \cup {Washed}]
  /\ mDeltaGrow \in Nat \ {0}
  /\ mTotalNumNodes \in 0..MaxNodes
  /\ mNumReserved \in Nat /\ mNumActive \in Nat

\* Both lists are proper doubly linked lists: walking pNext from a head meets
\* every node of the list once and ends, walking pPrev retraces it, and the
\* nodes allocated so far are each on exactly one of the two.
ListsLinked ==
  \E a, r \in NodeSeq :
    /\ Linked(mem, active, a) /\ Linked(mem, reserve, r)
    /\ Len(a) + Len(r) = mTotalNumNodes
    /\ {a[i] : i \in 1..Len(a)} \cup {r[i] : i \in 1..Len(r)}
         = 1..mTotalNumNodes

\* The statistics of ManBase count the lists they describe, through every
\* refill, add and removal.
CountersExact ==
  /\ mNumActive = Len(Active)
  /\ mNumReserved = Len(Reserve)
  /\ mTotalNumNodes = mNumActive + mNumReserved

\* A node that was removed keeps nothing of its last owner, and a node in use
\* is never washed: nodes are spare exactly when they hold no payload.
SpareMeansWashed ==
  \A n \in Node :
    name[n] = Washed <=> n \notin {Active[i] : i \in 1..Len(Active)}

\* The callers of Find take null to mean that there is no such node:
\* MeshNodeMan::Find returns nullptr for it, Text2D::Add asserts on it.
FindMissIsNull ==
  \A k \in Name : BaseFind(k) # null => name[BaseFind(k)] = k

\* The lists implement the pool of NodePool: whatever is refilled, recycled
\* and relinked, the nodes in use stay in order under the names they were
\* given, and no node is handed to a second caller before it was removed.
Nodes == INSTANCE NodePool WITH
  active <- Active,
  name <- [n \in {m \in Node : name[m] # Washed} |-> name[n]]

ImplementsPool == Nodes!Spec
==============================================================================
