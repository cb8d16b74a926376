------------------------------- MODULE NodePool -------------------------------
(***************************************************************************)
(* What a manager promises to the code that adds, finds and removes its    *)
(* nodes, with no pointers in it: a list of the nodes handed out, in the   *)
(* order a search meets them, each with the name it was given.  A node is  *)
(* handed out to one caller at a time; a removed one may come back under   *)
(* another name.                                                           *)
(*                                                                         *)
(* ManBase.tla (the linked lists and the counters of Libs/Manager) is      *)
(* shown to implement this module.                                         *)
(***************************************************************************)
EXTENDS Naturals, Sequences

CONSTANTS
  Node,      \* every node that can ever be allocated
  Name       \* what the compare strategy of the manager tells apart

VARIABLES
  active,    \* the nodes handed out, in list order
  name       \* the name of every node handed out

poolVars == <<active, name>>

Init == active = <<>> /\ name = [n \in {} |-> 0]

Named(n, k) == name' = [m \in DOMAIN name \cup {n} |->
                          IF m = n THEN k ELSE name[m]]

AddToFront(n, k) ==
  /\ n \notin DOMAIN name
  /\ active' = <<n>> \o active
  /\ Named(n, k)

AddToEnd(n, k) ==
  /\ n \notin DOMAIN name
  /\ active' = Append(active, n)
  /\ Named(n, k)

Retire(n) ==
  /\ n \in DOMAIN name
  /\ \E i \in 1..Len(active) :
       /\ active[i] = n
       /\ active' = SubSeq(active, 1, i - 1) \o SubSeq(active, i + 1, Len(active))
  /\ name' = [m \in DOMAIN name \ {n} |-> name[m]]

Next ==
  \E n \in Node :
    \/ \E k \in Name : AddToFront(n, k) \/ AddToEnd(n, k)
    \/ Retire(n)

Spec == Init /\ [][Next]_poolVars
==============================================================================
