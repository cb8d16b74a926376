----------------------------- MODULE EntityStore -----------------------------
(***************************************************************************)
(* What the ECS registry promises to its callers, with no arrays in it.    *)
(*                                                                         *)
(* An entity handle is issued once.  It is live until it is destroyed and  *)
(* dead for ever after.  A live entity owns at most one component of each  *)
(* type, the component holds the value last written through that entity,   *)
(* and it disappears with the entity; nothing that happens to one entity   *)
(* touches the components of another.                                      *)
(*                                                                         *)
(* World.tla (the sparse sets, the generations and the free list of        *)
(* Libs/AzulEngine/src/ECS) is shown to implement this module.             *)
(***************************************************************************)
EXTENDS Functions

CONSTANTS
  Handle,    \* every handle that can ever be issued
  C,         \* component types
  Value,     \* what a caller stores in a component
  Garbage    \* the contents of a cell nobody has written yet

VARIABLES
  live,      \* the handles issued and not destroyed
  dead,      \* the handles destroyed
  comp       \* comp[c] maps each live owner of a c component to its value

storeVars == <<live, dead, comp>>

Init ==
  /\ live = {}
  /\ dead = {}
  /\ comp = [c \in C |-> [h \in {} |-> Garbage]]

Create(h) ==
  /\ h \notin live \cup dead
  /\ live' = live \cup {h}
  /\ UNCHANGED <<dead, comp>>

Destroy(h) ==
  /\ h \in live
  /\ live' = live \ {h}
  /\ dead' = dead \cup {h}
  /\ comp' = [c \in C |-> Restrict(comp[c], DOMAIN comp[c] \ {h})]

\* What a new component holds is unspecified: the caller must write it.
Add(c, h, v) ==
  /\ h \in live \ DOMAIN comp[c]
  /\ comp' = [comp EXCEPT ![c] = [g \in DOMAIN @ \cup {h} |->
                                    IF g = h THEN v ELSE @[g]]]
  /\ UNCHANGED <<live, dead>>

Write(c, h, v) ==
  /\ h \in DOMAIN comp[c]
  /\ comp' = [comp EXCEPT ![c][h] = v]
  /\ UNCHANGED <<live, dead>>

Next ==
  \E h \in Handle :
    \/ Create(h)
    \/ Destroy(h)
    \/ \E c \in C, v \in Value \cup {Garbage} : Add(c, h, v)
    \/ \E c \in C, v \in Value : Write(c, h, v)

Spec == Init /\ [][Next]_storeVars
==============================================================================
