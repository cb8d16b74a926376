-------------------------------- MODULE World --------------------------------
(***************************************************************************)
(* The entity registry of the ECS: Libs/AzulEngine/src/ECS/World.{h,cpp},  *)
(* with the sparse set behind each component type, ECS/ComponentPool.h.    *)
(*                                                                         *)
(* An entity is a slot index and a generation.  World keeps one generation *)
(* per slot, a stack of recycled slots, and one pool per component type.   *)
(* A pool maps a slot index to a dense position (sparse) and keeps the     *)
(* components packed (denseData, denseOwner); a removal moves the last     *)
(* component into the hole.                                                *)
(*                                                                         *)
(* An array is a function over exactly the indices allocated to it, so an  *)
(* access out of its bounds is an error and not a default.  denseData      *)
(* keeps its cells past denseCount, because the next Add hands one of them *)
(* out as it is; of denseOwner and poFreeList only the cells in use are    *)
(* kept: the code never reads the others.                                  *)
(***************************************************************************)
EXTENDS Integers, Sequences, FiniteSets

CONSTANTS
  C,           \* component types (the kTypeId values in use)
  Value,       \* what a caller stores in a component
  Garbage,     \* what a cell fresh from new[] holds
  INVALID,     \* ECS_INVALID_INDEX
  InitCap,     \* first capacity of every array (64 in the code)
  MaxSlots,    \* bound: slots ever handed out
  GenMod,      \* generations are unsigned: they count modulo GenMod (2^32)
  MaxGen       \* bound: no slot is recycled past this generation

ASSUME InvalidAssumption == INVALID \notin Int
ASSUME InitCapAssumption == InitCap \in Nat \ {0}
ASSUME MaxSlotsAssumption == MaxSlots \in Nat
ASSUME GenAssumption == GenMod \in Nat \ {0} /\ MaxGen \in Nat

VARIABLES
  poGeneration, mSlotCap, mSlotCount,     \* entity slots
  poFreeList, mFreeCap,                   \* recycled slots, last in first out
  poPools,                                \* the types whose pool exists
  sparse, sparseCap,                      \* per type: slot index -> dense slot
  denseOwner, denseData,                  \* per type: the packed components
  denseCount, denseCap

slotVars == <<poGeneration, mSlotCap, mSlotCount, poFreeList, mFreeCap>>
poolVars == <<poPools, sparse, sparseCap,
              denseOwner, denseData, denseCount, denseCap>>
vars == <<slotVars, poolVars>>

------------------------------------------------------------------------------
(* Entities.                                                               *)

Handle == [index : 0..(MaxSlots - 1), generation : 0..(GenMod - 1)]

\* Mutant: any handle of a slot in use.
IsAliveByIndex(e) == e.index < mSlotCount

IsAlive(e) ==
  /\ e.index < mSlotCount
  /\ poGeneration[e.index] = e.generation

IsFree(i) == \E k \in 1..Len(poFreeList) : poFreeList[k] = i

\* The handles a caller may hold: the current one of every slot in use and
\* every earlier one of any slot.  A recycled slot's next handle has not been
\* given to anyone yet.
Issued(e) ==
  /\ e.index < mSlotCount
  /\ \/ e.generation < poGeneration[e.index]
     \/ e.generation = poGeneration[e.index] /\ ~IsFree(e.index)

Live(e) == Issued(e) /\ e.generation = poGeneration[e.index]

------------------------------------------------------------------------------
(* Component pools.                                                        *)

Has(c, e) ==
  /\ e.index < sparseCap[c]
  /\ sparse[c][e.index] # INVALID
  /\ denseOwner[c][sparse[c][e.index]].generation = e.generation

\* Mutant: one cell too few.
GrownShort(cap, need, new) ==
  IF need - 1 <= cap THEN new = cap ELSE new = need - 1

\* The capacity an array of capacity cap has once it can hold need cells: it
\* doubles, from InitCap if it had none, until it is large enough.
Grown(cap, need, new) ==
  LET start == IF cap = 0 THEN InitCap ELSE cap
  IN  IF need <= cap THEN new = cap
      ELSE /\ \E k \in 0..MaxSlots : new = start * 2^k
           /\ need <= new
           /\ new # start => new \div 2 < need

Capacities == 0..(2 * (InitCap + MaxSlots))

\* World::Pool: the first use of a type creates its pool.
Pool(c) == poPools' = poPools \cup {c}

\* One pool without the component of e: the last component fills the hole, its
\* owner's sparse entry follows it, and only then is the entry of e cleared.
\* (The caller's handle is not compared with the owner of the slot.)
\* Mutant: the last index of the sparse array is not looked at.
HoldsNotLast(c, e) ==
  e.index + 1 < sparseCap[c] /\ sparse[c][e.index] # INVALID

Holds(c, e) == e.index < sparseCap[c] /\ sparse[c][e.index] # INVALID

\* Mutant: the two writes in the other order, wrong when e is the last.
SparseWithoutSwapped(c, e) ==
  LET slot == sparse[c][e.index]
      last == denseCount[c] - 1
  IN  [sparse[c] EXCEPT ![e.index] = INVALID,
                        ![denseOwner[c][last].index] = slot]

SparseWithout(c, e) ==
  LET slot == sparse[c][e.index]
      last == denseCount[c] - 1
  IN  [sparse[c] EXCEPT ![denseOwner[c][last].index] = slot,
                        ![e.index] = INVALID]

OwnerWithout(c, e) ==
  LET slot == sparse[c][e.index]
      last == denseCount[c] - 1
  IN  [s \in 0..(last - 1) |-> denseOwner[c][IF s = slot THEN last ELSE s]]

\* Mutant: the owner moves and the data stays.
DataUnmoved(c, e) == denseData[c]

DataWithout(c, e) ==
  [denseData[c] EXCEPT ![sparse[c][e.index]] = denseData[c][denseCount[c] - 1]]

\* ComponentPool::Remove of e from every pool in D.
RemoveFrom(D, e) ==
  LET hit == {c \in D : Holds(c, e)}
  IN  /\ sparse' = [c \in C |-> IF c \in hit THEN SparseWithout(c, e)
                                ELSE sparse[c]]
      /\ denseOwner' = [c \in C |-> IF c \in hit
                                    THEN OwnerWithout(c, e)
                                    ELSE denseOwner[c]]
      /\ denseData' = [c \in C |-> IF c \in hit
                                   THEN DataWithout(c, e)
                                   ELSE denseData[c]]
      /\ denseCount' = [c \in C |-> IF c \in hit THEN denseCount[c] - 1
                                    ELSE denseCount[c]]
      /\ UNCHANGED <<sparseCap, denseCap>>

------------------------------------------------------------------------------
Init ==
  /\ poGeneration = [i \in {} |-> 0] /\ mSlotCap = 0 /\ mSlotCount = 0
  /\ poFreeList = <<>> /\ mFreeCap = 0
  /\ poPools = {}
  /\ sparse = [c \in C |-> [i \in {} |-> INVALID]]
  /\ sparseCap = [c \in C |-> 0]
  /\ denseOwner = [c \in C |-> [s \in {} |-> 0]]
  /\ denseData = [c \in C |-> [s \in {} |-> Garbage]]
  /\ denseCount = [c \in C |-> 0]
  /\ denseCap = [c \in C |-> 0]

\* World::Create with a recycled slot; its generation was bumped by Destroy.
CreateRecycled ==
  /\ poFreeList # <<>>
  /\ poFreeList' = SubSeq(poFreeList, 1, Len(poFreeList) - 1)
  /\ UNCHANGED <<poGeneration, mSlotCap, mSlotCount, mFreeCap, poolVars>>

\* Mutant: growing forgets the generations of the slots in use.
ForgottenGenerations(cap) ==
  [i \in 0..(cap - 1) |-> IF cap = mSlotCap THEN poGeneration[i] ELSE 0]

\* World::privGrowGenerations into an array of capacity cap: the generations
\* in use are copied, the others are zero.
GrownGenerations(cap) ==
  [i \in 0..(cap - 1) |-> IF i < mSlotCount THEN poGeneration[i] ELSE 0]

\* World::Create with a slot never used before.
CreateFresh ==
  /\ poFreeList = <<>>
  /\ mSlotCount < MaxSlots
  /\ mSlotCap' = IF mSlotCount < mSlotCap THEN mSlotCap
                 ELSE IF mSlotCap = 0 THEN InitCap ELSE 2 * mSlotCap
  /\ poGeneration' = GrownGenerations(mSlotCap')
  /\ mSlotCount' = mSlotCount + 1
  /\ UNCHANGED <<poFreeList, mFreeCap, poolVars>>

\* World::Destroy of a handle that is alive: every pool drops the entity, the
\* generation is bumped, the slot is pushed on the free list.
Destroy(e) ==
  /\ IsAlive(e)
  /\ poGeneration[e.index] < MaxGen
  /\ RemoveFrom(poPools, e)
  /\ poGeneration' = [poGeneration EXCEPT ![e.index] = (@ + 1) % GenMod]
  /\ poFreeList' = Append(poFreeList, e.index)
  /\ mFreeCap' = IF Len(poFreeList) < mFreeCap THEN mFreeCap
                 ELSE IF mFreeCap = 0 THEN InitCap ELSE 2 * mFreeCap
  /\ UNCHANGED <<mSlotCap, mSlotCount, poPools>>

\* World::Add<C>.  Every caller adds to an entity it holds alive and that has
\* no component of that type; that the assertion in ComponentPool::Add then
\* holds is AddNeverAsserts below.
Add(c, e) ==
  /\ IsAlive(e) /\ ~Has(c, e)
  /\ \E cap \in Capacities :
       /\ Grown(sparseCap[c], e.index + 1, cap)
       /\ sparseCap' = [sparseCap EXCEPT ![c] = cap]
       /\ sparse' = [sparse EXCEPT ![c] =
            [i \in 0..(cap - 1) |-> IF i = e.index THEN denseCount[c]
                                    ELSE IF i < sparseCap[c] THEN @[i]
                                    ELSE INVALID]]
  /\ \E cap \in Capacities :
       /\ Grown(denseCap[c], denseCount[c] + 1, cap)
       /\ denseCap' = [denseCap EXCEPT ![c] = cap]
       /\ denseData' = [denseData EXCEPT ![c] =
            [s \in 0..(cap - 1) |-> IF s < denseCap[c] THEN @[s] ELSE Garbage]]
  /\ denseOwner' = [denseOwner EXCEPT ![c] =
       [s \in 0..denseCount[c] |-> IF s = denseCount[c] THEN e ELSE @[s]]]
  /\ denseCount' = [denseCount EXCEPT ![c] = @ + 1]
  /\ Pool(c)
  /\ UNCHANGED slotVars

\* World::TryGet<C> that finds the component, and the caller's write to it.
Write(c, e, v) ==
  /\ Has(c, e)
  /\ denseData' = [denseData EXCEPT ![c][sparse[c][e.index]] = v]
  /\ Pool(c)
  /\ UNCHANGED <<slotVars, sparse, sparseCap, denseOwner, denseCount, denseCap>>

\* World::TryGet<C> or World::Has<C> that finds nothing.
Miss(c, e) ==
  /\ ~Has(c, e)
  /\ Pool(c)
  /\ UNCHANGED <<slotVars, sparse, sparseCap,
                 denseOwner, denseData, denseCount, denseCap>>

\* World::Destroy of a stale handle returns early.
DestroyStale(e) == ~IsAlive(e) /\ UNCHANGED vars

Next ==
  \/ CreateRecycled
  \/ CreateFresh
  \/ \E e \in Handle :
       /\ Issued(e)
       /\ \/ Destroy(e)
          \/ DestroyStale(e)
          \/ \E c \in C : \/ Add(c, e)
                          \/ Miss(c, e)
                          \/ \E v \in Value : Write(c, e, v)

Spec == Init /\ [][Next]_vars

------------------------------------------------------------------------------
(* Properties.                                                             *)

SlotsOK ==
  /\ mSlotCap \in Nat /\ mSlotCount \in 0..mSlotCap /\ mSlotCount <= MaxSlots
  /\ poGeneration \in [0..(mSlotCap - 1) -> 0..(GenMod - 1)]
  /\ poFreeList \in Seq(0..(mSlotCount - 1))
  /\ mFreeCap \in Nat /\ Len(poFreeList) <= mFreeCap

PoolOK(c) ==
  /\ denseCount[c] <= denseCap[c]
  /\ sparse[c] \in [0..(sparseCap[c] - 1) -> Nat \cup {INVALID}]
  /\ denseOwner[c] \in [0..(denseCount[c] - 1) -> Handle]
  /\ denseData[c] \in [0..(denseCap[c] - 1) -> Value \cup {Garbage}]

PoolsOK ==
  /\ poPools \subseteq C
  /\ sparseCap \in [C -> Nat] /\ denseCap \in [C -> Nat]
  /\ denseCount \in [C -> Nat]
  /\ DOMAIN sparse = C /\ DOMAIN denseOwner = C /\ DOMAIN denseData = C
  /\ \A c \in C : PoolOK(c)

\* The arrays of the registry and of every pool are as long as their
\* capacities say, hold what their types allow, and never count more cells in
\* use than were allocated.
TypeOK == SlotsOK /\ PoolsOK

\* ComponentPool: the sparse and the dense arrays are inverse to each other,
\* through every growth and every move of the last component into a hole.
SparseDenseInverse ==
  \A c \in C :
    /\ \A s \in 0..(denseCount[c] - 1) :
         /\ denseOwner[c][s].index < sparseCap[c]
         /\ sparse[c][denseOwner[c][s].index] = s
    /\ \A i \in 0..(sparseCap[c] - 1) :
         sparse[c][i] # INVALID =>
           /\ sparse[c][i] < denseCount[c]
           /\ denseOwner[c][sparse[c][i]].index = i

\* The systems walk every dense array and never ask whether an owner is
\* alive: every component belongs to a live entity, and its pool is one that
\* World::Destroy visits.
OwnersAlive ==
  \A c \in C : \A s \in 0..(denseCount[c] - 1) :
    Live(denseOwner[c][s]) /\ c \in poPools

\* No slot is on the free list twice, so two callers of Create never share a
\* slot.
FreeListDistinct ==
  \A j, k \in 1..Len(poFreeList) : poFreeList[j] = poFreeList[k] => j = k

\* The assertion of ComponentPool::Add (ComponentPool.h:39) cannot fail for a
\* live entity that has no such component: no earlier owner of the slot left
\* its sparse entry behind.
AddNeverAsserts ==
  \A c \in C, e \in Handle :
    Live(e) /\ ~Has(c, e) /\ e.index < sparseCap[c] =>
      sparse[c][e.index] = INVALID

\* README.md:50: a stale handle to a destroyed entity is detectable, whoever
\* owns its slot by now.
DestroyedStaysDead ==
  [][\A h \in Handle : Issued(h) /\ ~Live(h) => ~IsAlive(h)']_vars

\* The arrays implement the store of EntityStore: handles are issued once and
\* die once, and a component keeps the value its owner wrote wherever the
\* removals of others move it.
Component(c) ==
  [h \in {denseOwner[c][s] : s \in 0..(denseCount[c] - 1)} |->
     denseData[c][sparse[c][h.index]]]

Store == INSTANCE EntityStore WITH
  live <- {h \in Handle : Live(h)},
  dead <- {h \in Handle : Issued(h) /\ ~Live(h)},
  comp <- [c \in C |-> Component(c)]

ImplementsStore == Store!Spec
==============================================================================
