----------------------------- MODULE WorldProofs -----------------------------
(***************************************************************************)
(* What World keeps true, proved for every set of component types, every   *)
(* number of slots and every width of the generation; and, over the same   *)
(* invariant, what the sweeps of PlaceSweep keep true, for any number of   *)
(* placements and any speed of turning.                                    *)
(***************************************************************************)
EXTENDS PlaceSweep, SequenceTheorems, TLAPS

\* The inductive invariant.  None of its parts is inductive alone: a removal
\* keeps the arrays inverse only because they were, and keeps every owner
\* alive only because each index has one owner.
IInv == TypeOK /\ SparseDenseInverse /\ OwnersAlive /\ FreeListDistinct

------------------------------------------------------------------------------
\* privEnsureSparse and privEnsureDense never shrink an array and leave it
\* long enough.
LEMMA GrownFits ==
  ASSUME NEW cap \in Nat, NEW need \in Nat, NEW new \in Nat,
         Grown(cap, need, new)
  PROVE  cap <= new /\ need <= new
  BY DEF Grown

\* The two directions of SparseDenseInverse, with the types of what they
\* relate.
LEMMA PoolFacts ==
  ASSUME IInv, NEW c \in C
  PROVE  /\ denseCount[c] \in Nat /\ sparseCap[c] \in Nat
         /\ \A s \in 0..(denseCount[c] - 1) :
              /\ denseOwner[c][s] \in Handle
              /\ denseOwner[c][s].index \in 0..(sparseCap[c] - 1)
              /\ sparse[c][denseOwner[c][s].index] = s
         /\ \A i \in 0..(sparseCap[c] - 1) :
              sparse[c][i] # INVALID =>
                /\ sparse[c][i] \in 0..(denseCount[c] - 1)
                /\ denseOwner[c][sparse[c][i]].index = i
PROOF
<1>1. /\ denseCount[c] \in Nat /\ sparseCap[c] \in Nat
      /\ sparse[c] \in [0..(sparseCap[c] - 1) -> Nat \cup {INVALID}]
      /\ denseOwner[c] \in [0..(denseCount[c] - 1) -> Handle]
  BY DEF IInv, TypeOK, SlotsOK, PoolsOK, PoolOK
<1>2. \A s \in 0..(denseCount[c] - 1) :
        /\ denseOwner[c][s] \in Handle
        /\ denseOwner[c][s].index \in 0..(sparseCap[c] - 1)
        /\ sparse[c][denseOwner[c][s].index] = s
  BY <1>1 DEF IInv, SparseDenseInverse, Handle
<1>3. \A i \in 0..(sparseCap[c] - 1) :
        sparse[c][i] # INVALID =>
          /\ sparse[c][i] \in 0..(denseCount[c] - 1)
          /\ denseOwner[c][sparse[c][i]].index = i
  <2> SUFFICES ASSUME NEW i \in 0..(sparseCap[c] - 1), sparse[c][i] # INVALID
               PROVE  /\ sparse[c][i] \in 0..(denseCount[c] - 1)
                      /\ denseOwner[c][sparse[c][i]].index = i
    OBVIOUS
  <2>1. sparse[c][i] \in Nat
    BY <1>1
  <2>2. /\ sparse[c][i] < denseCount[c]
        /\ denseOwner[c][sparse[c][i]].index = i
    BY DEF IInv, SparseDenseInverse
  <2> QED
    BY <1>1, <2>1, <2>2
<1> QED
  BY <1>1, <1>2, <1>3

\* An index has one live handle, so the owner that a live handle's sparse
\* entry leads to is the handle itself.
LEMMA OwnerOfLive ==
  ASSUME IInv, NEW c \in C, NEW e \in Handle, Live(e), Holds(c, e)
  PROVE  /\ sparse[c][e.index] \in 0..(denseCount[c] - 1)
         /\ denseOwner[c][sparse[c][e.index]] = e
PROOF
<1>1. e.index \in 0..(sparseCap[c] - 1) /\ sparse[c][e.index] # INVALID
  BY DEF IInv, TypeOK, PoolsOK, PoolOK, Holds, Handle
<1>2. /\ sparse[c][e.index] \in 0..(denseCount[c] - 1)
      /\ denseOwner[c][sparse[c][e.index]].index = e.index
  BY <1>1, PoolFacts
<1>3. Live(denseOwner[c][sparse[c][e.index]])
  BY <1>2 DEF IInv, OwnersAlive
<1>4. denseOwner[c][sparse[c][e.index]] \in Handle
  BY <1>2 DEF IInv, TypeOK, SlotsOK, PoolsOK, PoolOK
<1> QED
  BY <1>2, <1>3, <1>4 DEF Live, Handle

\* A live entity without a component leaves no sparse entry: the assertion of
\* ComponentPool::Add holds.
LEMMA NoEntryLeft ==
  ASSUME IInv, NEW c \in C, NEW e \in Handle, Live(e), ~Has(c, e)
  PROVE  ~Holds(c, e)
  BY OwnerOfLive DEF Holds, Has

\* The empty registry satisfies the invariant (World::World).
LEMMA InitHolds == Init => IInv
PROOF
<1> SUFFICES ASSUME Init PROVE IInv
  OBVIOUS
<1>1. TypeOK
  BY MaxSlotsAssumption DEF Init, TypeOK, SlotsOK, PoolsOK, PoolOK
<1>2. SparseDenseInverse /\ OwnersAlive /\ FreeListDistinct
  BY DEF Init, SparseDenseInverse, OwnersAlive, FreeListDistinct
<1> QED
  BY <1>1, <1>2 DEF IInv

------------------------------------------------------------------------------
\* Create takes the last slot off the free list.
LEMMA FreeListPops ==
  ASSUME IInv, CreateRecycled
  PROVE  /\ Len(poFreeList) \in Nat \ {0}
         /\ Len(poFreeList') = Len(poFreeList) - 1
         /\ poFreeList' \in Seq(0..(mSlotCount - 1))
         /\ \A k \in 1..Len(poFreeList') :
              k \in 1..Len(poFreeList) /\ poFreeList'[k] = poFreeList[k]
PROOF
<1>1. poFreeList \in Seq(0..(mSlotCount - 1)) /\ poFreeList # <<>>
  BY DEF CreateRecycled, IInv, TypeOK, SlotsOK
<1>2. Len(poFreeList) \in Nat \ {0}
  BY <1>1, EmptySeq
<1>3. \A k \in 1..(Len(poFreeList) - 1) : poFreeList[k] \in 0..(mSlotCount - 1)
  <2>1. poFreeList \in [1..Len(poFreeList) -> 0..(mSlotCount - 1)]
    BY <1>1, LenProperties
  <2> QED
    BY <1>2, <2>1
<1> DEFINE n == Len(poFreeList) - 1
           rest == SubSeq(poFreeList, 1, n)
<1>4. n \in Int /\ \A k \in 1..n : poFreeList[k] \in 0..(mSlotCount - 1)
  BY <1>2, <1>3
<1> HIDE DEF n
<1>5. /\ rest \in Seq(0..(mSlotCount - 1))
      /\ Len(rest) = IF 1 <= n THEN n - 1 + 1 ELSE 0
      /\ \A k \in 1..(n - 1 + 1) : rest[k] = poFreeList[1 + k - 1]
  BY <1>4, SubSeqProperties
<1>6. poFreeList' = rest
  BY DEF CreateRecycled, n
<1> HIDE DEF rest
<1>7. n \in Nat /\ n = Len(poFreeList) - 1
  BY <1>2 DEF n
<1>8. Len(rest) = n
  BY <1>5, <1>7
<1>9. \A k \in 1..n : k \in 1..Len(poFreeList) /\ rest[k] = poFreeList[k]
  BY <1>2, <1>5, <1>7
<1> QED
  BY <1>2, <1>5, <1>6, <1>7, <1>8, <1>9

\* World::Create with a recycled slot: the popped slot leaves the free list
\* and no other slot is affected.
LEMMA CreateRecycledStep ==
  ASSUME IInv, CreateRecycled
  PROVE  IInv'
PROOF
<1>1. /\ Len(poFreeList) \in Nat \ {0}
      /\ Len(poFreeList') = Len(poFreeList) - 1
      /\ poFreeList' \in Seq(0..(mSlotCount - 1))
      /\ \A k \in 1..Len(poFreeList') :
           k \in 1..Len(poFreeList) /\ poFreeList'[k] = poFreeList[k]
  BY FreeListPops
<1>2. TypeOK'
  <2>1. SlotsOK'
    BY SMTT(30), <1>1 DEF CreateRecycled, IInv, TypeOK, SlotsOK
  <2>2. PoolsOK'
    BY DEF CreateRecycled, IInv, TypeOK, PoolsOK, PoolOK, poolVars
  <2> QED
    BY <2>1, <2>2 DEF TypeOK
<1>3. SparseDenseInverse'
  BY DEF CreateRecycled, IInv, SparseDenseInverse, poolVars
<1>4. \A h : Live(h) => Live(h)'
  BY <1>1 DEF CreateRecycled, Live, Issued, IsFree
<1>5. OwnersAlive'
  BY <1>4 DEF CreateRecycled, IInv, OwnersAlive, poolVars
<1>6. FreeListDistinct'
  BY <1>1 DEF IInv, FreeListDistinct
<1> QED
  BY <1>2, <1>3, <1>5, <1>6 DEF IInv

\* World::Create with a fresh slot: the generations already in use are copied.
LEMMA CreateFreshStep ==
  ASSUME IInv, CreateFresh
  PROVE  IInv'
PROOF
<1>1. /\ mSlotCap' \in Nat /\ mSlotCount < mSlotCap' /\ mSlotCap <= mSlotCap'
      /\ mSlotCount' = mSlotCount + 1 /\ mSlotCount \in Nat
  BY InitCapAssumption
  DEF CreateFresh, GrownGenerations, IInv, TypeOK, SlotsOK, PoolsOK, PoolOK
<1>2. /\ poGeneration' \in [0..(mSlotCap' - 1) -> 0..(GenMod - 1)]
      /\ \A i \in 0..(mSlotCount - 1) : poGeneration'[i] = poGeneration[i]
  BY <1>1, GenAssumption
  DEF CreateFresh, GrownGenerations, IInv, TypeOK, SlotsOK, PoolsOK, PoolOK
<1>3. TypeOK'
  <2>1. poFreeList' \in Seq(0..(mSlotCount' - 1)) /\ Len(poFreeList') = 0
    BY EmptySeq DEF CreateFresh
  <2>2. SlotsOK'
    <3>1. mSlotCount' \in 0..mSlotCap' /\ mSlotCount' <= MaxSlots
      <4>1. mSlotCount < MaxSlots
        BY DEF CreateFresh
      <4> QED
        BY <1>1, <4>1, MaxSlotsAssumption
    <3>2. mFreeCap' \in Nat
      BY DEF CreateFresh, GrownGenerations, IInv, TypeOK, SlotsOK
    <3> QED
      BY <1>1, <1>2, <2>1, <3>1, <3>2 DEF SlotsOK
  <2>3. PoolsOK'
    BY DEF CreateFresh, GrownGenerations, IInv, TypeOK, PoolsOK, PoolOK, poolVars
  <2> QED
    BY <2>2, <2>3 DEF TypeOK
<1>4. SparseDenseInverse'
  BY DEF CreateFresh, GrownGenerations, IInv, SparseDenseInverse, poolVars
<1>5. \A h \in Handle : Live(h) => Live(h)'
  BY <1>1, <1>2 DEF CreateFresh, GrownGenerations, Live, Issued, IsFree, Handle
<1>6. OwnersAlive'
  BY <1>5 DEF CreateFresh, GrownGenerations, IInv, TypeOK, SlotsOK, PoolsOK,
              PoolOK, OwnersAlive, poolVars
<1>7. FreeListDistinct'
  BY DEF CreateFresh, GrownGenerations, IInv, FreeListDistinct
<1> QED
  BY <1>3, <1>4, <1>6, <1>7 DEF IInv

\* World::Add: the new component is the last of its pool, and its owner's
\* sparse entry was empty.
LEMMA AddStep ==
  ASSUME IInv, NEW c \in C, NEW e \in Handle, Issued(e), Add(c, e)
  PROVE  IInv'
PROOF
<1>1. Live(e) /\ ~Holds(c, e)
  BY NoEntryLeft DEF Add, IsAlive, Live
<1>2. /\ sparseCap'[c] \in Nat /\ sparseCap[c] \in Nat
      /\ sparseCap[c] <= sparseCap'[c] /\ e.index < sparseCap'[c]
      /\ sparse'[c] = [i \in 0..(sparseCap'[c] - 1) |->
                         IF i = e.index THEN denseCount[c]
                         ELSE IF i < sparseCap[c] THEN sparse[c][i]
                         ELSE INVALID]
  <2>1. PICK cap \in Capacities :
          /\ Grown(sparseCap[c], e.index + 1, cap)
          /\ sparseCap' = [sparseCap EXCEPT ![c] = cap]
          /\ sparse' = [sparse EXCEPT ![c] =
               [i \in 0..(cap - 1) |-> IF i = e.index THEN denseCount[c]
                                       ELSE IF i < sparseCap[c] THEN @[i]
                                       ELSE INVALID]]
    BY DEF Add
  <2>2. cap \in Nat /\ sparseCap[c] \in Nat /\ e.index + 1 \in Nat
    BY MaxSlotsAssumption, InitCapAssumption
    DEF Capacities, IInv, TypeOK, SlotsOK, PoolsOK, PoolOK, Handle
  <2>3. sparseCap[c] <= cap /\ e.index + 1 <= cap
    BY <2>1, <2>2, GrownFits
  <2> QED
    BY <2>1, <2>2, <2>3 DEF IInv, TypeOK, SlotsOK, PoolsOK, PoolOK, Handle
<1>3. /\ denseCap'[c] \in Nat /\ denseCount[c] + 1 <= denseCap'[c]
      /\ denseData'[c] \in [0..(denseCap'[c] - 1) -> Value \cup {Garbage}]
  <2>1. PICK cap \in Capacities :
          /\ Grown(denseCap[c], denseCount[c] + 1, cap)
          /\ denseCap' = [denseCap EXCEPT ![c] = cap]
          /\ denseData' = [denseData EXCEPT ![c] =
               [s \in 0..(cap - 1) |-> IF s < denseCap[c] THEN @[s]
                                       ELSE Garbage]]
    BY DEF Add
  <2>2. /\ cap \in Nat /\ denseCap[c] \in Nat /\ denseCount[c] + 1 \in Nat
        /\ denseData[c] \in [0..(denseCap[c] - 1) -> Value \cup {Garbage}]
    BY MaxSlotsAssumption, InitCapAssumption
    DEF Capacities, IInv, TypeOK, SlotsOK, PoolsOK, PoolOK
  <2>3. denseCap[c] <= cap /\ denseCount[c] + 1 <= cap
    BY <2>1, <2>2, GrownFits
  <2> QED
    BY <2>1, <2>2, <2>3 DEF IInv, TypeOK, SlotsOK, PoolsOK, PoolOK
<1>4. /\ denseCount'[c] = denseCount[c] + 1 /\ denseCount[c] \in Nat
      /\ denseOwner'[c] = [s \in 0..denseCount[c] |->
                             IF s = denseCount[c] THEN e ELSE denseOwner[c][s]]
      /\ poPools' = poPools \cup {c} /\ UNCHANGED slotVars
  BY DEF Add, Pool, IInv, TypeOK, SlotsOK, PoolsOK, PoolOK
<1>5. \A d \in C \ {c} :
        /\ sparse'[d] = sparse[d] /\ sparseCap'[d] = sparseCap[d]
        /\ denseOwner'[d] = denseOwner[d] /\ denseData'[d] = denseData[d]
        /\ denseCount'[d] = denseCount[d] /\ denseCap'[d] = denseCap[d]
  BY DEF Add, IInv, TypeOK, SlotsOK, PoolsOK, PoolOK
<1>6. TypeOK'
  <2>1. /\ sparseCap' \in [C -> Nat] /\ denseCap' \in [C -> Nat]
        /\ denseCount' \in [C -> Nat]
        /\ DOMAIN sparse' = C /\ DOMAIN denseOwner' = C
        /\ DOMAIN denseData' = C
    <3>1. Capacities \subseteq Nat
      BY MaxSlotsAssumption, InitCapAssumption DEF Capacities
    <3> QED
      BY <3>1, <1>4 DEF Add, IInv, TypeOK, PoolsOK
  <2>2. ASSUME NEW d \in C PROVE PoolOK(d)'
    <3>1. CASE d = c
      <4>1. /\ sparse[c] \in [0..(sparseCap[c] - 1) -> Nat \cup {INVALID}]
            /\ denseOwner[c] \in [0..(denseCount[c] - 1) -> Handle]
        BY DEF IInv, TypeOK, PoolsOK, PoolOK
      <4>2. sparse'[c] \in [0..(sparseCap'[c] - 1) -> Nat \cup {INVALID}]
        BY <4>1, <1>2, <1>4
      <4>3. denseOwner'[c] \in [0..(denseCount'[c] - 1) -> Handle]
        BY <4>1, <1>4
      <4> QED
        BY <3>1, <4>2, <4>3, <1>3, <1>4 DEF PoolOK
    <3>2. CASE d # c
      BY <3>2, <1>5 DEF IInv, TypeOK, PoolsOK, PoolOK
    <3> QED
      BY <3>1, <3>2
  <2>3. PoolsOK'
    BY <2>1, <2>2, <1>4 DEF IInv, TypeOK, PoolsOK
  <2>4. SlotsOK'
    BY <1>4 DEF IInv, TypeOK, SlotsOK, slotVars
  <2> QED
    BY <2>3, <2>4 DEF TypeOK
<1>7. SparseDenseInverse'
  <2> SUFFICES ASSUME NEW d \in C
               PROVE  /\ \A s \in 0..(denseCount'[d] - 1) :
                           /\ denseOwner'[d][s].index < sparseCap'[d]
                           /\ sparse'[d][denseOwner'[d][s].index] = s
                      /\ \A i \in 0..(sparseCap'[d] - 1) :
                           sparse'[d][i] # INVALID =>
                             /\ sparse'[d][i] < denseCount'[d]
                             /\ denseOwner'[d][sparse'[d][i]].index = i
    BY DEF SparseDenseInverse
  <2>1. CASE d # c
    BY <2>1, <1>5 DEF IInv, SparseDenseInverse
  <2>2. CASE d = c
    <3>1. \A s \in 0..(denseCount[c] - 1) :
            denseOwner[c][s].index # e.index
      <4> SUFFICES ASSUME NEW s \in 0..(denseCount[c] - 1),
                          denseOwner[c][s].index = e.index
                   PROVE  FALSE
        OBVIOUS
      <4>1. e.index < sparseCap[c] /\ sparse[c][e.index] = s
        BY PoolFacts
      <4> QED
        BY <4>1, <1>1, InvalidAssumption, PoolFacts DEF Holds
    <3>2. ASSUME NEW s \in 0..(denseCount'[c] - 1)
          PROVE  /\ denseOwner'[c][s].index < sparseCap'[c]
                 /\ sparse'[c][denseOwner'[c][s].index] = s
      <4>1. CASE s = denseCount[c]
        BY <4>1, <1>2, <1>4 DEF Handle
      <4>2. CASE s # denseCount[c]
        <5>1. s \in 0..(denseCount[c] - 1) /\ denseOwner'[c][s] = denseOwner[c][s]
          BY <4>2, <1>4
        <5>2. /\ denseOwner[c][s].index \in 0..(sparseCap[c] - 1)
              /\ sparse[c][denseOwner[c][s].index] = s
              /\ denseOwner[c][s].index # e.index
          BY <5>1, <3>1, PoolFacts
        <5> QED
          BY <5>1, <5>2, <1>2
      <4> QED
        BY <4>1, <4>2
    <3>3. ASSUME NEW i \in 0..(sparseCap'[c] - 1), sparse'[c][i] # INVALID
          PROVE  /\ sparse'[c][i] < denseCount'[c]
                 /\ denseOwner'[c][sparse'[c][i]].index = i
      <4>1. CASE i = e.index
        BY <4>1, <1>2, <1>4 DEF Handle
      <4>2. CASE i # e.index
        <5>1. i < sparseCap[c] /\ sparse'[c][i] = sparse[c][i]
          BY <3>3, <4>2, <1>2
        <5>2. /\ sparse[c][i] \in 0..(denseCount[c] - 1)
              /\ denseOwner[c][sparse[c][i]].index = i
          BY <3>3, <5>1, <1>2, PoolFacts
        <5> QED
          BY <5>1, <5>2, <1>4
      <4> QED
        BY <4>1, <4>2
    <3> QED
      BY <2>2, <3>2, <3>3
  <2> QED
    BY <2>1, <2>2
<1>8. OwnersAlive'
  <2>1. \A h : Live(h) => Live(h)'
    BY <1>4 DEF slotVars, Live, Issued, IsFree
  <2>2. ASSUME NEW d \in C, NEW s \in 0..(denseCount'[d] - 1)
        PROVE  Live(denseOwner'[d][s]) /\ d \in poPools'
    <3>1. CASE d = c
      BY <3>1, <1>1, <1>4 DEF IInv, OwnersAlive
    <3>2. CASE d # c
      BY <3>2, <1>4, <1>5 DEF IInv, OwnersAlive
    <3> QED
      BY <3>1, <3>2
  <2> QED
    BY <2>1, <2>2, <1>4 DEF OwnersAlive, Live, Issued, IsFree, slotVars
<1>9. FreeListDistinct'
  BY <1>4 DEF IInv, FreeListDistinct, slotVars
<1> QED
  BY <1>6, <1>7, <1>8, <1>9 DEF IInv

------------------------------------------------------------------------------
\* ComponentPool::Remove of a live entity from one pool that holds it: the
\* entity's component goes, every other owner keeps exactly one place, and the
\* arrays stay inverse to each other.
LEMMA RemoveOne ==
  ASSUME IInv, NEW e \in Handle, Live(e), NEW c \in C, Holds(c, e),
         sparse'[c] = SparseWithout(c, e),
         denseOwner'[c] = OwnerWithout(c, e),
         denseData'[c] = DataWithout(c, e),
         denseCount'[c] = denseCount[c] - 1,
         sparseCap'[c] = sparseCap[c], denseCap'[c] = denseCap[c]
  PROVE  /\ PoolOK(c)' /\ denseCount'[c] \in Nat
         /\ \A s \in 0..(denseCount'[c] - 1) :
              /\ denseOwner'[c][s].index < sparseCap'[c]
              /\ sparse'[c][denseOwner'[c][s].index] = s
         /\ \A i \in 0..(sparseCap'[c] - 1) :
              sparse'[c][i] # INVALID =>
                /\ sparse'[c][i] < denseCount'[c]
                /\ denseOwner'[c][sparse'[c][i]].index = i
         /\ \A s \in 0..(denseCount'[c] - 1) :
              /\ denseOwner'[c][s].index # e.index
              /\ \E t \in 0..(denseCount[c] - 1) :
                   denseOwner'[c][s] = denseOwner[c][t]
PROOF
<1> DEFINE slot == sparse[c][e.index]
           last == denseCount[c] - 1
           moved == denseOwner[c][last].index
<1>1. /\ slot \in 0..last /\ denseOwner[c][slot] = e
      /\ e.index \in 0..(sparseCap[c] - 1)
  <2>1. slot \in 0..last /\ denseOwner[c][slot] = e
    BY OwnerOfLive
  <2>2. e.index \in 0..(sparseCap[c] - 1)
    BY PoolFacts DEF Holds, Handle
  <2> QED
    BY <2>1, <2>2
<1>2. denseCount[c] \in Nat /\ last \in Nat /\ sparseCap[c] \in Nat
  BY <1>1, PoolFacts
<1>3. /\ moved \in 0..(sparseCap[c] - 1) /\ sparse[c][moved] = last
  BY <1>2, PoolFacts
<1>4. /\ sparse[c] \in [0..(sparseCap[c] - 1) -> Nat \cup {INVALID}]
      /\ denseOwner[c] \in [0..last -> Handle]
      /\ denseData[c] \in [0..(denseCap[c] - 1) -> Value \cup {Garbage}]
      /\ denseCap[c] \in Nat /\ denseCount[c] <= denseCap[c]
  BY DEF IInv, TypeOK, PoolsOK, PoolOK
<1>5. /\ sparse'[c] = [[sparse[c] EXCEPT ![moved] = slot]
                         EXCEPT ![e.index] = INVALID]
      /\ denseOwner'[c] = [s \in 0..(last - 1) |->
                             denseOwner[c][IF s = slot THEN last ELSE s]]
      /\ denseData'[c] = [denseData[c] EXCEPT ![slot] = denseData[c][last]]
      /\ denseCount'[c] = last
  BY DEF SparseWithout, OwnerWithout, DataWithout
<1> HIDE DEF slot, last, moved
<1>6. \A s \in 0..last :
        /\ denseOwner[c][s].index \in 0..(sparseCap[c] - 1)
        /\ sparse[c][denseOwner[c][s].index] = s
  BY PoolFacts DEF last
<1>7. \A i \in 0..(sparseCap[c] - 1) :
        sparse[c][i] # INVALID => /\ sparse[c][i] \in 0..last
                                  /\ denseOwner[c][sparse[c][i]].index = i
  BY PoolFacts DEF last
<1>8. moved = denseOwner[c][last].index /\ slot = sparse[c][e.index]
  BY DEF moved, slot
<1>9. \A i \in 0..(sparseCap[c] - 1) :
        sparse'[c][i] = IF i = e.index THEN INVALID
                        ELSE IF i = moved THEN slot ELSE sparse[c][i]
  BY <1>1, <1>3, <1>4, <1>5
<1>10. PoolOK(c)'
  <2>1. sparse'[c] \in [0..(sparseCap[c] - 1) -> Nat \cup {INVALID}]
    <3>1. slot \in Nat
      BY <1>1, <1>2
    <3>2. [sparse[c] EXCEPT ![moved] = slot]
            \in [0..(sparseCap[c] - 1) -> Nat \cup {INVALID}]
      BY <3>1, <1>4
    <3> QED
      BY <3>2, <1>5
  <2>2. denseOwner'[c] \in [0..(last - 1) -> Handle]
    BY <1>1, <1>2, <1>4, <1>5
  <2>3. denseData'[c] \in [0..(denseCap[c] - 1) -> Value \cup {Garbage}]
    <3>1. last \in 0..(denseCap[c] - 1)
      BY <1>2, <1>4 DEF last
    <3> QED
      BY ZenonT(30), <3>1, <1>4, <1>5
  <2>4. last <= denseCap[c]
    BY <1>2, <1>4 DEF last
  <2> QED
    BY <2>1, <2>2, <2>3, <2>4, <1>5 DEF PoolOK
<1>11. ASSUME NEW s \in 0..(last - 1)
       PROVE  /\ denseOwner'[c][s].index \in 0..(sparseCap[c] - 1)
              /\ denseOwner'[c][s].index # e.index
              /\ sparse'[c][denseOwner'[c][s].index] = s
              /\ \E t \in 0..last : denseOwner'[c][s] = denseOwner[c][t]
  <2>1. CASE s = slot
    <3>1. denseOwner'[c][s] = denseOwner[c][last]
      BY <2>1, <1>5
    <3>2. moved # e.index
      BY <2>1, <1>1, <1>2, <1>3, <1>8
    <3> QED
      BY <3>1, <3>2, <2>1, <1>2, <1>3, <1>8, <1>9
  <2>2. CASE s # slot
    <3>1. s \in 0..last /\ s # last /\ denseOwner'[c][s] = denseOwner[c][s]
      BY <2>2, <1>2, <1>5
    <3>2. denseOwner[c][s].index # e.index /\ denseOwner[c][s].index # moved
      BY <3>1, <2>2, <1>3, <1>6, <1>8
    <3> QED
      BY <3>1, <3>2, <1>6, <1>9
  <2> QED
    BY <2>1, <2>2
<1>12. ASSUME NEW i \in 0..(sparseCap[c] - 1), sparse'[c][i] # INVALID
       PROVE  /\ sparse'[c][i] < last
              /\ denseOwner'[c][sparse'[c][i]].index = i
  <2>1. i # e.index
    BY <1>12, <1>9
  <2>2. CASE i = moved
    <3>1. sparse'[c][i] = slot /\ slot # last
      BY <2>1, <2>2, <1>1, <1>8, <1>9
    <3>2. slot \in 0..(last - 1)
      BY <3>1, <1>1, <1>2
    <3>3. denseOwner'[c][slot] = denseOwner[c][last]
      BY <3>2, <1>5
    <3>4. denseOwner'[c][slot].index = i
      BY <3>3, <2>2, <1>8
    <3> QED
      BY <3>1, <3>2, <3>4, <1>2
  <2>3. CASE i # moved
    <3>1. sparse'[c][i] = sparse[c][i]
      BY <2>1, <2>3, <1>9
    <3>2. sparse[c][i] \in 0..last /\ denseOwner[c][sparse[c][i]].index = i
      BY <3>1, <1>12, <1>7
    <3>3. sparse[c][i] # last /\ sparse[c][i] # slot
      BY <3>2, <2>1, <2>3, <1>1, <1>8
    <3> QED
      BY <3>1, <3>2, <3>3, <1>2, <1>5
  <2> QED
    BY <2>2, <2>3
<1>13. \A s \in 0..(denseCount'[c] - 1) :
         /\ denseOwner'[c][s].index < sparseCap'[c]
         /\ sparse'[c][denseOwner'[c][s].index] = s
         /\ denseOwner'[c][s].index # e.index
         /\ \E t \in 0..(denseCount[c] - 1) :
              denseOwner'[c][s] = denseOwner[c][t]
  <2>1. denseCount'[c] - 1 = last - 1 /\ denseCount[c] - 1 = last
    BY <1>5 DEF last
  <2>2. sparseCap[c] \in Nat /\ sparseCap'[c] = sparseCap[c]
    BY <1>2
  <2> QED
    BY <1>11, <2>1, <2>2
<1>14. \A i \in 0..(sparseCap'[c] - 1) :
         sparse'[c][i] # INVALID =>
           /\ sparse'[c][i] < denseCount'[c]
           /\ denseOwner'[c][sparse'[c][i]].index = i
  BY <1>5, <1>12
<1>15. denseCount'[c] \in Nat
  BY <1>2, <1>5
<1> QED
  BY <1>10, <1>13, <1>14, <1>15

\* World::Destroy: after every pool has dropped the entity no owner has its
\* index, so bumping the generation and recycling the slot touch nobody else.
LEMMA DestroyStep ==
  ASSUME IInv, NEW e \in Handle, Issued(e), Destroy(e)
  PROVE  IInv'
PROOF
<1> DEFINE hit == {c \in poPools : Holds(c, e)}
<1>1. Live(e) /\ e.index \in 0..(mSlotCount - 1) /\ ~IsFree(e.index)
  BY DEF Destroy, IsAlive, Issued, Live, Handle, IInv, TypeOK, SlotsOK
<1>2. poPools \subseteq C /\ poPools' = poPools
  BY DEF Destroy, IInv, TypeOK, PoolsOK
<1>3. \A c \in C : c \notin hit => ~Holds(c, e)
  <2> SUFFICES ASSUME NEW c \in C, Holds(c, e)
               PROVE  c \in poPools
    OBVIOUS
  <2>1. sparse[c][e.index] \in 0..(denseCount[c] - 1)
    BY <1>1, OwnerOfLive
  <2> QED
    BY <2>1 DEF IInv, OwnersAlive
<1>4. \A c \in hit :
        /\ sparse'[c] = SparseWithout(c, e)
        /\ denseOwner'[c] = OwnerWithout(c, e)
        /\ denseData'[c] = DataWithout(c, e)
        /\ denseCount'[c] = denseCount[c] - 1
        /\ sparseCap'[c] = sparseCap[c] /\ denseCap'[c] = denseCap[c]
  BY <1>2 DEF Destroy, RemoveFrom
<1>5. \A c \in C \ hit :
        /\ sparse'[c] = sparse[c] /\ denseOwner'[c] = denseOwner[c]
        /\ denseData'[c] = denseData[c] /\ denseCount'[c] = denseCount[c]
        /\ sparseCap'[c] = sparseCap[c] /\ denseCap'[c] = denseCap[c]
  BY <1>2 DEF Destroy, RemoveFrom
<1>6. /\ sparseCap' = sparseCap /\ denseCap' = denseCap
      /\ DOMAIN sparse' = C /\ DOMAIN denseOwner' = C /\ DOMAIN denseData' = C
      /\ DOMAIN denseCount' = C
      /\ denseCount' = [c \in C |-> denseCount'[c]]
  BY DEF Destroy, RemoveFrom
<1>7. hit \subseteq C /\ \A c \in hit : Holds(c, e)
  BY <1>2
<1> HIDE DEF hit
\* What one pool looks like afterwards, whether it held the entity or not.
<1>8. ASSUME NEW c \in C
      PROVE  /\ PoolOK(c)' /\ denseCount'[c] \in Nat
             /\ \A s \in 0..(denseCount'[c] - 1) :
                  /\ denseOwner'[c][s].index < sparseCap'[c]
                  /\ sparse'[c][denseOwner'[c][s].index] = s
             /\ \A i \in 0..(sparseCap'[c] - 1) :
                  sparse'[c][i] # INVALID =>
                    /\ sparse'[c][i] < denseCount'[c]
                    /\ denseOwner'[c][sparse'[c][i]].index = i
             /\ \A s \in 0..(denseCount'[c] - 1) :
                  /\ denseOwner'[c][s].index # e.index
                  /\ \E t \in 0..(denseCount[c] - 1) :
                       denseOwner'[c][s] = denseOwner[c][t]
  <2>1. CASE c \in hit
    BY <2>1, <1>1, <1>4, <1>7, RemoveOne
  <2>2. CASE c \notin hit
    <3>1. /\ sparse'[c] = sparse[c] /\ denseOwner'[c] = denseOwner[c]
          /\ denseData'[c] = denseData[c] /\ denseCount'[c] = denseCount[c]
          /\ sparseCap'[c] = sparseCap[c] /\ denseCap'[c] = denseCap[c]
      BY <2>2, <1>5
    <3>2. PoolOK(c)' /\ denseCount'[c] \in Nat
      BY <3>1 DEF IInv, TypeOK, PoolsOK, PoolOK
    <3>3. \A s \in 0..(denseCount[c] - 1) : denseOwner[c][s].index # e.index
      <4> SUFFICES ASSUME NEW s \in 0..(denseCount[c] - 1),
                          denseOwner[c][s].index = e.index
                   PROVE  FALSE
        OBVIOUS
      <4>1. e.index < sparseCap[c] /\ sparse[c][e.index] = s
        BY PoolFacts
      <4> QED
        BY <4>1, <2>2, <1>3, InvalidAssumption DEF Holds
    <3> QED
      BY <3>1, <3>2, <3>3 DEF IInv, SparseDenseInverse
  <2> QED
    BY <2>1, <2>2
<1>9. SparseDenseInverse'
  BY <1>8 DEF SparseDenseInverse
<1>10. PoolsOK'
  <2>1. denseCount' \in [C -> Nat]
    BY <1>6, <1>8
  <2> QED
    BY <2>1, <1>2, <1>6, <1>8 DEF IInv, TypeOK, PoolsOK
<1>11. /\ mSlotCap' = mSlotCap /\ mSlotCount' = mSlotCount
       /\ poGeneration' = [poGeneration EXCEPT ![e.index] = (@ + 1) % GenMod]
       /\ poFreeList' = Append(poFreeList, e.index)
  BY DEF Destroy
<1>12. /\ Len(poFreeList) \in Nat /\ Len(poFreeList') = Len(poFreeList) + 1
       /\ poFreeList' \in Seq(0..(mSlotCount - 1))
       /\ \A k \in 1..Len(poFreeList) : poFreeList'[k] = poFreeList[k]
       /\ poFreeList'[Len(poFreeList')] = e.index
  <2>1. poFreeList \in Seq(0..(mSlotCount - 1))
    BY DEF IInv, TypeOK, SlotsOK
  <2> QED
    BY <2>1, <1>1, <1>11, AppendProperties
<1>13. SlotsOK'
  <2>1. mFreeCap' \in Nat /\ Len(poFreeList') <= mFreeCap'
    BY <1>12, InitCapAssumption DEF Destroy, IInv, TypeOK, SlotsOK
  <2>2. poGeneration' \in [0..(mSlotCap - 1) -> 0..(GenMod - 1)]
    <3>1. poGeneration \in [0..(mSlotCap - 1) -> 0..(GenMod - 1)]
      BY DEF IInv, TypeOK, SlotsOK
    <3>2. \A g \in 0..(GenMod - 1) : (g + 1) % GenMod \in 0..(GenMod - 1)
      BY GenAssumption
    <3>3. e.index \in 0..(mSlotCap - 1)
      BY <1>1 DEF IInv, TypeOK, SlotsOK
    <3> QED
      BY <3>1, <3>2, <3>3, <1>11
  <2> QED
    BY <2>1, <2>2, <1>11, <1>12 DEF IInv, TypeOK, SlotsOK
<1>14. OwnersAlive'
  <2>1. ASSUME NEW c \in C, NEW s \in 0..(denseCount'[c] - 1)
        PROVE  Live(denseOwner[c][s])' /\ c \in poPools'
    <3>1. PICK t \in 0..(denseCount[c] - 1) :
            denseOwner'[c][s] = denseOwner[c][t]
      BY <1>8
    <3>2. /\ Live(denseOwner'[c][s]) /\ c \in poPools
          /\ denseOwner'[c][s] \in Handle
          /\ denseOwner'[c][s].index # e.index
      BY <3>1, <1>8, PoolFacts DEF IInv, OwnersAlive
    <3>3. PICK h \in Handle : h = denseOwner'[c][s]
      BY <3>2
    <3>4. /\ h.index \in 0..(mSlotCount - 1) /\ h.index # e.index
          /\ h.generation = poGeneration[h.index]
          /\ \A k \in 1..Len(poFreeList) : poFreeList[k] # h.index
      <4>1. /\ Live(h) /\ h.index # e.index /\ h.index \in Nat
            /\ h.generation \in Nat /\ mSlotCount \in Nat
        BY <3>2, <3>3, MaxSlotsAssumption
        DEF Handle, IInv, TypeOK, SlotsOK
      <4>2. /\ h.index < mSlotCount /\ h.generation = poGeneration[h.index]
            /\ ~IsFree(h.index)
        BY <4>1 DEF Live, Issued
      <4> QED
        BY <4>1, <4>2 DEF IsFree
    <3>5. poGeneration'[h.index] = poGeneration[h.index]
      BY <3>4, <1>11 DEF IInv, TypeOK, SlotsOK
    <3>6. \A k \in 1..Len(poFreeList') : poFreeList'[k] # h.index
      BY <3>4, <1>12
    <3>7. h.index < mSlotCount'
      BY <3>4, <1>11 DEF IInv, TypeOK, SlotsOK
    <3> QED
      BY <3>2, <3>3, <3>4, <3>5, <3>6, <3>7, <1>2 DEF Live, Issued, IsFree
  <2> QED
    BY <2>1 DEF OwnersAlive
<1>15. FreeListDistinct'
  <2> SUFFICES ASSUME NEW j \in 1..Len(poFreeList'),
                      NEW k \in 1..Len(poFreeList'),
                      poFreeList'[j] = poFreeList'[k]
               PROVE  j = k
    BY DEF FreeListDistinct
  <2>1. \A n \in 1..Len(poFreeList) : poFreeList[n] # e.index
    BY <1>1 DEF IsFree
  <2> QED
    BY <2>1, <1>12 DEF IInv, FreeListDistinct
<1> QED
  BY <1>9, <1>10, <1>13, <1>14, <1>15 DEF IInv, TypeOK

\* A write changes one cell of one dense array; a query that finds nothing can
\* only create an empty pool.
LEMMA WriteStep ==
  ASSUME IInv, NEW c \in C, NEW e \in Handle, NEW v \in Value, Write(c, e, v)
  PROVE  IInv'
PROOF
<1>1. /\ denseData' = [denseData EXCEPT ![c][sparse[c][e.index]] = v]
      /\ poPools' = poPools \cup {c}
      /\ UNCHANGED <<sparse, sparseCap, denseOwner, denseCount, denseCap>>
      /\ UNCHANGED slotVars
  BY DEF Write, Pool
<1>2. TypeOK'
  <2>1. ASSUME NEW d \in C PROVE PoolOK(d)'
    <3>1. denseData[d] \in [0..(denseCap[d] - 1) -> Value \cup {Garbage}]
      BY DEF IInv, TypeOK, PoolsOK, PoolOK
    <3>2. denseData'[d] \in [0..(denseCap[d] - 1) -> Value \cup {Garbage}]
      BY <3>1, <1>1 DEF IInv, TypeOK, PoolsOK
    <3> QED
      BY <3>2, <1>1 DEF IInv, TypeOK, PoolsOK, PoolOK
  <2>2. PoolsOK'
    BY <2>1, <1>1 DEF IInv, TypeOK, PoolsOK
  <2>3. SlotsOK'
    BY <1>1 DEF IInv, TypeOK, SlotsOK, slotVars
  <2> QED
    BY <2>2, <2>3 DEF TypeOK
<1> QED
  BY <1>1, <1>2 DEF IInv, SparseDenseInverse, OwnersAlive, FreeListDistinct,
                    Live, Issued, IsFree, slotVars

\* A TryGet that finds nothing changes at most the set of pools that exist.
LEMMA MissStep ==
  ASSUME IInv, NEW c \in C, NEW e \in Handle, Miss(c, e)
  PROVE  IInv'
PROOF
<1>1. /\ poPools' = poPools \cup {c}
      /\ UNCHANGED <<sparse, sparseCap, denseOwner, denseData, denseCount,
                     denseCap>>
      /\ UNCHANGED slotVars
  BY DEF Miss, Pool
<1>2. TypeOK'
  BY <1>1 DEF IInv, TypeOK, PoolsOK, PoolOK, SlotsOK, slotVars
<1> QED
  BY <1>1, <1>2 DEF IInv, SparseDenseInverse, OwnersAlive, FreeListDistinct,
                    Live, Issued, IsFree, slotVars

\* A step that changes nothing preserves the invariant.
LEMMA StutterStep ==
  ASSUME IInv, UNCHANGED vars
  PROVE  IInv'
  BY SMTT(30) DEF vars, slotVars, poolVars, IInv, TypeOK, SlotsOK, PoolsOK, PoolOK,
         SparseDenseInverse, OwnersAlive, FreeListDistinct, Live, Issued, IsFree

\* Every operation of the registry preserves the invariant.
LEMMA NextHolds == IInv /\ [Next]_vars => IInv'
PROOF
<1> SUFFICES ASSUME IInv, [Next]_vars PROVE IInv'
  OBVIOUS
<1>1. CASE CreateRecycled
  BY <1>1, CreateRecycledStep
<1>2. CASE CreateFresh
  BY <1>2, CreateFreshStep
<1>3. ASSUME NEW e \in Handle, Issued(e), Destroy(e) PROVE IInv'
  BY <1>3, DestroyStep
<1>4. ASSUME NEW e \in Handle, DestroyStale(e) PROVE IInv'
  BY <1>4, StutterStep DEF DestroyStale
<1>5. ASSUME NEW e \in Handle, Issued(e), NEW c \in C, Add(c, e) PROVE IInv'
  BY <1>5, AddStep
<1>6. ASSUME NEW e \in Handle, NEW c \in C, Miss(c, e) PROVE IInv'
  BY <1>6, MissStep
<1>7. ASSUME NEW e \in Handle, NEW c \in C, NEW v \in Value, Write(c, e, v)
      PROVE  IInv'
  BY <1>7, WriteStep
<1>8. CASE UNCHANGED vars
  BY <1>8, StutterStep
<1> QED
  BY <1>1, <1>2, <1>3, <1>4, <1>5, <1>6, <1>7, <1>8 DEF Next

------------------------------------------------------------------------------
\* The inductive invariant holds in every reachable state.
THEOREM Invariance == Spec => []IInv
  BY InitHolds, NextHolds, PTL DEF Spec

\* Every array of the registry and of its pools has the length its capacity
\* says and counts no more cells than it has.
THEOREM TypeCorrect == Spec => []TypeOK
PROOF
<1>1. IInv => TypeOK
  BY DEF IInv
<1> QED
  BY <1>1, Invariance, PTL

\* The sparse and dense arrays of every pool (ComponentPool.h) stay inverse.
THEOREM PoolsStayInverse == Spec => []SparseDenseInverse
PROOF
<1>1. IInv => SparseDenseInverse
  BY DEF IInv
<1> QED
  BY <1>1, Invariance, PTL

\* A system that walks a dense array meets live owners only.
THEOREM OwnersStayAlive == Spec => []OwnersAlive
PROOF
<1>1. IInv => OwnersAlive
  BY DEF IInv
<1> QED
  BY <1>1, Invariance, PTL

\* No slot is recycled twice at once.
THEOREM FreeListStaysDistinct == Spec => []FreeListDistinct
PROOF
<1>1. IInv => FreeListDistinct
  BY DEF IInv
<1> QED
  BY <1>1, Invariance, PTL

\* The assertion of ComponentPool::Add never fails on a live entity that lacks
\* the component.
THEOREM AddAssertionHolds == Spec => []AddNeverAsserts
PROOF
<1>1. IInv => AddNeverAsserts
  BY NoEntryLeft DEF AddNeverAsserts, Holds
<1> QED
  BY <1>1, Invariance, PTL

\* While no generation wraps, a destroyed handle is never alive again, whoever
\* owns its slot.
LEMMA StaleStep ==
  ASSUME MaxGen < GenMod, IInv, [Next]_vars,
         NEW h \in Handle, Issued(h), ~Live(h)
  PROVE  ~IsAlive(h)'
PROOF
<1>1. /\ h.index \in 0..(mSlotCount - 1) /\ h.generation \in Nat
      /\ h.generation < poGeneration[h.index]
      /\ poGeneration \in [0..(mSlotCap - 1) -> 0..(GenMod - 1)]
      /\ mSlotCap \in Nat /\ mSlotCount \in 0..mSlotCap
  BY DEF Issued, Live, Handle, IInv, TypeOK, SlotsOK
<1>2. SUFFICES h.generation < poGeneration'[h.index]
  BY <1>1 DEF IsAlive
<1>3. CASE poGeneration' = poGeneration
  BY <1>1, <1>3
<1>4. CASE CreateFresh
  <2>1. /\ mSlotCap' \in Nat /\ mSlotCap <= mSlotCap'
        /\ poGeneration' = [i \in 0..(mSlotCap' - 1) |->
                              IF i < mSlotCount THEN poGeneration[i] ELSE 0]
    BY <1>1, <1>4, InitCapAssumption DEF CreateFresh, GrownGenerations
  <2>2. h.index \in 0..(mSlotCap' - 1) /\ h.index < mSlotCount
    BY <1>1, <2>1
  <2> QED
    BY <1>1, <2>1, <2>2
<1>5. ASSUME NEW e \in Handle, Destroy(e)
      PROVE  h.generation < poGeneration'[h.index]
  <2>1. /\ poGeneration' = [poGeneration EXCEPT ![e.index] = (@ + 1) % GenMod]
        /\ e.index < mSlotCount /\ poGeneration[e.index] < MaxGen
    BY <1>5 DEF Destroy, IsAlive
  <2>2. e.index \in 0..(mSlotCap - 1) /\ poGeneration[e.index] \in Nat
    BY <1>1, <2>1 DEF Handle
  <2>3. \A g \in Nat : g < MaxGen => (g + 1) % GenMod = g + 1
    BY GenAssumption
  <2> QED
    BY <1>1, <2>1, <2>2, <2>3
<1> QED
  BY <1>3, <1>4, <1>5 DEF Next, vars, slotVars, CreateRecycled, DestroyStale,
                          Add, Miss, Write

\* As long as generations stay below the modulus, a handle whose entity was
\* destroyed (World.cpp:85) never passes IsAlive again.
THEOREM StaleStaysDead ==
  ASSUME MaxGen < GenMod
  PROVE  Spec => DestroyedStaysDead
PROOF
<1>1. IInv /\ [Next]_vars =>
        \A h \in Handle : Issued(h) /\ ~Live(h) => ~IsAlive(h)'
  BY StaleStep
<1> QED
  BY <1>1, Invariance, PTL DEF Spec, DestroyedStaysDead

------------------------------------------------------------------------------
(* The arrays implement EntityStore.                                       *)
(*                                                                         *)
(* A handle is live, dead or not yet issued; each operation moves at most  *)
(* one handle between the three.  A pool's component of a handle is the    *)
(* cell its sparse entry leads to; the lemmas follow the cells through the *)
(* growth of Add and the move of Remove.                                   *)

\* What the refinement mapping takes for the handles live and dead.
Lives == {h \in Handle : Live(h)}
Dead == {h \in Handle : Issued(h) /\ ~Live(h)}

\* The owners in pool c, and the cell a sparse entry leads to: the domain and
\* the values of Component(c).
Owners(c) == {denseOwner[c][s] : s \in 0..(denseCount[c] - 1)}
Cell(c, h) == denseData[c][sparse[c][h.index]]

\* The types of the entity slots, element by element.
LEMMA SlotFacts ==
  ASSUME IInv
  PROVE  /\ mSlotCap \in Nat /\ mSlotCount \in 0..mSlotCap
         /\ \A i \in 0..(mSlotCap - 1) : poGeneration[i] \in 0..(GenMod - 1)
         /\ poFreeList \in Seq(0..(mSlotCount - 1)) /\ Len(poFreeList) \in Nat
         /\ \A k \in 1..Len(poFreeList) : poFreeList[k] \in 0..(mSlotCount - 1)
         /\ mSlotCount <= MaxSlots
BY DEF IInv, TypeOK, SlotsOK

\* Every component has one cell, and its owner is live.
LEMMA OwnerFacts ==
  ASSUME IInv, NEW c \in C
  PROVE  /\ Owners(c) \subseteq Lives
         /\ \A h \in Owners(c) :
              /\ h.index \in 0..(sparseCap[c] - 1)
              /\ sparse[c][h.index] \in 0..(denseCount[c] - 1)
              /\ denseOwner[c][sparse[c][h.index]] = h
         /\ \A h \in Owners(c), g \in Owners(c) : h.index = g.index => h = g
<1>1. ASSUME NEW s \in 0..(denseCount[c] - 1)
      PROVE  LET h == denseOwner[c][s]
             IN  /\ h \in Lives
                 /\ h.index \in 0..(sparseCap[c] - 1)
                 /\ sparse[c][h.index] = s
  BY PoolFacts DEF Lives, IInv, OwnersAlive
<1>2. ASSUME NEW h \in Owners(c)
      PROVE  /\ h \in Lives
             /\ h.index \in 0..(sparseCap[c] - 1)
             /\ sparse[c][h.index] \in 0..(denseCount[c] - 1)
             /\ denseOwner[c][sparse[c][h.index]] = h
  <2>1. PICK s \in 0..(denseCount[c] - 1) : h = denseOwner[c][s]
    BY DEF Owners
  <2> QED BY <1>1, <2>1
<1> QED BY <1>2

\* A handle that has a component is the owner of its cell.
LEMMA HasIs ==
  ASSUME IInv, NEW c \in C, NEW e \in Handle
  PROVE  Has(c, e) <=> e \in Owners(c)
<1>1. ASSUME Has(c, e) PROVE e \in Owners(c)
  <2>1. e.index \in 0..(sparseCap[c] - 1) /\ sparse[c][e.index] # INVALID
    BY <1>1, PoolFacts DEF Has, Handle
  <2>2. PICK s \in 0..(denseCount[c] - 1) : s = sparse[c][e.index]
    BY <2>1, PoolFacts
  <2>3. denseOwner[c][s].index = e.index /\ denseOwner[c][s].generation = e.generation
    BY <1>1, <2>1, <2>2, PoolFacts DEF Has
  <2>4. denseOwner[c][s] \in Handle
    BY <2>2, PoolFacts
  <2>5. denseOwner[c][s] = e
    BY <2>3, <2>4 DEF Handle
  <2> QED BY <2>5 DEF Owners
<1>2. ASSUME e \in Owners(c) PROVE Has(c, e)
  <2>1. /\ e.index \in 0..(sparseCap[c] - 1)
        /\ sparse[c][e.index] \in 0..(denseCount[c] - 1)
        /\ denseOwner[c][sparse[c][e.index]] = e
    BY <1>2, OwnerFacts
  <2> QED BY <2>1, PoolFacts, InvalidAssumption DEF Has
<1> QED BY <1>1, <1>2

\* Slots that do not change keep their handles.
LEMMA SlotsKept ==
  ASSUME poGeneration' = poGeneration, mSlotCount' = mSlotCount, poFreeList' = poFreeList
  PROVE  Lives' = Lives /\ Dead' = Dead
BY DEF Lives, Dead, Live, Issued, IsFree

\* A pool whose arrays do not change keeps its components.
LEMMA PoolKept ==
  ASSUME NEW c \in C, sparse'[c] = sparse[c], denseOwner'[c] = denseOwner[c],
         denseData'[c] = denseData[c], denseCount'[c] = denseCount[c]
  PROVE  Component(c)' = Component(c)
BY DEF Component

\* World::World: no handle, no component.
LEMMA StoreInit ==
  ASSUME Init
  PROVE  Store!Init
<1>1. Lives = {} /\ Dead = {}
  BY DEF Init, Lives, Dead, Live, Issued, Handle
<1>2. \A c \in C : Component(c) = [h \in {} |-> Garbage]
  BY DEF Init, Component
<1> QED BY <1>1, <1>2 DEF Store!Init, Lives, Dead

\* A step that adds one handle to the live ones and leaves the pools alone is
\* a Create of the store.
LEMMA StoreCreate ==
  ASSUME NEW n \in Handle, n \notin Lives \cup Dead,
         Lives' = Lives \cup {n}, Dead' = Dead, UNCHANGED poolVars
  PROVE  Store!Create(n)
<1>1. \A c \in C : Component(c)' = Component(c)
  BY PoolKept DEF poolVars
<1>2. [c \in C |-> Component(c)]' = [c \in C |-> Component(c)]
  BY <1>1
<1> QED BY <1>2 DEF Store!Create, Lives, Dead

\* World::Create with a recycled slot: the handle given out is the one that no
\* one was given for that generation, so it is neither live nor dead before.
LEMMA StoreRecycled ==
  ASSUME IInv, CreateRecycled
  PROVE  Store!Next
<1>1. Len(poFreeList) \in Nat \ {0} /\ poFreeList # <<>>
  BY FreeListPops DEF CreateRecycled
<1> DEFINE last == Len(poFreeList)
<1>0. PICK i : i = poFreeList[last]
  OBVIOUS
<1>2. i \in 0..(mSlotCount - 1) /\ poGeneration[i] \in 0..(GenMod - 1)
  BY <1>0, <1>1, SlotFacts
<1>11. PICK n : n = [index |-> i, generation |-> poGeneration[i]]
  OBVIOUS
<1>3. n \in Handle /\ n.index = i /\ n.generation = poGeneration[i]
  <2>1. i \in 0..(MaxSlots - 1)
    BY <1>2, SlotFacts, MaxSlotsAssumption
  <2> QED BY <1>2, <1>11, <2>1 DEF Handle
<1>4. /\ poGeneration' = poGeneration /\ mSlotCount' = mSlotCount
      /\ UNCHANGED poolVars
  BY DEF CreateRecycled
<1>5. /\ Len(poFreeList') = last - 1
      /\ \A k \in 1..(last - 1) : poFreeList'[k] = poFreeList[k]
  BY FreeListPops
<1>6. \A k \in 1..last : poFreeList[k] = i => k = last
  BY <1>0, <1>1 DEF IInv, FreeListDistinct
<1>7. IsFree(i) /\ ~IsFree(i)' /\ \A j : j # i => (IsFree(j)' <=> IsFree(j))
  <2>1. IsFree(i) BY <1>0, <1>1 DEF IsFree
  <2>2. ~IsFree(i)'
    <3>1. \A k \in 1..(last - 1) : k \in 1..last /\ k # last BY <1>1
    <3>2. \A k \in 1..(last - 1) : poFreeList'[k] # i BY <1>5, <1>6, <3>1
    <3> QED BY <1>5, <3>2 DEF IsFree
  <2>3. ASSUME NEW j, j # i PROVE IsFree(j)' <=> IsFree(j)
    <3>1. \A k \in 1..last : k = last \/ k \in 1..(last - 1) BY <1>1
    <3>2. \A k \in 1..(last - 1) : k \in 1..last BY <1>1
    <3> QED BY <1>0, <1>5, <2>3, <3>1, <3>2 DEF IsFree
  <2> QED BY <2>1, <2>2, <2>3
<1>8. \A h \in Handle : h.index = n.index /\ h.generation = n.generation => h = n
  BY <1>3 DEF Handle
<1>9. ASSUME NEW h \in Handle
      PROVE  /\ Live(h)' <=> Live(h) \/ h = n
             /\ Issued(h)' <=> Issued(h) \/ h = n
  <2>1. h.generation < poGeneration[h.index] => h.generation # poGeneration[h.index]
    <3>1. h.generation \in Nat BY DEF Handle
    <3> QED BY <3>1
  <2>2. i < mSlotCount BY <1>2, SlotFacts
  <2>3. CASE h.index = i
    <3>1. /\ Issued(h) <=> h.generation < poGeneration[i]
          /\ Issued(h)' <=> h.generation < poGeneration[i] \/ h.generation = poGeneration[i]
      BY <1>4, <1>7, <2>2, <2>3 DEF Issued
    <3>2. h = n <=> h.generation = poGeneration[i]
      BY <1>3, <1>8, <2>3
    <3> QED BY <1>4, <2>1, <2>3, <3>1, <3>2 DEF Live
  <2>4. CASE h.index # i
    <3>1. h # n BY <1>3, <2>4
    <3>2. IsFree(h.index)' <=> IsFree(h.index) BY <1>7, <2>4
    <3> QED BY <1>4, <3>1, <3>2 DEF Live, Issued
  <2> QED BY <2>3, <2>4
<1>10. ~Issued(n)
  <2>1. poGeneration[i] \in Nat BY <1>2
  <2> QED BY <1>3, <1>7, <2>1 DEF Issued
<1>12. Lives' = Lives \cup {n} /\ Dead' = Dead /\ n \notin Lives \cup Dead
  <2>1. ~Live(n) BY <1>10 DEF Live
  <2> QED BY <1>3, <1>9, <1>10, <2>1 DEF Lives, Dead
<1>13. Store!Create(n)
  BY <1>3, <1>4, <1>12, StoreCreate
<1> QED BY <1>3, <1>13 DEF Store!Next

\* World::Create with a fresh slot, through privGrowGenerations: the handle of
\* generation zero is new, and no other handle changes.
LEMMA StoreFresh ==
  ASSUME IInv, CreateFresh
  PROVE  Store!Next
<1>0. PICK i, n : i = mSlotCount /\ n = [index |-> i, generation |-> 0]
  OBVIOUS
<1>1. /\ mSlotCount \in Nat /\ mSlotCount < MaxSlots /\ mSlotCount' = mSlotCount + 1
      /\ poFreeList' = poFreeList /\ UNCHANGED poolVars
  BY SlotFacts DEF CreateFresh
<1>2. n \in Handle /\ n.index = i /\ n.generation = 0 /\ i \in Nat /\ i = mSlotCount
  BY <1>0, <1>1, GenAssumption, MaxSlotsAssumption DEF Handle
<1>3. PICK cap :
        /\ cap = mSlotCap' /\ cap \in Nat /\ i < cap
        /\ poGeneration' = [k \in 0..(cap - 1) |-> IF k < i THEN poGeneration[k] ELSE 0]
  <2>1. mSlotCap' \in Nat /\ mSlotCount < mSlotCap'
    BY SlotFacts, InitCapAssumption DEF CreateFresh
  <2> QED BY <1>2, <2>1 DEF CreateFresh, GrownGenerations
<1>4. /\ \A k \in 0..(mSlotCount - 1) : poGeneration'[k] = poGeneration[k]
      /\ poGeneration'[i] = 0
  <2>0. i \in Nat /\ cap \in Nat /\ i < cap
    BY <1>2, <1>3
  <2>1. i \in 0..(cap - 1) /\ ~(i < i)
    BY <2>0
  <2>2. \A k \in 0..(i - 1) : k \in 0..(cap - 1) /\ k < i
    BY <2>0
  <2>3. poGeneration'[i] = 0
    BY <1>3, <2>1
  <2>4. \A k \in 0..(i - 1) : poGeneration'[k] = poGeneration[k]
    BY <1>3, <2>2
  <2> QED BY <1>2, <2>3, <2>4
<1>5. ~IsFree(i)
  <2>1. \A k \in 1..Len(poFreeList) : poFreeList[k] # i BY <1>2, SlotFacts
  <2> QED BY <2>1 DEF IsFree
<1>6. \A j : IsFree(j)' <=> IsFree(j)
  BY <1>1 DEF IsFree
<1>7. \A h \in Handle : h.index = i /\ h.generation = 0 => h = n
  BY <1>2 DEF Handle
<1>8. ASSUME NEW h \in Handle
      PROVE  /\ Live(h)' <=> Live(h) \/ h = n
             /\ Issued(h)' <=> Issued(h) \/ h = n
  <2>1. h.index \in Nat /\ h.generation \in Nat BY DEF Handle
  <2>2. CASE h.index = i
    <3>1. ~Issued(h) /\ ~Live(h) BY <2>1, <2>2, <1>2 DEF Issued, Live
    <3>2. Issued(h)' <=> h.generation = 0
      BY <2>1, <2>2, <1>1, <1>2, <1>4, <1>5, <1>6 DEF Issued
    <3>3. Live(h)' <=> h.generation = 0
      BY <2>2, <3>2, <1>4 DEF Live
    <3>4. h.generation = 0 <=> h = n
      BY <1>2, <1>7, <2>2
    <3> QED BY <3>1, <3>2, <3>3, <3>4
  <2>3. CASE h.index # i
    <3>1. h # n BY <1>2, <2>3
    <3>2. h.index < mSlotCount' <=> h.index < mSlotCount BY <1>1, <1>2, <2>1, <2>3
    <3>3. h.index < mSlotCount => poGeneration'[h.index] = poGeneration[h.index]
      BY <1>1, <1>4, <2>1
    <3> QED BY <1>6, <3>1, <3>2, <3>3 DEF Issued, Live
  <2> QED BY <2>2, <2>3
<1>9. ~Issued(n) /\ ~Live(n)
  BY <1>1, <1>2 DEF Issued, Live
<1>10. Lives' = Lives \cup {n} /\ Dead' = Dead /\ n \notin Lives \cup Dead
  BY <1>2, <1>8, <1>9 DEF Lives, Dead
<1>11. Store!Create(n)
  BY <1>1, <1>2, <1>10, StoreCreate
<1> QED BY <1>2, <1>11 DEF Store!Next

\* A write through TryGet changes the component of that handle and of no other:
\* two owners never share a cell.
LEMMA StoreWrite ==
  ASSUME IInv, NEW c \in C, NEW e \in Handle, NEW v \in Value, Write(c, e, v)
  PROVE  Store!Next
<1> DEFINE comp == [d \in C |-> Component(d)]
<1>1. /\ e \in Owners(c)
      /\ denseData' = [denseData EXCEPT ![c][sparse[c][e.index]] = v]
      /\ sparse' = sparse /\ denseOwner' = denseOwner /\ denseCount' = denseCount
  BY HasIs DEF Write
<1>2. Lives' = Lives /\ Dead' = Dead
  BY SlotsKept DEF Write, slotVars
<1>3. DOMAIN denseData = C /\ DOMAIN denseData[c] = 0..(denseCap[c] - 1)
      /\ denseCount[c] <= denseCap[c] /\ denseCount[c] \in Nat /\ denseCap[c] \in Nat
  BY DEF IInv, TypeOK, PoolsOK, PoolOK
<1>4. \A d \in C : d # c => Component(d)' = Component(d)
  BY <1>1, <1>3, PoolKept
<1>5. Owners(c)' = Owners(c)
  BY <1>1 DEF Owners
<1>6. sparse[c][e.index] \in 0..(denseCap[c] - 1)
  BY <1>1, <1>3, OwnerFacts
<1>7. \A s \in 0..(denseCap[c] - 1) :
        denseData'[c][s] = IF s = sparse[c][e.index] THEN v ELSE denseData[c][s]
  BY <1>1, <1>3, <1>6
<1>8. ASSUME NEW h \in Owners(c)
      PROVE  Cell(c, h)' = IF h = e THEN v ELSE Cell(c, h)
  <2>1. /\ sparse[c][h.index] \in 0..(denseCap[c] - 1)
        /\ sparse[c][h.index] = sparse[c][e.index] => h = e
    BY <1>1, <1>3, OwnerFacts
  <2> QED BY <1>1, <1>7, <2>1 DEF Cell
<1>9. Component(c)' = [Component(c) EXCEPT ![e] = v]
  BY <1>5, <1>8 DEF Component, Owners, Cell
<1>10. comp' = [comp EXCEPT ![c][e] = v]
  BY <1>4, <1>9
<1>11. e \in DOMAIN comp[c]
  BY <1>1 DEF Component, Owners
<1>12. Store!Write(c, e, v)
  BY <1>2, <1>10, <1>11 DEF Store!Write, Lives, Dead
<1> QED BY <1>12 DEF Store!Next

\* World::Add: growing the two arrays moves no component, and the new owner's
\* cell is one past the cells in use.
LEMMA StoreAdd ==
  ASSUME IInv, NEW c \in C, NEW e \in Handle, Issued(e), Add(c, e)
  PROVE  Store!Next
<1> DEFINE comp == [d \in C |-> Component(d)]
           count == denseCount[c]
           v == denseData'[c][count]
<1>1. Live(e) /\ ~Has(c, e) /\ e.index \in Nat
  BY DEF Add, IsAlive, Live, Issued, Handle
<1>2. ~Holds(c, e) /\ e \notin Owners(c) /\ e \in Lives
  BY <1>1, NoEntryLeft, HasIs DEF Lives
<1>3. Lives' = Lives /\ Dead' = Dead
  BY SlotsKept DEF Add, slotVars
<1>4. /\ DOMAIN sparse = C /\ DOMAIN denseData = C /\ DOMAIN denseOwner = C
      /\ sparseCap \in [C -> Nat] /\ denseCap \in [C -> Nat] /\ denseCount \in [C -> Nat]
      /\ count <= denseCap[c]
      /\ denseData[c] \in [0..(denseCap[c] - 1) -> Value \cup {Garbage}]
  BY DEF IInv, TypeOK, PoolsOK, PoolOK
<1>5. PICK cap \in Capacities :
        /\ Grown(sparseCap[c], e.index + 1, cap)
        /\ sparse' = [sparse EXCEPT ![c] =
             [i \in 0..(cap - 1) |-> IF i = e.index THEN denseCount[c]
                                     ELSE IF i < sparseCap[c] THEN sparse[c][i]
                                     ELSE INVALID]]
  BY <1>4 DEF Add
<1>6. PICK room \in Capacities :
        /\ Grown(denseCap[c], denseCount[c] + 1, room)
        /\ denseData' = [denseData EXCEPT ![c] =
             [s \in 0..(room - 1) |-> IF s < denseCap[c] THEN denseData[c][s] ELSE Garbage]]
  BY <1>4 DEF Add
<1>7. /\ denseOwner' = [denseOwner EXCEPT ![c] =
           [s \in 0..count |-> IF s = count THEN e ELSE denseOwner[c][s]]]
      /\ denseCount' = [denseCount EXCEPT ![c] = count + 1]
  BY <1>4 DEF Add
<1>8. /\ cap \in Nat /\ sparseCap[c] \in Nat /\ sparseCap[c] <= cap /\ e.index + 1 <= cap
      /\ room \in Nat /\ denseCap[c] \in Nat /\ denseCap[c] <= room /\ count + 1 <= room
      /\ count \in Nat
  <2>1. cap \in Nat /\ room \in Nat
    BY InitCapAssumption, MaxSlotsAssumption DEF Capacities
  <2>2. sparseCap[c] \in Nat /\ denseCap[c] \in Nat /\ count \in Nat
    BY <1>4
  <2>3. sparseCap[c] <= cap /\ e.index + 1 <= cap
    BY <1>1, <1>5, <2>1, <2>2, GrownFits
  <2>4. denseCap[c] <= room /\ count + 1 <= room
    <3>1. Grown(denseCap[c], count + 1, room) /\ count + 1 \in Nat
      BY <1>6, <2>2
    <3> QED BY <2>1, <2>2, <3>1, GrownFits
  <2> QED BY <2>1, <2>2, <2>3, <2>4
<1>9. \A d \in C : d # c => Component(d)' = Component(d)
  BY <1>4, <1>5, <1>6, <1>7, PoolKept
<1>10. Owners(c)' = Owners(c) \cup {e}
  <2>1. denseCount'[c] - 1 = count /\ count \in Nat BY <1>4, <1>7, <1>8
  <2>2. \A s \in 0..count : denseOwner'[c][s] = IF s = count THEN e ELSE denseOwner[c][s]
    BY <1>4, <1>7
  <2>3. Owners(c)' = {denseOwner'[c][s] : s \in 0..count}
    BY <2>1 DEF Owners
  <2>4. \A s \in 0..count : s = count \/ s \in 0..(count - 1) BY <1>8
  <2>5. \A s \in 0..(count - 1) : s \in 0..count /\ s # count BY <1>8
  <2>6. count \in 0..count BY <1>8
  <2>7. ASSUME NEW h PROVE h \in Owners(c)' <=> h \in Owners(c) \/ h = e
    <3>1. h \in Owners(c)' <=> \E s \in 0..count : h = denseOwner'[c][s]
      BY <2>3
    <3>2. h \in Owners(c) <=> \E s \in 0..(count - 1) : h = denseOwner[c][s]
      BY DEF Owners
    <3> QED BY <2>2, <2>4, <2>5, <2>6, <3>1, <3>2
  <2> QED BY <2>7
<1>11. /\ \A i \in 0..(sparseCap[c] - 1) : i # e.index => sparse'[c][i] = sparse[c][i]
       /\ sparse'[c][e.index] = count
  BY <1>1, <1>4, <1>5, <1>8
<1>12. /\ \A s \in 0..(count - 1) : denseData'[c][s] = denseData[c][s]
       /\ v \in Value \cup {Garbage}
  <2>1. \A s \in 0..(room - 1) :
          denseData'[c][s] = IF s < denseCap[c] THEN denseData[c][s] ELSE Garbage
    BY <1>4, <1>6
  <2>2. \A s \in 0..(count - 1) : s \in 0..(room - 1) /\ s < denseCap[c] BY <1>4, <1>8
  <2>3. count \in 0..(room - 1) /\ (count < denseCap[c] => count \in 0..(denseCap[c] - 1))
    BY <1>8
  <2> QED BY <1>4, <2>1, <2>2, <2>3
<1> HIDE DEF v
<1>13. ASSUME NEW h \in Owners(c) \cup {e}
       PROVE  Cell(c, h)' = IF h = e THEN v ELSE Cell(c, h)
  <2>1. CASE h = e
    BY <1>11, <2>1 DEF Cell, v
  <2>2. CASE h # e
    <3>1. h \in Owners(c) BY <2>2
    <3>2. h.index \in 0..(sparseCap[c] - 1) /\ sparse[c][h.index] \in 0..(count - 1)
      BY <3>1, OwnerFacts
    <3>3. h.index # e.index
      <4>1. sparse[c][h.index] # INVALID BY <3>2, InvalidAssumption
      <4>2. h.index < sparseCap[c] BY <1>8, <3>2
      <4> QED BY <1>2, <4>1, <4>2 DEF Holds
    <3> QED BY <1>11, <1>12, <2>2, <3>2, <3>3 DEF Cell
  <2> QED BY <2>1, <2>2
<1>14. Component(c)' = [h \in DOMAIN Component(c) \cup {e} |->
                          IF h = e THEN v ELSE Component(c)[h]]
  <2>1. Component(c)' = [h \in Owners(c) \cup {e} |-> Cell(c, h)']
    BY <1>10 DEF Component, Owners, Cell
  <2>2. DOMAIN Component(c) = Owners(c) /\ \A h \in Owners(c) : Component(c)[h] = Cell(c, h)
    BY DEF Component, Owners, Cell
  <2> QED BY <1>13, <2>1, <2>2
<1>15. comp' = [comp EXCEPT ![c] = [h \in DOMAIN comp[c] \cup {e} |->
                                      IF h = e THEN v ELSE comp[c][h]]]
  BY <1>9, <1>14
<1>16. e \in Lives \ DOMAIN comp[c]
  BY <1>2 DEF Component, Owners
<1>17. Store!Add(c, e, v)
  BY <1>3, <1>15, <1>16 DEF Store!Add, Lives, Dead
<1> QED BY <1>12, <1>17 DEF Store!Next

\* ComponentPool::Remove: the component of e is gone and every other owner
\* reads the value it had, the one whose component moved included.
LEMMA DropOne ==
  ASSUME IInv, NEW e \in Handle, Live(e), NEW c \in C, Holds(c, e),
         sparse'[c] = SparseWithout(c, e),
         denseOwner'[c] = OwnerWithout(c, e),
         denseData'[c] = DataWithout(c, e),
         denseCount'[c] = denseCount[c] - 1
  PROVE  /\ e \in Owners(c)
         /\ Component(c)' = [h \in Owners(c) \ {e} |-> Component(c)[h]]
<1>0. PICK slot, last, moved :
        /\ slot = sparse[c][e.index]
        /\ last = denseCount[c] - 1
        /\ moved = denseOwner[c][last].index
  OBVIOUS
<1>1. /\ slot \in 0..last /\ denseOwner[c][slot] = e
      /\ e.index \in 0..(sparseCap[c] - 1)
  <2>1. slot \in 0..last /\ denseOwner[c][slot] = e
    BY <1>0, OwnerOfLive
  <2>2. e.index \in 0..(sparseCap[c] - 1)
    BY PoolFacts DEF Holds, Handle
  <2> QED BY <2>1, <2>2
<1>2. last \in Nat /\ denseCap[c] \in Nat /\ last < denseCap[c]
  <2>1. denseCount[c] \in Nat /\ denseCap[c] \in Nat /\ denseCount[c] <= denseCap[c]
    BY DEF IInv, TypeOK, PoolsOK, PoolOK
  <2> QED BY <1>0, <1>1, <2>1
<1>3. moved \in 0..(sparseCap[c] - 1) /\ sparse[c][moved] = last
  BY <1>0, <1>2, PoolFacts
<1>4. /\ DOMAIN sparse[c] = 0..(sparseCap[c] - 1)
      /\ DOMAIN denseData[c] = 0..(denseCap[c] - 1)
  BY DEF IInv, TypeOK, PoolsOK, PoolOK
<1>5. /\ sparse'[c] = [[sparse[c] EXCEPT ![moved] = slot] EXCEPT ![e.index] = INVALID]
      /\ denseOwner'[c] = [s \in 0..(last - 1) |->
                             denseOwner[c][IF s = slot THEN last ELSE s]]
      /\ denseData'[c] = [denseData[c] EXCEPT ![slot] = denseData[c][last]]
      /\ denseCount'[c] = last
  BY <1>0 DEF SparseWithout, OwnerWithout, DataWithout
<1>6. \A i \in 0..(sparseCap[c] - 1) :
        sparse'[c][i] = IF i = e.index THEN INVALID
                        ELSE IF i = moved THEN slot ELSE sparse[c][i]
  BY <1>1, <1>3, <1>4, <1>5
<1>7. \A s \in 0..(last - 1) :
        denseOwner'[c][s] = IF s = slot THEN denseOwner[c][last] ELSE denseOwner[c][s]
  BY <1>5
<1>8. \A s \in 0..last :
        denseData'[c][s] = IF s = slot THEN denseData[c][last] ELSE denseData[c][s]
  <2>1. \A s \in 0..last : s \in 0..(denseCap[c] - 1) BY <1>2
  <2> QED BY <1>1, <1>4, <1>5, <2>1
<1>9. e \in Owners(c)
  BY <1>0, <1>1 DEF Owners
<1>10. ASSUME NEW h \in Owners(c), h # e
       PROVE  /\ h.index \in 0..(sparseCap[c] - 1) /\ h.index # e.index
              /\ sparse[c][h.index] \in 0..last /\ sparse[c][h.index] # slot
              /\ denseOwner[c][sparse[c][h.index]] = h
  <2>1. /\ h.index \in 0..(sparseCap[c] - 1)
        /\ sparse[c][h.index] \in 0..last
        /\ denseOwner[c][sparse[c][h.index]] = h
    BY <1>0, OwnerFacts
  <2>2. h.index # e.index
    BY <1>9, <1>10, OwnerFacts
  <2> QED BY <1>1, <1>10, <2>1, <2>2
<1>11. ASSUME NEW h \in Owners(c), h # e
       PROVE  /\ sparse'[c][h.index] \in 0..(last - 1)
              /\ denseOwner'[c][sparse'[c][h.index]] = h
              /\ Cell(c, h)' = Cell(c, h)
  <2>0. PICK t : t = sparse[c][h.index]
    OBVIOUS
  <2>1. /\ h.index \in 0..(sparseCap[c] - 1) /\ h.index # e.index
        /\ t \in 0..last /\ t # slot /\ denseOwner[c][t] = h
    BY <1>10, <1>11, <2>0
  <2>2. CASE t = last
    <3>1. h.index = moved BY <1>0, <2>1, <2>2
    <3>2. sparse'[c][h.index] = slot BY <1>6, <2>1, <3>1
    <3>3. slot \in 0..(last - 1) BY <1>1, <1>2, <2>1, <2>2
    <3>4. denseOwner'[c][slot] = h BY <1>7, <2>1, <2>2, <3>3
    <3>5. denseData'[c][slot] = denseData[c][t] BY <1>1, <1>8, <2>2
    <3> QED BY <2>0, <3>2, <3>3, <3>4, <3>5 DEF Cell
  <2>3. CASE t # last
    <3>1. h.index # moved BY <1>3, <2>0, <2>3
    <3>2. sparse'[c][h.index] = t BY <1>6, <2>0, <2>1, <3>1
    <3>3. t \in 0..(last - 1) BY <1>2, <2>1, <2>3
    <3>4. denseOwner'[c][t] = h BY <1>7, <2>1, <3>3
    <3>5. denseData'[c][t] = denseData[c][t] BY <1>8, <2>1
    <3> QED BY <2>0, <3>2, <3>3, <3>4, <3>5 DEF Cell
  <2> QED BY <2>2, <2>3
<1>12. Owners(c)' = Owners(c) \ {e}
  <2>0. Owners(c)' = {denseOwner'[c][s] : s \in 0..(last - 1)}
    BY <1>5 DEF Owners
  <2>1. ASSUME NEW h \in Owners(c), h # e PROVE h \in Owners(c)'
    BY <1>11, <2>0, <2>1
  <2>2. ASSUME NEW s \in 0..(last - 1)
        PROVE  denseOwner'[c][s] \in Owners(c) \ {e}
    <3>1. \A t \in 0..last : denseOwner[c][t] \in Owners(c)
      BY <1>0 DEF Owners
    <3>2. \A t \in 0..last : t # slot => denseOwner[c][t] # e
      <4>1. \A t \in 0..last : sparse[c][denseOwner[c][t].index] = t
        BY <1>0, PoolFacts
      <4> QED BY <1>0, <4>1
    <3>3. s \in 0..last /\ s # last /\ last \in 0..last BY <1>2
    <3> QED BY <1>7, <3>1, <3>2, <3>3
  <2> QED BY <2>0, <2>1, <2>2
<1>13. Component(c)' = [h \in Owners(c) \ {e} |-> Cell(c, h)']
  BY <1>12 DEF Component, Owners, Cell
<1>14. \A h \in Owners(c) : Component(c)[h] = Cell(c, h)
  BY DEF Component, Owners, Cell
<1> QED BY <1>9, <1>11, <1>13, <1>14

\* World::Destroy visits every pool that holds the entity, so no pool keeps a
\* component of it.
LEMMA DropsAll ==
  ASSUME IInv, NEW e \in Handle, Live(e), Destroy(e), NEW c \in C
  PROVE  Component(c)' = [h \in DOMAIN Component(c) \ {e} |-> Component(c)[h]]
<1>1. DOMAIN Component(c) = Owners(c)
  BY DEF Component, Owners
<1>2. CASE c \in poPools /\ Holds(c, e)
  <2>1. /\ sparse'[c] = SparseWithout(c, e)
        /\ denseOwner'[c] = OwnerWithout(c, e)
        /\ denseData'[c] = DataWithout(c, e)
        /\ denseCount'[c] = denseCount[c] - 1
    BY <1>2 DEF Destroy, RemoveFrom
  <2> QED BY <1>1, <1>2, <2>1, DropOne
<1>3. CASE ~(c \in poPools /\ Holds(c, e))
  <2>1. /\ sparse'[c] = sparse[c] /\ denseOwner'[c] = denseOwner[c]
        /\ denseData'[c] = denseData[c] /\ denseCount'[c] = denseCount[c]
    BY <1>3 DEF Destroy, RemoveFrom
  <2>2. Component(c)' = Component(c)
    BY <2>1, PoolKept
  <2>3. e \notin Owners(c)
    <3> SUFFICES ASSUME e \in Owners(c) PROVE FALSE
      OBVIOUS
    <3>1. Holds(c, e)
      BY OwnerFacts, PoolFacts, InvalidAssumption DEF Holds
    <3>2. c \in poPools
      <4>1. sparse[c][e.index] \in 0..(denseCount[c] - 1)
        BY <3>1, OwnerOfLive
      <4> QED BY <4>1 DEF IInv, OwnersAlive
    <3> QED BY <1>3, <3>1, <3>2
  <2>4. Component(c) = [h \in DOMAIN Component(c) |-> Component(c)[h]]
    BY DEF Component
  <2>5. Owners(c) \ {e} = Owners(c)
    BY <2>3
  <2> QED BY <1>1, <2>2, <2>4, <2>5
<1> QED BY <1>2, <1>3

\* World::Destroy of a live handle: the handle dies, no other does, and its
\* components go with it.  This is where the generation must not wrap.
LEMMA StoreDestroy ==
  ASSUME MaxGen < GenMod, IInv, NEW e \in Handle, Issued(e), Destroy(e)
  PROVE  Store!Next
<1>0. PICK i, g : i = e.index /\ g = e.generation
  OBVIOUS
<1>1. /\ i \in Nat /\ g \in Nat /\ i < mSlotCount /\ mSlotCount \in Nat
      /\ i \in 0..(mSlotCap - 1)
      /\ poGeneration[i] = g /\ g < MaxGen /\ ~IsFree(i)
  <2>1. i \in Nat /\ g \in Nat /\ i < mSlotCount /\ poGeneration[i] = g /\ g < MaxGen
    BY <1>0 DEF Destroy, IsAlive, Handle
  <2>2. mSlotCap \in Nat /\ mSlotCount \in 0..mSlotCap
    BY SlotFacts
  <2>3. mSlotCount \in Nat /\ i \in 0..(mSlotCap - 1)
    BY <2>1, <2>2
  <2>4. ~IsFree(i)
    BY <1>0, <2>1 DEF Issued
  <2> QED BY <2>1, <2>3, <2>4
<1>2. Live(e)
  BY <1>0, <1>1 DEF Live
<1>3. /\ mSlotCount' = mSlotCount
      /\ poGeneration'[i] = g + 1
      /\ \A j \in 0..(mSlotCap - 1) : j # i => poGeneration'[j] = poGeneration[j]
  <2>1. poGeneration' = [poGeneration EXCEPT ![i] = (poGeneration[i] + 1) % GenMod]
    BY <1>0 DEF Destroy
  <2>2. DOMAIN poGeneration = 0..(mSlotCap - 1)
    BY DEF IInv, TypeOK, SlotsOK
  <2>3. (g + 1) % GenMod = g + 1
    BY <1>1, GenAssumption
  <2>4. mSlotCount' = mSlotCount
    BY DEF Destroy
  <2> QED BY <1>1, <2>1, <2>2, <2>3, <2>4
<1>4. \A j : IsFree(j)' <=> IsFree(j) \/ j = i
  <2>1. /\ Len(poFreeList) \in Nat /\ Len(poFreeList') = Len(poFreeList) + 1
        /\ \A k \in 1..Len(poFreeList) : poFreeList'[k] = poFreeList[k]
        /\ poFreeList'[Len(poFreeList) + 1] = i
    <3>1. poFreeList \in Seq(0..(mSlotCount - 1)) /\ i \in 0..(mSlotCount - 1)
      BY <1>1, SlotFacts
    <3>2. poFreeList' = Append(poFreeList, i)
      BY <1>0 DEF Destroy
    <3> QED BY <3>1, <3>2, AppendProperties
  <2>2. PICK n \in Nat : n = Len(poFreeList)
    BY <2>1
  <2>3. \A k \in 1..(n + 1) : k \in 1..n \/ k = n + 1
    BY <2>2
  <2>4. \A k \in 1..n : k \in 1..(n + 1)
    BY <2>2
  <2>5. n + 1 \in 1..(n + 1)
    BY <2>2
  <2>6. ASSUME NEW j PROVE IsFree(j)' <=> IsFree(j) \/ j = i
    <3>1. IsFree(j)' <=> \E k \in 1..(n + 1) : poFreeList'[k] = j
      BY <2>1, <2>2 DEF IsFree
    <3>2. IsFree(j) <=> \E k \in 1..n : poFreeList[k] = j
      BY <2>2 DEF IsFree
    <3> QED BY <2>1, <2>2, <2>3, <2>4, <2>5, <3>1, <3>2
  <2> QED BY <2>6
<1>5. \A h \in Handle : h.index = i /\ h.generation = g => h = e
  BY <1>0 DEF Handle
<1>6. ASSUME NEW h \in Handle
      PROVE  /\ Live(h)' <=> Live(h) /\ h # e
             /\ Issued(h)' <=> Issued(h)
  <2>1. h.index \in Nat /\ h.generation \in Nat
    BY DEF Handle
  <2>2. CASE h.index = i
    <3>1. Issued(h) <=> h.generation < g \/ h.generation = g
      BY <1>1, <2>2 DEF Issued
    <3>2. Issued(h)' <=> h.generation < g + 1
      BY <1>1, <1>3, <1>4, <2>2 DEF Issued
    <3>3. Live(h) <=> h.generation = g
      BY <1>1, <2>2, <3>1 DEF Live
    <3>4. h.generation = g <=> h = e
      BY <1>0, <1>5, <2>2
    <3>5. ~Live(h)'
      BY <1>1, <1>3, <2>1, <2>2, <3>2 DEF Live
    <3>6. h.generation < g + 1 <=> h.generation < g \/ h.generation = g
      BY <1>1, <2>1
    <3> QED BY <3>1, <3>2, <3>3, <3>4, <3>5, <3>6
  <2>3. CASE h.index # i
    <3>1. h # e BY <1>0, <2>3
    <3>2. h.index < mSlotCount => poGeneration'[h.index] = poGeneration[h.index]
      <4>1. mSlotCount \in Nat /\ mSlotCap \in Nat /\ mSlotCount <= mSlotCap
        BY SlotFacts
      <4>2. h.index < mSlotCount => h.index \in 0..(mSlotCap - 1)
        BY <2>1, <4>1
      <4> QED BY <1>3, <2>3, <4>2
    <3> QED BY <1>3, <1>4, <2>3, <3>1, <3>2 DEF Issued, Live
  <2> QED BY <2>2, <2>3
<1>7. Lives' = Lives \ {e} /\ Dead' = Dead \cup {e}
  BY <1>2, <1>6 DEF Lives, Dead
<1>8. e \in Lives
  BY <1>2 DEF Lives
<1>9. [c \in C |-> Component(c)]' =
        [c \in C |-> [h \in DOMAIN Component(c) \ {e} |-> Component(c)[h]]]
  BY <1>2, DropsAll
<1>10. Store!Destroy(e)
  BY <1>7, <1>8, <1>9 DEF Store!Destroy, Store!Restrict, Lives, Dead
<1> QED BY <1>10 DEF Store!Next

\* Creating an empty pool is invisible.
LEMMA StoreQuiet ==
  ASSUME UNCHANGED <<slotVars, sparse, denseOwner, denseData, denseCount>>
  PROVE  UNCHANGED Store!storeVars
<1>1. Lives' = Lives /\ Dead' = Dead
  BY SlotsKept DEF slotVars
<1>2. [c \in C |-> Component(c)]' = [c \in C |-> Component(c)]
  BY PoolKept
<1> QED BY <1>1, <1>2 DEF Store!storeVars, Lives, Dead

\* Every operation of the registry is a step of the store or no step of it.
LEMMA StoreNext ==
  ASSUME MaxGen < GenMod, IInv, [Next]_vars
  PROVE  [Store!Next]_(Store!storeVars)
<1>1. CASE CreateRecycled
  BY <1>1, StoreRecycled
<1>2. CASE CreateFresh
  BY <1>2, StoreFresh
<1>3. ASSUME NEW e \in Handle, Issued(e), Destroy(e) PROVE Store!Next
  BY <1>3, StoreDestroy
<1>4. ASSUME NEW e \in Handle, DestroyStale(e) PROVE UNCHANGED Store!storeVars
  BY <1>4, StoreQuiet DEF DestroyStale, vars, poolVars
<1>5. ASSUME NEW e \in Handle, Issued(e), NEW c \in C, Add(c, e) PROVE Store!Next
  BY <1>5, StoreAdd
<1>6. ASSUME NEW e \in Handle, NEW c \in C, Miss(c, e) PROVE UNCHANGED Store!storeVars
  BY <1>6, StoreQuiet DEF Miss
<1>7. ASSUME NEW e \in Handle, NEW c \in C, NEW v \in Value, Write(c, e, v)
      PROVE  Store!Next
  BY <1>7, StoreWrite
<1>8. CASE UNCHANGED vars
  BY <1>8, StoreQuiet DEF vars, poolVars
<1> QED BY <1>1, <1>2, <1>3, <1>4, <1>5, <1>6, <1>7, <1>8 DEF Next

\* World and its pools implement EntityStore: a handle is issued once and dies
\* once, and its component keeps the value it wrote wherever the removals of
\* others move it (World.cpp, ComponentPool.h).
THEOREM ArraysAreTheStore ==
  ASSUME MaxGen < GenMod
  PROVE  Spec => ImplementsStore
<1>1. Init => Store!Init
  BY StoreInit
<1>2. IInv /\ [Next]_vars => [Store!Next]_(Store!storeVars)
  BY StoreNext
<1> QED BY <1>1, <1>2, Invariance, PTL DEF Spec, ImplementsStore, Store!Spec
------------------------------------------------------------------------------
(* The sweeps of PlaceSweep.                                               *)

\* Every cell of pool c holds a component of kind S or what new[] left there;
\* a cell in use holds the latter only before whoever added it has written it.
CellsOf(c, S) ==
  /\ \A s \in 0..(denseCap[c] - 1) : denseData[c][s] \in S \cup {Garbage}
  /\ \A s \in 0..(denseCount[c] - 1) :
       filling = <<c, denseOwner[c][s]>> \/ denseData[c][s] \in S

DataRight == CellsOf(T, Transform) /\ CellsOf(R, Rotate)

\* Between the two sweeps every world matrix is the plain one.
AllPlain ==
  \A s \in 0..(denseCount[T] - 1) :
    denseData[T][s].world = Composed(denseData[T][s].at, 0)

SweepRight ==
  /\ ran \in 0..2
  /\ filling # <<>> => ran = 0 /\ filling \in {T, R} \X Handle
  /\ ran = 1 => AllPlain
  /\ EveryPlaceIsOwn

PlaceInv == IInv /\ DataRight /\ SweepRight

------------------------------------------------------------------------------
\* The types of a pool, by its component type.
LEMMA PoolTypes ==
  ASSUME IInv, NEW c \in C
  PROVE  /\ denseCount[c] \in Nat /\ denseCap[c] \in Nat
         /\ denseCount[c] <= denseCap[c]
         /\ denseData[c] \in [0..(denseCap[c] - 1) -> Value \cup {Garbage}]
         /\ DOMAIN denseData = C
  BY DEF IInv, TypeOK, PoolsOK, PoolOK

\* The entry of an entity that has a component leads to a cell in use.
LEMMA EntryInUse ==
  ASSUME IInv, NEW c \in C, NEW e \in Handle, Has(c, e)
  PROVE  /\ sparse[c][e.index] \in 0..(denseCount[c] - 1)
         /\ sparse[c][e.index] \in 0..(denseCap[c] - 1)
         /\ \A s \in 0..(denseCount[c] - 1) :
              denseOwner[c][s] = e => s = sparse[c][e.index]
<1>1. e.index \in 0..(sparseCap[c] - 1) /\ sparse[c][e.index] # INVALID
  BY PoolFacts DEF Has, Handle
<1> QED
  BY <1>1, PoolFacts, PoolTypes

\* A turn and a placement make a world matrix.
LEMMA Composes ==
  ASSUME NEW p \in Placement, NEW a \in Angle
  PROVE  Composed(p, a) \in Placement \X Angle
  BY DEF Composed

\* What is being filled is nothing or one component.
LEMMA PairsDiffer ==
  /\ \A a, b : <<>> # <<a, b>>
  /\ \A a, b, c, d : <<a, b>> = <<c, d>> => a = c /\ b = d
  OBVIOUS

\* The list of the systems.
LEMMA TwoSystems ==
  Len(Systems) = 2 /\ Systems[1] = "LocalToWorld" /\ Systems[2] = "Rotate"
  BY DEF Systems

\* A cube turns from angle to angle.
LEMMA AnglesTurn ==
  /\ 0 \in Angle
  /\ \A a \in Angle : (a + 1) % Turns \in Angle
  BY TurnsAssumption, SMT DEF Angle

------------------------------------------------------------------------------
(* The operations of the registry keep the cells of their kinds.           *)

\* As long as the pools are left alone.
LEMMA CellsStay ==
  ASSUME NEW c, NEW S, CellsOf(c, S), UNCHANGED <<poolVars, filling>>
  PROVE  CellsOf(c, S)'
  BY DEF CellsOf, poolVars

\* The last component moves into the hole.
LEMMA DestroyCells ==
  ASSUME IInv, NEW c \in C, NEW S, CellsOf(c, S), filling = <<>>, filling' = <<>>,
         NEW e \in Handle, Issued(e), Destroy(e)
  PROVE  CellsOf(c, S)'
<1>1. Live(e)
  BY DEF Destroy, IsAlive, Live
<1>2. /\ denseCount[c] \in Nat /\ denseCap[c] \in Nat /\ denseCount[c] <= denseCap[c]
      /\ DOMAIN denseData[c] = 0..(denseCap[c] - 1)
  BY PoolTypes
<1>3. \A s \in 0..(denseCount[c] - 1) : denseData[c][s] \in S
  BY DEF CellsOf
<1>4. denseCap'[c] = denseCap[c]
  BY DEF Destroy, RemoveFrom
<1>5. CASE c \in poPools /\ Holds(c, e)
  <2>1. /\ denseData'[c] = DataWithout(c, e)
        /\ denseCount'[c] = denseCount[c] - 1
    BY <1>5 DEF Destroy, RemoveFrom
  <2>2. sparse[c][e.index] \in 0..(denseCount[c] - 1)
    BY <1>1, <1>5, OwnerOfLive
  <2>3. \A s \in 0..(denseCap[c] - 1) :
          denseData'[c][s] = IF s = sparse[c][e.index]
                             THEN denseData[c][denseCount[c] - 1] ELSE denseData[c][s]
    BY <1>2, <2>1, <2>2 DEF DataWithout
  <2>4. denseCount[c] - 1 \in 0..(denseCount[c] - 1)
    BY <1>2, <2>2
  <2>5. denseData[c][denseCount[c] - 1] \in S
    BY <1>3, <2>4
  <2>6. \A s \in 0..(denseCap'[c] - 1) : denseData'[c][s] \in S \cup {Garbage}
    BY <1>4, <2>3, <2>5 DEF CellsOf
  <2>7. \A s \in 0..(denseCount'[c] - 1) :
          s \in 0..(denseCount[c] - 1) /\ s \in 0..(denseCap[c] - 1)
    BY <1>2, <2>1
  <2>8. \A s \in 0..(denseCount'[c] - 1) : denseData'[c][s] \in S
    BY <1>3, <2>3, <2>5, <2>7
  <2> QED
    BY <2>6, <2>8 DEF CellsOf
<1>6. CASE ~ (c \in poPools /\ Holds(c, e))
  <2>1. denseData'[c] = denseData[c] /\ denseCount'[c] = denseCount[c]
    BY <1>6 DEF Destroy, RemoveFrom
  <2> QED
    BY <1>3, <1>4, <2>1 DEF CellsOf
<1> QED
  BY <1>5, <1>6

\* A new cell is one that somebody has yet to write.
LEMMA AddCells ==
  ASSUME IInv, NEW c \in C, NEW S, CellsOf(c, S), filling = <<>>,
         NEW d \in C, NEW e \in Handle, Add(d, e), filling' = <<d, e>>
  PROVE  CellsOf(c, S)'
<1>1. /\ denseCount[c] \in Nat /\ denseCap[c] \in Nat /\ denseCount[c] <= denseCap[c]
      /\ DOMAIN denseData = C
  BY PoolTypes
<1>2. \A s \in 0..(denseCount[c] - 1) : denseData[c][s] \in S
  BY DEF CellsOf
<1>3. DOMAIN denseCap = C /\ DOMAIN denseCount = C /\ DOMAIN denseOwner = C
  BY DEF IInv, TypeOK, PoolsOK
<1>4. CASE c = d
  <2>1. PICK cap \in Capacities :
          /\ Grown(denseCap[d], denseCount[d] + 1, cap)
          /\ denseCap' = [denseCap EXCEPT ![d] = cap]
          /\ denseData' = [denseData EXCEPT ![d] =
               [s \in 0..(cap - 1) |-> IF s < denseCap[d] THEN @[s] ELSE Garbage]]
    BY DEF Add
  <2>2. cap \in Nat /\ denseCount[c] + 1 <= cap
    <3>1. cap \in Nat
      BY MaxSlotsAssumption, InitCapAssumption DEF Capacities
    <3>2. denseCap[c] \in Nat /\ denseCount[c] + 1 \in Nat
      BY <1>1
    <3>3. Grown(denseCap[c], denseCount[c] + 1, cap)
      BY <1>4, <2>1
    <3> QED
      BY <3>1, <3>2, <3>3, GrownFits
  <2>3. /\ denseCap'[c] = cap
        /\ \A s \in 0..(cap - 1) :
             denseData'[c][s] = IF s < denseCap[c] THEN denseData[c][s] ELSE Garbage
    BY <1>1, <1>3, <1>4, <2>1
  <2>4. /\ denseCount'[c] = denseCount[c] + 1
        /\ \A s \in 0..denseCount[c] :
             denseOwner'[c][s] = IF s = denseCount[c] THEN e ELSE denseOwner[c][s]
    BY <1>3, <1>4 DEF Add
  <2>5. \A s \in 0..(denseCap'[c] - 1) : denseData'[c][s] \in S \cup {Garbage}
    BY <1>1, <2>2, <2>3 DEF CellsOf
  <2>6. ASSUME NEW s \in 0..(denseCount'[c] - 1)
        PROVE  filling' = <<c, denseOwner'[c][s]>> \/ denseData'[c][s] \in S
    <3>1. CASE s = denseCount[c]
      BY <1>1, <1>4, <2>4, <3>1
    <3>2. CASE s # denseCount[c]
      <4>1. s \in 0..(denseCount[c] - 1) /\ s \in 0..(cap - 1) /\ s < denseCap[c]
        BY <1>1, <2>2, <2>4, <3>2
      <4> QED
        BY <1>2, <2>3, <4>1
    <3> QED
      BY <3>1, <3>2
  <2> QED
    BY <2>5, <2>6 DEF CellsOf
<1>5. CASE c # d
  <2>1. /\ denseCap'[c] = denseCap[c] /\ denseData'[c] = denseData[c]
        /\ denseCount'[c] = denseCount[c]
    BY <1>1, <1>3, <1>5 DEF Add
  <2> QED
    BY <1>2, <2>1 DEF CellsOf
<1> QED
  BY <1>4, <1>5

\* A write of the right kind, the first one of a new cell among them.
LEMMA WriteCells ==
  ASSUME IInv, NEW c \in C, NEW S, CellsOf(c, S),
         NEW d \in C, NEW e \in Handle, NEW v, Write(d, e, v), c = d => v \in S,
         filling \in {<<>>, <<d, e>>}, filling' = <<>>
  PROVE  CellsOf(c, S)'
<1>1. /\ denseCount[c] \in Nat /\ denseCap[c] \in Nat /\ denseCount[c] <= denseCap[c]
      /\ DOMAIN denseData = C
      /\ DOMAIN denseData[c] = 0..(denseCap[c] - 1)
  BY PoolTypes
<1>2. /\ denseData' = [denseData EXCEPT ![d][sparse[d][e.index]] = v]
      /\ denseCap' = denseCap /\ denseCount' = denseCount /\ Has(d, e)
  BY DEF Write
<1>3. CASE c = d
  <2>1. \A s \in 0..(denseCap[c] - 1) :
          denseData'[c][s] = IF s = sparse[c][e.index] THEN v ELSE denseData[c][s]
    BY <1>1, <1>2, <1>3
  <2>2. ASSUME NEW s \in 0..(denseCount[c] - 1) PROVE denseData'[c][s] \in S
    <3>1. s \in 0..(denseCap[c] - 1)
      BY <1>1
    <3>2. CASE s = sparse[c][e.index]
      BY <1>3, <2>1, <3>1, <3>2
    <3>3. CASE s # sparse[c][e.index]
      <4>1. denseOwner[c][s] # e
        BY <1>2, <1>3, <3>3, EntryInUse
      <4>2. filling # <<c, denseOwner[c][s]>>
        <5>1. filling = <<>> \/ filling = <<c, e>>
          BY <1>3
        <5> QED
          BY <4>1, <5>1, PairsDiffer, Zenon
      <4> QED
        BY <2>1, <3>1, <3>3, <4>2 DEF CellsOf
    <3> QED
      BY <3>2, <3>3
  <2> QED
    BY <1>2, <1>3, <2>1, <2>2 DEF CellsOf
<1>4. CASE c # d
  <2>1. denseData'[c] = denseData[c]
    BY <1>1, <1>2, <1>4
  <2>2. \A s \in 0..(denseCount[c] - 1) : filling # <<c, denseOwner[c][s]>>
    <3> TAKE s \in 0..(denseCount[c] - 1)
    <3> DEFINE o == denseOwner[c][s]
    <3>1. <<>> # <<c, o>> /\ <<d, e>> # <<c, o>>
      BY <1>4, PairsDiffer, Zenon
    <3> QED
      BY <3>1
  <2> QED
    BY <1>2, <2>1, <2>2 DEF CellsOf
<1> QED
  BY <1>3, <1>4

------------------------------------------------------------------------------
(* The sweeps.                                                             *)

\* Writing cells in place keeps the registry as it is.
LEMMA SweepKeepsWorld ==
  ASSUME IInv, UNCHANGED <<slotVars, sparse, sparseCap, denseOwner, denseCount, denseCap>>,
         poPools \subseteq poPools', poPools' \subseteq C,
         DOMAIN denseData' = C,
         \A c \in C : denseData'[c] \in [0..(denseCap[c] - 1) -> Value \cup {Garbage}]
  PROVE  IInv'
<1>1. TypeOK'
  <2>1. ASSUME NEW c \in C PROVE PoolOK(c)'
    BY DEF IInv, TypeOK, PoolsOK, PoolOK
  <2>2. PoolsOK'
    BY <2>1 DEF IInv, TypeOK, PoolsOK
  <2>3. SlotsOK'
    BY DEF IInv, TypeOK, SlotsOK, slotVars
  <2> QED
    BY <2>2, <2>3 DEF TypeOK
<1>2. /\ poGeneration' = poGeneration /\ mSlotCount' = mSlotCount
      /\ poFreeList' = poFreeList
  BY DEF slotVars
<1>3. SparseDenseInverse'
  BY DEF IInv, SparseDenseInverse
<1>4. OwnersAlive'
  BY <1>2 DEF IInv, OwnersAlive, Live, Issued, IsFree
<1>5. FreeListDistinct'
  BY <1>2 DEF IInv, FreeListDistinct
<1> QED
  BY <1>1, <1>3, <1>4, <1>5 DEF IInv

\* The first sweep makes every matrix in use a plain one.
LEMMA LocalToWorldInv ==
  ASSUME PlaceInv, LocalToWorld
  PROVE  PlaceInv'
<1>1. /\ IInv /\ T \in C /\ R \in C /\ T # R /\ filling = <<>> /\ filling' = <<>>
      /\ UNCHANGED <<slotVars, sparse, sparseCap, denseOwner, denseCount, denseCap>>
      /\ poPools' = poPools \cup {T} /\ poPools \subseteq C
  BY SweptAssumption
  DEF PlaceInv, LocalToWorld, Runs, Kept, Pool, IInv, TypeOK, PoolsOK
<1>2. ran = 0 /\ ran' = 1
  BY DEF PlaceInv, SweepRight, LocalToWorld, Runs, Systems
<1>3. /\ denseCount[T] \in Nat /\ denseCap[T] \in Nat /\ denseCount[T] <= denseCap[T]
      /\ DOMAIN denseData = C
      /\ \A c \in C : denseData[c] \in [0..(denseCap[c] - 1) -> Value \cup {Garbage}]
  BY <1>1, PoolTypes
<1>4. /\ DOMAIN denseData' = C
      /\ \A c \in C \ {T} : denseData'[c] = denseData[c]
      /\ denseData'[T] = [s \in 0..(denseCap[T] - 1) |->
           IF s < denseCount[T]
           THEN [denseData[T][s] EXCEPT !.world = Composed(denseData[T][s].at, 0)]
           ELSE denseData[T][s]]
  BY <1>1, <1>3 DEF LocalToWorld
<1>5. ASSUME NEW s \in 0..(denseCount[T] - 1)
      PROVE  /\ denseData'[T][s] \in Transform
             /\ denseData'[T][s].world = Composed(denseData'[T][s].at, 0)
  <2>1. s \in 0..(denseCap[T] - 1) /\ s < denseCount[T]
    BY <1>3
  <2>2. denseData[T][s] \in Transform
    BY <1>1 DEF PlaceInv, DataRight, CellsOf
  <2>3. denseData'[T][s] =
          [denseData[T][s] EXCEPT !.world = Composed(denseData[T][s].at, 0)]
    BY <1>4, <2>1
  <2>4. Composed(denseData[T][s].at, 0) \in Placement \X Angle
    BY <2>2, AnglesTurn, Composes DEF Transform
  <2> QED
    BY <2>2, <2>3, <2>4 DEF Transform
<1>6. \A s \in 0..(denseCap[T] - 1) : denseData'[T][s] \in Transform \cup {Garbage}
  <2> SUFFICES ASSUME NEW s \in 0..(denseCap[T] - 1)
               PROVE  denseData'[T][s] \in Transform \cup {Garbage}
    OBVIOUS
  <2>1. CASE s < denseCount[T]
    BY <1>3, <1>5, <2>1
  <2>2. CASE ~ (s < denseCount[T])
    BY <1>4, <2>2 DEF PlaceInv, DataRight, CellsOf
  <2> QED
    BY <2>1, <2>2
<1>7. IInv'
  <2>1. denseData'[T] \in [0..(denseCap[T] - 1) -> Value \cup {Garbage}]
    BY <1>4, <1>6, StoredAssumption
  <2>2. \A c \in C : denseData'[c] \in [0..(denseCap[c] - 1) -> Value \cup {Garbage}]
    BY <1>3, <1>4, <2>1
  <2> QED
    BY <1>1, <1>4, <2>2, SweepKeepsWorld
<1>8. DataRight'
  BY <1>1, <1>4, <1>5, <1>6 DEF PlaceInv, DataRight, CellsOf
<1>9. SweepRight'
  BY <1>1, <1>2, <1>5, TwoSystems DEF SweepRight, AllPlain, EveryPlaceIsOwn
<1> QED
  BY <1>7, <1>8, <1>9 DEF PlaceInv

\* A rotate cell that turns a transform belongs to the transform's owner, and an
\* owner has one.
LEMMA TurnedByOwner ==
  ASSUME IInv, NEW s \in 0..(denseCount[T] - 1)
  PROVE  /\ Has(T, denseOwner[T][s]) /\ denseOwner[T][s] \in Handle
         /\ \A r \in Turning : Turned(r) = s =>
              /\ Has(R, denseOwner[T][s])
              /\ r = sparse[R][denseOwner[T][s].index]
         /\ Has(R, denseOwner[T][s]) =>
              /\ sparse[R][denseOwner[T][s].index] \in Turning
              /\ Turned(sparse[R][denseOwner[T][s].index]) = s
<1> DEFINE e == denseOwner[T][s]
<1>1. T \in C /\ R \in C
  BY SweptAssumption
<1>2. /\ e \in Handle /\ e.index \in 0..(sparseCap[T] - 1) /\ sparse[T][e.index] = s
      /\ Live(e)
  BY <1>1, PoolFacts DEF IInv, OwnersAlive
<1>3. Has(T, e)
  BY <1>1, <1>2, InvalidAssumption, PoolFacts DEF Has
<1>4. ASSUME NEW r \in Turning, Turned(r) = s
      PROVE  Has(R, e) /\ r = sparse[R][e.index]
  <2> DEFINE o == denseOwner[R][r]
  <2>1. /\ r \in 0..(denseCount[R] - 1) /\ Has(T, o) /\ sparse[T][o.index] = s
    BY <1>4 DEF Turning, Turned
  <2>2. /\ o \in Handle /\ o.index \in 0..(sparseCap[R] - 1) /\ sparse[R][o.index] = r
        /\ Live(o)
    BY <1>1, <2>1, PoolFacts DEF IInv, OwnersAlive
  <2>3. o = e
    BY <1>1, <2>1, <2>2, OwnerOfLive DEF Has, Holds
  <2>4. Has(R, o)
    BY <1>1, <2>1, <2>2, InvalidAssumption, PoolFacts DEF Has
  <2> QED
    BY <2>2, <2>3, <2>4
<1>5. ASSUME Has(R, e)
      PROVE  sparse[R][e.index] \in Turning /\ Turned(sparse[R][e.index]) = s
  <2> DEFINE r == sparse[R][e.index]
  <2>1. r \in 0..(denseCount[R] - 1)
    BY <1>1, <1>2, <1>5, EntryInUse
  <2>2. denseOwner[R][r] = e
    BY <1>1, <1>2, <1>5, OwnerOfLive DEF Has, Holds
  <2> QED
    BY <1>2, <1>3, <2>1, <2>2 DEF Turning, Turned
<1> QED
  BY <1>2, <1>3, <1>4, <1>5

\* The second one writes the matrices of those that turn, and only those.
LEMMA RotateSweepInv ==
  ASSUME PlaceInv, RotateSweep
  PROVE  PlaceInv'
<1>1. /\ IInv /\ T \in C /\ R \in C /\ T # R /\ filling = <<>> /\ filling' = <<>>
      /\ UNCHANGED <<slotVars, sparse, sparseCap, denseOwner, denseCount, denseCap>>
      /\ poPools \subseteq poPools' /\ poPools' \subseteq C
  BY SweptAssumption DEF PlaceInv, RotateSweep, Runs, Kept, IInv, TypeOK, PoolsOK
<1>2. ran = 1 /\ ran' = 2
  BY TwoSystems DEF PlaceInv, SweepRight, RotateSweep, Runs
<1>3. /\ \A c \in C : /\ denseCount[c] \in Nat /\ denseCap[c] \in Nat
                       /\ denseCount[c] <= denseCap[c]
                       /\ denseData[c] \in [0..(denseCap[c] - 1) -> Value \cup {Garbage}]
      /\ DOMAIN denseData = C
  BY <1>1, PoolTypes
<1>4. /\ DOMAIN denseData' = C
      /\ \A c \in C \ {T, R} : denseData'[c] = denseData[c]
      /\ denseData'[R] = [r \in 0..(denseCap[R] - 1) |->
           IF r \in Turning THEN [angle |-> AngleNext(r)] ELSE denseData[R][r]]
      /\ denseData'[T] = [s \in 0..(denseCap[T] - 1) |->
           IF \E r \in Turning : Turned(r) = s
           THEN LET r == CHOOSE r \in Turning : Turned(r) = s
                IN  [denseData[T][s] EXCEPT !.world =
                       Composed(denseData[T][s].at, AngleNext(r))]
           ELSE denseData[T][s]]
  BY <1>1, <1>3 DEF RotateSweep
<1>turned. \A r \in 0..(denseCap[R] - 1) :
             denseData'[R][r] = IF r \in Turning THEN [angle |-> AngleNext(r)]
                                                ELSE denseData[R][r]
  BY <1>4
<1>5. \A r \in Turning : r \in 0..(denseCount[R] - 1) /\ AngleNext(r) \in Angle
  <2> SUFFICES ASSUME NEW r \in Turning
               PROVE  r \in 0..(denseCount[R] - 1) /\ AngleNext(r) \in Angle
    OBVIOUS
  <2>1. r \in 0..(denseCount[R] - 1)
    BY DEF Turning
  <2>2. denseData[R][r] \in Rotate
    BY <1>1, <2>1, PairsDiffer DEF PlaceInv, DataRight, CellsOf
  <2> QED
    BY <2>1, <2>2, AnglesTurn DEF Rotate, AngleNext
<1>6. \A r \in 0..(denseCap[R] - 1) :
        /\ denseData'[R][r] \in Rotate \cup {Garbage}
        /\ r < denseCount[R] => denseData'[R][r] \in Rotate
  <2> SUFFICES ASSUME NEW r \in 0..(denseCap[R] - 1)
               PROVE  /\ denseData'[R][r] \in Rotate \cup {Garbage}
                      /\ r < denseCount[R] => denseData'[R][r] \in Rotate
    OBVIOUS
  <2>1. CASE r \in Turning
    <3>1. denseData'[R][r] = [angle |-> AngleNext(r)]
      BY <1>turned, <2>1, Zenon
    <3> QED
      BY <1>5, <2>1, <3>1 DEF Rotate
  <2>2. CASE r \notin Turning
    <3>1. denseData'[R][r] = denseData[R][r]
      BY <1>4, <2>2
    <3>2. r < denseCount[R] => r \in 0..(denseCount[R] - 1)
      BY <1>1, <1>3
    <3> QED
      BY <1>1, <3>1, <3>2, PairsDiffer DEF PlaceInv, DataRight, CellsOf
  <2> QED
    BY <2>1, <2>2
<1>7. ASSUME NEW s \in 0..(denseCount[T] - 1)
      PROVE  LET e == denseOwner[T][s]
             IN  /\ denseData'[T][s] \in Transform
                 /\ denseData'[T][s].world =
                      Composed(denseData'[T][s].at,
                               IF Has(R, e) THEN denseData'[R][sparse[R][e.index]].angle
                               ELSE 0)
  <2> DEFINE e == denseOwner[T][s]
             q == sparse[R][e.index]
             d == denseData[T][s]
  <2>1. s \in 0..(denseCap[T] - 1)
    BY <1>1, <1>3
  <2>2. d \in Transform
    BY <1>1, PairsDiffer DEF PlaceInv, DataRight, CellsOf
  <2>3. CASE Has(R, e)
    <3>1. q \in Turning /\ Turned(q) = s
      BY <1>1, <2>3, TurnedByOwner
    <3>2. \A r \in Turning : Turned(r) = s => r = q
      BY <1>1, TurnedByOwner
    <3>3. (CHOOSE r \in Turning : Turned(r) = s) = q
      BY <3>1, <3>2
    <3>4. denseData'[T][s] = [d EXCEPT !.world = Composed(d.at, AngleNext(q))]
      BY <1>4, <2>1, <3>1, <3>3
    <3>5. Composed(d.at, AngleNext(q)) \in Placement \X Angle
      BY <1>5, <2>2, <3>1, Composes DEF Transform
    <3>6. q \in 0..(denseCap[R] - 1)
      BY <1>1, <1>3, <1>5, <3>1
    <3>7. denseData'[R][q].angle = AngleNext(q)
      <4>1. denseData'[R][q] = [angle |-> AngleNext(q)]
        BY <1>turned, <3>1, <3>6, Zenon
      <4> QED
        BY <4>1
    <3> QED
      BY <2>2, <2>3, <3>4, <3>5, <3>7 DEF Transform
  <2>4. CASE ~ Has(R, e)
    <3>1. ~ \E r \in Turning : Turned(r) = s
      BY <1>1, <2>4, TurnedByOwner
    <3>2. denseData'[T][s] = d
      BY <1>4, <2>1, <3>1
    <3>3. d.world = Composed(d.at, 0)
      BY <1>2 DEF PlaceInv, SweepRight, AllPlain
    <3> QED
      BY <2>2, <2>4, <3>2, <3>3
  <2> QED
    BY <2>3, <2>4
<1>8. \A s \in 0..(denseCap[T] - 1) : denseData'[T][s] \in Transform \cup {Garbage}
  <2> SUFFICES ASSUME NEW s \in 0..(denseCap[T] - 1)
               PROVE  denseData'[T][s] \in Transform \cup {Garbage}
    OBVIOUS
  <2>1. CASE s < denseCount[T]
    <3>1. s \in 0..(denseCount[T] - 1)
      BY <1>1, <1>3, <2>1
    <3> QED
      BY <1>7, <3>1
  <2>2. CASE ~ (s < denseCount[T])
    <3>1. ASSUME NEW r \in Turning, Turned(r) = s PROVE FALSE
      <4>1. /\ denseOwner[R][r] \in Handle /\ Has(T, denseOwner[R][r])
        BY <1>1, <1>5, PoolFacts DEF Turning
      <4>2. s \in 0..(denseCount[T] - 1)
        BY <1>1, <3>1, <4>1, EntryInUse DEF Turned
      <4> QED
        BY <1>1, <1>3, <2>2, <4>2
    <3>2. denseData'[T][s] = denseData[T][s]
      BY <1>4, <3>1
    <3> QED
      BY <3>2 DEF PlaceInv, DataRight, CellsOf
  <2> QED
    BY <2>1, <2>2
<1>9. IInv'
  <2>1. /\ denseData'[T] \in [0..(denseCap[T] - 1) -> Value \cup {Garbage}]
        /\ denseData'[R] \in [0..(denseCap[R] - 1) -> Value \cup {Garbage}]
    BY <1>4, <1>6, <1>8, StoredAssumption
  <2>2. \A c \in C : denseData'[c] \in [0..(denseCap[c] - 1) -> Value \cup {Garbage}]
    BY <1>3, <1>4, <2>1
  <2> QED
    BY <1>1, <1>4, <2>2, SweepKeepsWorld
<1>10. DataRight'
  <2>1. \A r \in 0..(denseCount[R] - 1) : denseData'[R][r] \in Rotate
    BY <1>1, <1>3, <1>6
  <2> QED
    BY <1>1, <1>6, <1>7, <1>8, <2>1 DEF DataRight, CellsOf
<1>11. EveryPlaceIsOwn'
  <2>1. \A e : Has(R, e)' <=> Has(R, e)
    BY <1>1 DEF Has
  <2> QED
    BY <1>1, <1>7, <2>1 DEF EveryPlaceIsOwn
<1>12. SweepRight'
  BY <1>1, <1>2, <1>11 DEF SweepRight
<1> QED
  BY <1>9, <1>10, <1>12 DEF PlaceInv

------------------------------------------------------------------------------
(* The invariant.                                                          *)

\* The empty registry has no cells.
LEMMA PlaceInitInv == PlaceInit => PlaceInv
<1> SUFFICES ASSUME PlaceInit PROVE PlaceInv
  OBVIOUS
<1>1. IInv
  BY InitHolds DEF PlaceInit
<1>2. DataRight
  BY SweptAssumption DEF PlaceInit, Init, DataRight, CellsOf
<1>3. SweepRight
  BY TwoSystems DEF PlaceInit, SweepRight, EveryPlaceIsOwn
<1> QED
  BY <1>1, <1>2, <1>3 DEF PlaceInv

\* Outside the sweeps nothing is claimed of the matrices.
LEMMA BetweenFrames ==
  ASSUME ran' = 0, filling' = <<>> \/ filling' \in {T, R} \X Handle
  PROVE  SweepRight'
  BY TwoSystems DEF SweepRight, EveryPlaceIsOwn

\* One step for each action.
LEMMA PlaceNextInv == PlaceInv /\ [PlaceNext]_placeVars => PlaceInv'
<1> SUFFICES ASSUME PlaceInv, [PlaceNext]_placeVars PROVE PlaceInv'
  OBVIOUS
<1>1. /\ IInv /\ DataRight /\ SweepRight /\ T \in C /\ R \in C /\ T # R
      /\ CellsOf(T, Transform) /\ CellsOf(R, Rotate)
  BY SweptAssumption DEF PlaceInv, DataRight
<1>2. CASE CreateEntity
  <2>1. ran' = 0 /\ filling' = <<>> /\ UNCHANGED <<poolVars, filling>>
    BY <1>2 DEF CreateEntity, Idle, CreateRecycled, CreateFresh
  <2>2. IInv'
    BY <1>1, <1>2, CreateRecycledStep, CreateFreshStep DEF CreateEntity
  <2>3. DataRight'
    BY <1>1, <2>1, CellsStay DEF DataRight
  <2> QED
    BY <2>1, <2>2, <2>3, BetweenFrames DEF PlaceInv
<1>3. CASE DestroyEntity
  <2>1. PICK e \in Handle : Issued(e) /\ Destroy(e)
    BY <1>3 DEF DestroyEntity
  <2>2. ran' = 0 /\ filling = <<>> /\ filling' = <<>>
    BY <1>3 DEF DestroyEntity, Idle
  <2>3. IInv'
    BY <1>1, <2>1, DestroyStep
  <2>4. DataRight'
    BY <1>1, <2>1, <2>2, DestroyCells DEF DataRight
  <2> QED
    BY <2>2, <2>3, <2>4, BetweenFrames DEF PlaceInv
<1>4. CASE AddComponent
  <2>1. PICK c \in {T, R}, e \in Handle : Live(e) /\ Add(c, e) /\ filling' = <<c, e>>
    BY <1>4 DEF AddComponent
  <2>2. ran' = 0 /\ filling = <<>> /\ filling' \in {T, R} \X Handle /\ c \in C
    BY <1>1, <1>4, <2>1 DEF AddComponent, Idle
  <2>3. IInv'
    BY <1>1, <2>1, <2>2, AddStep DEF Live
  <2>4. DataRight'
    BY <1>1, <2>1, <2>2, AddCells DEF DataRight
  <2> QED
    BY <2>2, <2>3, <2>4, BetweenFrames DEF PlaceInv
<1>5. CASE FillTransform
  <2> DEFINE e == filling[2]
  <2>1. PICK w \in {Composed(Origin, 0), WorldFound(e)} :
          Write(T, e, [at |-> Origin, world |-> w])
    BY <1>5 DEF FillTransform
  <2>2. /\ filling = <<T, e>> /\ e \in Handle /\ ran' = 0 /\ filling' = <<>>
    BY <1>1, <1>5 DEF FillTransform, SweepRight
  <2>3. Has(T, e)
    BY <2>1 DEF Write
  <2>4. WorldFound(e) \in (Placement \X Angle) \cup {Garbage}
    <3>1. denseData[T][sparse[T][e.index]] \in Transform \cup {Garbage}
      BY <1>1, <2>2, <2>3, EntryInUse DEF CellsOf
    <3> QED
      BY <3>1 DEF WorldFound, Transform
  <2>5. [at |-> Origin, world |-> w] \in Transform
    BY <2>1, <2>4, AnglesTurn, Composes, PlacementAssumption DEF Transform
  <2>6. IInv'
    BY <1>1, <2>1, <2>2, <2>5, StoredAssumption, WriteStep
  <2>7. DataRight'
    BY <1>1, <2>1, <2>2, <2>5, WriteCells DEF DataRight
  <2> QED
    BY <2>2, <2>6, <2>7, BetweenFrames DEF PlaceInv
<1>6. CASE FillRotate
  <2> DEFINE e == filling[2]
  <2>1. PICK a \in Angle : Write(R, e, [angle |-> a])
    BY <1>6 DEF FillRotate
  <2>2. /\ filling = <<R, e>> /\ e \in Handle /\ ran' = 0 /\ filling' = <<>>
    BY <1>1, <1>6 DEF FillRotate, SweepRight
  <2>3. [angle |-> a] \in Rotate
    BY DEF Rotate
  <2>4. IInv'
    BY <1>1, <2>1, <2>2, <2>3, StoredAssumption, WriteStep
  <2>5. DataRight'
    BY <1>1, <2>1, <2>2, <2>3, WriteCells DEF DataRight
  <2> QED
    BY <2>2, <2>4, <2>5, BetweenFrames DEF PlaceInv
<1>7. CASE Move
  <2>1. PICK e \in Handle, p \in Placement :
          /\ Has(T, e)
          /\ Write(T, e, [denseData[T][sparse[T][e.index]] EXCEPT !.at = p])
    BY <1>7 DEF Move
  <2>2. ran' = 0 /\ filling = <<>> /\ filling' = <<>>
    BY <1>7 DEF Move, Idle
  <2>3. denseData[T][sparse[T][e.index]] \in Transform
    BY <1>1, <2>1, <2>2, EntryInUse, PairsDiffer DEF CellsOf
  <2>4. [denseData[T][sparse[T][e.index]] EXCEPT !.at = p] \in Transform
    BY <2>3 DEF Transform
  <2>5. IInv'
    BY <1>1, <2>1, <2>4, StoredAssumption, WriteStep
  <2>6. DataRight'
    BY <1>1, <2>1, <2>2, <2>4, WriteCells DEF DataRight
  <2> QED
    BY <2>2, <2>5, <2>6, BetweenFrames DEF PlaceInv
<1>8. CASE Draw
  <2>1. UNCHANGED vars /\ UNCHANGED filling /\ ran' = 0
    BY <1>8 DEF Draw
  <2>2. IInv'
    BY <1>1, <2>1, StutterStep
  <2>3. DataRight'
    BY <1>1, <2>1, CellsStay DEF DataRight, vars
  <2> QED
    BY <1>1, <2>1, <2>2, <2>3, BetweenFrames DEF PlaceInv, SweepRight
<1>9. CASE UNCHANGED placeVars
  <2>1. UNCHANGED vars /\ UNCHANGED <<filling, ran>>
    BY <1>9 DEF placeVars
  <2>2. IInv'
    BY <1>1, <2>1, StutterStep
  <2>3. DataRight'
    BY <1>1, <2>1, CellsStay DEF DataRight, vars
  <2>4. SweepRight'
    BY <1>1, <2>1 DEF SweepRight, AllPlain, EveryPlaceIsOwn, Has, vars, poolVars
  <2> QED
    BY <2>2, <2>3, <2>4 DEF PlaceInv
<1> QED
  BY <1>2, <1>3, <1>4, <1>5, <1>6, <1>7, <1>8, <1>9, LocalToWorldInv, RotateSweepInv
  DEF PlaceNext

\* The invariant holds in every reachable state.
LEMMA PlaceInvariant == PlaceSpec => []PlaceInv
  BY PlaceInitInv, PlaceNextInv, PTL DEF PlaceSpec

\* What LocalToWorldSystem and RotateSystem leave behind for RenderSystem: every
\* transform's world matrix is made of its own placement and, if its owner
\* rotates, its own angle, whatever was made, moved, destroyed and recycled.
THEOREM PlacesAreOwn == PlaceSpec => []EveryPlaceIsOwn
<1>1. PlaceInv => EveryPlaceIsOwn
  BY DEF PlaceInv, SweepRight
<1> QED
  BY <1>1, PlaceInvariant, PTL

\* The sweeps write through plain references into the pools and leave the registry
\* whole: all owners stay alive, and the assertion in ComponentPool::Add holds.
THEOREM SweepsKeepRegistry == PlaceSpec => [](OwnersAlive /\ AddNeverAsserts)
<1>1. PlaceInv => OwnersAlive /\ AddNeverAsserts
  BY NoEntryLeft DEF PlaceInv, IInv, AddNeverAsserts, Holds
<1> QED
  BY <1>1, PlaceInvariant, PTL
==============================================================================
