------------------------------ MODULE PlaybackProofs -----------------------------
(***************************************************************************)
(* Proofs about Playback, for all clips, any frame lengths and any number  *)
(* of animations and meshes.                                               *)
(*                                                                         *)
(* KeysEnclose: the key frames a mixer is given enclose the time of its    *)
(* timer.  The arithmetic is in BonesEnclose.  The rest of the argument is *)
(* about the sweeps: a timer moves only in the round of the loop that also *)
(* looks the key frames up again (Sampled), every animation is in one of   *)
(* the two pools (Owned), and both pools have been swept when the compute  *)
(* shaders run (InTurn).                                                   *)
(*                                                                         *)
(* ImplementsPlayer: a clock of Player is the time its timer has, or will  *)
(* have when the sweep reaches it, so that a whole frame ticks at once and *)
(* the sweeps stutter.  It needs that no sweep meets an animation twice    *)
(* (Once).  What is shown needs that a dispatch binds all that it reads,   *)
(* so that the slots others left do not matter (MixedIs, WorldIs), and     *)
(* that what one mesh's turn leaves in the shared buffers is what every    *)
(* mesh of that animation is to show (SkinnedInTurn, DrawnInTurn).         *)
(***************************************************************************)
EXTENDS Playback, WellFoundedInduction, SequenceTheorems, TLAPS

\* Every animation is in one of the two pools, and each pool has its own kind.
Owned ==
  /\ \A k \in 1..Len(animPool) :
       animPool[k] \in 1..Len(anims) /\ anims[animPool[k]].B = None
  /\ \A k \in 1..Len(blendPool) :
       blendPool[k] \in 1..Len(anims) /\ anims[blendPool[k]].B # None
  /\ \A id \in 1..Len(anims) :
       \/ \E k \in 1..Len(animPool) : animPool[k] = id
       \/ \E k \in 1..Len(blendPool) : blendPool[k] = id

\* A mixer has no key frames yet, or those of its timer's time.
Sampled ==
  \A id \in 1..Len(anims) : \A v \in Voices(id) :
    \/ mixer[id][MixerOf[v]] = Unsampled
    \/ mixer[id][MixerOf[v]] = AnimateBones(anims[id][v], tCurr[id][v])

Ready(id) == \A v \in Voices(id) : mixer[id][MixerOf[v]] # Unsampled

\* What the sweeps of a frame have reached so far.
InTurn ==
  /\ sweep = "clips" => \A k \in 1..Len(animPool) : k < i => Ready(animPool[k])
  /\ sweep = "blends" =>
       /\ \A k \in 1..Len(animPool) : Ready(animPool[k])
       /\ \A k \in 1..Len(blendPool) : k < i => Ready(blendPool[k])
  /\ sweep \in {"skins", "draw"} => \A id \in 1..Len(anims) : Ready(id)

IInv == TypeOK /\ Owned /\ Sampled /\ InTurn

------------------------------------------------------------------------------
(* Clips and timers.                                                       *)

\* Key frames are at multiples of Film.
LEMMA KeyTimes ==
  /\ KeyTime(1) = 0
  /\ \A key \in Int : KeyTime(key) \in Int /\ KeyTime(key) - KeyTime(key - 1) = Film
  /\ \A c \in Clips : NumFrames[c] \in Nat \ {0} /\ TotalTime(c) \in Nat
BY TicksAssumption, FramesAssumption DEF KeyTime, TotalTime

\* TimerController::Update keeps a timer within the range of its clip.
LEMMA TimerInRange ==
  ASSUME NEW t \in Nat, NEW d \in Nat, NEW max \in Nat
  PROVE  TimerUpdate(t, d, max) \in 0..max
BY DEF TimerUpdate

\* The loop of AnimateBones stops at the first key frame later than t, or at the last.
LEMMA BucketIs ==
  ASSUME NEW c \in Clips, NEW t \in Int
  PROVE  /\ Bucket(c, t) \in 1..NumFrames[c]
         /\ Bucket(c, t) = NumFrames[c] \/ t < KeyTime(Bucket(c, t))
         /\ Bucket(c, t) > 1 => KeyTime(Bucket(c, t) - 1) <= t
<1> DEFINE T == StopsAt(c, t)
<1>1. NumFrames[c] \in Nat \ {0} BY KeyTimes
<1>2. NumFrames[c] \in T /\ T \subseteq Nat
  BY <1>1 DEF StopsAt
<1>3. PICK x \in T : \A y \in T : <<y, x>> \notin OpToRel(<, Nat)
  <2> HIDE DEF T
  <2> QED BY <1>2, WFMin, NatLessThanWellFounded, Zenon
<1>4. \A y \in T : ~(y < x)
  BY <1>2, <1>3 DEF OpToRel
<1>5. Bucket(c, t) \in T /\ \A y \in T : Bucket(c, t) <= y
  <2>1. \A y \in T : x <= y
    <3> HIDE DEF T
    <3> QED BY <1>2, <1>4
  <2> QED BY <2>1 DEF Bucket
<1>6. ASSUME Bucket(c, t) > 1 PROVE KeyTime(Bucket(c, t) - 1) <= t
  <2>1. Bucket(c, t) \in 1..NumFrames[c] BY <1>5 DEF StopsAt
  <2>2. Bucket(c, t) - 1 \in 1..NumFrames[c] /\ Bucket(c, t) - 1 # NumFrames[c]
    BY <1>1, <1>6, <2>1
  <2>3. Bucket(c, t) - 1 \notin T BY <1>5, <2>1
  <2>4. ~(t < KeyTime(Bucket(c, t) - 1)) BY <2>2, <2>3 DEF StopsAt
  <2> QED BY <2>2, <2>4, KeyTimes
<1> QED BY <1>5, <1>6 DEF StopsAt

\* AnimateBones finds two key frames of the clip that enclose a time in its range.
LEMMA BonesEnclose ==
  ASSUME NEW c \in Clips, NEW t \in 0..TotalTime(c)
  PROVE  LET m == AnimateBones(c, t)
         IN  /\ m \in [a : Clips \X Int, b : Clips \X Int, num : Int, den : Int]
             /\ {m.a[2], m.b[2]} \subseteq 1..NumFrames[c]
             /\ KeyTime(m.a[2]) <= t /\ t <= KeyTime(m.b[2])
             /\ 0 <= m.num /\ m.num <= m.den /\ m.den > 0
<1> DEFINE n == NumFrames[c]
           pB == Bucket(c, t)
<1>1. n \in Nat \ {0} /\ t \in Int /\ t >= 0 /\ t <= KeyTime(n) /\ KeyTime(n) \in Int
  BY KeyTimes DEF TotalTime
<1>2. CASE n > 1
  <2>1. pB \in 1..n /\ (pB = n \/ t < KeyTime(pB)) /\ (pB > 1 => KeyTime(pB - 1) <= t)
    BY <1>1, BucketIs
  <2>2. pB > 1
    BY <1>1, <1>2, <2>1, KeyTimes
  <2>3. KeyTime(pB - 1) <= t /\ t <= KeyTime(pB)
    BY <1>1, <2>1, <2>2, KeyTimes
  <2>4. AnimateBones(c, t) =
          [a |-> <<c, pB - 1>>, b |-> <<c, pB>>,
           num |-> t - KeyTime(pB - 1), den |-> KeyTime(pB) - KeyTime(pB - 1)]
    BY <1>2 DEF AnimateBones
  <2>5. /\ KeyTime(pB) \in Int /\ KeyTime(pB - 1) \in Int
        /\ KeyTime(pB) - KeyTime(pB - 1) > 0
    BY <2>1, <2>2, KeyTimes, TicksAssumption
  <2> HIDE DEF pB
  <2> QED BY <1>1, <2>1, <2>2, <2>3, <2>4, <2>5
<1>3. CASE ~(n > 1)
  <2>0. n = 1
    <3> HIDE DEF n
    <3> QED BY <1>1, <1>3
  <2>1. n = 1 /\ t = 0 BY <2>0, <1>1, KeyTimes
  <2>2. AnimateBones(c, t) = [a |-> <<c, 1>>, b |-> <<c, 1>>, num |-> 0, den |-> 1]
    BY <1>3 DEF AnimateBones
  <2> QED BY <2>1, <2>2, KeyTimes
<1> QED BY <1>2, <1>3

------------------------------------------------------------------------------
(* The steps.                                                              *)

\* A step that leaves the animations, their timers and their mixers alone.
LEMMA QuietStep ==
  ASSUME IInv, UNCHANGED <<scene, tCurr, mixer>>,
         mBlendTs' \in Seq(0..Full), Len(mBlendTs') = Len(mBlendTs),
         sweep' \in {"load", "idle", "clips", "blends", "skins", "draw"},
         i' \in Nat \ {0}, tDelta' \in Deltas \union {0}, InTurn'
  PROVE  IInv'
<1> USE DEF scene
<1>1. TypeOK' BY DEF IInv, TypeOK, Voices
<1>2. Owned' BY DEF IInv, Owned
<1>3. Sampled' BY DEF IInv, Sampled, Voices
<1> QED BY <1>1, <1>2, <1>3 DEF IInv

\* AnimMan::Add makes timers at zero and mixers without key frames.
LEMMA NewAnimStep ==
  ASSUME IInv, NEW a \in Clips, NEW b \in Clips \union {None},
         NEW n \in 1..MaxSkinEntities, NewAnim(a, b, n),
         \/ b = None /\ animPool' = Append(animPool, Len(anims) + 1)
                     /\ UNCHANGED <<blendPool, poBlendComputeBlend>>
         \/ b # None /\ blendPool' = Append(blendPool, Len(anims) + 1)
                     /\ poBlendComputeBlend' = Len(anims) + 1 /\ UNCHANGED animPool
  PROVE  IInv'
<1>0. PICK new \in 1..MaxAnims : new = Len(anims) + 1
  <2>1. Len(anims) \in Nat /\ Len(anims) < MaxAnims BY DEF IInv, TypeOK, NewAnim
  <2> QED BY <2>1, BoundsAssumption
<1> DEFINE zero == [A |-> 0, B |-> 0]
           unsampled == [MixerA |-> Unsampled, MixerB |-> Unsampled, MixerC |-> Unsampled]
           Anim == [A : Clips, B : Clips \union {None}]
           Mixers == [MixerA : Mixer, MixerB : Mixer, MixerC : Mixer]
<1>1. anims \in Seq(Anim) /\ new = Len(anims) + 1 /\ new \in Nat /\ Len(anims) \in Nat
  BY <1>0, BoundsAssumption DEF IInv, TypeOK
<1>2. /\ anims' \in Seq(Anim) /\ Len(anims') = new
      /\ \A id \in 1..Len(anims) : anims'[id] = anims[id]
      /\ anims'[new] = [A |-> a, B |-> b]
  <2>1. [A |-> a, B |-> b] \in Anim OBVIOUS
  <2>2. anims' = Append(anims, [A |-> a, B |-> b]) BY DEF NewAnim
  <2> HIDE DEF Anim
  <2> QED BY <1>1, <2>1, <2>2, AppendProperties
<1>3. /\ tCurr' \in Seq([A : Nat, B : Nat]) /\ Len(tCurr') = new
      /\ \A id \in 1..Len(anims) : tCurr'[id] = tCurr[id]
      /\ tCurr'[new] = zero
  <2>1. zero \in [A : Nat, B : Nat] OBVIOUS
  <2>2. tCurr' = Append(tCurr, zero) BY DEF NewAnim
  <2>3. tCurr \in Seq([A : Nat, B : Nat]) /\ Len(tCurr) = Len(anims) BY DEF IInv, TypeOK
  <2> HIDE DEF zero
  <2> QED BY <1>1, <2>1, <2>2, <2>3, AppendProperties
<1>4. /\ mixer' \in Seq(Mixers) /\ Len(mixer') = new
      /\ \A id \in 1..Len(anims) : mixer'[id] = mixer[id]
      /\ mixer'[new] = unsampled
  <2>1. Unsampled \in Mixer BY DEF Unsampled, Mixer
  <2>2. unsampled \in Mixers BY <2>1
  <2>3. mixer' = Append(mixer, unsampled) BY DEF NewAnim
  <2>4. mixer \in Seq(Mixers) /\ Len(mixer) = Len(anims) BY DEF IInv, TypeOK
  <2> HIDE DEF unsampled, Mixers
  <2> QED BY <1>1, <2>2, <2>3, <2>4, AppendProperties
<1>5. mBlendTs' \in Seq(0..Full) /\ Len(mBlendTs') = new
  <2>1. mBlendTs \in Seq(0..Full) /\ Len(mBlendTs) = Len(anims) BY DEF IInv, TypeOK
  <2>2. Full \div 2 \in 0..Full BY FullAssumption
  <2>3. mBlendTs' = Append(mBlendTs, Full \div 2) BY DEF NewAnim
  <2> QED BY <1>1, <2>1, <2>2, <2>3, AppendProperties
<1>6. animPool' \in Seq(1..MaxAnims) /\ blendPool' \in Seq(1..MaxAnims)
  <2>1. animPool \in Seq(1..MaxAnims) /\ blendPool \in Seq(1..MaxAnims)
    BY DEF IInv, TypeOK
  <2>2. animPool' = animPool \/ animPool' = Append(animPool, new)
    BY <1>0
  <2>3. blendPool' = blendPool \/ blendPool' = Append(blendPool, new)
    BY <1>0
  <2>4. Append(animPool, new) \in Seq(1..MaxAnims) BY <1>0, <2>1, AppendProperties
  <2>5. Append(blendPool, new) \in Seq(1..MaxAnims) BY <1>0, <2>1, AppendProperties
  <2> QED BY <2>1, <2>2, <2>3, <2>4, <2>5
<1>7. skinPool' \in Seq(1..MaxAnims)
  <2>1. [k \in 1..n |-> new] \in Seq(1..MaxAnims)
    BY <1>0
  <2>2. skinPool' = skinPool \o [k \in 1..n |-> new] BY <1>0 DEF NewAnim
  <2>3. skinPool \in Seq(1..MaxAnims) BY DEF IInv, TypeOK
  <2> QED BY <2>1, <2>2, <2>3, ConcatProperties
<1>8. /\ sweep' = "load" /\ i' \in Nat \ {0} /\ tDelta' \in Deltas \union {0}
      /\ new <= MaxAnims
  BY <1>0, BoundsAssumption DEF IInv, TypeOK, NewAnim
<1>9. poBlendComputeBlend' \in (1..new) \union {None}
  <2>1. poBlendComputeBlend \in (1..Len(anims)) \union {None} BY DEF IInv, TypeOK
  <2>2. new \in 1..new /\ 1..Len(anims) \subseteq 1..new BY <1>1
  <2>3. poBlendComputeBlend' = poBlendComputeBlend \/ poBlendComputeBlend' = new
    BY <1>1
  <2> QED BY <2>1, <2>2, <2>3
<1>10. \A id \in 1..new : id = new \/ id \in 1..Len(anims)
  BY <1>1
<1>11. \A id \in 1..Len(anims) : Voices(id)' = Voices(id)
  BY <1>2 DEF Voices
<1>12. Voices(new)' \subseteq {"A", "B"} /\ (b = None => Voices(new)' = {"A"})
  BY <1>2 DEF Voices
<1>13. \A id \in 1..new : \A v \in Voices(id)' :
         tCurr'[id][v] <= TotalTime(anims'[id][v])
  <2>1. ASSUME NEW id \in 1..Len(anims), NEW v \in Voices(id)'
        PROVE  tCurr'[id][v] <= TotalTime(anims'[id][v])
    BY <2>1, <1>2, <1>3, <1>11 DEF IInv, TypeOK
  <2>2. ASSUME NEW v \in Voices(new)'
        PROVE  tCurr'[new][v] <= TotalTime(anims'[new][v])
    <3>1. tCurr'[new][v] = 0 BY <1>3, <1>12
    <3>2. anims'[new][v] \in Clips
      <4>1. CASE v = "A" BY <4>1, <1>2
      <4>2. CASE v = "B" BY <4>2, <1>2, <1>12
      <4> QED BY <4>1, <4>2, <1>12
    <3>3. TotalTime(anims'[new][v]) \in Nat BY <3>2, KeyTimes
    <3> QED BY <3>1, <3>3
  <2> QED BY <1>10, <2>1, <2>2
<1>14. TypeOK'
  BY <1>2, <1>3, <1>4, <1>5, <1>6, <1>7, <1>8, <1>9, <1>13 DEF TypeOK
<1>15. Owned'
  <2>1. /\ animPool \in Seq(1..MaxAnims) /\ blendPool \in Seq(1..MaxAnims) /\ Owned
    BY DEF IInv, TypeOK
  <2>2. CASE b = None /\ animPool' = Append(animPool, new) /\ blendPool' = blendPool
    <3>1. /\ Len(animPool') = Len(animPool) + 1 /\ Len(animPool) \in Nat
          /\ \A k \in 1..Len(animPool) : animPool'[k] = animPool[k]
          /\ animPool'[Len(animPool) + 1] = new
      BY <2>1, <2>2, <1>1, AppendProperties
    <3>2. \A k \in 1..(Len(animPool) + 1) : k \in 1..Len(animPool) \/ k = Len(animPool) + 1
      BY <3>1
    <3>3. ASSUME NEW k \in 1..Len(animPool')
          PROVE  animPool'[k] \in 1..new /\ anims'[animPool'[k]].B = None
      <4>1. CASE k = Len(animPool) + 1 BY <4>1, <2>2, <3>1, <1>1, <1>2
      <4>2. CASE k \in 1..Len(animPool)
        <5>1. animPool'[k] = animPool[k] BY <4>2, <3>1
        <5>2. animPool[k] \in 1..Len(anims) /\ anims[animPool[k]].B = None
          BY <4>2, <2>1 DEF Owned
        <5> QED BY <5>1, <5>2, <1>1, <1>2
      <4> QED BY <4>1, <4>2, <3>1, <3>2
    <3>4. \A k \in 1..Len(blendPool') :
            blendPool'[k] \in 1..new /\ anims'[blendPool'[k]].B # None
      <4>1. blendPool' = blendPool BY <2>2
      <4>2. ASSUME NEW k \in 1..Len(blendPool)
            PROVE  blendPool[k] \in 1..new /\ anims'[blendPool[k]].B # None
        <5>1. blendPool[k] \in 1..Len(anims) /\ anims[blendPool[k]].B # None
          BY <2>1 DEF Owned
        <5> HIDE DEF Anim
        <5> QED BY <5>1, <1>1, <1>2
      <4> QED BY <4>1, <4>2
    <3>5. \A id \in 1..new : \/ \E k \in 1..Len(animPool') : animPool'[k] = id
                             \/ \E k \in 1..Len(blendPool') : blendPool'[k] = id
      <4>1. ASSUME NEW id \in 1..Len(anims)
            PROVE  \/ \E k \in 1..Len(animPool') : animPool'[k] = id
                   \/ \E k \in 1..Len(blendPool') : blendPool'[k] = id
        <5>1. CASE \E k \in 1..Len(animPool) : animPool[k] = id
          <6>1. PICK k \in 1..Len(animPool) : animPool[k] = id BY <5>1
          <6>2. k \in 1..Len(animPool') /\ animPool'[k] = id BY <6>1, <3>1
          <6> QED BY <6>2
        <5>2. CASE \E k \in 1..Len(blendPool) : blendPool[k] = id BY <5>2, <2>2
        <5> QED BY <5>1, <5>2, <2>1 DEF Owned
      <4>2. \E k \in 1..Len(animPool') : animPool'[k] = new BY <3>1
      <4> QED BY <4>1, <4>2, <1>10
    <3> QED BY <3>3, <3>4, <3>5, <1>2 DEF Owned
  <2>3. CASE b # None /\ blendPool' = Append(blendPool, new) /\ animPool' = animPool
    <3>1. /\ Len(blendPool') = Len(blendPool) + 1 /\ Len(blendPool) \in Nat
          /\ \A k \in 1..Len(blendPool) : blendPool'[k] = blendPool[k]
          /\ blendPool'[Len(blendPool) + 1] = new
      BY <2>1, <2>3, <1>1, AppendProperties
    <3>2. \A k \in 1..(Len(blendPool) + 1) : k \in 1..Len(blendPool) \/ k = Len(blendPool) + 1
      BY <3>1
    <3>3. ASSUME NEW k \in 1..Len(blendPool')
          PROVE  blendPool'[k] \in 1..new /\ anims'[blendPool'[k]].B # None
      <4>1. CASE k = Len(blendPool) + 1 BY <4>1, <2>3, <3>1, <1>1, <1>2
      <4>2. CASE k \in 1..Len(blendPool)
        <5>1. blendPool'[k] = blendPool[k] BY <4>2, <3>1
        <5>2. blendPool[k] \in 1..Len(anims) /\ anims[blendPool[k]].B # None
          BY <4>2, <2>1 DEF Owned
        <5> QED BY <5>1, <5>2, <1>1, <1>2
      <4> QED BY <4>1, <4>2, <3>1, <3>2
    <3>4. \A k \in 1..Len(animPool') :
            animPool'[k] \in 1..new /\ anims'[animPool'[k]].B = None
      <4>1. animPool' = animPool BY <2>3
      <4>2. ASSUME NEW k \in 1..Len(animPool)
            PROVE  animPool[k] \in 1..new /\ anims'[animPool[k]].B = None
        <5>1. animPool[k] \in 1..Len(anims) /\ anims[animPool[k]].B = None
          BY <2>1 DEF Owned
        <5> HIDE DEF Anim
        <5> QED BY <5>1, <1>1, <1>2
      <4> QED BY <4>1, <4>2
    <3>5. \A id \in 1..new : \/ \E k \in 1..Len(animPool') : animPool'[k] = id
                             \/ \E k \in 1..Len(blendPool') : blendPool'[k] = id
      <4>1. ASSUME NEW id \in 1..Len(anims)
            PROVE  \/ \E k \in 1..Len(animPool') : animPool'[k] = id
                   \/ \E k \in 1..Len(blendPool') : blendPool'[k] = id
        <5>1. CASE \E k \in 1..Len(blendPool) : blendPool[k] = id
          <6>1. PICK k \in 1..Len(blendPool) : blendPool[k] = id BY <5>1
          <6>2. k \in 1..Len(blendPool') /\ blendPool'[k] = id BY <6>1, <3>1
          <6> QED BY <6>2
        <5>2. CASE \E k \in 1..Len(animPool) : animPool[k] = id BY <5>2, <2>3
        <5> QED BY <5>1, <5>2, <2>1 DEF Owned
      <4>2. \E k \in 1..Len(blendPool') : blendPool'[k] = new BY <3>1
      <4> QED BY <4>1, <4>2, <1>10
    <3> QED BY <3>3, <3>4, <3>5, <1>2 DEF Owned
  <2> QED BY <2>2, <2>3, <1>1
<1>16. Sampled'
  <2>1. ASSUME NEW id \in 1..Len(anims), NEW v \in Voices(id)'
        PROVE  \/ mixer'[id][MixerOf[v]] = Unsampled
               \/ mixer'[id][MixerOf[v]] = AnimateBones(anims'[id][v], tCurr'[id][v])
    <3>1. v \in Voices(id) BY <1>11
    <3>2. \/ mixer[id][MixerOf[v]] = Unsampled
          \/ mixer[id][MixerOf[v]] = AnimateBones(anims[id][v], tCurr[id][v])
      BY <3>1 DEF IInv, Sampled
    <3> QED BY <3>2, <1>2, <1>3, <1>4
  <2>2. \A v \in Voices(new)' : mixer'[new][MixerOf[v]] = Unsampled
    BY <1>4, <1>12 DEF MixerOf
  <2> QED BY <1>2, <1>10, <2>1, <2>2 DEF Sampled
<1>17. InTurn' BY <1>8 DEF InTurn
<1> QED BY <1>14, <1>15, <1>16, <1>17 DEF IInv

\* What TypeOK says of one animation.
LEMMA AnimTypes ==
  ASSUME TypeOK, NEW id \in 1..Len(anims)
  PROVE  /\ anims[id] \in [A : Clips, B : Clips \union {None}]
         /\ tCurr[id] \in [A : Nat, B : Nat]
         /\ mixer[id] \in [MixerA : Mixer, MixerB : Mixer, MixerC : Mixer]
         /\ mBlendTs[id] \in 0..Full
         /\ \A v \in Voices(id) : anims[id][v] \in Clips /\ tCurr[id][v] \in Nat
<1>1. anims[id] \in [A : Clips, B : Clips \union {None}]
  <2> DEFINE S == [A : Clips, B : Clips \union {None}]
  <2>1. anims \in Seq(S) BY DEF TypeOK
  <2> HIDE DEF S
  <2>2. anims[id] \in S BY <2>1
  <2> QED BY <2>2 DEF S
<1>2. tCurr[id] \in [A : Nat, B : Nat]
  <2> DEFINE S == [A : Nat, B : Nat]
  <2>1. tCurr \in Seq(S) /\ Len(tCurr) = Len(anims) BY DEF TypeOK
  <2> HIDE DEF S
  <2>2. tCurr[id] \in S BY <2>1
  <2> QED BY <2>2 DEF S
<1>3. mixer[id] \in [MixerA : Mixer, MixerB : Mixer, MixerC : Mixer]
  <2> DEFINE S == [MixerA : Mixer, MixerB : Mixer, MixerC : Mixer]
  <2>1. mixer \in Seq(S) /\ Len(mixer) = Len(anims) BY DEF TypeOK
  <2> HIDE DEF S
  <2>2. mixer[id] \in S BY <2>1
  <2> QED BY <2>2 DEF S
<1>4. mBlendTs[id] \in 0..Full
  <2> DEFINE S == 0..Full
  <2>1. mBlendTs \in Seq(S) /\ Len(mBlendTs) = Len(anims) BY DEF TypeOK
  <2> HIDE DEF S
  <2>2. mBlendTs[id] \in S BY <2>1
  <2> QED BY <2>2 DEF S
<1>5. \A v \in Voices(id) : anims[id][v] \in Clips /\ tCurr[id][v] \in Nat
  <2>1. anims[id].A \in Clips /\ tCurr[id].A \in Nat /\ tCurr[id].B \in Nat
    BY <1>1, <1>2
  <2>2. anims[id].B # None => anims[id].B \in Clips BY <1>1
  <2> QED BY <2>1, <2>2 DEF Voices
<1> QED BY <1>1, <1>2, <1>3, <1>4, <1>5

\* AnimateBones never leaves a mixer without key frames.
LEMMA BonesAreKeys ==
  ASSUME NEW c \in Clips, NEW t \in 0..TotalTime(c)
  PROVE  AnimateBones(c, t) \in Mixer /\ AnimateBones(c, t) # Unsampled
<1> DEFINE m == AnimateBones(c, t)
<1>1. m \in [a : Clips \X Int, b : Clips \X Int, num : Int, den : Int]
  BY BonesEnclose
<1>2. m \in Mixer
  <2> HIDE DEF m
  <2> QED BY <1>1 DEF Mixer
<1>3. m # Unsampled
  <2>1. m.a \in Clips \X Int /\ Unsampled.a = None
    <3> HIDE DEF m
    <3> QED BY <1>1 DEF Unsampled
  <2> QED BY <2>1, NoneAssumption
<1> QED BY <1>2, <1>3

\* One round of a sampling loop, for animation id: its timers advance, and its
\* mixers are given the key frames for the new times.
LEMMA SampleStep ==
  ASSUME IInv, NEW id \in 1..Len(anims), UNCHANGED <<scene, mBlendTs, sweep, tDelta>>,
         i' = i + 1, sweep \in {"clips", "blends"},
         tCurr' \in Seq([A : Nat, B : Nat]), Len(tCurr') = Len(tCurr),
         mixer' \in Seq([MixerA : Mixer, MixerB : Mixer, MixerC : Mixer]),
         Len(mixer') = Len(mixer),
         \A o \in 1..Len(anims) : o # id => tCurr'[o] = tCurr[o] /\ mixer'[o] = mixer[o],
         \A v \in Voices(id) :
           /\ tCurr'[id][v] \in 0..TotalTime(anims[id][v])
           /\ mixer'[id][MixerOf[v]] = AnimateBones(anims[id][v], tCurr'[id][v])
  PROVE  /\ TypeOK' /\ Owned' /\ Sampled' /\ Ready(id)'
         /\ \A o \in 1..Len(anims) : Ready(o) => Ready(o)'
<1> USE DEF scene
<1>1. anims' = anims /\ \A o : Voices(o)' = Voices(o)
  BY DEF Voices
<1>2. TypeOK'
  <2>1. \A o \in 1..Len(anims) : \A v \in Voices(o) :
          tCurr'[o][v] <= TotalTime(anims[o][v])
    <3>1. ASSUME NEW o \in 1..Len(anims), o # id, NEW v \in Voices(o)
          PROVE  tCurr'[o][v] <= TotalTime(anims[o][v])
      BY <3>1 DEF IInv, TypeOK
    <3>2. ASSUME NEW v \in Voices(id) PROVE tCurr'[id][v] <= TotalTime(anims[id][v])
      <4>1. anims[id][v] \in Clips BY AnimTypes DEF IInv
      <4>2. TotalTime(anims[id][v]) \in Nat /\ tCurr'[id][v] \in 0..TotalTime(anims[id][v])
        BY <4>1, KeyTimes
      <4> QED BY <4>2
    <3> QED BY <3>1, <3>2
  <2>2. i' \in Nat \ {0} /\ sweep' = sweep /\ tDelta' = tDelta /\ mBlendTs' = mBlendTs
    BY DEF IInv, TypeOK
  <2>3. /\ animPool' = animPool /\ blendPool' = blendPool /\ skinPool' = skinPool
        /\ poBlendComputeBlend' = poBlendComputeBlend
    OBVIOUS
  <2>4. Len(tCurr') = Len(anims) /\ Len(mixer') = Len(anims)
    BY DEF IInv, TypeOK
  <2>5. TypeOK BY DEF IInv
  <2> QED BY <1>1, <2>1, <2>2, <2>3, <2>4, <2>5 DEF TypeOK
<1>3. Owned' BY DEF IInv, Owned
<1>4. Sampled'
  <2>1. ASSUME NEW o \in 1..Len(anims), NEW v \in Voices(o)
        PROVE  \/ mixer'[o][MixerOf[v]] = Unsampled
               \/ mixer'[o][MixerOf[v]] = AnimateBones(anims[o][v], tCurr'[o][v])
    <3>1. CASE o = id BY <3>1
    <3>2. CASE o # id
      <4>1. tCurr'[o] = tCurr[o] /\ mixer'[o] = mixer[o] BY <3>2
      <4>2. Sampled BY DEF IInv
      <4> QED BY <4>1, <4>2 DEF Sampled
    <3> QED BY <3>1, <3>2
  <2> QED BY <1>1, <2>1 DEF Sampled
<1>5. \A v \in Voices(id) : anims[id][v] \in Clips
  BY AnimTypes DEF IInv
<1>6. Ready(id)'
  <2>1. ASSUME NEW v \in Voices(id) PROVE mixer'[id][MixerOf[v]] # Unsampled
    <3>1. anims[id][v] \in Clips /\ tCurr'[id][v] \in 0..TotalTime(anims[id][v])
      BY <1>5
    <3>2. AnimateBones(anims[id][v], tCurr'[id][v]) # Unsampled
      BY <3>1, BonesAreKeys
    <3> QED BY <3>2
  <2> QED BY <2>1, <1>1 DEF Ready
<1>7. ASSUME NEW o \in 1..Len(anims), Ready(o) PROVE Ready(o)'
  <2>1. CASE o = id BY <2>1, <1>6
  <2>2. CASE o # id BY <1>7, <2>2, <1>1 DEF Ready
  <2> QED BY <2>1, <2>2
<1> QED BY <1>2, <1>3, <1>4, <1>6, <1>7

\* AnimationSystem::Update samples the animation whose turn it is.
LEMMA SampleClipStep ==
  ASSUME IInv, SampleClip
  PROVE  IInv'
<1> USE DEF scene
<1>0. PICK id \in 1..Len(anims) : id = animPool[i] /\ anims[id].B = None
  <2>1. i \in 1..Len(animPool) BY DEF SampleClip, IInv, TypeOK
  <2> QED BY <2>1 DEF IInv, Owned
<1> DEFINE t == Updated(id, "A")
<1>1. /\ id \in 1..Len(anims) /\ anims[id].B = None /\ anims[id].A \in Clips
      /\ i \in 1..Len(animPool) /\ Voices(id) = {"A"}
  <2>1. i \in 1..Len(animPool) BY DEF SampleClip, IInv, TypeOK
  <2>2. Voices(id) = {"A"} BY <1>0 DEF Voices
  <2> QED BY <1>0, <2>1, <2>2, AnimTypes DEF IInv
<1>2. t \in 0..TotalTime(anims[id].A)
  <2>1. tCurr[id].A \in Nat /\ tDelta \in Nat /\ TotalTime(anims[id].A) \in Nat
    <3>1. tDelta \in Nat BY TicksAssumption DEF IInv, TypeOK
    <3>2. tCurr[id].A \in Nat BY <1>1, AnimTypes DEF IInv
    <3> QED BY <1>1, <3>1, <3>2, KeyTimes
  <2> QED BY <2>1, TimerInRange DEF Updated
<1>3. /\ tCurr' = [tCurr EXCEPT ![id] = [tCurr[id] EXCEPT !.A = t]]
      /\ mixer' = [mixer EXCEPT ![id] =
                     [mixer[id] EXCEPT !.MixerA = AnimateBones(anims[id].A, tCurr'[id].A)]]
  BY <1>0 DEF SampleClip
<1>4. /\ tCurr' \in Seq([A : Nat, B : Nat]) /\ Len(tCurr') = Len(tCurr)
      /\ \A o \in 1..Len(anims) : o # id => tCurr'[o] = tCurr[o]
      /\ tCurr'[id].A = t
  <2>1. tCurr \in Seq([A : Nat, B : Nat]) /\ Len(tCurr) = Len(anims)
    BY DEF IInv, TypeOK
  <2>2. /\ [tCurr[id] EXCEPT !.A = t] \in [A : Nat, B : Nat]
        /\ [tCurr[id] EXCEPT !.A = t].A = t
    <3>1. tCurr[id] \in [A : Nat, B : Nat] BY AnimTypes DEF IInv
    <3>2. t \in Nat BY <1>1, <1>2, KeyTimes
    <3> HIDE DEF t
    <3> QED BY <3>1, <3>2
  <2> HIDE DEF t
  <2> QED BY <2>1, <2>2, <1>1, <1>3, ExceptSeq
<1>5. /\ mixer' \in Seq([MixerA : Mixer, MixerB : Mixer, MixerC : Mixer])
      /\ Len(mixer') = Len(mixer)
      /\ \A o \in 1..Len(anims) : o # id => mixer'[o] = mixer[o]
      /\ mixer'[id].MixerA = AnimateBones(anims[id].A, t)
  <2> DEFINE m == [mixer[id] EXCEPT !.MixerA = AnimateBones(anims[id].A, t)]
             Mixers == [MixerA : Mixer, MixerB : Mixer, MixerC : Mixer]
  <2>1. mixer \in Seq(Mixers) /\ Len(mixer) = Len(anims)
    BY DEF IInv, TypeOK
  <2>2. m \in Mixers /\ m.MixerA = AnimateBones(anims[id].A, t)
    <3>1. mixer[id] \in Mixers BY AnimTypes DEF IInv
    <3>2. AnimateBones(anims[id].A, t) \in Mixer BY <1>1, <1>2, BonesAreKeys
    <3> HIDE DEF t
    <3> QED BY <3>1, <3>2
  <2>3. mixer' = [mixer EXCEPT ![id] = m] BY <1>3, <1>4
  <2> HIDE DEF m, t, Mixers
  <2>4. mixer' \in Seq(Mixers) /\ Len(mixer') = Len(mixer) /\ mixer'[id] = m
        /\ \A o \in 1..Len(anims) : o # id => mixer'[o] = mixer[o]
    BY <2>1, <2>2, <2>3, <1>1, ExceptSeq
  <2> QED BY <2>2, <2>4 DEF Mixers
<1>6. \A v \in Voices(id) :
        /\ tCurr'[id][v] \in 0..TotalTime(anims[id][v])
        /\ mixer'[id][MixerOf[v]] = AnimateBones(anims[id][v], tCurr'[id][v])
  <2> HIDE DEF t
  <2>1. /\ tCurr'[id]["A"] = t
        /\ mixer'[id][MixerOf["A"]] = AnimateBones(anims[id]["A"], t)
    BY <1>4, <1>5 DEF MixerOf
  <2> QED BY <1>1, <1>2, <2>1
<1>7. /\ TypeOK' /\ Owned' /\ Sampled' /\ Ready(id)'
      /\ \A o \in 1..Len(anims) : Ready(o) => Ready(o)'
  <2>1. /\ UNCHANGED <<scene, mBlendTs, sweep, tDelta>>
        /\ i' = i + 1 /\ sweep \in {"clips", "blends"}
    BY DEF SampleClip
  <2> HIDE DEF t
  <2> QED BY <2>1, <1>4, <1>5, <1>6, SampleStep
<1>8. InTurn'
  <2>1. ASSUME NEW k \in 1..Len(animPool), k < i + 1 PROVE Ready(animPool[k])'
    <3>1. CASE k = i
      <4>1. animPool'[k] = id BY <3>1, <1>0 DEF SampleClip
      <4> QED BY <4>1, <1>7
    <3>2. CASE k < i
      <4>1. Ready(animPool[k]) BY <3>2 DEF IInv, InTurn, SampleClip
      <4>2. animPool[k] \in 1..Len(anims) BY DEF IInv, Owned
      <4> QED BY <4>1, <4>2, <1>7 DEF SampleClip
    <3> QED BY <2>1, <3>1, <3>2, <1>1
  <2> QED BY <2>1 DEF InTurn, SampleClip
<1> QED BY <1>7, <1>8 DEF IInv

\* BlendSystem::Update samples both clips of the animation whose turn it is.
LEMMA SampleBlendStep ==
  ASSUME IInv, SampleBlend
  PROVE  IInv'
<1> USE DEF scene
<1>0. PICK id \in 1..Len(anims) : id = blendPool[i] /\ anims[id].B # None
  BY DEF SampleBlend, IInv, TypeOK, Owned
<1> DEFINE tA == Updated(id, "A")
           tB == Updated(id, "B")
           mA == AnimateBones(anims[id].A, tA)
           mB == AnimateBones(anims[id].B, tB)
           Mixers == [MixerA : Mixer, MixerB : Mixer, MixerC : Mixer]
<1>1. /\ i \in 1..Len(blendPool) /\ Voices(id) = {"A", "B"}
      /\ anims[id].A \in Clips /\ anims[id].B \in Clips
  <2>1. i \in 1..Len(blendPool) BY DEF SampleBlend, IInv, TypeOK
  <2>2. Voices(id) = {"A", "B"} BY <1>0 DEF Voices
  <2> QED BY <1>0, <2>1, <2>2, AnimTypes DEF IInv
<1>2. tA \in 0..TotalTime(anims[id].A) /\ tB \in 0..TotalTime(anims[id].B)
  <2>1. tDelta \in Nat BY TicksAssumption DEF IInv, TypeOK
  <2>2. tCurr[id].A \in Nat /\ tCurr[id].B \in Nat BY <1>1, AnimTypes DEF IInv
  <2>3. TotalTime(anims[id].A) \in Nat /\ TotalTime(anims[id].B) \in Nat
    BY <1>1, KeyTimes
  <2> QED BY <2>1, <2>2, <2>3, TimerInRange DEF Updated
<1>3. mA \in Mixer /\ mB \in Mixer
  <2> HIDE DEF tA, tB
  <2> QED BY <1>1, <1>2, BonesAreKeys
<1>4. MixerC(id) \in Mixer
  <2>1. mBlendTs[id] \in Int /\ Full \in Int BY AnimTypes, FullAssumption DEF IInv
  <2>2. <<id, "MixerA">> \in (1..MaxAnims) \X Buffers
    BY BoundsAssumption DEF IInv, TypeOK, Buffers
  <2>3. <<id, "MixerB">> \in (1..MaxAnims) \X Buffers
    BY BoundsAssumption DEF IInv, TypeOK, Buffers
  <2> QED BY <2>1, <2>2, <2>3 DEF MixerC, Mixer
<1>5. /\ tCurr' \in Seq([A : Nat, B : Nat]) /\ Len(tCurr') = Len(tCurr)
      /\ \A o \in 1..Len(anims) : o # id => tCurr'[o] = tCurr[o]
      /\ tCurr'[id] = [A |-> tA, B |-> tB]
  <2>1. tCurr \in Seq([A : Nat, B : Nat]) /\ Len(tCurr) = Len(anims)
    BY DEF IInv, TypeOK
  <2>2. [A |-> tA, B |-> tB] \in [A : Nat, B : Nat]
    <3>1. tA \in Nat /\ tB \in Nat BY <1>1, <1>2, KeyTimes
    <3> HIDE DEF tA, tB
    <3> QED BY <3>1
  <2>3. tCurr' = [tCurr EXCEPT ![id] = [A |-> tA, B |-> tB]] BY <1>0 DEF SampleBlend
  <2> HIDE DEF tA, tB
  <2> QED BY <2>1, <2>2, <2>3, ExceptSeq
<1>6. /\ mixer' \in Seq(Mixers) /\ Len(mixer') = Len(mixer)
      /\ \A o \in 1..Len(anims) : o # id => mixer'[o] = mixer[o]
      /\ mixer'[id] = [MixerA |-> mA, MixerB |-> mB, MixerC |-> MixerC(id)]
  <2> DEFINE m == [MixerA |-> mA, MixerB |-> mB, MixerC |-> MixerC(id)]
  <2>1. mixer \in Seq(Mixers) /\ Len(mixer) = Len(anims)
    BY DEF IInv, TypeOK
  <2>2. m \in Mixers
    <3> HIDE DEF mA, mB
    <3> QED BY <1>3, <1>4
  <2>3. mixer' = [mixer EXCEPT ![id] = m]
    <3>1. tCurr'[id].A = tA /\ tCurr'[id].B = tB
      <4> HIDE DEF tA, tB
      <4> QED BY <1>5
    <3>2. mixer' = [mixer EXCEPT ![id] =
                     [MixerA |-> AnimateBones(anims[id].A, tCurr'[id].A),
                      MixerB |-> AnimateBones(anims[id].B, tCurr'[id].B),
                      MixerC |-> MixerC(id)]]
      BY <1>0 DEF SampleBlend
    <3> HIDE DEF tA, tB
    <3> QED BY <3>1, <3>2
  <2> HIDE DEF m, Mixers
  <2>4. mixer' \in Seq(Mixers) /\ Len(mixer') = Len(mixer) /\ mixer'[id] = m
        /\ \A o \in 1..Len(anims) : o # id => mixer'[o] = mixer[o]
    BY <2>1, <2>2, <2>3, ExceptSeq
  <2> QED BY <2>4 DEF m
<1>7. \A v \in Voices(id) :
        /\ tCurr'[id][v] \in 0..TotalTime(anims[id][v])
        /\ mixer'[id][MixerOf[v]] = AnimateBones(anims[id][v], tCurr'[id][v])
  <2> HIDE DEF tA, tB
  <2> QED BY <1>1, <1>2, <1>5, <1>6 DEF MixerOf
<1>8. /\ TypeOK' /\ Owned' /\ Sampled' /\ Ready(id)'
      /\ \A o \in 1..Len(anims) : Ready(o) => Ready(o)'
  <2>1. /\ UNCHANGED <<scene, mBlendTs, sweep, tDelta>> /\ i' = i + 1
        /\ sweep \in {"clips", "blends"}
    BY DEF SampleBlend
  <2> HIDE DEF tA, tB
  <2> QED BY <2>1, <1>5, <1>6, <1>7, SampleStep
<1>9. InTurn'
  <2>1. ASSUME NEW k \in 1..Len(blendPool), k < i + 1 PROVE Ready(blendPool[k])'
    <3>1. CASE k = i
      <4>1. blendPool'[k] = id BY <3>1, <1>0 DEF SampleBlend
      <4> QED BY <4>1, <1>8
    <3>2. CASE k < i
      <4>1. Ready(blendPool[k]) BY <3>2 DEF IInv, InTurn, SampleBlend
      <4>2. blendPool[k] \in 1..Len(anims) BY DEF IInv, Owned
      <4> QED BY <4>1, <4>2, <1>8 DEF SampleBlend
    <3> QED BY <2>1, <3>1, <3>2, <1>1
  <2>2. ASSUME NEW k \in 1..Len(animPool) PROVE Ready(animPool[k])'
    <3>1. Ready(animPool[k]) BY DEF IInv, InTurn, SampleBlend
    <3>2. animPool[k] \in 1..Len(anims) BY DEF IInv, Owned
    <3> QED BY <3>1, <3>2, <1>8 DEF SampleBlend
  <2> QED BY <2>1, <2>2 DEF InTurn, SampleBlend
<1> QED BY <1>8, <1>9 DEF IInv

\* A sweep that ends has reached everything in its pool.
LEMMA EndSweepStep ==
  ASSUME IInv, EndSweep
  PROVE  IInv'
<1>1. /\ UNCHANGED <<scene, tCurr, mixer, mBlendTs, tDelta>> /\ i' = 1
      /\ sweep \in {"clips", "blends", "skins"} /\ sweep' = After[sweep]
      /\ i > Len(Pool[sweep])
  BY DEF EndSweep, After
<1>2. \A id \in 1..Len(anims) : Ready(id)' <=> Ready(id)
  BY <1>1 DEF Ready, Voices, scene
<1>3. InTurn'
  <2>1. CASE sweep = "clips"
    <3>1. sweep' = "blends" /\ i > Len(animPool) BY <1>1, <2>1 DEF After, Pool
    <3>2. \A k \in 1..Len(animPool) : Ready(animPool[k])
      BY <2>1, <3>1 DEF IInv, InTurn, TypeOK
    <3>3. \A k \in 1..Len(animPool) : Ready(animPool[k])'
      BY <1>1, <1>2, <3>2 DEF IInv, Owned, scene
    <3>4. animPool' = animPool /\ Len(blendPool') \in Nat BY <1>1 DEF scene, IInv, TypeOK
    <3> QED BY <1>1, <3>1, <3>3, <3>4 DEF InTurn
  <2>2. CASE sweep = "blends"
    <3>1. sweep' = "skins" /\ i > Len(blendPool) BY <1>1, <2>2 DEF After, Pool
    <3>2. \A k \in 1..Len(blendPool) : Ready(blendPool[k])
      BY <2>2, <3>1 DEF IInv, InTurn, TypeOK
    <3>3. \A k \in 1..Len(animPool) : Ready(animPool[k])
      BY <2>2 DEF IInv, InTurn
    <3>4. \A id \in 1..Len(anims) : Ready(id)
      BY <3>2, <3>3 DEF IInv, Owned
    <3> QED BY <1>1, <1>2, <3>1, <3>4 DEF InTurn, scene
  <2>3. CASE sweep = "skins"
    <3>1. sweep' = "draw" BY <1>1, <2>3 DEF After
    <3>2. \A id \in 1..Len(anims) : Ready(id)
      BY <2>3 DEF IInv, InTurn
    <3> QED BY <1>1, <1>2, <3>1, <3>2 DEF InTurn, scene
  <2> QED BY <1>1, <2>1, <2>2, <2>3
<1>4. sweep' \in {"load", "idle", "clips", "blends", "skins", "draw"}
  BY <1>1 DEF After
<1> QED BY SMTT(30), <1>1, <1>3, <1>4, QuietStep DEF IInv, TypeOK

\* Every step preserves the invariant.
LEMMA NextStep == IInv /\ [Next]_vars => IInv'
<1> SUFFICES ASSUME IInv, [Next]_vars PROVE IInv'
  OBVIOUS
<1> USE DEF scene
<1>0. mBlendTs \in Seq(0..Full) /\ Len(mBlendTs) = Len(anims) /\ Full \in Nat
  BY FullAssumption DEF IInv, TypeOK
<1>1. ASSUME NEW c \in Clips, NEW n \in 1..MaxSkinEntities, AddClip(c, n) PROVE IInv'
  BY <1>1, NewAnimStep DEF AddClip
<1>2. ASSUME NEW c1 \in Clips, NEW c2 \in Clips, AddBlend(c1, c2) PROVE IInv'
  BY <1>2, NewAnimStep, NoneAssumption, BoundsAssumption DEF AddBlend
<1>3. CASE Loaded
  BY <1>3, QuietStep DEF Loaded, InTurn, IInv, TypeOK
<1>4. ASSUME NEW d \in Deltas, NEW ts \in 0..Full, BeginFrame(d, ts) PROVE IInv'
  <2>1. mBlendTs' \in Seq(0..Full) /\ Len(mBlendTs') = Len(mBlendTs)
    <3>1. CASE poBlendComputeBlend = None BY <1>0, <1>4, <3>1 DEF BeginFrame
    <3>2. CASE poBlendComputeBlend # None
      <4>1. poBlendComputeBlend \in 1..Len(mBlendTs) BY <1>0, <3>2 DEF IInv, TypeOK
      <4>2. mBlendTs' = [mBlendTs EXCEPT ![poBlendComputeBlend] = ts]
        BY <1>4, <3>2 DEF BeginFrame
      <4> QED BY <1>0, <4>1, <4>2, ExceptSeq
    <3> QED BY <3>1, <3>2
  <2>2. \A k \in Nat \ {0} : ~(k < 1) OBVIOUS
  <2>3. InTurn'
    BY <1>4, <2>2 DEF BeginFrame, InTurn, IInv, TypeOK
  <2> QED BY <1>4, <2>1, <2>3, QuietStep DEF BeginFrame, IInv, TypeOK
<1>5. CASE SampleClip BY <1>5, SampleClipStep
<1>6. CASE SampleBlend BY <1>6, SampleBlendStep
<1>7. CASE Skin
  <2>1. InTurn' BY <1>7 DEF Skin, InTurn, IInv, Ready, Voices
  <2> QED BY <1>7, <2>1, QuietStep DEF Skin, IInv, TypeOK
<1>8. CASE EndSweep BY <1>8, EndSweepStep
<1>9. CASE DrawSkin
  <2>1. InTurn' BY <1>9 DEF DrawSkin, InTurn, IInv, Ready, Voices
  <2> QED BY <1>9, <2>1, QuietStep DEF DrawSkin, IInv, TypeOK
<1>10. CASE Present
  BY <1>10, QuietStep DEF Present, InTurn, IInv, TypeOK
<1>11. CASE UNCHANGED vars
  <2>1. InTurn' BY <1>11 DEF vars, InTurn, IInv, Ready, Voices
  <2> QED BY <1>11, <2>1, QuietStep DEF vars, IInv, TypeOK
<1> QED BY <1>1, <1>2, <1>3, <1>4, <1>5, <1>6, <1>7, <1>8, <1>9, <1>10, <1>11
        DEF Next, Load

\* A scene without animations satisfies the invariant.
LEMMA InitStep == Init => IInv
<1> SUFFICES ASSUME Init PROVE IInv
  OBVIOUS
<1>1. /\ \A S : <<>> \in Seq(S)
      /\ Len(anims) = 0 /\ Len(animPool) = 0 /\ Len(blendPool) = 0
  BY DEF Init
<1>2. TypeOK
  <2>1. /\ anims = <<>> /\ animPool = <<>> /\ blendPool = <<>> /\ skinPool = <<>>
        /\ tCurr = <<>> /\ mixer = <<>> /\ mBlendTs = <<>>
        /\ poBlendComputeBlend = None /\ sweep = "load" /\ i = 1 /\ tDelta = 0
    BY DEF Init
  <2> QED BY <1>1, <2>1, BoundsAssumption DEF TypeOK
<1>3. Owned /\ Sampled /\ InTurn
  BY <1>1 DEF Init, Owned, Sampled, InTurn
<1> QED BY <1>2, <1>3 DEF IInv

\* The inductive invariant holds in every state of every behaviour.
LEMMA Invariance == Spec => []IInv
BY InitStep, NextStep, PTL DEF Spec

------------------------------------------------------------------------------
\* TypeOK for all clips and any number of animations: no TimerController leaves
\* its range, whatever the frames take.
THEOREM TypeCorrect == Spec => []TypeOK
<1>1. IInv => TypeOK BY DEF IInv
<1> QED BY <1>1, Invariance, PTL

\* KeysEnclose for all clips, frame lengths and numbers of animations:
\* Clip::AnimateBones never steps back from the first key frame, never leaves the
\* clip and never extrapolates, and every mixer has key frames when
\* ComputeBlend::Execute asserts it.
THEOREM MixersEnclose == Spec => []KeysEnclose
<1>1. IInv => KeysEnclose
  <2> SUFFICES ASSUME IInv PROVE KeysEnclose
    OBVIOUS
  <2> SUFFICES ASSUME NEW id \in 1..Len(anims), NEW v \in Voices(id)
               PROVE  LET m == mixer[id][MixerOf[v]]
                      IN  IF m = Unsampled THEN sweep \notin {"skins", "draw"}
                          ELSE /\ {m.a[2], m.b[2]} \subseteq 1..NumFrames[anims[id][v]]
                               /\ KeyTime(m.a[2]) <= tCurr[id][v]
                               /\ tCurr[id][v] <= KeyTime(m.b[2])
                               /\ 0 <= m.num /\ m.num <= m.den /\ m.den > 0
    BY DEF KeysEnclose
  <2>1. CASE mixer[id][MixerOf[v]] = Unsampled
    BY <2>1 DEF IInv, InTurn, Ready
  <2>2. CASE mixer[id][MixerOf[v]] # Unsampled
    <3>1. mixer[id][MixerOf[v]] = AnimateBones(anims[id][v], tCurr[id][v])
      BY <2>2 DEF IInv, Sampled
    <3>2. anims[id][v] \in Clips /\ tCurr[id][v] \in 0..TotalTime(anims[id][v])
      <4>1. anims[id][v] \in Clips /\ tCurr[id][v] \in Nat BY AnimTypes DEF IInv
      <4>2. tCurr[id][v] <= TotalTime(anims[id][v]) BY DEF IInv, TypeOK
      <4> QED BY <4>1, <4>2, KeyTimes
    <3> QED BY <2>2, <3>1, <3>2, BonesEnclose
  <2> QED BY <2>1, <2>2
<1> QED BY <1>1, Invariance, PTL

------------------------------------------------------------------------------
(* What the buffers hold.                                                  *)

\* Each animation has one turn in the sweep of its kind, and a mesh belongs to an
\* animation that exists.
Once ==
  /\ \A j, k \in 1..Len(animPool) : animPool[j] = animPool[k] => j = k
  /\ \A j, k \in 1..Len(blendPool) : blendPool[j] = blendPool[k] => j = k
  /\ \A k \in 1..Len(skinPool) : skinPool[k] \in 1..Len(anims)

\* The mixer C of every blend sampled in this frame has the factor of this frame.
Joined(id) == mixer[id].MixerC = MixerC(id)

JoinedInTurn ==
  /\ sweep = "blends" => \A k \in 1..Len(blendPool) : k < i => Joined(blendPool[k])
  /\ sweep \in {"skins", "draw"} => \A k \in 1..Len(blendPool) : Joined(blendPool[k])

\* Every slot of the pipeline is there, and every animation's buffers.
Wired ==
  /\ gpu = [slot |-> gpu.slot, data |-> gpu.data]
  /\ DOMAIN gpu.slot = Slots
  /\ gpu.data = [id \in 1..Len(anims) |-> gpu.data[id]]
  /\ \A id \in 1..Len(anims) : DOMAIN gpu.data[id] = Buffers

\* The pose that the timers and the factor of an animation call for.
Posed(id) ==
  LET a == Player!PoseAt(anims[id].A, tCurr[id].A)
  IN  IF anims[id].B = None THEN a
      ELSE Player!Between(a, Player!PoseAt(anims[id].B, tCurr[id].B), mBlendTs[id], Full)

\* What Player shows of mesh k at these times.
Picture(k) == [anim |-> skinPool[k], pose |-> Posed(skinPool[k])]

Skinned(k) == gpu.data[skinPool[k]]["BoneWorld"] = Picture(k)

\* The skinning sweep leaves each mesh's picture in its bone buffer.
SkinnedInTurn ==
  /\ sweep = "skins" => \A k \in 1..Len(skinPool) : k < i => Skinned(k)
  /\ sweep = "draw" => \A k \in 1..Len(skinPool) : Skinned(k)

\* The frame being drawn has the pictures of the meshes drawn so far.
DrawnInTurn ==
  /\ sweep # "draw" => drawn = <<>>
  /\ sweep = "draw" => /\ i <= Len(skinPool) + 1
                       /\ drawn = [k \in 1..(i - 1) |-> Picture(k)]

\* What the pipeline holds in each sweep of a frame.
Pictures == Once /\ JoinedInTurn /\ Wired /\ SkinnedInTurn /\ DrawnInTurn

\* The inductive invariant of the refinement.
PictureInv == IInv /\ Pictures

------------------------------------------------------------------------------
(* What the shaders compute.                                               *)

\* Division with remainder undone: a whole number of parts and a rest below one.
LEMMA DivMod ==
  \A q, r \in Nat, f \in Nat \ {0} :
    r < f => (q * f + r) \div f = q /\ (q * f + r) % f = r
<1> SUFFICES ASSUME NEW q \in Nat, NEW r \in Nat, NEW f \in Nat \ {0}, r < f,
                    NEW t \in Int, t = q * f + r
             PROVE  t \div f = q /\ t % f = r
  OBVIOUS
<1>0. PICK p, m : p = t \div f /\ m = t % f
  OBVIOUS
<1>1. p \in Int /\ m \in 0..(f - 1) /\ t = p * f + m
  BY <1>0
<1>2. \A x, y \in Int : x <= y => x * f <= y * f
  OBVIOUS
<1>3. q * f \in Int /\ p * f \in Int /\ q \in Int
  BY <1>1
<1>4. ~(p < q)
  <2> SUFFICES ASSUME p < q PROVE FALSE OBVIOUS
  <2>1. (p + 1) * f <= q * f BY <1>1, <1>2
  <2>2. (p + 1) * f = p * f + f BY <1>1
  <2> QED BY <1>1, <1>3, <2>1, <2>2
<1>5. ~(q < p)
  <2> SUFFICES ASSUME q < p PROVE FALSE OBVIOUS
  <2>1. (q + 1) * f <= p * f BY <1>1, <1>2
  <2>2. (q + 1) * f = q * f + f OBVIOUS
  <2> QED BY <1>1, <1>3, <2>1, <2>2
<1>6. p = q BY <1>1, <1>4, <1>5
<1> QED BY <1>0, <1>1, <1>3, <1>6

\* A mixer shader's interpolation is the one that Player shows.
LEMMA MixIsBetween ==
  ASSUME NEW x, NEW y, NEW num, NEW den
  PROVE  Mix(x, y, num, den) = Player!Between(x, y, num, den)
BY DEF Mix, Player!Between

\* The key frames and the ratio that Clip::AnimateBones gives a mixer make the pose
\* that Player has of the clip at that time, on a key frame or between two.
LEMMA MixIsPose ==
  ASSUME NEW c \in Clips, NEW t \in 0..TotalTime(c), NEW m, m = AnimateBones(c, t)
  PROVE  /\ Mix(m.a, m.b, m.num, m.den) = Player!PoseAt(c, t)
         /\ m.a[1] = c /\ m.b[1] = c
<1> DEFINE n == NumFrames[c]
<1>1. n \in Nat \ {0} /\ t \in Nat /\ t <= KeyTime(n) /\ KeyTime(n) \in Int
  BY KeyTimes DEF TotalTime
<1>2. CASE n > 1
  <2>0. PICK pB : pB = Bucket(c, t)
    OBVIOUS
  <2>1. pB \in 1..n /\ (pB = n \/ t < KeyTime(pB)) /\ (pB > 1 => KeyTime(pB - 1) <= t)
    BY <1>1, <2>0, BucketIs
  <2>2. pB > 1
    BY <1>1, <1>2, <2>1, KeyTimes
  <2>3. PICK pA \in Nat \ {0} : pA = pB - 1
    BY <2>1, <2>2
  <2>4. m = [a |-> <<c, pA>>, b |-> <<c, pB>>,
             num |-> t - KeyTime(pA), den |-> KeyTime(pB) - KeyTime(pA)]
    BY <1>2, <2>0, <2>3 DEF AnimateBones
  <2>5. PICK r : r = t - KeyTime(pA)
    OBVIOUS
  <2>6. /\ KeyTime(pB) - KeyTime(pA) = Film /\ Film \in Nat \ {0}
        /\ KeyTime(pA) = (pA - 1) * Film /\ KeyTime(pB) = (pB - 1) * Film
        /\ KeyTime(pA) \in Int /\ KeyTime(pB) \in Int
    BY <2>1, <2>3, KeyTimes, TicksAssumption DEF KeyTime
  <2>7. r \in Nat /\ r <= Film
    <3>1. KeyTime(pA) <= t
      BY <2>1, <2>2, <2>3
    <3>2. t < KeyTime(pB) \/ t <= KeyTime(pB)
      BY <1>1, <2>1
    <3> QED BY <1>1, <2>5, <2>6, <3>1, <3>2
  <2>8. CASE r < Film
    <3>0. PICK q : q = pA - 1
      OBVIOUS
    <3>6. q \in Nat /\ q * Film = KeyTime(pA)
      <4>1. q \in Nat BY <3>0
      <4>2. q * Film = KeyTime(pA) BY <2>6, <3>0, Zenon
      <4> QED BY <4>1, <4>2
    <3>4. t = q * Film + r
      BY <1>1, <2>5, <2>6, <3>6
    <3>5. t \div Film = q /\ t % Film = r
      <4>1. Film \in Nat \ {0} /\ q \in Nat /\ r \in Nat /\ r < Film /\ t \in Int
        BY <1>1, <2>6, <2>7, <2>8, <3>6
      <4>2. (q * Film + r) \div Film = q /\ (q * Film + r) % Film = r
        BY <4>1, DivMod
      <4> QED BY <3>4, <4>2, Zenon
    <3>1. t \div Film = pA - 1 /\ t % Film = r
      BY <3>0, <3>5
    <3>2. t \div Film + 1 = pA /\ pA + 1 = pB
      BY <2>1, <2>3, <3>1
    <3>3. Player!PoseAt(c, t) = IF r = 0 THEN <<c, pA>>
                                ELSE Player!Between(<<c, pA>>, <<c, pB>>, r, Film)
      BY <3>1, <3>2 DEF Player!PoseAt
    <3> QED BY <2>4, <2>5, <2>6, <3>3, MixIsBetween DEF Player!Between
  <2>9. CASE r = Film
    <3>0. PICK q : q = pB - 1
      OBVIOUS
    <3>6. q \in Nat /\ q * Film = KeyTime(pB)
      BY <2>1, <2>2, <2>6, <3>0
    <3>5. t = q * Film + 0
      BY <1>1, <2>5, <2>6, <2>9, <3>6
    <3>7. t \div Film = q /\ t % Film = 0
      <4>1. Film \in Nat \ {0} /\ q \in Nat /\ 0 \in Nat /\ 0 < Film /\ t \in Int
        BY <1>1, <2>6, <3>6
      <4>2. (q * Film + 0) \div Film = q /\ (q * Film + 0) % Film = 0
        BY <4>1, DivMod
      <4> QED BY <3>5, <4>2, Zenon
    <3>1. t \div Film = pB - 1 /\ t % Film = 0
      BY <3>0, <3>7
    <3>2. t \div Film + 1 = pB
      BY <2>1, <3>1
    <3>3. Player!PoseAt(c, t) = <<c, pB>>
      BY <3>1, <3>2 DEF Player!PoseAt
    <3>4. <<c, pA>> # <<c, pB>> /\ r # 0
      BY <2>1, <2>3, <2>6, <2>9
    <3> QED BY <2>4, <2>5, <2>6, <2>9, <3>3, <3>4 DEF Mix
  <2> QED BY <2>6, <2>7, <2>8, <2>9
<1>3. CASE ~(n > 1)
  <2>1. n = 1
    <3> HIDE DEF n
    <3> QED BY <1>1, <1>3
  <2>2. t = 0 BY <2>1, <1>1, KeyTimes
  <2>3. m = [a |-> <<c, 1>>, b |-> <<c, 1>>, num |-> 0, den |-> 1]
    BY <1>3 DEF AnimateBones
  <2>4. 0 \div Film = 0 /\ 0 % Film = 0
    BY TicksAssumption
  <2>5. Player!PoseAt(c, t) = <<c, 1>>
    BY <2>2, <2>4 DEF Player!PoseAt
  <2> QED BY <2>3, <2>5 DEF Mix
<1> QED BY <1>2, <1>3

\* Append as a function, which an induction over what was appended needs.
LEMMA AppendsOne ==
  ASSUME NEW n \in Nat, NEW s, s = [k \in 1..n |-> s[k]], NEW x
  PROVE  Append(s, x) = [k \in 1..(n + 1) |-> IF k = n + 1 THEN x ELSE s[k]]
<1> DEFINE S == {s[k] : k \in 1..n} \cup {x}
<1>1. s \in Seq(S) /\ Len(s) = n
  OBVIOUS
<1> HIDE DEF S
<1>2. x \in S
  BY DEF S
<1>3. /\ Append(s, x) \in Seq(S) /\ Len(Append(s, x)) = n + 1
      /\ \A k \in 1..n : Append(s, x)[k] = s[k]
      /\ Append(s, x)[n + 1] = x
  BY <1>1, <1>2, AppendProperties
<1>4. Append(s, x) = [k \in 1..(n + 1) |-> Append(s, x)[k]]
  BY <1>3, LenProperties
<1>5. \A k \in 1..(n + 1) : k = n + 1 \/ k \in 1..n
  OBVIOUS
<1> QED BY <1>3, <1>4, <1>5

\* Wired, for a pipeline g and n animations.
Wire(g, n) ==
  /\ g = [slot |-> g.slot, data |-> g.data]
  /\ DOMAIN g.slot = Slots
  /\ g.data = [id \in 1..n |-> g.data[id]]
  /\ \A id \in 1..n : DOMAIN g.data[id] = Buffers

\* h differs from g in buffer buf of animation id alone, which holds x.
Fills(g, h, n, id, buf, x) ==
  /\ h.data[id][buf] = x
  /\ \A b \in Buffers : b # buf => h.data[id][b] = g.data[id][b]
  /\ \A o \in 1..n : o # id => h.data[o] = g.data[o]

\* A dispatch that fills buffer buf of animation id leaves every other one alone.
LEMMA FilledIs ==
  ASSUME NEW n \in Nat, NEW g, Wire(g, n), NEW id \in 1..n, NEW buf \in Buffers, NEW x,
         NEW h, DOMAIN h.slot = Slots,
         h = [slot |-> h.slot, data |-> Filled(g.data, <<id, buf>>, x)]
  PROVE  Wire(h, n) /\ Fills(g, h, n, id, buf, x)
<1>0. PICK d : d = g.data
  OBVIOUS
<1>1. h.data = [d EXCEPT ![id] = [d[id] EXCEPT ![buf] = x]]
  BY <1>0 DEF Filled
<1>2. d = [o \in 1..n |-> d[o]] /\ \A o \in 1..n : DOMAIN d[o] = Buffers
  BY <1>0 DEF Wire
<1>3. h.data = [o \in 1..n |-> IF o = id THEN [d[id] EXCEPT ![buf] = x] ELSE d[o]]
  BY <1>1, <1>2
<1>4. h.data = [o \in 1..n |-> h.data[o]]
  BY <1>3
<1>5. \A o \in 1..n : DOMAIN h.data[o] = Buffers
  BY <1>2, <1>3
<1>6. h = [slot |-> h.slot, data |-> h.data]
  <2>1. h.data = Filled(g.data, <<id, buf>>, x)
    OBVIOUS
  <2> QED BY <2>1
<1>7. Wire(h, n)
  BY <1>4, <1>5, <1>6 DEF Wire
<1>8. h.data[id][buf] = x /\ \A b \in Buffers : b # buf => h.data[id][b] = d[id][b]
  BY <1>2, <1>3
<1>9. \A o \in 1..n : o # id => h.data[o] = d[o]
  BY <1>3
<1> QED BY <1>0, <1>7, <1>8, <1>9 DEF Fills

\* Four slots that are bound together hold what they were bound to, and no buffer
\* changes (the bind half of privMixerExecute).
LEMMA Binds ==
  ASSUME NEW s, NEW p, NEW q, NEW w, NEW k, NEW a, NEW b, NEW c, NEW d, NEW g, NEW h,
         g = [slot |-> s, data |-> g.data], {p, q, w, k} \subseteq DOMAIN s,
         p # q, p # w, p # k, q # w, q # k, w # k,
         h = [g EXCEPT !.slot = [@ EXCEPT ![p] = a, ![q] = b, ![w] = c, ![k] = d]]
  PROVE  /\ h = [slot |-> h.slot, data |-> g.data] /\ DOMAIN h.slot = DOMAIN s
         /\ h.slot[p] = a /\ h.slot[q] = b /\ h.slot[w] = c /\ h.slot[k] = d
<1>1. PICK t : t = [s EXCEPT ![p] = a, ![q] = b, ![w] = c, ![k] = d]
  OBVIOUS
<1>2. DOMAIN t = DOMAIN s /\ t[p] = a /\ t[q] = b /\ t[w] = c /\ t[k] = d
  BY <1>1
<1>3. h = [slot |-> t, data |-> g.data]
  BY <1>1
<1> QED BY <1>2, <1>3

\* The slots that a mixer shader uses are slots of the pipeline, and no two are one.
LEMMA SlotsApart ==
  ASSUME NEW shader \in {"MixerA", "MixerB", "MixerC"}
  PROVE  /\ {Reads[shader][1], Reads[shader][2], Writes[shader], Constants[shader]}
              \subseteq Slots
         /\ Reads[shader][1] # Reads[shader][2] /\ Reads[shader][1] # Writes[shader]
         /\ Reads[shader][1] # Constants[shader] /\ Reads[shader][2] # Writes[shader]
         /\ Reads[shader][2] # Constants[shader] /\ Writes[shader] # Constants[shader]
BY DEF Reads, Writes, Constants, Slots

\* privMixerExecute of one mixer: its own buffer holds the mix of what its two inputs
\* hold, whatever was bound before and by whom.
LEMMA MixedIs ==
  ASSUME NEW n \in Nat, NEW g, Wire(g, n), NEW id \in 1..n,
         NEW shader \in {"MixerA", "MixerB", "MixerC"},
         NEW m, m = mixer[id][shader], NEW h, h = Mixed(g, id, shader),
         NEW x, x = Content(g.data, m.a), NEW y, y = Content(g.data, m.b)
  PROVE  Wire(h, n) /\ Fills(g, h, n, id, shader, Mix(x, y, m.num, m.den))
<1>0. PICK p, q, w, k : /\ p = Reads[shader][1] /\ q = Reads[shader][2]
                        /\ w = Writes[shader] /\ k = Constants[shader]
  OBVIOUS
<1>1. /\ {p, q, w, k} \subseteq Slots
      /\ p # q /\ p # w /\ p # k /\ q # w /\ q # k /\ w # k
  BY <1>0, SlotsApart
<1>2. PICK s : s = g.slot
  OBVIOUS
<1>3. PICK f : f = [g EXCEPT !.slot = [@ EXCEPT ![p] = m.a, ![q] = m.b, ![w] = <<id, shader>>,
                                                ![k] = <<m.num, m.den>>]]
  OBVIOUS
<1>4. /\ f = [slot |-> f.slot, data |-> g.data] /\ DOMAIN f.slot = Slots
      /\ f.slot[p] = m.a /\ f.slot[q] = m.b
      /\ f.slot[w] = <<id, shader>> /\ f.slot[k] = <<m.num, m.den>>
  <2>1. g = [slot |-> s, data |-> g.data] /\ DOMAIN s = Slots
    BY <1>2 DEF Wire
  <2> QED BY <1>1, <1>3, <2>1, Binds
<1>5. PICK z : z = Mix(x, y, m.num, m.den)
  OBVIOUS
<1>6. h = DispatchMixer(f, shader)
  BY <1>0, <1>3 DEF Mixed
<1>7. h = [f EXCEPT !.data = Filled(f.data, <<id, shader>>, z)]
  <2>1. f.data = g.data BY <1>4
  <2>2. f.slot[k][1] = m.num /\ f.slot[k][2] = m.den BY <1>4
  <2> QED BY <1>0, <1>4, <1>5, <1>6, <2>1, <2>2 DEF DispatchMixer
<1>8. DOMAIN h.slot = Slots /\ h = [slot |-> h.slot, data |-> Filled(g.data, <<id, shader>>, z)]
  <2>1. PICK fs, fd : fs = f.slot /\ fd = Filled(g.data, <<id, shader>>, z)
    OBVIOUS
  <2>2. f = [slot |-> fs, data |-> g.data] BY <1>4, <2>1
  <2>3. h = [slot |-> fs, data |-> fd] BY <1>7, <2>1, <2>2
  <2> QED BY <1>4, <2>1, <2>3
<1>9. shader \in Buffers BY DEF Buffers
<1> QED BY <1>5, <1>8, <1>9, FilledIs

\* Binds for the three slots of the world shaders.
LEMMA BindsThree ==
  ASSUME NEW s, NEW p, NEW q, NEW w, NEW a, NEW b, NEW c, NEW g, NEW h,
         g = [slot |-> s, data |-> g.data], {p, q, w} \subseteq DOMAIN s,
         p # q, p # w, q # w,
         h = [g EXCEPT !.slot = [@ EXCEPT ![p] = a, ![q] = b, ![w] = c]]
  PROVE  /\ h = [slot |-> h.slot, data |-> g.data] /\ DOMAIN h.slot = DOMAIN s
         /\ h.slot[p] = a /\ h.slot[q] = b /\ h.slot[w] = c
<1>1. PICK t : t = [s EXCEPT ![p] = a, ![q] = b, ![w] = c]
  OBVIOUS
<1>2. DOMAIN t = DOMAIN s /\ t[p] = a /\ t[q] = b /\ t[w] = c
  BY <1>1
<1>3. h = [slot |-> t, data |-> g.data]
  BY <1>1
<1> QED BY <1>2, <1>3

\* privWorldComputeExecute: the bone buffer that a vertex shader reads holds the
\* animation's own table with the pose of its last mixer.
LEMMA WorldIs ==
  ASSUME NEW n \in Nat, NEW g, Wire(g, n), NEW id \in 1..n, id \notin Clips,
         NEW shader \in {"WorldA", "WorldC"}, NEW h, h = World(g, id, shader),
         NEW local, local = (IF shader = "WorldA" THEN "MixerA" ELSE "MixerC")
  PROVE  /\ Wire(h, n)
         /\ h.data[id]["BoneWorld"] = [anim |-> id, pose |-> g.data[id][local]]
         /\ \A o \in 1..n : o # id => h.data[o] = g.data[o]
<1>0. PICK p, q, w : /\ p = Local[shader] /\ q = "HierarchyTable" /\ w = "BoneWorldOut"
                     /\ Writes[shader] = w
  BY DEF Writes
<1>1. {p, q, w} \subseteq Slots /\ p # q /\ p # w /\ q # w
  BY <1>0 DEF Local, Slots
<1>2. PICK s : s = g.slot
  OBVIOUS
<1>3. PICK f : f = [g EXCEPT !.slot = [@ EXCEPT ![p] = <<id, local>>, ![q] = id,
                                                ![w] = <<id, "UAVWorldMat">>]]
  OBVIOUS
<1>4. /\ f = [slot |-> f.slot, data |-> g.data] /\ DOMAIN f.slot = Slots
      /\ f.slot[p] = <<id, local>> /\ f.slot[q] = id /\ f.slot[w] = <<id, "UAVWorldMat">>
  <2>1. g = [slot |-> s, data |-> g.data] /\ DOMAIN s = Slots
    BY <1>2 DEF Wire
  <2> QED BY <1>1, <1>3, <2>1, BindsThree
<1>5. PICK z : z = [anim |-> id, pose |-> g.data[id][local]]
  OBVIOUS
<1>6. PICK done : done = DispatchWorld(f, shader)
  OBVIOUS
<1>7. done = [f EXCEPT !.data = Filled(g.data, <<id, "UAVWorldMat">>, z)]
  <2>1. f.data = g.data BY <1>4
  <2>2. Content(f.data, f.slot[p]) = g.data[id][local]
    BY <1>4, <2>1 DEF Content
  <2> QED BY <1>0, <1>4, <1>5, <1>6, <2>1, <2>2 DEF DispatchWorld
<1>8. DOMAIN done.slot = Slots
      /\ done = [slot |-> done.slot, data |-> Filled(g.data, <<id, "UAVWorldMat">>, z)]
  <2>1. PICK fs, fd : fs = f.slot /\ fd = Filled(g.data, <<id, "UAVWorldMat">>, z)
    OBVIOUS
  <2>2. f = [slot |-> fs, data |-> g.data] BY <1>4, <2>1
  <2>3. done = [slot |-> fs, data |-> fd] BY <1>7, <2>1, <2>2
  <2> QED BY <1>4, <2>1, <2>3
<1>9. "UAVWorldMat" \in Buffers /\ "BoneWorld" \in Buffers BY DEF Buffers
<1>10. Wire(done, n) /\ Fills(g, done, n, id, "UAVWorldMat", z)
  BY <1>8, <1>9, FilledIs
<1>11. done.data[id]["UAVWorldMat"] = z /\ \A o \in 1..n : o # id => done.data[o] = g.data[o]
  BY <1>10 DEF Fills
<1>12. h = [done EXCEPT !.data[id]["BoneWorld"] = z]
  BY <1>0, <1>3, <1>6, <1>11 DEF World
<1>13. DOMAIN h.slot = Slots
       /\ h = [slot |-> h.slot, data |-> Filled(done.data, <<id, "BoneWorld">>, z)]
  <2>1. PICK fs, fd, fe : /\ fs = done.slot /\ fd = done.data
                          /\ fe = [fd EXCEPT ![id]["BoneWorld"] = z]
    OBVIOUS
  <2>2. done = [slot |-> fs, data |-> fd] BY <1>10, <2>1 DEF Wire
  <2>3. h = [slot |-> fs, data |-> fe] BY <1>12, <2>1, <2>2
  <2>4. fe = Filled(done.data, <<id, "BoneWorld">>, z) BY <2>1 DEF Filled
  <2> QED BY <1>8, <2>1, <2>3, <2>4
<1>14. Wire(h, n) /\ Fills(done, h, n, id, "BoneWorld", z)
  BY <1>9, <1>10, <1>13, FilledIs
<1> QED BY <1>5, <1>11, <1>14 DEF Fills

\* When the compute shaders run, mixers A and B mix the pose of their clips at the
\* times of this frame's timers, and key frame buffers are not overwritten.
LEMMA VoiceIsPosed ==
  ASSUME IInv, sweep = "skins", NEW id \in 1..Len(anims), NEW v \in Voices(id),
         NEW m, m = mixer[id][MixerOf[v]],
         NEW p, p = Player!PoseAt(anims[id][v], tCurr[id][v])
  PROVE  \A data : /\ Content(data, m.a) = m.a /\ Content(data, m.b) = m.b
                   /\ Mix(m.a, m.b, m.num, m.den) = p
<1>1. m = AnimateBones(anims[id][v], tCurr[id][v])
  <2>1. m # Unsampled BY DEF IInv, InTurn, Ready
  <2> QED BY <2>1 DEF IInv, Sampled
<1>2. anims[id][v] \in Clips /\ tCurr[id][v] \in 0..TotalTime(anims[id][v])
  <2>1. anims[id][v] \in Clips /\ tCurr[id][v] \in Nat BY AnimTypes DEF IInv
  <2>2. tCurr[id][v] <= TotalTime(anims[id][v]) BY DEF IInv, TypeOK
  <2> QED BY <2>1, <2>2, KeyTimes
<1>3. PICK c, t : c = anims[id][v] /\ t = tCurr[id][v]
  OBVIOUS
<1>4. /\ Mix(m.a, m.b, m.num, m.den) = Player!PoseAt(c, t)
      /\ m.a[1] = c /\ m.b[1] = c
  BY <1>1, <1>2, <1>3, MixIsPose
<1> QED BY <1>2, <1>3, <1>4 DEF Content

\* ComputeBlend::Execute of either kind: the bone buffer of the animation holds the pose
\* that its timers and its factor call for; no other animation is touched.
LEMMA ExecuteIs ==
  ASSUME PictureInv, sweep = "skins", NEW id \in 1..Len(anims),
         IF anims[id].B = None THEN OneAnimExecute(id) ELSE TwoAnimExecute(id)
  PROVE  /\ Wire(gpu', Len(anims))
         /\ gpu'.data[id]["BoneWorld"] = [anim |-> id, pose |-> Posed(id)]
         /\ \A o \in 1..Len(anims) : o # id => gpu'.data[o] = gpu.data[o]
<1>0. PICK n \in Nat : n = Len(anims)
  BY DEF PictureInv, IInv, TypeOK
<1>1. id \in 1..n /\ id \notin Clips /\ Wire(gpu, n) /\ IInv
  BY <1>0, NamesAssumption, BoundsAssumption DEF PictureInv, Pictures, IInv, TypeOK, Wired, Wire
<1>2. PICK mA, pA : mA = mixer[id].MixerA /\ pA = Player!PoseAt(anims[id].A, tCurr[id].A)
  OBVIOUS
<1>3. \A data : /\ Content(data, mA.a) = mA.a /\ Content(data, mA.b) = mA.b
                /\ Mix(mA.a, mA.b, mA.num, mA.den) = pA
  <2>1. "A" \in Voices(id) BY DEF Voices
  <2>2. /\ mA = mixer[id][MixerOf["A"]]
        /\ pA = Player!PoseAt(anims[id]["A"], tCurr[id]["A"])
    BY <1>2 DEF MixerOf
  <2> QED BY <1>1, <2>1, <2>2, VoiceIsPosed
<1>4. PICK a : a = Mixed(gpu, id, "MixerA")
  OBVIOUS
<1>5. Wire(a, n) /\ Fills(gpu, a, n, id, "MixerA", pA)
  BY <1>1, <1>2, <1>3, <1>4, MixedIs
<1>6. CASE anims[id].B = None
  <2>1. gpu' = World(a, id, "WorldA")
    BY <1>4, <1>6 DEF OneAnimExecute
  <2>2. /\ Wire(gpu', n)
        /\ gpu'.data[id]["BoneWorld"] = [anim |-> id, pose |-> a.data[id]["MixerA"]]
        /\ \A o \in 1..n : o # id => gpu'.data[o] = a.data[o]
    BY <1>1, <1>5, <2>1, WorldIs
  <2>3. Posed(id) = pA BY <1>2, <1>6 DEF Posed
  <2> QED BY <1>0, <1>5, <2>2, <2>3 DEF Fills
<1>7. CASE anims[id].B # None
  <2>1. PICK mB, pB : mB = mixer[id].MixerB /\ pB = Player!PoseAt(anims[id].B, tCurr[id].B)
    OBVIOUS
  <2>2. \A data : /\ Content(data, mB.a) = mB.a /\ Content(data, mB.b) = mB.b
                  /\ Mix(mB.a, mB.b, mB.num, mB.den) = pB
    <3>1. "B" \in Voices(id) BY <1>7 DEF Voices
    <3>2. /\ mB = mixer[id][MixerOf["B"]]
          /\ pB = Player!PoseAt(anims[id]["B"], tCurr[id]["B"])
      BY <2>1 DEF MixerOf
    <3> QED BY <1>1, <3>1, <3>2, VoiceIsPosed
  <2>3. PICK b : b = Mixed(a, id, "MixerB")
    OBVIOUS
  <2>4. Wire(b, n) /\ Fills(a, b, n, id, "MixerB", pB)
    BY <1>1, <1>5, <2>1, <2>2, <2>3, MixedIs
  <2>5. b.data[id]["MixerA"] = pA /\ b.data[id]["MixerB"] = pB
    BY <1>5, <2>4 DEF Fills, Buffers
  <2>6. PICK mC : mC = mixer[id].MixerC
    OBVIOUS
  <2>7. mC = MixerC(id)
    <3>1. \E k \in 1..Len(blendPool) : blendPool[k] = id
      BY <1>7 DEF PictureInv, IInv, Owned
    <3>2. \A k \in 1..Len(blendPool) : Joined(blendPool[k])
      BY DEF PictureInv, Pictures, JoinedInTurn
    <3> QED BY <2>6, <3>1, <3>2 DEF Joined
  <2>8. PICK c : c = Mixed(b, id, "MixerC")
    OBVIOUS
  <2>9. Content(b.data, mC.a) = pA /\ Content(b.data, mC.b) = pB
    BY <1>1, <2>5, <2>7 DEF Content, MixerC
  <2>10. PICK z : z = Mix(pA, pB, mBlendTs[id], Full)
    OBVIOUS
  <2>11. Wire(c, n) /\ Fills(b, c, n, id, "MixerC", z)
    <3>1. mC.num = mBlendTs[id] /\ mC.den = Full BY <2>7 DEF MixerC
    <3> QED BY <1>1, <2>4, <2>6, <2>8, <2>9, <2>10, <3>1, MixedIs
  <2>12. gpu' = World(c, id, "WorldC")
    BY <1>4, <1>7, <2>3, <2>8 DEF TwoAnimExecute
  <2>13. /\ Wire(gpu', n)
         /\ gpu'.data[id]["BoneWorld"] = [anim |-> id, pose |-> c.data[id]["MixerC"]]
         /\ \A o \in 1..n : o # id => gpu'.data[o] = c.data[o]
    BY <1>1, <2>11, <2>12, WorldIs
  <2>14. Posed(id) = z BY <1>2, <1>7, <2>1, <2>10, MixIsBetween DEF Posed
  <2> QED BY <1>0, <1>5, <2>4, <2>11, <2>13, <2>14 DEF Fills
<1> QED BY <1>6, <1>7

------------------------------------------------------------------------------
(* What the buffers hold, step by step.                                    *)

\* A pose depends on the clips, the timers and the factors alone.
LEMMA PosedKept ==
  ASSUME UNCHANGED <<anims, skinPool, tCurr, mBlendTs>>
  PROVE  \A k : Posed(k)' = Posed(k) /\ Picture(k)' = Picture(k)
BY DEF Posed, Picture

\* A step that leaves the arrays alone keeps the turns.
LEMMA OnceKept ==
  ASSUME Once, UNCHANGED scene
  PROVE  Once'
BY DEF Once, scene

\* A step that leaves the animations and the pipeline alone keeps the wiring.
LEMMA WiredKept ==
  ASSUME Wired, UNCHANGED <<anims, gpu>>
  PROVE  Wired'
BY DEF Wired

\* AnimMan::Add puts a new animation in one array, once, and gives it buffers.
LEMMA NewAnimPictures ==
  ASSUME PictureInv, NEW a \in Clips, NEW b \in Clips \union {None},
         NEW n \in 1..MaxSkinEntities, NewAnim(a, b, n),
         \/ animPool' = Append(animPool, Len(anims) + 1) /\ blendPool' = blendPool
         \/ blendPool' = Append(blendPool, Len(anims) + 1) /\ animPool' = animPool
  PROVE  Pictures'
<1>0. PICK len \in Nat : len = Len(anims)
  BY DEF PictureInv, IInv, TypeOK
<1>1. Len(anims') = len + 1
  <2>1. anims' = Append(anims, [A |-> a, B |-> b]) BY DEF NewAnim
  <2>2. anims \in Seq([A : Clips, B : Clips \union {None}]) BY DEF PictureInv, IInv, TypeOK
  <2>3. [A |-> a, B |-> b] \in [A : Clips, B : Clips \union {None}] OBVIOUS
  <2> QED BY <1>0, <2>1, <2>2, <2>3, AppendProperties
<1>2. ASSUME NEW pool, pool \in Seq(1..MaxAnims),
             \A k \in 1..Len(pool) : pool[k] \in 1..len,
             \A j, k \in 1..Len(pool) : pool[j] = pool[k] => j = k,
             NEW longer, longer = pool \/ longer = Append(pool, len + 1)
      PROVE  \A j, k \in 1..Len(longer) : longer[j] = longer[k] => j = k
  <2>1. CASE longer = pool BY <1>2, <2>1
  <2>2. CASE longer = Append(pool, len + 1)
    <3>1. pool \in Seq(Nat) /\ len + 1 \in Nat
      <4>1. 1..MaxAnims \subseteq Nat BY BoundsAssumption
      <4>2. Len(pool) \in Nat /\ pool \in [1..Len(pool) -> 1..MaxAnims]
        BY <1>2, LenProperties
      <4>3. pool \in [1..Len(pool) -> Nat] BY <4>1, <4>2
      <4> QED BY <4>2, <4>3
    <3>2. PICK m \in Nat : m = Len(pool)
      BY <3>1, LenProperties
    <3>3. /\ Len(longer) = m + 1 /\ \A k \in 1..m : longer[k] = pool[k]
          /\ longer[m + 1] = len + 1
      BY <2>2, <3>1, <3>2, AppendProperties
    <3>4. \A k \in 1..(m + 1) : k = m + 1 \/ k \in 1..m
      OBVIOUS
    <3>5. \A k \in 1..m : longer[k] # len + 1
      <4>1. \A x \in 1..len : x # len + 1 OBVIOUS
      <4> QED BY <1>2, <3>2, <3>3, <4>1
    <3> QED BY <1>2, <3>2, <3>3, <3>4, <3>5
  <2> QED BY <1>2, <2>1, <2>2
<1>3. /\ \A j, k \in 1..Len(animPool') : animPool'[j] = animPool'[k] => j = k
      /\ \A j, k \in 1..Len(blendPool') : blendPool'[j] = blendPool'[k] => j = k
  <2>1. animPool \in Seq(1..MaxAnims) /\ blendPool \in Seq(1..MaxAnims)
    BY DEF PictureInv, IInv, TypeOK
  <2>2. /\ \A k \in 1..Len(animPool) : animPool[k] \in 1..len
        /\ \A k \in 1..Len(blendPool) : blendPool[k] \in 1..len
    BY <1>0 DEF PictureInv, IInv, Owned
  <2>3. /\ \A j, k \in 1..Len(animPool) : animPool[j] = animPool[k] => j = k
        /\ \A j, k \in 1..Len(blendPool) : blendPool[j] = blendPool[k] => j = k
    BY DEF PictureInv, Pictures, Once
  <2>4. /\ animPool' = animPool \/ animPool' = Append(animPool, len + 1)
        /\ blendPool' = blendPool \/ blendPool' = Append(blendPool, len + 1)
    BY <1>0
  <2> QED BY <1>2, <2>1, <2>2, <2>3, <2>4
<1>4. \A k \in 1..Len(skinPool') : skinPool'[k] \in 1..(len + 1)
  <2>1. skinPool \in Seq(1..(len + 1))
    <3>1. skinPool \in Seq(1..MaxAnims) /\ \A k \in 1..Len(skinPool) : skinPool[k] \in 1..len
      BY <1>0 DEF PictureInv, Pictures, IInv, TypeOK, Once
    <3>2. Len(skinPool) \in Nat /\ skinPool \in [1..Len(skinPool) -> 1..MaxAnims]
      BY <3>1, LenProperties
    <3>3. skinPool \in [1..Len(skinPool) -> 1..(len + 1)]
      <4>1. \A k \in 1..Len(skinPool) : skinPool[k] \in 1..(len + 1) BY <3>1
      <4> QED BY <3>2, <4>1
    <3> QED BY <3>2, <3>3
  <2>2. [k \in 1..n |-> len + 1] \in Seq(1..(len + 1))
    <3>1. n \in Nat BY BoundsAssumption
    <3>2. [k \in 1..n |-> len + 1] \in [1..n -> 1..(len + 1)] OBVIOUS
    <3> QED BY <3>1, <3>2
  <2>3. skinPool' = skinPool \o [k \in 1..n |-> len + 1] BY <1>0 DEF NewAnim
  <2>4. skinPool' \in Seq(1..(len + 1)) BY <2>1, <2>2, <2>3, ConcatProperties
  <2> QED BY <2>4
<1>5. Once'
  BY <1>1, <1>3, <1>4 DEF Once
<1>6. Wired'
  <2>1. PICK s, d, x : s = gpu.slot /\ d = gpu.data /\ x = [buf \in Buffers |-> None]
    OBVIOUS
  <2>2. /\ gpu = [slot |-> s, data |-> d] /\ DOMAIN s = Slots
        /\ d = [id \in 1..len |-> d[id]] /\ \A id \in 1..len : DOMAIN d[id] = Buffers
    BY <1>0, <2>1 DEF PictureInv, Pictures, Wired
  <2>3. PICK e : e = Append(d, x)
    OBVIOUS
  <2>4. e = [k \in 1..(len + 1) |-> IF k = len + 1 THEN x ELSE d[k]]
    BY <2>2, <2>3, AppendsOne
  <2>5. gpu' = [slot |-> s, data |-> e]
    BY <2>1, <2>2, <2>3 DEF NewAnim
  <2>6. \A id \in 1..(len + 1) : id = len + 1 \/ id \in 1..len
    OBVIOUS
  <2>7. \A id \in 1..(len + 1) : DOMAIN e[id] = Buffers
    BY <2>1, <2>2, <2>4, <2>6
  <2>8. e = [id \in 1..(len + 1) |-> e[id]]
    BY <2>4
  <2>9. gpu'.slot = s /\ gpu'.data = e
    BY <2>5
  <2> QED BY <1>1, <2>2, <2>5, <2>7, <2>8, <2>9 DEF Wired
<1>7. sweep = "load" /\ sweep' = "load" /\ drawn' = drawn
  BY DEF NewAnim
<1>8. JoinedInTurn' /\ SkinnedInTurn' /\ DrawnInTurn'
  BY <1>7 DEF PictureInv, Pictures, JoinedInTurn, SkinnedInTurn, DrawnInTurn
<1> QED BY <1>5, <1>6, <1>8 DEF Pictures

\* BeginFrame keeps Pictures: nothing is sampled, skinned or drawn yet.
LEMMA BeginPictures ==
  ASSUME PictureInv, NEW d \in Deltas, NEW ts \in 0..Full, BeginFrame(d, ts)
  PROVE  Pictures'
<1>1. UNCHANGED scene /\ gpu' = gpu /\ anims' = anims /\ drawn' = <<>> /\ sweep' = "clips"
  BY DEF BeginFrame, scene, PictureInv, Pictures, DrawnInTurn
<1>2. Once' /\ Wired'
  BY <1>1, OnceKept, WiredKept DEF PictureInv, Pictures
<1>3. JoinedInTurn' /\ SkinnedInTurn' /\ DrawnInTurn'
  BY <1>1 DEF JoinedInTurn, SkinnedInTurn, DrawnInTurn
<1> QED BY <1>2, <1>3 DEF Pictures

\* SampleClip keeps Pictures: nothing is joined, skinned or drawn yet.
LEMMA SampleClipPictures ==
  ASSUME PictureInv, SampleClip
  PROVE  Pictures'
<1>1. UNCHANGED scene /\ gpu' = gpu /\ anims' = anims /\ drawn' = <<>> /\ sweep' = "clips"
  BY DEF SampleClip, scene, PictureInv, Pictures, DrawnInTurn
<1>2. Once' /\ Wired'
  BY <1>1, OnceKept, WiredKept DEF PictureInv, Pictures
<1>3. JoinedInTurn' /\ SkinnedInTurn' /\ DrawnInTurn'
  BY <1>1 DEF JoinedInTurn, SkinnedInTurn, DrawnInTurn
<1> QED BY <1>2, <1>3 DEF Pictures

\* SampleBlend keeps Pictures: one more mixer C has this frame's factor.
LEMMA SampleBlendPictures ==
  ASSUME PictureInv, SampleBlend
  PROVE  Pictures'
<1>1. /\ UNCHANGED scene /\ gpu' = gpu /\ anims' = anims /\ mBlendTs' = mBlendTs
      /\ blendPool' = blendPool
      /\ drawn' = <<>> /\ sweep = "blends" /\ sweep' = "blends" /\ i' = i + 1
  BY DEF SampleBlend, scene, PictureInv, Pictures, DrawnInTurn
<1>2. Once' /\ Wired'
  BY <1>1, OnceKept, WiredKept DEF PictureInv, Pictures
<1>3. SkinnedInTurn' /\ DrawnInTurn'
  BY <1>1 DEF SkinnedInTurn, DrawnInTurn
<1>4. \A id : MixerC(id)' = MixerC(id)
  BY <1>1 DEF MixerC
<1>5. PICK id : id = blendPool[i]
  OBVIOUS
<1>6. i \in 1..Len(blendPool) /\ id \in 1..Len(anims)
  BY <1>5 DEF SampleBlend, PictureInv, IInv, TypeOK, Owned
<1>7. /\ mixer'[id].MixerC = MixerC(id)
      /\ \A o \in 1..Len(anims) : o # id => mixer'[o] = mixer[o]
  <2>1. DOMAIN mixer = 1..Len(anims)
    BY DEF PictureInv, IInv, TypeOK
  <2>2. PICK m : /\ m.MixerC = MixerC(id)
                 /\ mixer' = [mixer EXCEPT ![id] = m]
    BY <1>5 DEF SampleBlend
  <2> QED BY <1>6, <2>1, <2>2
<1>8. ASSUME NEW k \in 1..Len(blendPool), k < i + 1 PROVE Joined(blendPool[k])'
  <2>1. CASE k = i
    BY <1>1, <1>4, <1>5, <1>7, <2>1 DEF Joined
  <2>2. CASE k # i
    <3>1. k < i BY <1>6, <1>8, <2>2
    <3>2. Joined(blendPool[k]) BY <1>1, <3>1 DEF PictureInv, Pictures, JoinedInTurn
    <3>3. blendPool[k] \in 1..Len(anims) /\ blendPool[k] # id
      BY <1>5, <1>6, <2>2 DEF PictureInv, Pictures, IInv, Owned, Once
    <3> QED BY <1>1, <1>4, <1>7, <3>2, <3>3 DEF Joined
  <2> QED BY <2>1, <2>2
<1>9. JoinedInTurn'
  BY <1>1, <1>8 DEF JoinedInTurn
<1> QED BY <1>2, <1>3, <1>9 DEF Pictures

\* Skin keeps Pictures: one more mesh is skinned, and a mesh that shares its animation
\* with it is skinned to the same picture again.
LEMMA SkinPictures ==
  ASSUME PictureInv, Skin
  PROVE  Pictures'
<1>1. /\ UNCHANGED scene /\ anims' = anims /\ mBlendTs' = mBlendTs
      /\ UNCHANGED <<anims, skinPool, tCurr, mBlendTs>>
      /\ blendPool' = blendPool /\ skinPool' = skinPool /\ mixer' = mixer
      /\ drawn' = <<>> /\ sweep = "skins" /\ sweep' = "skins" /\ i' = i + 1
  BY DEF Skin, scene, PictureInv, Pictures, DrawnInTurn
<1>2. Once'
  BY <1>1, OnceKept DEF PictureInv, Pictures
<1>3. DrawnInTurn'
  BY <1>1 DEF DrawnInTurn
<1>4. JoinedInTurn'
  BY <1>1 DEF PictureInv, Pictures, JoinedInTurn, Joined, MixerC
<1>5. PICK id : id = skinPool[i]
  OBVIOUS
<1>6. i \in 1..Len(skinPool) /\ id \in 1..Len(anims)
  BY <1>5 DEF Skin, PictureInv, Pictures, IInv, TypeOK, Once
<1>7. IF anims[id].B = None THEN OneAnimExecute(id) ELSE TwoAnimExecute(id)
  BY <1>5 DEF Skin
<1>8. /\ Wire(gpu', Len(anims))
      /\ gpu'.data[id]["BoneWorld"] = [anim |-> id, pose |-> Posed(id)]
      /\ \A o \in 1..Len(anims) : o # id => gpu'.data[o] = gpu.data[o]
  BY <1>1, <1>6, <1>7, ExecuteIs
<1>9. Wired'
  BY <1>1, <1>8 DEF Wired, Wire
<1>10. ASSUME NEW k \in 1..Len(skinPool), k < i + 1 PROVE Skinned(k)'
  <2>1. Picture(k)' = Picture(k)
    BY <1>1, PosedKept
  <2>2. CASE skinPool[k] = id
    BY <1>1, <1>8, <2>1, <2>2 DEF Skinned, Picture
  <2>3. CASE skinPool[k] # id
    <3>1. k < i BY <1>5, <1>6, <1>10, <2>3
    <3>2. Skinned(k) BY <1>1, <3>1 DEF PictureInv, Pictures, SkinnedInTurn
    <3>3. skinPool[k] \in 1..Len(anims) BY DEF PictureInv, Pictures, Once
    <3> QED BY <1>1, <1>8, <2>1, <2>3, <3>2, <3>3 DEF Skinned
  <2> QED BY <2>2, <2>3
<1>11. SkinnedInTurn'
  BY <1>1, <1>10 DEF SkinnedInTurn
<1> QED BY <1>2, <1>3, <1>4, <1>9, <1>11 DEF Pictures

\* EndSweep keeps Pictures: what a sweep has done in turn is done for all.
LEMMA EndSweepPictures ==
  ASSUME PictureInv, EndSweep
  PROVE  Pictures'
<1>1. /\ UNCHANGED scene /\ gpu' = gpu /\ anims' = anims /\ mBlendTs' = mBlendTs
      /\ UNCHANGED <<anims, skinPool, tCurr, mBlendTs>>
      /\ blendPool' = blendPool /\ skinPool' = skinPool /\ mixer' = mixer
      /\ drawn' = drawn /\ i' = 1
      /\ sweep \in {"clips", "blends", "skins"} /\ sweep' = After[sweep]
      /\ i > Len(Pool[sweep])
  BY DEF EndSweep, After, scene
<1>2. Once' /\ Wired'
  BY <1>1, OnceKept, WiredKept DEF PictureInv, Pictures
<1>3. /\ i \in Nat /\ Len(blendPool) \in Nat /\ Len(skinPool) \in Nat
      /\ drawn' = <<>>
  BY <1>1 DEF PictureInv, Pictures, IInv, TypeOK, DrawnInTurn
<1>4. \A k : Picture(k)' = Picture(k)
  BY <1>1, PosedKept
<1>5. \A id : Joined(id)' <=> Joined(id)
  BY <1>1 DEF Joined, MixerC
<1>6. \A k : Skinned(k)' <=> Skinned(k)
  BY <1>1, <1>4 DEF Skinned
<1>7. CASE sweep = "clips"
  <2>1. sweep' = "blends" /\ \A k \in 1..Len(blendPool) : ~(k < 1)
    BY <1>1, <1>3, <1>7 DEF After
  <2> QED BY <1>1, <1>2, <1>3, <2>1 DEF Pictures, JoinedInTurn, SkinnedInTurn, DrawnInTurn
<1>8. CASE sweep = "blends"
  <2>1. sweep' = "skins" /\ i > Len(blendPool) /\ \A k \in 1..Len(skinPool) : ~(k < 1)
    BY <1>1, <1>3, <1>8 DEF After, Pool
  <2>2. \A k \in 1..Len(blendPool) : k < i
    BY <1>3, <2>1
  <2>3. \A k \in 1..Len(blendPool) : Joined(blendPool[k])
    BY <1>8, <2>2 DEF PictureInv, Pictures, JoinedInTurn
  <2>4. JoinedInTurn' BY <1>1, <1>5, <2>1, <2>3 DEF JoinedInTurn
  <2> QED BY <1>1, <1>2, <1>3, <2>1, <2>4 DEF Pictures, SkinnedInTurn, DrawnInTurn
<1>9. CASE sweep = "skins"
  <2>1. sweep' = "draw" /\ i > Len(skinPool)
    BY <1>1, <1>9 DEF After, Pool
  <2>2. \A k \in 1..Len(skinPool) : k < i
    BY <1>3, <2>1
  <2>3. \A k \in 1..Len(skinPool) : Skinned(k)
    BY <1>9, <2>2 DEF PictureInv, Pictures, SkinnedInTurn
  <2>4. \A k \in 1..Len(blendPool) : Joined(blendPool[k])
    BY <1>9 DEF PictureInv, Pictures, JoinedInTurn
  <2>5. JoinedInTurn' /\ SkinnedInTurn'
    BY <1>1, <1>5, <1>6, <2>1, <2>3, <2>4 DEF JoinedInTurn, SkinnedInTurn
  <2>6. DrawnInTurn'
    <3>1. 1 <= Len(skinPool) + 1 BY <1>3
    <3>2. <<>> = [k \in 1..(1 - 1) |-> Picture(k)'] OBVIOUS
    <3> QED BY <1>1, <1>3, <2>1, <3>1, <3>2 DEF DrawnInTurn
  <2> QED BY <1>2, <2>5, <2>6 DEF Pictures
<1> QED BY <1>1, <1>7, <1>8, <1>9

\* DrawSkin keeps Pictures: the draw call reads the picture of its mesh.
LEMMA DrawSkinPictures ==
  ASSUME PictureInv, DrawSkin
  PROVE  Pictures'
<1>1. /\ UNCHANGED scene /\ gpu' = gpu /\ anims' = anims /\ mBlendTs' = mBlendTs
      /\ UNCHANGED <<anims, skinPool, tCurr, mBlendTs>>
      /\ blendPool' = blendPool /\ skinPool' = skinPool /\ mixer' = mixer
      /\ i' = i + 1 /\ sweep = "draw" /\ sweep' = "draw" /\ i <= Len(skinPool)
      /\ drawn' = Append(drawn, gpu.data[skinPool[i]]["BoneWorld"])
  BY DEF DrawSkin, scene
<1>2. Once' /\ Wired'
  BY <1>1, OnceKept, WiredKept DEF PictureInv, Pictures
<1>3. i \in Nat \ {0} /\ Len(skinPool) \in Nat
  BY DEF PictureInv, IInv, TypeOK
<1>4. \A k : Picture(k)' = Picture(k)
  BY <1>1, PosedKept
<1>5. JoinedInTurn' /\ SkinnedInTurn'
  <2>1. \A id : Joined(id)' <=> Joined(id) BY <1>1 DEF Joined, MixerC
  <2>2. \A k : Skinned(k)' <=> Skinned(k) BY <1>1, <1>4 DEF Skinned
  <2> QED BY <1>1, <2>1, <2>2 DEF PictureInv, Pictures, JoinedInTurn, SkinnedInTurn
<1>6. gpu.data[skinPool[i]]["BoneWorld"] = Picture(i)
  <2>1. i \in 1..Len(skinPool) BY <1>1, <1>3
  <2> QED BY <1>1, <2>1 DEF PictureInv, Pictures, SkinnedInTurn, Skinned
<1>7. PICK n \in Nat : n = i - 1
  BY <1>3
<1>8. drawn = [k \in 1..n |-> Picture(k)]
  BY <1>1, <1>7 DEF PictureInv, Pictures, DrawnInTurn
<1>9. drawn' = [k \in 1..(n + 1) |-> IF k = n + 1 THEN Picture(i) ELSE drawn[k]]
  <2>1. drawn = [k \in 1..n |-> drawn[k]] BY <1>8
  <2> QED BY <1>1, <1>6, <2>1, AppendsOne
<1>10. \A k \in 1..(n + 1) : k = n + 1 \/ k \in 1..n
  OBVIOUS
<1>11. n + 1 = i /\ i' - 1 = i /\ i' <= Len(skinPool) + 1
  BY <1>1, <1>3, <1>7
<1>12. drawn' = [k \in 1..(i' - 1) |-> Picture(k)']
  BY <1>4, <1>8, <1>9, <1>10, <1>11
<1>13. DrawnInTurn'
  BY <1>1, <1>11, <1>12 DEF DrawnInTurn
<1> QED BY <1>2, <1>5, <1>13 DEF Pictures

\* A step that ends the frame, or that changes none of this, keeps Pictures.
LEMMA QuietPictures ==
  ASSUME PictureInv, UNCHANGED scene, mixer' = mixer, mBlendTs' = mBlendTs, gpu' = gpu,
         tCurr' = tCurr,
         \/ sweep' = sweep /\ i' = i /\ drawn' = drawn
         \/ sweep' = "idle" /\ drawn' = <<>>
  PROVE  Pictures'
<1>1. anims' = anims /\ skinPool' = skinPool /\ blendPool' = blendPool
      /\ UNCHANGED <<anims, skinPool, tCurr, mBlendTs>>
  BY DEF scene
<1>2. Once' /\ Wired'
  BY <1>1, OnceKept, WiredKept DEF PictureInv, Pictures
<1>3. \A k : Picture(k)' = Picture(k)
  BY <1>1, PosedKept
<1>4. \A id : Joined(id)' <=> Joined(id)
  BY DEF Joined, MixerC
<1>5. \A k : Skinned(k)' <=> Skinned(k)
  BY <1>1, <1>3 DEF Skinned
<1>6. JoinedInTurn' /\ SkinnedInTurn' /\ DrawnInTurn'
  <2>1. CASE sweep' = sweep /\ i' = i /\ drawn' = drawn
    BY <1>1, <1>3, <1>4, <1>5, <2>1
    DEF PictureInv, Pictures, JoinedInTurn, SkinnedInTurn, DrawnInTurn
  <2>2. CASE sweep' = "idle" /\ drawn' = <<>>
    BY <2>2 DEF JoinedInTurn, SkinnedInTurn, DrawnInTurn
  <2> QED BY <2>1, <2>2
<1> QED BY <1>2, <1>6 DEF Pictures

\* A scene without animations satisfies PictureInv.
LEMMA PicturesInit == Init => PictureInv
<1> SUFFICES ASSUME Init PROVE PictureInv
  OBVIOUS
<1>1. Len(anims) = 0 /\ Len(animPool) = 0 /\ Len(blendPool) = 0 /\ Len(skinPool) = 0
  BY DEF Init
<1>2. Once /\ JoinedInTurn /\ SkinnedInTurn /\ DrawnInTurn
  BY <1>1 DEF Init, Once, JoinedInTurn, SkinnedInTurn, DrawnInTurn
<1>3. Wired
  <2>1. PICK s : s = [k \in Slots |-> None]
    OBVIOUS
  <2>2. gpu = [slot |-> s, data |-> <<>>]
    BY <2>1 DEF Init
  <2>3. gpu.slot = s /\ gpu.data = <<>>
    BY <2>2
  <2>4. <<>> = [id \in 1..0 |-> gpu.data[id]]
    OBVIOUS
  <2> QED BY <1>1, <2>1, <2>2, <2>3, <2>4 DEF Wired
<1> QED BY <1>2, <1>3, InitStep DEF PictureInv, Pictures

\* Every step keeps PictureInv.
LEMMA PicturesStep == PictureInv /\ [Next]_vars => PictureInv'
<1> SUFFICES ASSUME PictureInv, [Next]_vars PROVE PictureInv'
  OBVIOUS
<1>0. IInv'
  BY NextStep DEF PictureInv
<1> SUFFICES Pictures'
  BY <1>0 DEF PictureInv
<1>1. ASSUME NEW c \in Clips, NEW n \in 1..MaxSkinEntities, AddClip(c, n) PROVE Pictures'
  BY <1>1, NewAnimPictures DEF AddClip
<1>2. ASSUME NEW c1 \in Clips, NEW c2 \in Clips, AddBlend(c1, c2) PROVE Pictures'
  BY <1>2, NewAnimPictures, BoundsAssumption DEF AddBlend
<1>3. CASE Loaded
  BY <1>3, QuietPictures DEF Loaded, PictureInv, Pictures, DrawnInTurn
<1>4. ASSUME NEW d \in Deltas, NEW ts \in 0..Full, BeginFrame(d, ts) PROVE Pictures'
  BY <1>4, BeginPictures
<1>5. CASE SampleClip BY <1>5, SampleClipPictures
<1>6. CASE SampleBlend BY <1>6, SampleBlendPictures
<1>7. CASE Skin BY <1>7, SkinPictures
<1>8. CASE EndSweep BY <1>8, EndSweepPictures
<1>9. CASE DrawSkin BY <1>9, DrawSkinPictures
<1>10. CASE Present
  BY <1>10, QuietPictures DEF Present
<1>11. CASE UNCHANGED vars
  BY <1>11, QuietPictures DEF vars
<1> QED BY <1>1, <1>2, <1>3, <1>4, <1>5, <1>6, <1>7, <1>8, <1>9, <1>10, <1>11
        DEF Next, Load

\* PictureInv holds in every state of every behaviour.
LEMMA PicturesAlways == Spec => []PictureInv
BY PicturesInit, PicturesStep, PTL DEF Spec

------------------------------------------------------------------------------
(* The sweeps implement Player.                                            *)

\* The time of one clock of Player.
Time(id, v) ==
  IF v \notin Voices(id) THEN 0
  ELSE IF id \in Pending THEN Updated(id, v) ELSE tCurr[id][v]

\* ClockBar, clock by clock.
LEMMA ClockIs ==
  /\ DOMAIN ClockBar = DOMAIN anims
  /\ \A id \in DOMAIN anims : DOMAIN ClockBar[id] = {"A", "B"}
  /\ \A id \in DOMAIN anims : ClockBar[id].A = Time(id, "A") /\ ClockBar[id].B = Time(id, "B")
BY DEF ClockBar, Time

\* If no clock moves, ClockBar is unchanged.
LEMMA ClockKept ==
  ASSUME DOMAIN anims' = DOMAIN anims,
         \A id \in DOMAIN anims : \A v \in {"A", "B"} : Time(id, v)' = Time(id, v)
  PROVE  ClockBar' = ClockBar
BY DEF ClockBar, Time

\* Which animations are still to be reached.
ToReach ==
  /\ sweep = "clips" =>
       \A id : id \in Pending <=>
         \/ \E k \in 1..Len(animPool) : i <= k /\ animPool[k] = id
         \/ \E k \in 1..Len(blendPool) : blendPool[k] = id
  /\ sweep = "blends" =>
       \A id : id \in Pending <=>
         \E k \in 1..Len(blendPool) : i <= k /\ blendPool[k] = id
  /\ sweep \notin {"clips", "blends"} => Pending = {}

\* The animations that are still to be reached, sweep by sweep.
LEMMA PendingIs == IInv => ToReach
<1> SUFFICES ASSUME IInv PROVE ToReach
  OBVIOUS
<1>1. /\ i \in Nat \ {0} /\ Len(animPool) \in Nat /\ Len(blendPool) \in Nat
      /\ DOMAIN blendPool = 1..Len(blendPool)
  BY DEF IInv, TypeOK
<1>2. \A n \in Nat : \A k : k \in i..n <=> k \in 1..n /\ i <= k
  BY <1>1
<1>3. CASE sweep = "clips"
  <2>1. Pending = {animPool[k] : k \in i..Len(animPool)}
                    \union {blendPool[k] : k \in 1..Len(blendPool)}
    BY <1>1, <1>3 DEF Pending
  <2> QED BY <1>1, <1>2, <1>3, <2>1 DEF ToReach
<1>4. CASE sweep = "blends"
  <2>1. Pending = {blendPool[k] : k \in i..Len(blendPool)}
    BY <1>1, <1>4 DEF Pending
  <2> QED BY <1>1, <1>2, <1>4, <2>1 DEF ToReach
<1>5. CASE sweep \notin {"clips", "blends"}
  BY <1>5 DEF Pending, ToReach
<1> QED BY <1>3, <1>4, <1>5 DEF ToReach

\* The same in the next state.
LEMMA PendingNext == IInv' => ToReach'
BY PendingIs, PTL

\* The initial state is an initial state of Player.
LEMMA InitIsPlayers ==
  ASSUME Init
  PROVE  Player!Init
<1>1. DOMAIN anims = {}
  BY DEF Init
<1>2. ClockBar = <<>>
  BY <1>1 DEF ClockBar
<1> QED BY <1>2 DEF Init, Player!Init

\* AnimMan::Add adds an animation to Player, its clocks at zero.
LEMMA NewAnimAdds ==
  ASSUME PictureInv, NEW a \in Clips, NEW b \in Clips \union {None},
         NEW n \in 1..MaxSkinEntities, NewAnim(a, b, n)
  PROVE  Player!Next
<1>0. PICK len \in Nat : len = Len(anims)
  BY DEF PictureInv, IInv, TypeOK
<1>1. DOMAIN anims = 1..len
  BY <1>0 DEF PictureInv, IInv, TypeOK
<1>2. /\ DOMAIN anims' = 1..(len + 1)
      /\ \A id \in 1..len : anims'[id] = anims[id] /\ tCurr'[id] = tCurr[id]
      /\ tCurr'[len + 1] = [A |-> 0, B |-> 0]
  <2>1. /\ anims' = Append(anims, [A |-> a, B |-> b])
        /\ tCurr' = Append(tCurr, [A |-> 0, B |-> 0])
    BY DEF NewAnim
  <2>2. anims = [k \in 1..len |-> anims[k]] /\ tCurr = [k \in 1..len |-> tCurr[k]]
    <3>1. Len(tCurr) = len /\ Len(anims) = len BY <1>0 DEF PictureInv, IInv, TypeOK
    <3>2. tCurr \in Seq([A : Nat, B : Nat])
      BY DEF PictureInv, IInv, TypeOK
    <3>3. anims \in Seq([A : Clips, B : Clips \union {None}])
      BY DEF PictureInv, IInv, TypeOK
    <3> QED BY <3>1, <3>2, <3>3, LenProperties
  <2>3. /\ anims' = [k \in 1..(len + 1) |->
                       IF k = len + 1 THEN [A |-> a, B |-> b] ELSE anims[k]]
        /\ tCurr' = [k \in 1..(len + 1) |->
                       IF k = len + 1 THEN [A |-> 0, B |-> 0] ELSE tCurr[k]]
    BY <2>1, <2>2, AppendsOne
  <2>4. \A k \in 1..len : k \in 1..(len + 1) /\ k # len + 1
    OBVIOUS
  <2> QED BY <2>3, <2>4
<1>3. sweep = "load" /\ sweep' = "load"
  BY DEF NewAnim
<1>4. Pending = {} /\ Pending' = {}
  BY <1>3 DEF Pending
<1>5. \A id \in 1..len : \A v \in {"A", "B"} : Time(id, v)' = Time(id, v)
  BY <1>2, <1>4 DEF Time, Voices
<1>6. \A v \in {"A", "B"} : Time(len + 1, v)' = 0
  BY <1>2, <1>4 DEF Time, Voices
<1>7. PICK zero : zero = [A |-> 0, B |-> 0]
  OBVIOUS
<1>8. ClockBar = [id \in 1..len |-> ClockBar[id]]
  BY <1>1 DEF ClockBar
<1>9. ClockBar' = [id \in 1..(len + 1) |-> IF id = len + 1 THEN zero ELSE ClockBar[id]]
  <2>1. ClockBar' = [id \in 1..(len + 1) |-> [v \in {"A", "B"} |-> Time(id, v)']]
    BY <1>2 DEF ClockBar, Time
  <2>2. ClockBar = [id \in 1..len |-> [v \in {"A", "B"} |-> Time(id, v)]]
    BY <1>1 DEF ClockBar, Time
  <2>3. [v \in {"A", "B"} |-> Time(len + 1, v)'] = zero
    BY <1>6, <1>7
  <2>4. \A id \in 1..(len + 1) : id = len + 1 \/ id \in 1..len
    OBVIOUS
  <2> QED BY <1>5, <2>1, <2>2, <2>3, <2>4
<1>10. ClockBar' = Append(ClockBar, zero)
  BY <1>8, <1>9, AppendsOne
<1>11. Player!Add(a, b, n)
  BY <1>3, <1>7, <1>10 DEF NewAnim, Player!Add
<1> QED BY <1>11 DEF Player!Next, Player!Clips, Clips

\* BeginFrame is the tick of Player: every animation is pending, so every clock shows
\* the time that its timer will have when its turn comes.
LEMMA BeginTicks ==
  ASSUME PictureInv, NEW d \in Deltas, NEW ts \in 0..Full, BeginFrame(d, ts)
  PROVE  Player!Next
<1>1. /\ UNCHANGED <<anims, animPool, blendPool, skinPool, tCurr, shown>>
      /\ sweep = "idle" /\ sweep' = "clips" /\ i' = 1 /\ tDelta' = d
  BY DEF BeginFrame, scene
<1>2. /\ DOMAIN anims = 1..Len(anims) /\ d \in Nat
      /\ DOMAIN mBlendTs = 1..Len(anims)
      /\ poBlendComputeBlend \in (1..Len(anims)) \union {None}
  BY TicksAssumption DEF PictureInv, IInv, TypeOK
<1>3. IInv'
  BY NextStep DEF PictureInv, Next
<1>4. \A id \in 1..Len(anims) : id \in Pending'
  <2>1. \A id : id \in Pending' <=>
           \/ \E k \in 1..Len(animPool) : 1 <= k /\ animPool[k] = id
           \/ \E k \in 1..Len(blendPool) : blendPool[k] = id
    BY <1>1, <1>3, PendingNext DEF ToReach
  <2>2. \A n \in Nat : \A k \in 1..n : 1 <= k
    OBVIOUS
  <2>3. Len(animPool) \in Nat
    BY DEF PictureInv, IInv, TypeOK
  <2> QED BY <2>1, <2>2, <2>3 DEF PictureInv, IInv, Owned
<1>5. Pending = {}
  BY <1>1 DEF Pending
<1>6. ASSUME NEW id \in 1..Len(anims), NEW v \in {"A", "B"}
      PROVE  Time(id, v)' = Player!Advanced(anims[id][v], Time(id, v), d)
  <2>1. CASE v \in Voices(id)
    <3>1. PICK c, t : c = anims[id][v] /\ t = tCurr[id][v]
      OBVIOUS
    <3>2. c \in Clips /\ t \in Nat
      BY <2>1, <3>1, AnimTypes DEF PictureInv, IInv
    <3>3. Time(id, v) = t
      BY <1>5, <2>1, <3>1 DEF Time
    <3>4. Time(id, v)' = TimerUpdate(t, d, TotalTime(c))
      BY <1>1, <1>4, <2>1, <3>1 DEF Time, Voices, Updated
    <3>5. c # None
      BY <3>2, NoneAssumption
    <3>6. Player!End(c) = TotalTime(c) /\ TotalTime(c) \in Nat
      BY <3>2, KeyTimes DEF Player!End, TotalTime, KeyTime
    <3>7. TimerUpdate(t, d, TotalTime(c)) = Player!Advanced(c, t, d)
      BY <1>2, <3>2, <3>5, <3>6 DEF TimerUpdate, Player!Advanced
    <3> QED BY <3>1, <3>3, <3>4, <3>7
  <2>2. CASE v \notin Voices(id)
    <3>1. anims[id][v] = None
      BY <2>2 DEF Voices
    <3>2. Time(id, v)' = 0
      BY <1>1, <2>2 DEF Time, Voices
    <3> QED BY <3>1, <3>2 DEF Player!Advanced
  <2> QED BY <2>1, <2>2
<1>7. ClockBar' = [id \in DOMAIN ClockBar |->
                     [v \in {"A", "B"} |-> Player!Advanced(anims[id][v], ClockBar[id][v], d)]]
  <2>1. ClockBar' = [id \in 1..Len(anims) |-> [v \in {"A", "B"} |-> Time(id, v)']]
    BY <1>1, <1>2 DEF ClockBar, Time
  <2>2. ClockBar = [id \in 1..Len(anims) |-> [v \in {"A", "B"} |-> Time(id, v)]]
    BY <1>2 DEF ClockBar, Time
  <2> QED BY <1>6, <2>1, <2>2
<1>8. \/ UNCHANGED mBlendTs
      \/ \E id \in DOMAIN mBlendTs, f \in 0..Full : mBlendTs' = [mBlendTs EXCEPT ![id] = f]
  BY <1>2 DEF BeginFrame
<1>9. Player!Tick(d)
  BY <1>1, <1>7, <1>8 DEF Player!Tick
<1> QED BY <1>9 DEF Player!Next

\* SampleClip moves no clock: the timer arrives where its clock was, and its animation
\* is not sampled again.
LEMMA SampleClipStutters ==
  ASSUME PictureInv, SampleClip
  PROVE  ClockBar' = ClockBar
<1>1. /\ UNCHANGED <<anims, animPool, blendPool, tDelta>>
      /\ sweep = "clips" /\ sweep' = "clips" /\ i' = i + 1
  BY DEF SampleClip, scene
<1>2. /\ DOMAIN anims = 1..Len(anims) /\ DOMAIN tCurr = 1..Len(anims)
      /\ i \in 1..Len(animPool) /\ Len(animPool) \in Nat
  BY DEF SampleClip, PictureInv, IInv, TypeOK
<1>3. IInv'
  BY NextStep DEF PictureInv, Next
<1>4. PICK new : new = animPool[i]
  OBVIOUS
<1>5. new \in 1..Len(anims) /\ Voices(new) = {"A"}
  BY <1>2, <1>4 DEF PictureInv, IInv, Owned, Voices
<1>6. /\ tCurr'[new].A = Updated(new, "A")
      /\ \A o \in 1..Len(anims) : o # new => tCurr'[o] = tCurr[o]
  <2>1. PICK t : t = Updated(new, "A")
    OBVIOUS
  <2>2. tCurr' = [tCurr EXCEPT ![new] = [tCurr[new] EXCEPT !.A = t]]
    BY <1>4, <2>1 DEF SampleClip
  <2>3. tCurr[new] \in [A : Nat, B : Nat]
    BY <1>5, AnimTypes DEF PictureInv, IInv
  <2> QED BY <1>2, <1>5, <2>1, <2>2, <2>3
<1>7. \A id : id \in Pending <=>
         \/ \E k \in 1..Len(animPool) : i <= k /\ animPool[k] = id
         \/ \E k \in 1..Len(blendPool) : blendPool[k] = id
  BY <1>1, PendingIs DEF PictureInv, ToReach
<1>8. \A id : id \in Pending' <=>
         \/ \E k \in 1..Len(animPool) : i + 1 <= k /\ animPool[k] = id
         \/ \E k \in 1..Len(blendPool) : blendPool[k] = id
  BY <1>1, <1>3, PendingNext DEF ToReach
<1>9. new \in Pending
  BY <1>2, <1>4, <1>7
<1>10. \A k \in 1..Len(animPool) : i <= k <=> k = i \/ i + 1 <= k
  BY <1>2
<1>11. new \notin Pending'
  <2>1. \A k \in 1..Len(animPool) : i + 1 <= k => animPool[k] # new
    <3>1. \A k \in 1..Len(animPool) : i + 1 <= k => k # i BY <1>2
    <3> QED BY <1>2, <1>4, <3>1 DEF PictureInv, Pictures, Once
  <2>2. \A k \in 1..Len(blendPool) : blendPool[k] # new
    <3>1. anims[new].B = None
      BY <1>2, <1>4 DEF PictureInv, IInv, Owned
    <3> QED BY <3>1 DEF PictureInv, IInv, Owned
  <2> QED BY <1>8, <2>1, <2>2
<1>12. \A id : id # new => (id \in Pending' <=> id \in Pending)
  BY <1>4, <1>7, <1>8, <1>10
<1>13. ASSUME NEW id \in DOMAIN anims, NEW v \in {"A", "B"}
       PROVE  Time(id, v)' = Time(id, v)
  <2>1. CASE id = new
    BY <1>1, <1>5, <1>6, <1>9, <1>11, <2>1 DEF Time, Voices
  <2>2. CASE id # new
    BY <1>1, <1>2, <1>6, <1>12, <2>2 DEF Time, Voices, Updated
  <2> QED BY <2>1, <2>2
<1> QED BY <1>1, <1>13, ClockKept

\* SampleBlend moves no clock, for the same reason, for both voices.
LEMMA SampleBlendStutters ==
  ASSUME PictureInv, SampleBlend
  PROVE  ClockBar' = ClockBar
<1>1. /\ UNCHANGED <<anims, animPool, blendPool, tDelta>>
      /\ sweep = "blends" /\ sweep' = "blends" /\ i' = i + 1
  BY DEF SampleBlend, scene
<1>2. /\ DOMAIN anims = 1..Len(anims) /\ DOMAIN tCurr = 1..Len(anims)
      /\ i \in 1..Len(blendPool) /\ Len(blendPool) \in Nat
  BY DEF SampleBlend, PictureInv, IInv, TypeOK
<1>3. IInv'
  BY NextStep DEF PictureInv, Next
<1>4. PICK new : new = blendPool[i]
  OBVIOUS
<1>5. new \in 1..Len(anims)
  BY <1>2, <1>4 DEF PictureInv, IInv, Owned
<1>6. /\ tCurr'[new].A = Updated(new, "A") /\ tCurr'[new].B = Updated(new, "B")
      /\ \A o \in 1..Len(anims) : o # new => tCurr'[o] = tCurr[o]
  <2>1. PICK t, u : t = Updated(new, "A") /\ u = Updated(new, "B")
    OBVIOUS
  <2>2. tCurr' = [tCurr EXCEPT ![new] = [A |-> t, B |-> u]]
    BY <1>4, <2>1 DEF SampleBlend
  <2> QED BY <1>2, <1>5, <2>1, <2>2
<1>7. \A id : id \in Pending <=>
         \E k \in 1..Len(blendPool) : i <= k /\ blendPool[k] = id
  BY <1>1, PendingIs DEF PictureInv, ToReach
<1>8. \A id : id \in Pending' <=>
         \E k \in 1..Len(blendPool) : i + 1 <= k /\ blendPool[k] = id
  BY <1>1, <1>3, PendingNext DEF ToReach
<1>9. new \in Pending
  BY <1>2, <1>4, <1>7
<1>10. \A k \in 1..Len(blendPool) : i <= k <=> k = i \/ i + 1 <= k
  BY <1>2
<1>11. new \notin Pending'
  <2>1. \A k \in 1..Len(blendPool) : i + 1 <= k => k # i BY <1>2
  <2>2. \A k \in 1..Len(blendPool) : i + 1 <= k => blendPool[k] # new
    BY <1>2, <1>4, <2>1 DEF PictureInv, Pictures, Once
  <2> QED BY <1>8, <2>2
<1>12. \A id : id # new => (id \in Pending' <=> id \in Pending)
  BY <1>4, <1>7, <1>8, <1>10
<1>13. ASSUME NEW id \in DOMAIN anims, NEW v \in {"A", "B"}
       PROVE  Time(id, v)' = Time(id, v)
  <2>1. CASE id = new
    BY <1>1, <1>5, <1>6, <1>9, <1>11, <2>1 DEF Time, Voices
  <2>2. CASE id # new
    BY <1>1, <1>2, <1>6, <1>12, <2>2 DEF Time, Voices, Updated
  <2> QED BY <2>1, <2>2
<1> QED BY <1>1, <1>13, ClockKept

\* EndSweep moves no clock: a sweep ends when none of its pool is pending.
LEMMA EndSweepStutters ==
  ASSUME PictureInv, EndSweep
  PROVE  ClockBar' = ClockBar
<1>1. /\ UNCHANGED <<anims, animPool, blendPool, tDelta, tCurr>>
      /\ sweep \in {"clips", "blends", "skins"} /\ sweep' = After[sweep] /\ i' = 1
      /\ i > Len(Pool[sweep])
  BY DEF EndSweep, scene, After
<1>2. IInv'
  BY NextStep DEF PictureInv, Next
<1>3. i \in Nat /\ Len(animPool) \in Nat /\ Len(blendPool) \in Nat
  BY DEF PictureInv, IInv, TypeOK
<1>4. Pending' = Pending
  <2>1. CASE sweep = "clips"
    <3>1. sweep' = "blends" /\ i > Len(animPool)
      BY <1>1, <2>1 DEF After, Pool
    <3>2. \A k \in 1..Len(animPool) : ~(i <= k)
      BY <1>3, <3>1
    <3>3. \A id : id \in Pending <=> \E k \in 1..Len(blendPool) : blendPool[k] = id
      BY <2>1, <3>2, PendingIs DEF PictureInv, ToReach
    <3>4. \A id : id \in Pending' <=>
             \E k \in 1..Len(blendPool) : 1 <= k /\ blendPool[k] = id
      BY <1>1, <1>2, <3>1, PendingNext DEF ToReach
    <3>5. \A k \in 1..Len(blendPool) : 1 <= k
      BY <1>3
    <3> QED BY <3>3, <3>4, <3>5
  <2>2. CASE sweep = "blends"
    <3>1. sweep' = "skins" /\ i > Len(blendPool)
      BY <1>1, <2>2 DEF After, Pool
    <3>2. \A k \in 1..Len(blendPool) : ~(i <= k)
      BY <1>3, <3>1
    <3>3. \A id : id \notin Pending
      BY <2>2, <3>2, PendingIs DEF PictureInv, ToReach
    <3>4. Pending' = {}
      BY <3>1 DEF Pending
    <3> QED BY <3>3, <3>4
  <2>3. CASE sweep = "skins"
    <3>1. sweep' = "draw"
      BY <1>1, <2>3 DEF After
    <3> QED BY <2>3, <3>1 DEF Pending
  <2> QED BY <1>1, <2>1, <2>2, <2>3
<1>5. \A id \in DOMAIN anims : \A v \in {"A", "B"} : Time(id, v)' = Time(id, v)
  BY <1>1, <1>4 DEF Time, Voices, Updated
<1> QED BY <1>1, <1>5, ClockKept

\* Outside the two sweeps a clock is a timer.
LEMMA QuietClocks ==
  ASSUME anims' = anims, tCurr' = tCurr,
         sweep \notin {"clips", "blends"}, sweep' \notin {"clips", "blends"}
  PROVE  ClockBar' = ClockBar
<1>1. Pending = {} /\ Pending' = {}
  BY DEF Pending
<1>2. \A id \in DOMAIN anims : \A v \in {"A", "B"} : Time(id, v)' = Time(id, v)
  BY <1>1 DEF Time, Voices
<1> QED BY <1>2, ClockKept

\* Present shows what Player shows: every mesh in the pose of its clocks.
LEMMA PresentShows ==
  ASSUME PictureInv, Present
  PROVE  Player!Next
<1>1. /\ UNCHANGED <<anims, skinPool, tCurr, mBlendTs>>
      /\ sweep = "draw" /\ sweep' = "idle" /\ shown' = drawn /\ i > Len(skinPool)
  BY DEF Present, scene
<1>2. ClockBar' = ClockBar
  BY <1>1, QuietClocks
<1>3. DOMAIN skinPool = 1..Len(skinPool) /\ i \in Nat /\ Len(skinPool) \in Nat
      /\ DOMAIN anims = 1..Len(anims)
  BY DEF PictureInv, IInv, TypeOK
<1>4. i - 1 = Len(skinPool) /\ drawn = [k \in 1..(i - 1) |-> Picture(k)]
  BY <1>1, <1>3 DEF PictureInv, Pictures, DrawnInTurn
<1>5. ASSUME NEW id \in 1..Len(anims) PROVE Player!Pose(id) = Posed(id)
  <2>1. Pending = {}
    BY <1>1 DEF Pending
  <2>2. /\ ClockBar[id].A = tCurr[id].A
        /\ anims[id].B # None => ClockBar[id].B = tCurr[id].B
    BY <1>3, <2>1, ClockIs DEF Time, Voices
  <2> QED BY <2>2 DEF Player!Pose, Posed
<1>6. \A k \in 1..Len(skinPool) : Player!Pose(skinPool[k]) = Posed(skinPool[k])
  BY <1>5 DEF PictureInv, Pictures, Once
<1>7. drawn = [k \in DOMAIN skinPool |->
                 [anim |-> skinPool[k], pose |-> Player!Pose(skinPool[k])]]
  BY <1>3, <1>4, <1>6 DEF Picture
<1>8. Player!Show
  BY <1>1, <1>2, <1>7 DEF Player!Show
<1> QED BY <1>8 DEF Player!Next

\* Every step is a step of Player or changes nothing that Player has.
LEMMA StepsArePlayers ==
  ASSUME PictureInv, [Next]_vars
  PROVE  [Player!Next]_(Player!vars)
<1> DEFINE Same == UNCHANGED <<anims, skinPool, ClockBar, mBlendTs, shown>>
                   /\ (sweep' \notin {"load", "idle"} <=> sweep \notin {"load", "idle"})
<1>0. Same => UNCHANGED Player!vars
  BY DEF Player!vars
<1>1. ASSUME NEW c \in Clips, NEW n \in 1..MaxSkinEntities, AddClip(c, n) PROVE Player!Next
  BY <1>1, NewAnimAdds DEF AddClip
<1>2. ASSUME NEW c1 \in Clips, NEW c2 \in Clips, AddBlend(c1, c2) PROVE Player!Next
  BY <1>2, NewAnimAdds, BoundsAssumption DEF AddBlend
<1>3. CASE Loaded
  <2>1. Same BY <1>3, QuietClocks DEF Loaded, scene
  <2> QED BY <1>0, <2>1
<1>4. ASSUME NEW d \in Deltas, NEW ts \in 0..Full, BeginFrame(d, ts) PROVE Player!Next
  BY <1>4, BeginTicks
<1>5. CASE SampleClip
  <2>1. Same BY <1>5, SampleClipStutters DEF SampleClip, scene
  <2> QED BY <1>0, <2>1
<1>6. CASE SampleBlend
  <2>1. Same BY <1>6, SampleBlendStutters DEF SampleBlend, scene
  <2> QED BY <1>0, <2>1
<1>7. CASE Skin
  <2>1. Same BY <1>7, QuietClocks DEF Skin, scene
  <2> QED BY <1>0, <2>1
<1>8. CASE EndSweep
  <2>1. sweep' \notin {"load", "idle"} /\ sweep \notin {"load", "idle"}
    BY <1>8 DEF EndSweep, After
  <2>2. Same BY <1>8, <2>1, EndSweepStutters DEF EndSweep, scene
  <2> QED BY <1>0, <2>2
<1>9. CASE DrawSkin
  <2>1. Same BY <1>9, QuietClocks DEF DrawSkin, scene
  <2> QED BY <1>0, <2>1
<1>10. CASE Present BY <1>10, PresentShows
<1>11. CASE UNCHANGED vars
  <2>1. ClockBar' = ClockBar
    <3>1. Pending' = Pending BY <1>11 DEF vars, scene, Pending
    <3>2. \A id \in DOMAIN anims : \A v \in {"A", "B"} : Time(id, v)' = Time(id, v)
      BY <1>11, <3>1 DEF vars, scene, Time, Voices, Updated
    <3> QED BY <1>11, <3>2, ClockKept DEF vars, scene
  <2>2. Same BY <1>11, <2>1 DEF vars, scene
  <2> QED BY <1>0, <2>2
<1> QED BY <1>1, <1>2, <1>3, <1>4, <1>5, <1>6, <1>7, <1>8, <1>9, <1>10, <1>11
        DEF Next, Load

\* ImplementsPlayer for all clips, frame lengths, blend factors and numbers of
\* animations and meshes: sweeps, mixers, shared slots and shared buffers show exactly
\* the poses of this frame, and a clock advances once a frame (AnimationSystem::Update,
\* BlendSystem::Update, ComputeBlend::Execute, AnimMan::Add).
THEOREM SweepsArePlayer == Spec => ImplementsPlayer
<1>1. Init => Player!Init
  BY InitIsPlayers
<1>2. PictureInv /\ [Next]_vars => [Player!Next]_(Player!vars)
  BY StepsArePlayers
<1>3. Spec => []PictureInv
  BY PicturesAlways
<1> QED BY <1>1, <1>2, <1>3, PTL DEF Spec, ImplementsPlayer, Player!Spec
=================================================================================
