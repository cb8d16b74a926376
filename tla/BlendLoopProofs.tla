---------------------------- MODULE BlendLoopProofs ----------------------------
(***************************************************************************)
(* What the frame sync does for every length of a frame, cushion and       *)
(* clock: the busy wait costs no vertical blank, and frames keep their     *)
(* distance.                                                               *)
(*                                                                         *)
(* The blend of scene 2 for ramps and grids of any size and frames of any  *)
(* length: its types, that the caption names the pose, and that the blend  *)
(* moves by no more than a frame's share.                                  *)
(***************************************************************************)
EXTENDS BlendLoop, TLAPS

------------------------------------------------------------------------------
(* Whole frames.                                                           *)

\* What Quotient and the rest leave of a time.
LEMMA QuotientIs ==
  ASSUME NEW n \in Nat, NEW f \in Nat, f > 0
  PROVE  /\ n \div f \in Nat /\ n % f \in 0 .. (f - 1)
         /\ (n \div f) * f <= n /\ n < (n \div f) * f + f
  BY SMT

LEMMA WithinFrame ==
  ASSUME NEW n \in Nat, NEW f \in Nat, f > 0, NEW q \in Nat, q * f <= n, n < q * f + f
  PROVE  n \div f = q
  BY SMT

\* The target lies in the frame that is running: at most a cushion behind the time,
\* and no more than a frame less the cushion before it.
LEMMA TargetIs ==
  ASSUME NEW t \in Nat
  PROVE  /\ TargetTime(t) \in Nat
         /\ t < TargetTime(t) + Overhead_Time
         /\ TargetTime(t) + Overhead_Time <= t + NTSC_FRAME
         /\ NTSC_FRAME - Overhead_Time <= TargetTime(t)
<1> DEFINE q == t \div NTSC_FRAME
<1>1. q \in Nat /\ q * NTSC_FRAME <= t /\ t < q * NTSC_FRAME + NTSC_FRAME
  BY FrameAssumption, QuotientIs
<1>2. TargetTime(t) = q * NTSC_FRAME + NTSC_FRAME - Overhead_Time
  BY <1>1, FrameAssumption, SMT DEF TargetTime
<1>3. q * NTSC_FRAME \in Nat
  BY <1>1, FrameAssumption, SMT
<1> HIDE DEF q
<1> QED
  BY <1>1, <1>2, <1>3, FrameAssumption, SMT

------------------------------------------------------------------------------
(* The invariant.                                                          *)

\* In a frame, Game::Update started its timer at most MaxPeek after Engine::Run did.
TimersTogether ==
  /\ loop = "peek" => EngineLoopTime = 0
  /\ loop \in {"update", "sync", "spin"} =>
       interval + MaxPeek >= EngineLoopTime \/ interval = MaxDelta

\* Before a frame that is not the first, the time since the last one is there.
FrameBehind ==
  loop \in {"tic", "peek"} /\ tDelta > 0 =>
    interval + Overhead_Time + MaxPeek >= NTSC_FRAME

\* The wait overshoots its end by less than a round of it, if it waits at all.
Waiting ==
  loop = "spin" =>
    /\ EndTime = TargetTime(worked)
    /\ worked <= EngineLoopTime
    /\ EngineLoopTime = worked \/ EngineLoopTime < EndTime + MaxSpin

LoopInv == LoopTypeOK /\ TimersTogether /\ FrameBehind /\ Waiting

\* Time goes by and the timers follow it.
LEMMA PassTypes ==
  ASSUME LoopTypeOK, NEW d \in Nat, Pass(d)
  PROVE  /\ EngineLoopTime' \in Nat /\ interval' \in 0 .. MaxDelta
         /\ EngineLoopTime' = EngineLoopTime + d
         /\ interval' = interval + d \/ interval' = MaxDelta
         /\ interval' >= interval
  BY FrameAssumption, SMT DEF LoopTypeOK, Pass, Counted

LEMMA LoopInitInv == LoopInit => LoopInv
  BY FrameAssumption, TimesAssumption, SMT
  DEF LoopInit, Counted, LoopInv, LoopTypeOK, TimersTogether, FrameBehind, Waiting

LEMMA TicInv == LoopInv /\ Tic => LoopInv'
<1> SUFFICES ASSUME LoopInv, Tic PROVE LoopInv'
  OBVIOUS
<1>1. (blank + EngineLoopTime) % NTSC_FRAME \in 0 .. (NTSC_FRAME - 1)
  BY FrameAssumption, QuotientIs, blank + EngineLoopTime \in Nat
  DEF LoopInv, LoopTypeOK
<1> QED
  BY <1>1, SMT DEF Tic, LoopInv, LoopTypeOK, TimersTogether, FrameBehind, Waiting

LEMMA DispatchInv == LoopInv /\ Dispatch => LoopInv'
<1> SUFFICES ASSUME LoopInv, Dispatch PROVE LoopInv'
  OBVIOUS
<1> PICK d \in MessageTimes : Pass(d)
  BY DEF Dispatch
<1> QED
  BY TimesAssumption, PassTypes, FrameAssumption, SMT
  DEF Dispatch, LoopInv, LoopTypeOK, TimersTogether, FrameBehind, Waiting

LEMMA BeginInv == LoopInv /\ Begin => LoopInv'
<1> SUFFICES ASSUME LoopInv, Begin PROVE LoopInv'
  OBVIOUS
<1>1. EngineLoopTime' \in 0 .. MaxPeek /\ tDelta' \in 0 .. MaxDelta /\ interval' = 0
  BY TimesAssumption, FrameAssumption, SMT DEF Begin, Counted, LoopInv, LoopTypeOK, TimersTogether
<1> QED
  BY <1>1, TimesAssumption, FrameAssumption, SMT
  DEF Begin, LoopInv, LoopTypeOK, TimersTogether, FrameBehind, Waiting

LEMMA TestKeyInv == ASSUME LoopInv, NEW d \in LoadTimes \cup {0}, TestKey(d) PROVE LoopInv'
  BY TimesAssumption, PassTypes, FrameAssumption, SMT
  DEF TestKey, LoopInv, LoopTypeOK, TimersTogether, FrameBehind, Waiting

LEMMA WorkInv == LoopInv /\ Work => LoopInv'
<1> SUFFICES ASSUME LoopInv, Work PROVE LoopInv'
  OBVIOUS
<1> PICK d \in WorkTimes : Pass(d)
  BY DEF Work
<1> QED
  BY TimesAssumption, PassTypes, FrameAssumption, SMT
  DEF Work, LoopInv, LoopTypeOK, TimersTogether, FrameBehind, Waiting

LEMMA SyncInv == LoopInv /\ Sync => LoopInv'
<1> SUFFICES ASSUME LoopInv, Sync PROVE LoopInv'
  OBVIOUS
<1>1. TargetTime(EngineLoopTime) \in Nat
  BY TargetIs DEF LoopInv, LoopTypeOK
<1>2. EndTime' = TargetTime(worked')
  BY DEF Sync
<1> QED
  BY <1>1, <1>2, SMT DEF Sync, LoopInv, LoopTypeOK, TimersTogether, FrameBehind, Waiting

LEMMA SpinInv == LoopInv /\ Spin => LoopInv'
<1> SUFFICES ASSUME LoopInv, Spin PROVE LoopInv'
  OBVIOUS
<1> PICK d \in SpinTimes : Pass(d)
  BY DEF Spin
<1>1. d \in 1 .. MaxSpin /\ d \in Nat
  BY TimesAssumption, SMT
<1>2. EndTime' = TargetTime(worked')
  BY DEF Spin, LoopInv, Waiting
<1> QED
  BY <1>1, <1>2, TimesAssumption, PassTypes, FrameAssumption, SMT
  DEF Spin, LoopInv, LoopTypeOK, TimersTogether, FrameBehind, Waiting

LEMMA PresentInv == LoopInv /\ Present => LoopInv'
<1> SUFFICES ASSUME LoopInv, Present PROVE LoopInv'
  OBVIOUS
<1> DEFINE d == NTSC_FRAME - ((blank + EngineLoopTime) % NTSC_FRAME)
<1>1. d \in Nat
  BY FrameAssumption, QuotientIs, blank + EngineLoopTime \in Nat, SMT
  DEF LoopInv, LoopTypeOK
<1>2. Pass(d)
  BY DEF Present
<1>3. EngineLoopTime >= NTSC_FRAME - Overhead_Time
<2>1. NTSC_FRAME - Overhead_Time <= EndTime
  BY TargetIs DEF Present, LoopInv, Waiting, LoopTypeOK
<2> QED
  BY <2>1, FrameAssumption, SMT DEF Present, LoopInv, LoopTypeOK
<1>4. interval + MaxPeek >= EngineLoopTime \/ interval = MaxDelta
  BY DEF Present, LoopInv, TimersTogether
<1> HIDE DEF d
<1> QED
  BY <1>1, <1>2, <1>3, <1>4, PassTypes, FrameAssumption, TimesAssumption, SMT
  DEF Present, LoopInv, LoopTypeOK, TimersTogether, FrameBehind, Waiting

LEMMA LoopKeepsInv == LoopInv /\ [LoopNext]_loopVars => LoopInv'
<1> SUFFICES ASSUME LoopInv, [LoopNext]_loopVars PROVE LoopInv'
  OBVIOUS
<1>1. CASE UNCHANGED loopVars
  BY <1>1 DEF loopVars, LoopInv, LoopTypeOK, TimersTogether, FrameBehind, Waiting, TargetTime
<1>2. CASE LoopNext
  BY <1>2, TicInv, DispatchInv, BeginInv, TestKeyInv, WorkInv, SyncInv, SpinInv,
     PresentInv DEF LoopNext
<1> QED
  BY <1>1, <1>2

LEMMA LoopInvariant == LoopSpec => []LoopInv
  BY LoopInitInv, LoopKeepsInv, PTL DEF LoopSpec

------------------------------------------------------------------------------
(* The theorems.                                                           *)

\* Types of FrameSync: among them, that the target of the wait is never negative.
THEOREM LoopTypeCorrect == LoopSpec => []LoopTypeOK
<1>1. LoopInv => LoopTypeOK
  BY DEF LoopInv
<1> QED
  BY <1>1, LoopInvariant, PTL

\* The wait of Engine::Run ends before the first blank after Render returned, or before
\* the second if the frame began late.
LEMMA InvKeepsBlanks == LoopInv => NoBlankLost
<1> SUFFICES ASSUME LoopInv, loop = "spin", EngineLoopTime >= EndTime
             PROVE  /\ blank + MaxSpin <= Overhead_Time => BlanksWaited = 0
                    /\ MaxSpin <= Overhead_Time => BlanksWaited \in {0, 1}
  BY DEF NoBlankLost
<1> USE FrameAssumption, TimesAssumption
<1>1. /\ blank \in Nat /\ blank < NTSC_FRAME /\ worked \in Nat /\ EngineLoopTime \in Nat
      /\ NTSC_FRAME > 0
  BY SMT DEF LoopInv, LoopTypeOK
<1>2. CASE EngineLoopTime = worked
  <2>1. (blank + worked) \div NTSC_FRAME \in Nat
    BY <1>1, QuotientIs, blank + worked \in Nat
  <2> QED
    BY <1>2, <2>1, SMT DEF BlanksWaited
<1>3. CASE EngineLoopTime < EndTime + MaxSpin
  <2> DEFINE q == worked \div NTSC_FRAME
  <2>1. /\ q \in Nat /\ q * NTSC_FRAME <= worked
        /\ EndTime = (q + 1) * NTSC_FRAME - Overhead_Time
    BY <1>1, QuotientIs DEF LoopInv, Waiting, TargetTime
  <2>2. /\ (q + 1) * NTSC_FRAME = q * NTSC_FRAME + NTSC_FRAME /\ q * NTSC_FRAME \in Nat
        /\ (q + 1) * NTSC_FRAME + NTSC_FRAME = q * NTSC_FRAME + NTSC_FRAME + NTSC_FRAME
    BY <2>1, SMT
  <2> HIDE DEF q
  <2>3. /\ q * NTSC_FRAME <= blank + worked
        /\ blank + worked <= blank + EngineLoopTime
    BY <1>1, <2>1, <2>2, SMT DEF LoopInv, Waiting
  <2>4. ASSUME NEW t \in Nat, q * NTSC_FRAME <= t, t < q * NTSC_FRAME + NTSC_FRAME
        PROVE  t \div NTSC_FRAME = q
    BY <1>1, <2>1, <2>4, WithinFrame
  <2>5. ASSUME blank + MaxSpin <= Overhead_Time
        PROVE  BlanksWaited = 0
    <3>1. blank + EngineLoopTime < q * NTSC_FRAME + NTSC_FRAME
      BY <1>1, <1>3, <2>1, <2>2, <2>5, SMT
    <3>2. (blank + EngineLoopTime) \div NTSC_FRAME = q /\ (blank + worked) \div NTSC_FRAME = q
      <4>1. blank + worked \in Nat /\ blank + EngineLoopTime \in Nat
        BY <1>1
      <4>2. /\ q * NTSC_FRAME <= blank + EngineLoopTime
            /\ blank + worked < q * NTSC_FRAME + NTSC_FRAME
        BY <4>1, <2>2, <2>3, <3>1, <1>1, SMT
      <4> QED
        BY <4>1, <4>2, <2>3, <2>4, <3>1
    <3> QED
      BY <3>2, <2>1, SMT DEF BlanksWaited
  <2>6. ASSUME MaxSpin <= Overhead_Time
        PROVE  BlanksWaited \in {0, 1}
    <3>1. blank + EngineLoopTime < q * NTSC_FRAME + NTSC_FRAME + NTSC_FRAME
      BY <1>1, <1>3, <2>1, <2>2, <2>6, SMT
    <3>2. ASSUME NEW t \in Nat, q * NTSC_FRAME <= t,
                 t < q * NTSC_FRAME + NTSC_FRAME + NTSC_FRAME
          PROVE  /\ t < q * NTSC_FRAME + NTSC_FRAME => t \div NTSC_FRAME = q
                 /\ t >= q * NTSC_FRAME + NTSC_FRAME => t \div NTSC_FRAME = q + 1
      <4>1. CASE t < q * NTSC_FRAME + NTSC_FRAME
        BY <4>1, <3>2, <2>4, <2>2, SMT
      <4>2. CASE t >= q * NTSC_FRAME + NTSC_FRAME
        <5>1. /\ q + 1 \in Nat /\ (q + 1) * NTSC_FRAME <= t
              /\ t < (q + 1) * NTSC_FRAME + NTSC_FRAME
          BY <4>2, <3>2, <2>1, <2>2, SMT
        <5>2. t \div NTSC_FRAME = q + 1
          BY <5>1, <1>1, WithinFrame
        <5> QED
          BY <5>2, <4>2, <2>2, <1>1, SMT
      <4> QED
        BY <4>1, <4>2, <2>2, <1>1, SMT
    <3>3. PICK a \in Nat : a = blank + worked
      BY <1>1
    <3>4. PICK b \in Nat : b = blank + EngineLoopTime
      BY <1>1
    <3>5. /\ a \div NTSC_FRAME \in {q, q + 1} /\ b \div NTSC_FRAME \in {q, q + 1}
          /\ (b \div NTSC_FRAME = q => a \div NTSC_FRAME = q)
      BY <1>1, <2>1, <2>2, <2>3, <3>1, <3>2, <3>3, <3>4, SMT
    <3> QED
      BY <2>1, <3>3, <3>4, <3>5, SMT DEF BlanksWaited
  <2> QED
    BY <2>5, <2>6
<1> QED
  BY <1>2, <1>3 DEF LoopInv, Waiting

\* The busy wait of Engine::Run costs no vertical blank, for frames of any length,
\* any cushion and any clock, if the frame began within the cushion after one; and at
\* most one blank whenever it began, if a round of the wait is no longer than the cushion.
THEOREM BlanksAreKept == LoopSpec => []NoBlankLost
  BY LoopInvariant, InvKeepsBlanks, PTL

LEMMA LongEnough ==
  ASSUME NEW t \in Nat, NEW d \in Nat, t + Overhead_Time + MaxPeek >= NTSC_FRAME,
         d >= t \/ d = MaxDelta
  PROVE  d + Overhead_Time + MaxPeek >= NTSC_FRAME
  BY FrameAssumption, TimesAssumption, SMT

LEMMA StepKeepsApart ==
  LoopInv /\ [LoopNext]_loopVars =>
    [loop = "peek" /\ loop' = "update" /\ tDelta > 0 =>
       tDelta' + Overhead_Time + MaxPeek >= NTSC_FRAME]_loopVars
<1> SUFFICES ASSUME LoopInv, [LoopNext]_loopVars, loop = "peek", loop' = "update", tDelta > 0
             PROVE  tDelta' + Overhead_Time + MaxPeek >= NTSC_FRAME
  OBVIOUS
<1>1. Begin
  BY DEF LoopNext, loopVars, Tic, Dispatch, TestKey, Work, Sync, Spin, Present
<1>2. PICK d \in PeekTimes : tDelta' = Counted(interval + d)
  BY <1>1 DEF Begin
<1>3. /\ tDelta' \in Nat /\ interval \in Nat
      /\ tDelta' >= interval \/ tDelta' = MaxDelta
  BY <1>2, TimesAssumption, FrameAssumption, SMT DEF Counted, LoopInv, LoopTypeOK
<1>4. interval + Overhead_Time + MaxPeek >= NTSC_FRAME
  BY DEF LoopInv, FrameBehind
<1> QED
  BY <1>3, <1>4, LongEnough, TimesAssumption, FrameAssumption

\* What Game::Update hands to the scenes is never shorter than a frame less the
\* cushion and the time of PeekMessage, the first one apart.
THEOREM FramesStayApart == LoopSpec => FramesApart
<1>1. LoopSpec => [][LoopNext]_loopVars
  BY DEF LoopSpec
<1> QED
  BY <1>1, LoopInvariant, StepKeepsApart, PTL DEF FramesApart

------------------------------------------------------------------------------
(* The engine loop is that of FrameSync.                                   *)

LEMMA LoopStep == [Next]_vars => [LoopNext]_loopVars
<1> SUFFICES ASSUME [Next]_vars PROVE [LoopNext]_loopVars
  OBVIOUS
<1>1. CASE UNCHANGED vars
  BY <1>1 DEF vars
<1>2. CASE OutsideUpdate
  BY <1>2 DEF OutsideUpdate, LoopNext
<1>3. CASE SwitchScene
  BY <1>3 DEF SwitchScene, LoopNext
<1>4. CASE PassKey
  BY <1>4 DEF PassKey, LoopNext
<1>5. CASE UpdateScene
  BY <1>5 DEF UpdateScene, LoopNext
<1>6. CASE KeyDown
  BY <1>6 DEF KeyDown
<1> QED
  BY <1>1, <1>2, <1>3, <1>4, <1>5, <1>6 DEF Next, Program

\* Scene 2 changes nothing about how Engine::Run makes frames and measures them.
THEOREM RunsTheLoop == Spec => LoopSpec
<1>1. Init => LoopInit
  BY DEF Init
<1> QED
  BY <1>1, LoopStep, PTL DEF Spec, LoopSpec

------------------------------------------------------------------------------
(* Points of a ramp.                                                       *)

\* The share of a ramp that lies behind, as far as the ramp is wide.
LEMMA ShareIs ==
  ASSUME NEW a \in Nat, NEW t \in 0 .. Ramp
  PROVE  /\ (a * t) \div Ramp \in 0 .. a
         /\ ((a * t) \div Ramp) * Ramp <= a * t
         /\ a * t < ((a * t) \div Ramp) * Ramp + Ramp
<1>1. Ramp \in Nat /\ Ramp > 0 /\ t \in Nat
  BY RampAssumption, SMT
<1>2. a * t \in Nat /\ a * t <= a * Ramp
  BY <1>1, SMT
<1> DEFINE q == (a * t) \div Ramp
<1>3. q \in Nat /\ q * Ramp <= a * t /\ a * t < q * Ramp + Ramp
  BY <1>1, <1>2, QuotientIs
<1> HIDE DEF q
<1>4. q <= a
  BY <1>1, <1>2, <1>3, SMT
<1> QED
  BY <1>3, <1>4 DEF q

LEMMA RampedIs ==
  ASSUME NEW start \in 0 .. Full, NEW target \in 0 .. Full, NEW elapsed \in Nat
  PROVE  Ramped(start, target, elapsed) \in 0 .. Full
<1> DEFINE t == IF elapsed > Ramp THEN Ramp ELSE elapsed
<1>1. t \in 0 .. Ramp
  BY RampAssumption, SMT
<1>2. CASE target >= start
  <2>1. target - start \in Nat
    BY <1>2, FullAssumption, SMT
  <2>2. ((target - start) * t) \div Ramp \in 0 .. (target - start)
    BY <1>1, <2>1, ShareIs
  <2>3. Ramped(start, target, elapsed) = start + ((target - start) * t) \div Ramp
    BY <1>2 DEF Ramped
  <2> QED
    BY <2>2, <2>3, FullAssumption, SMT
<1>3. CASE ~(target >= start)
  <2>1. start - target \in Nat
    BY <1>3, FullAssumption, SMT
  <2>2. ((start - target) * t) \div Ramp \in 0 .. (start - target)
    BY <1>1, <2>1, ShareIs
  <2>3. Ramped(start, target, elapsed) = start - ((start - target) * t) \div Ramp
    BY <1>3 DEF Ramped
  <2> QED
    BY <2>2, <2>3, FullAssumption, SMT
<1> QED
  BY <1>2, <1>3

\* A ramp begins where it starts.
LEMMA RampedStart ==
  ASSUME NEW start \in 0 .. Full, NEW target \in 0 .. Full
  PROVE  Ramped(start, target, 0) = start
<1>1. Ramp \in Nat /\ Ramp > 0 /\ ~(0 > Ramp)
  BY RampAssumption, SMT
<1>2. \A a \in Nat : (a * 0) \div Ramp = 0
  BY <1>1, ShareIs, 0 \in 0 .. Ramp, SMT
<1>3. CASE target >= start
  BY <1>1, <1>2, <1>3, FullAssumption, SMT DEF Ramped
<1>4. CASE ~(target >= start)
  BY <1>1, <1>2, <1>4, FullAssumption, SMT DEF Ramped
<1> QED
  BY <1>3, <1>4

\* How far the share moves while d ticks go by.
LEMMA ShareMoves ==
  ASSUME NEW a \in 0 .. Full, NEW t \in 0 .. Ramp, NEW u \in 0 .. Ramp, NEW d \in Nat,
         t <= u, u <= t + d
  PROVE  LET p == (a * t) \div Ramp
             q == (a * u) \div Ramp
         IN  /\ p \in Nat /\ q \in Nat
             /\ (q - p) * Ramp <= Full * d + Ramp
             /\ (p - q) * Ramp <= Full * d + Ramp
<1> DEFINE p == (a * t) \div Ramp
           q == (a * u) \div Ramp
<1>1. a \in Nat /\ t \in Nat /\ u \in Nat /\ Ramp \in Nat /\ Full \in Nat /\ a <= Full
  BY RampAssumption, FullAssumption, SMT
<1>2. /\ p \in Nat /\ p * Ramp <= a * t /\ a * t < p * Ramp + Ramp
      /\ q \in Nat /\ q * Ramp <= a * u /\ a * u < q * Ramp + Ramp
  <2>1. p \in 0 .. a /\ p * Ramp <= a * t /\ a * t < p * Ramp + Ramp
    BY <1>1, ShareIs
  <2>2. q \in 0 .. a /\ q * Ramp <= a * u /\ a * u < q * Ramp + Ramp
    BY <1>1, ShareIs
  <2> HIDE DEF p, q
  <2> QED
    BY <1>1, <2>1, <2>2, SMT
<1> HIDE DEF p, q
<1>3. a * t \in Nat /\ a * u \in Nat /\ Full * d \in Nat
  BY <1>1, SMT
<1>4. a * t <= a * u
  BY <1>1, SMT
<1>5. a * u <= a * t + Full * d
  <2>1. a * u <= a * (t + d)
    BY <1>1, SMT
  <2>2. a * (t + d) = a * t + a * d
    BY <1>1, SMT
  <2>3. a * d <= Full * d /\ a * d \in Nat
    BY <1>1, SMT
  <2> QED
    BY <1>3, <2>1, <2>2, <2>3, SMT
<1>6. /\ (q - p) * Ramp = q * Ramp - p * Ramp
      /\ (p - q) * Ramp = p * Ramp - q * Ramp
      /\ q * Ramp \in Nat /\ p * Ramp \in Nat
  BY <1>1, <1>2, SMT
<1>7. (q - p) * Ramp <= Full * d + Ramp /\ (p - q) * Ramp <= Full * d + Ramp
  BY <1>1, <1>2, <1>3, <1>4, <1>5, <1>6, SMT
<1> QED
  BY <1>2, <1>7 DEF p, q

\* A blend moves no further in d ticks than their share of a ramp.
LEMMA RampedMoves ==
  ASSUME NEW start \in 0 .. Full, NEW target \in 0 .. Full,
         NEW e \in Nat, NEW f \in Nat, NEW d \in Nat, e <= f, f <= e + d
  PROVE  LET b == Ramped(start, target, e)
             c == Ramped(start, target, f)
         IN  (c - b) * Ramp <= Full * d + Ramp /\ (b - c) * Ramp <= Full * d + Ramp
<1> DEFINE t == IF e > Ramp THEN Ramp ELSE e
           u == IF f > Ramp THEN Ramp ELSE f
           a == IF target >= start THEN target - start ELSE start - target
           p == (a * t) \div Ramp
           q == (a * u) \div Ramp
<1>1. t \in 0 .. Ramp /\ u \in 0 .. Ramp /\ t <= u /\ u <= t + d
  BY RampAssumption, SMT
<1>2. a \in 0 .. Full
  BY FullAssumption, SMT
<1>3. /\ p \in Nat /\ q \in Nat
      /\ (q - p) * Ramp <= Full * d + Ramp
      /\ (p - q) * Ramp <= Full * d + Ramp
  <2> HIDE DEF t, u, a
  <2> QED
    BY <1>1, <1>2, ShareMoves
<1>4. CASE target >= start
  <2>1. /\ Ramped(start, target, e) = start + p
        /\ Ramped(start, target, f) = start + q
    BY <1>4 DEF Ramped
  <2> HIDE DEF p, q, a, t, u
  <2>2. (start + q) - (start + p) = q - p /\ (start + p) - (start + q) = p - q
    BY <1>3, FullAssumption, SMT
  <2> QED
    BY <1>3, <2>1, <2>2
<1>5. CASE ~(target >= start)
  <2>1. /\ Ramped(start, target, e) = start - p
        /\ Ramped(start, target, f) = start - q
    BY <1>5 DEF Ramped
  <2> HIDE DEF p, q, a, t, u
  <2>2. (start - q) - (start - p) = p - q /\ (start - p) - (start - q) = q - p
    BY <1>3, FullAssumption, SMT
  <2> QED
    BY <1>3, <2>1, <2>2
<1> QED
  BY <1>4, <1>5

------------------------------------------------------------------------------
(* The invariant.                                                          *)

\* The blend is where its ramp says; the copies are those of the last frame.
OnRamp == sBlendTs = Ramped(sStartTs, sTargetTs, sElapsedSec)

\* The change detector of the caption knows what the caption says.
Told ==
  /\ s_eFontBlend = (phase # "away")
  /\ phase = "loaded" => s_blendLabelState = -1
  /\ phase = "updated" => /\ s_blendLabelState = LabelState(ts)
                          /\ pMessage = Message(LabelState(ts))

BlendInv == TypeOK /\ OnRamp /\ Told

LEMMA Ends ==
  /\ 0 \in 0 .. Full /\ Full \div 2 \in 0 .. Full
  /\ Ramp \div 3 \in 0 .. (Ramp + 1) /\ -1 \in -1 .. 2
  BY RampAssumption, FullAssumption, SMT

LEMMA InitInv == Init => BlendInv
<1> SUFFICES ASSUME BlendInit PROVE BlendInv
  BY DEF Init
<1>1. Ramp \div 3 \in 0 .. Ramp
  BY RampAssumption, SMT
<1>2. TypeOK
  BY Ends DEF BlendInit, TypeOK
<1>3. Ramped(0, 0, Ramp \div 3) = 0
  <2>1. Ramped(0, 0, Ramp \div 3) = 0 + ((0 - 0) * (Ramp \div 3)) \div Ramp
    BY <1>1, RampAssumption, SMT DEF Ramped
  <2>2. ((0 - 0) * (Ramp \div 3)) \div Ramp = 0
    BY <1>1, RampAssumption, SMT
  <2> QED
    BY <2>1, <2>2
<1>4. OnRamp
  BY <1>3 DEF OnRamp, BlendInit
<1>5. Told
  BY DEF Told, BlendInit
<1> QED
  BY <1>2, <1>4, <1>5 DEF BlendInv

LEMMA ElapsedIs ==
  ASSUME TypeOK, NEW d \in Nat
  PROVE  /\ Elapsed(d) \in 0 .. (Ramp + 1)
         /\ LET e == IF latched THEN 0 ELSE sElapsedSec
            IN  e <= Elapsed(d) /\ Elapsed(d) <= e + d
  BY RampAssumption, SMT DEF TypeOK, Elapsed

\* What a frame of scene 2 does to the blend.
LEMMA UpdateIs ==
  ASSUME BlendInv, NEW d \in Nat, Update(d)
  PROVE  /\ sStartTs' \in 0 .. Full /\ sTargetTs' \in {0, Full} /\ sBlendOn' \in BOOLEAN
         /\ sElapsedSec' \in 0 .. (Ramp + 1)
         /\ sBlendTs' \in 0 .. Full
         /\ OnRamp'
         /\ mBlendTs' = sBlendTs' /\ mixTs' = sBlendTs' /\ ts' = sBlendTs'
<1>1. BlendAnimation(d) /\ ts' = mixTs'
  BY DEF Update
<1>2. sStartTs' \in 0 .. Full /\ sTargetTs' \in {0, Full} /\ sBlendOn' \in BOOLEAN
  BY <1>1 DEF BlendAnimation, Toggle, BlendInv, TypeOK
<1>3. sElapsedSec' \in 0 .. (Ramp + 1) /\ sElapsedSec' \in Nat
  BY <1>1, ElapsedIs, RampAssumption, SMT DEF BlendAnimation, BlendInv
<1>4. sTargetTs' \in 0 .. Full
  BY <1>2, FullAssumption, SMT
<1>5. Ramped(sStartTs', sTargetTs', sElapsedSec') \in 0 .. Full
  BY <1>2, <1>3, <1>4, RampedIs
<1> QED
  BY <1>1, <1>2, <1>3, <1>5 DEF BlendAnimation, OnRamp, Ramped

LEMMA UpdateInv == ASSUME BlendInv, NEW d \in Nat, Update(d) PROVE BlendInv'
<1>1. LabelState(mBlendTs') \in 0 .. 2 /\ LabelState(mBlendTs') # -1
  BY SMT DEF LabelState
<1>2. \A x \in 0 .. 2 : Message(x) \in {"Gangnam", "Blending", "Silly"}
  BY SMT DEF Message
<1>3. Caption /\ phase # "away" /\ phase' = "updated" /\ latched' = FALSE
  BY DEF Update, BlendAnimation
<1>4. /\ s_eFontBlend' = s_eFontBlend /\ s_eFontBlend
      /\ s_blendLabelState' = LabelState(mBlendTs')
      /\ s_blendLabelState' # s_blendLabelState => pMessage' = Message(LabelState(mBlendTs'))
      /\ s_blendLabelState' = s_blendLabelState => pMessage' = pMessage
  BY <1>3 DEF Caption, BlendInv, Told
<1>5. pMessage' = Message(LabelState(mBlendTs'))
  <2>1. CASE phase = "loaded"
    BY <1>1, <1>4, <2>1 DEF BlendInv, Told
  <2>2. CASE phase = "updated"
    BY <1>4, <2>2 DEF BlendInv, Told
  <2> QED
    BY <1>3, <2>1, <2>2 DEF BlendInv, TypeOK
<1>6. TypeOK'
  <2>1. s_blendLabelState' \in -1 .. 2
    BY <1>1, <1>4, SMT
  <2>2. pMessage' \in {"Gangnam", "Blending", "Silly"}
    BY <1>1, <1>2, <1>5
  <2>3. s_eFontBlend' \in BOOLEAN
    BY <1>4 DEF BlendInv, TypeOK
  <2> QED
    BY <1>3, <2>1, <2>2, <2>3, UpdateIs DEF TypeOK
<1>7. Told'
  BY <1>3, <1>4, <1>5, UpdateIs DEF Told, LabelState
<1> QED
  BY <1>6, <1>7, UpdateIs DEF BlendInv

LEMMA NextInv == LoopTypeOK /\ BlendInv /\ [Next]_vars => BlendInv'
<1> SUFFICES ASSUME LoopTypeOK, BlendInv, [Next]_vars PROVE BlendInv'
  OBVIOUS
<1>1. CASE UNCHANGED blendVars
  BY <1>1 DEF blendVars, statics, mixer, caption, BlendInv, TypeOK, OnRamp, Ramped, Told,
     LabelState
<1>2. CASE Load
  <2>1. TypeOK'
    BY <1>2, Ends DEF Load, statics, BlendInv, TypeOK
  <2> QED
    BY <1>2, <2>1 DEF Load, statics, BlendInv, OnRamp, Ramped, Told
<1>3. CASE Unload
  <2>1. TypeOK'
    BY <1>3, Ends DEF Unload, statics, mixer, BlendInv, TypeOK
  <2> QED
    BY <1>3, <2>1 DEF Unload, statics, BlendInv, OnRamp, Ramped, Told
<1>4. CASE UpdateScene
  <2>1. CASE phase = "away"
    BY <1>1, <1>4, <2>1 DEF UpdateScene
  <2>2. CASE phase # "away"
    BY <1>4, <2>2, UpdateInv, tDelta \in Nat DEF UpdateScene, LoopTypeOK
  <2> QED
    BY <2>1, <2>2
<1>5. CASE PressSpace
  BY <1>5 DEF PressSpace, statics, mixer, caption, BlendInv, TypeOK, OnRamp, Ramped, Told,
     LabelState
<1> QED
  BY <1>1, <1>2, <1>3, <1>4, <1>5
  DEF Next, Program, OutsideUpdate, SwitchScene, PassKey, KeyDown, vars

LEMMA Invariant == Spec => [](LoopTypeOK /\ BlendInv)
<1>1. Spec => []LoopTypeOK
  BY RunsTheLoop, LoopTypeCorrect, PTL
<1> QED
  BY <1>1, InitInv, NextInv, PTL DEF Spec

------------------------------------------------------------------------------
(* The theorems.                                                           *)

\* Types of the engine loop and of AnimBlend: no time is negative, and the blend never
\* leaves the range between the two clips.
THEOREM TypesCorrect == Spec => []TypesOK
<1>1. LoopTypeOK /\ BlendInv => TypesOK
  BY DEF BlendInv, TypesOK
<1> QED
  BY <1>1, Invariant, PTL

\* scene2.cpp's caption names the pose that the mixer draws, in every frame.
THEOREM CaptionIsRight == Spec => []CaptionNamesPose
<1>1. BlendInv => CaptionNamesPose
  BY DEF BlendInv, Told, CaptionNamesPose
<1> QED
  BY <1>1, Invariant, PTL

LEMMA StepIsSmooth ==
  LoopTypeOK /\ BlendInv /\ [Next]_vars =>
    [LET most == Full * tDelta + Ramp
     IN  /\ (sBlendTs' - sBlendTs) * Ramp <= most
         /\ (sBlendTs - sBlendTs') * Ramp <= most]_vars
<1> DEFINE most == Full * tDelta + Ramp
<1> SUFFICES ASSUME LoopTypeOK, BlendInv, [Next]_vars
             PROVE  /\ (sBlendTs' - sBlendTs) * Ramp <= most
                    /\ (sBlendTs - sBlendTs') * Ramp <= most
  OBVIOUS
<1>1. tDelta \in Nat /\ most \in Nat /\ sBlendTs \in Int
  BY RampAssumption, FullAssumption, SMT DEF LoopTypeOK, BlendInv, TypeOK
<1>2. CASE sBlendTs' = sBlendTs
  <2>1. (sBlendTs - sBlendTs) * Ramp = 0
    BY <1>1, RampAssumption, SMT
  <2> QED
    BY <1>1, <1>2, <2>1, SMT
<1>3. CASE Update(tDelta)
  <2> DEFINE e == IF latched THEN 0 ELSE sElapsedSec
  <2>1. BlendAnimation(tDelta) /\ sElapsedSec' = Elapsed(tDelta)
    BY <1>3 DEF Update, BlendAnimation
  <2>2. /\ e \in Nat /\ sElapsedSec' \in Nat
        /\ e <= sElapsedSec' /\ sElapsedSec' <= e + tDelta
    BY <1>1, <2>1, ElapsedIs, RampAssumption, SMT DEF BlendInv, TypeOK
  <2>3. sStartTs' \in 0 .. Full /\ sTargetTs' \in 0 .. Full
    BY <1>1, <1>3, UpdateIs, FullAssumption, SMT
  <2>4. sBlendTs = Ramped(sStartTs', sTargetTs', e)
    <3>1. CASE latched
      BY <2>1, <2>3, <3>1, RampedStart DEF BlendAnimation, Toggle
    <3>2. CASE ~latched
      BY <2>1, <3>2 DEF BlendAnimation, BlendInv, OnRamp
    <3> QED
      BY <3>1, <3>2
  <2>5. sBlendTs' = Ramped(sStartTs', sTargetTs', sElapsedSec')
    BY <2>1 DEF BlendAnimation
  <2> HIDE DEF e
  <2> QED
    BY <1>1, <2>2, <2>3, <2>4, <2>5, RampedMoves
<1> QED
  BY <1>2, <1>3
  DEF Next, Program, OutsideUpdate, SwitchScene, PassKey, KeyDown, UpdateScene, vars,
      Load, Unload, PressSpace, blendVars, statics

\* AnimMan::BlendAnimation: the figure of scene 2 never jumps, for ramps of any length
\* over grids of any size, and frames and loading times of any length.
THEOREM BlendIsSmooth == Spec => BlendNeverJumps
<1>1. Spec => [][Next]_vars
  BY PTL DEF Spec
<1> QED
  BY <1>1, Invariant, StepIsSmooth, PTL DEF BlendNeverJumps
================================================================================
