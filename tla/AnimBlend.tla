-------------------------------- MODULE AnimBlend --------------------------------
(***************************************************************************)
(* The blend of two clips in scene 2: AnimMan::BlendAnimation with its     *)
(* function statics, the caption that scene2.cpp keeps in step with it,    *)
(* and the way of the blend to the GPU (ComputeBlend_TwoAnim, BlendSystem).*)
(*                                                                         *)
(* Three clocks run here.  The statics live as long as the program; the    *)
(* AnimMan, the mixer and the caption live as long as scene 2 is loaded;   *)
(* and SPACE may go down at any time, in another scene too, where its      *)
(* press waits in the latch of GetAsyncKeyState.                           *)
(*                                                                         *)
(* Time counts ticks, and a blend is a grid point of 0..Full for the       *)
(* code's 0.0f..1.0f.  A point between the grid lines is rounded towards   *)
(* where the ramp began; both ends are exact.                              *)
(***************************************************************************)
EXTENDS Integers

CONSTANTS
  Ramp,      \* ticks a ramp takes (3 seconds in the code)
  Full       \* grid points between the two clips, even

ASSUME RampAssumption == Ramp \in Nat \ {0} /\ Ramp % 3 = 0
ASSUME FullAssumption == Full \in Nat \ {0} /\ Full % 2 = 0

VARIABLES
  sBlendTs, sBlendOn, sStartTs, sTargetTs, sElapsedSec,   \* the statics
  latched,             \* SPACE was pressed since it was last asked for
  phase,               \* of scene 2: away, loaded, updated at least once
  mBlendTs,            \* AnimMan's copy of the blend
  mixTs, ts,           \* ComputeBlend_TwoAnim's, and the mixer constant's
  s_eFontBlend,        \* scene 2 has a caption
  s_blendLabelState,
  pMessage             \* the text of the caption

statics == <<sBlendTs, sBlendOn, sStartTs, sTargetTs, sElapsedSec>>
mixer == <<mBlendTs, mixTs, ts>>
caption == <<s_eFontBlend, s_blendLabelState, pMessage>>
blendVars == <<statics, latched, phase, mixer, caption>>

------------------------------------------------------------------------------
BlendInit ==
  /\ sBlendTs = 0 /\ sBlendOn = FALSE /\ sStartTs = 0 /\ sTargetTs = 0
  /\ sElapsedSec = Ramp \div 3
  /\ latched = FALSE /\ phase = "away"
  /\ mBlendTs = 0 /\ mixTs = 0 /\ ts = 0
  /\ s_eFontBlend = FALSE /\ s_blendLabelState = -1 /\ pMessage = "Silly"

PressSpace ==
  /\ latched' = TRUE
  /\ UNCHANGED <<statics, phase, mixer, caption>>

\* Scene2::Load: a new AnimMan, a new ComputeBlend_TwoAnim, a new caption.
Load ==
  /\ phase = "away" /\ phase' = "loaded"
  /\ mBlendTs' = 0
  /\ mixTs' = Full \div 2 /\ ts' = 0
  /\ s_eFontBlend' = TRUE /\ s_blendLabelState' = -1 /\ pMessage' = "Silly"
  /\ UNCHANGED <<statics, latched>>

\* Scene2::Unload.
Unload ==
  /\ phase # "away" /\ phase' = "away"
  /\ s_eFontBlend' = FALSE /\ s_blendLabelState' = -1
  /\ UNCHANGED <<statics, latched, mixer, pMessage>>

\* Mutant: neither the time nor the blend is clamped.
Unclamped(start, target, elapsed) ==
  start + ((target - start) * elapsed) \div Ramp

\* The blend elapsed ticks into a ramp, clamped to the end of the ramp.
Ramped(start, target, elapsed) ==
  LET t == IF elapsed > Ramp THEN Ramp ELSE elapsed
  IN  IF target >= start THEN start + ((target - start) * t) \div Ramp
      ELSE start - ((start - target) * t) \div Ramp

\* Mutant: the ramp starts over at every frame.
ElapsedForgotten(tDelta) == IF tDelta > Ramp THEN Ramp ELSE tDelta

\* sElapsedSec counts for ever; here it stops one tick past Ramp, where it makes
\* no difference any more.
Elapsed(tDelta) ==
  LET e == (IF latched THEN 0 ELSE sElapsedSec) + tDelta
  IN  IF e > Ramp THEN Ramp + 1 ELSE e

\* Mutant: a ramp starts where the last one did.
ToggleFromStart ==
  /\ sBlendOn' = ~sBlendOn
  /\ UNCHANGED sStartTs
  /\ sTargetTs' = IF sBlendOn' THEN Full ELSE 0

\* SPACE turns the ramp around, from where it is.
Toggle ==
  /\ sBlendOn' = ~sBlendOn
  /\ sStartTs' = sBlendTs
  /\ sTargetTs' = IF sBlendOn' THEN Full ELSE 0

\* AnimMan::BlendAnimation.
BlendAnimation(tDelta) ==
  /\ latched' = FALSE
  /\ IF latched THEN Toggle ELSE UNCHANGED <<sBlendOn, sStartTs, sTargetTs>>
  /\ sElapsedSec' = Elapsed(tDelta)
  /\ sBlendTs' = Ramped(sStartTs', sTargetTs', sElapsedSec')
  /\ mBlendTs' = sBlendTs'
  /\ mixTs' = sBlendTs'

\* What Scene2::Update sees in a blend: at one clip, at the other, between.
\* (0.01f and 0.99f are nearer to the ends than any other grid point.)
LabelState(b) == IF b = 0 THEN 0 ELSE IF b = Full THEN 2 ELSE 1

Message(s) == CASE s = 0 -> "Gangnam" [] s = 1 -> "Blending" [] s = 2 -> "Silly"

\* Mutant: the caption is chosen before the blend advances.
CaptionBehind ==
  /\ s_blendLabelState' = LabelState(mBlendTs)
  /\ pMessage' = Message(LabelState(mBlendTs))
  /\ UNCHANGED s_eFontBlend

\* The caption is rewritten when its state changes.
Caption ==
  LET newState == LabelState(mBlendTs')
  IN  /\ IF s_eFontBlend /\ newState # s_blendLabelState
         THEN s_blendLabelState' = newState /\ pMessage' = Message(newState)
         ELSE UNCHANGED <<s_blendLabelState, pMessage>>
      /\ UNCHANGED s_eFontBlend

\* Scene2::Update: BlendAnimation, the caption, then SystemMan::Run, whose
\* BlendSystem hands the blend to the mixer.  Render follows.
Update(tDelta) ==
  /\ phase # "away" /\ phase' = "updated"
  /\ BlendAnimation(tDelta)
  /\ Caption
  /\ ts' = mixTs'

------------------------------------------------------------------------------
(* Properties.                                                             *)

\* A blend never leaves the range between the two clips, and what else the
\* module keeps has its type.
TypeOK ==
  /\ sBlendTs \in 0..Full /\ sStartTs \in 0..Full /\ sTargetTs \in {0, Full}
  /\ sBlendOn \in BOOLEAN /\ sElapsedSec \in 0..(Ramp + 1)
  /\ latched \in BOOLEAN /\ phase \in {"away", "loaded", "updated"}
  /\ mBlendTs \in 0..Full /\ mixTs \in 0..Full /\ ts \in 0..Full
  /\ s_eFontBlend \in BOOLEAN /\ s_blendLabelState \in -1..2
  /\ pMessage \in {"Gangnam", "Blending", "Silly"}

\* What is drawn: the caption names the pose the mixer was given, in every
\* frame, also in the first one after scene 2 was left in the middle of a
\* ramp and loaded again.
CaptionNamesPose ==
  phase = "updated" => pMessage = Message(LabelState(ts))
==============================================================================
