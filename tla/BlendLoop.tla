------------------------------- MODULE BlendLoop -------------------------------
(***************************************************************************)
(* Scene 2 in the engine loop: FrameSync makes the frames, measures them   *)
(* and lets Game::Update switch scenes; AnimBlend is what scene 2 does in  *)
(* a frame with the time it is given.  SPACE may go down between any two   *)
(* steps.                                                                  *)
(***************************************************************************)
EXTENDS FrameSync, AnimBlend

vars == <<loopVars, blendVars>>

Init == LoopInit /\ BlendInit

\* What the engine loop does besides Game::Update.
OutsideUpdate ==
  /\ Tic \/ Dispatch \/ Begin \/ Sync \/ Spin \/ Present
  /\ UNCHANGED blendVars

\* '2' takes to scene 2, every other key away from it.
SwitchScene ==
  \E d \in LoadTimes : TestKey(d) /\ (IF test = 2 THEN Load ELSE Unload)

\* A key that is not down, or that asks for the present scene, changes nothing.
PassKey == TestKey(0) /\ UNCHANGED blendVars

\* The scene's Update gets the time that was measured when Game::Update began, from
\* before a switch of scenes.
UpdateScene ==
  /\ Work
  /\ IF phase = "away" THEN UNCHANGED blendVars ELSE Update(tDelta)

KeyDown == PressSpace /\ UNCHANGED loopVars

Program == OutsideUpdate \/ SwitchScene \/ PassKey \/ UpdateScene

Next == Program \/ KeyDown

\* The thread goes on, and PeekMessage finds no message again and again.
Spec ==
  Init /\ [][Next]_vars /\ WF_vars(Program) /\ SF_vars(Begin /\ UNCHANGED blendVars)

------------------------------------------------------------------------------
(* Properties.                                                             *)

\* The types of both halves: among them, that no time the loop computes is negative
\* and that the blend stays between its two clips.
TypesOK == LoopTypeOK /\ TypeOK

\* A frame moves the blend by no more than its length's share of a ramp (and a
\* rounding step), however often SPACE turned the ramp around and whatever scene was
\* shown in between: the figure never jumps.
BlendNeverJumps ==
  [][LET most == Full * tDelta + Ramp
     IN  /\ (sBlendTs' - sBlendTs) * Ramp <= most
         /\ (sBlendTs - sBlendTs') * Ramp <= most]_vars

\* A ramp ends: once scene 2 stays and SPACE is left alone, the blend arrives
\* at the clip that was chosen last and the caption names it.
RampCompletes ==
  <>[](phase # "away" /\ ~latched)
    => <>[](sBlendTs = sTargetTs
              /\ pMessage = Message(IF sBlendOn THEN 2 ELSE 0))
================================================================================
