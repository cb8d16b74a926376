------------------------------- MODULE FrameSync -------------------------------
(***************************************************************************)
(* Engine::Run: a message or a frame in every round, and after the frame   *)
(* the busy wait that snaps it to the next sixtieth of a second, less a    *)
(* cushion, so that Present comes just before the vertical blank it waits  *)
(* for.  Game::Update measures what the scenes take for the length of a    *)
(* frame, from one of its calls to the next.                               *)
(*                                                                         *)
(* Time is what AnimTimer::privGetSystemTime says, in ticks.  All timers   *)
(* read that one clock; a timer is the time since its Tic.                 *)
(***************************************************************************)
EXTENDS Integers

CONSTANTS
  NTSC_FRAME,      \* 500000 ticks, also the display's from blank to blank
  Overhead_Time,   \* the cushion: 15000 ticks
  PeekTimes,       \* from EngineTime.Tic to the timer of Game::Update,
  MessageTimes,    \* handling a message,
  LoadTimes,       \* a switch of scenes,
  WorkTimes,       \* the rest of a frame, up to the end of Render,
  SpinTimes,       \* a round of the busy wait that the clock notices
  MaxPeek, MaxSpin,
  MaxDelta         \* bound: intervalTimer counts up to here

ASSUME FrameAssumption ==
  /\ NTSC_FRAME \in Nat /\ Overhead_Time \in Nat /\ Overhead_Time < NTSC_FRAME
  /\ MaxDelta \in Nat /\ NTSC_FRAME <= MaxDelta

ASSUME TimesAssumption ==
  /\ MessageTimes \subseteq Nat /\ LoadTimes \subseteq Nat /\ WorkTimes \subseteq Nat
  /\ MaxPeek \in Nat /\ PeekTimes \subseteq 0 .. MaxPeek
  /\ MaxSpin \in Nat /\ SpinTimes \subseteq 1 .. MaxSpin

VARIABLES
  loop,            \* where Engine::Run is
  test,            \* the key that Game::Update tests next
  blank,           \* from a vertical blank to EngineTime.Tic
  EngineLoopTime,  \* since EngineTime.Tic
  worked,          \* what that was when Render returned
  EndTime,
  interval,        \* since intervalTimer.Tic
  tDelta           \* of Game::Update; 0 before the first

loopVars == <<loop, test, blank, EngineLoopTime, worked, EndTime, interval, tDelta>>

Counted(t) == IF t > MaxDelta THEN MaxDelta ELSE t

LoopInit ==
  /\ loop = "tic" /\ test = 1
  /\ blank \in 0 .. (NTSC_FRAME - 1)
  /\ EngineLoopTime = 0 /\ worked = 0 /\ EndTime = 0
  /\ \E d \in LoadTimes : interval = Counted(d)
  /\ tDelta = 0

\* d ticks go by.
Pass(d) ==
  /\ EngineLoopTime' = EngineLoopTime + d
  /\ interval' = Counted(interval + d)

Tic ==
  /\ loop = "tic" /\ loop' = "peek"
  /\ blank' = (blank + EngineLoopTime) % NTSC_FRAME
  /\ EngineLoopTime' = 0
  /\ UNCHANGED <<test, worked, EndTime, interval, tDelta>>

\* PeekMessage finds a message.
Dispatch ==
  /\ loop = "peek" /\ loop' = "tic"
  /\ \E d \in MessageTimes : Pass(d)
  /\ UNCHANGED <<test, blank, worked, EndTime, tDelta>>

\* PeekMessage finds none: Game::Update asks its timer and starts it again.
Begin ==
  /\ loop = "peek" /\ loop' = "update"
  /\ \E d \in PeekTimes :
       /\ EngineLoopTime' = EngineLoopTime + d
       /\ tDelta' = Counted(interval + d) /\ interval' = 0
  /\ UNCHANGED <<test, blank, worked, EndTime>>

\* One of the tests of the keys '1' to '5', which takes d.
TestKey(d) ==
  /\ loop = "update" /\ test <= 5 /\ test' = test + 1
  /\ Pass(d)
  /\ UNCHANGED <<loop, blank, worked, EndTime, tDelta>>

\* The scene is updated, and drawn.
Work ==
  /\ loop = "update" /\ test = 6 /\ loop' = "sync" /\ test' = 1
  /\ \E d \in WorkTimes : Pass(d)
  /\ UNCHANGED <<blank, worked, EndTime, tDelta>>

\* Mutant: the current frame is the target.
TargetBehind(time) == (time \div NTSC_FRAME) * NTSC_FRAME - Overhead_Time

\* Mutant: the wait ends on the frame, with no cushion.
TargetUncushioned(time) == (time \div NTSC_FRAME + 1) * NTSC_FRAME

\* The time to wait for, snapped to the next frame.
TargetTime(time) == (time \div NTSC_FRAME + 1) * NTSC_FRAME - Overhead_Time

Sync ==
  /\ loop = "sync" /\ loop' = "spin"
  /\ worked' = EngineLoopTime
  /\ EndTime' = TargetTime(EngineLoopTime)
  /\ UNCHANGED <<test, blank, EngineLoopTime, interval, tDelta>>

\* Sit and spin.
Spin ==
  /\ loop = "spin" /\ EngineLoopTime < EndTime
  /\ \E d \in SpinTimes : Pass(d)
  /\ UNCHANGED <<loop, test, blank, worked, EndTime, tDelta>>

\* Present returns at the next vertical blank; the variables of the frame are gone.
Present ==
  /\ loop = "spin" /\ EngineLoopTime >= EndTime /\ loop' = "tic"
  /\ Pass(NTSC_FRAME - ((blank + EngineLoopTime) % NTSC_FRAME))
  /\ worked' = 0 /\ EndTime' = 0
  /\ UNCHANGED <<test, blank, tDelta>>

LoopNext ==
  \/ Tic \/ Dispatch \/ Begin \/ Work \/ Sync \/ Spin \/ Present
  \/ \E d \in LoadTimes \cup {0} : TestKey(d)

LoopSpec == LoopInit /\ [][LoopNext]_loopVars

------------------------------------------------------------------------------
(* Properties.                                                             *)

LoopTypeOK ==
  /\ loop \in {"tic", "peek", "update", "sync", "spin"} /\ test \in 1 .. 6
  /\ blank \in 0 .. (NTSC_FRAME - 1)
  /\ EngineLoopTime \in Nat /\ worked \in Nat /\ EndTime \in Nat
  /\ interval \in 0 .. MaxDelta /\ tDelta \in 0 .. MaxDelta

\* The vertical blanks that have come since Render returned.
BlanksWaited == (blank + EngineLoopTime) \div NTSC_FRAME - (blank + worked) \div NTSC_FRAME

\* The busy wait costs no vertical blank if the frame began so soon after one that the
\* cushion makes up for it: Present is called before the first blank after Render
\* returned, however long the frame took and wherever the wait has ended.  And a frame
\* that began at any other time, after messages that took longer than the cushion,
\* loses one blank at most, if a round of the wait is no longer than the cushion.
NoBlankLost ==
  loop = "spin" /\ EngineLoopTime >= EndTime =>
    /\ blank + MaxSpin <= Overhead_Time => BlanksWaited = 0
    /\ MaxSpin <= Overhead_Time => BlanksWaited \in {0, 1}

\* However fast scenes are drawn, two updates are a sixtieth of a second apart, less
\* the cushion and the time it takes to ask for a message: no tDelta but the first
\* is shorter.
FramesApart ==
  [][loop = "peek" /\ loop' = "update" /\ tDelta > 0 =>
       tDelta' + Overhead_Time + MaxPeek >= NTSC_FRAME]_loopVars
================================================================================
