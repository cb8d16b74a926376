SPECIFICATION Spec
CONSTANTS
  NTSC_FRAME = 5
  Overhead_Time = 2
  PeekTimes = {0, 1}
  MessageTimes = {1}
  LoadTimes = {9}
  WorkTimes = {0, 3, 6}
  SpinTimes = {1}
  MaxPeek = 1
  MaxSpin = 1
  MaxDelta = 10
  Ramp <- NineTicks
  Full <- SixPoints
INVARIANTS TypesOK CaptionNamesPose NoBlankLost
PROPERTIES FramesApart BlendNeverJumps RampCompletes
