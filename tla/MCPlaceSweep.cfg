\* Two entities, each with or without a transform and a rotation.
SPECIFICATION PlaceSpec
CONSTANTS
  C = {T, R}
  T = T
  R = R
  Placement = {home, away}
  Origin = home
  Turns = 2
  Value <- MCValue
  Garbage = Garbage
  INVALID = INVALID
  InitCap = 1
  MaxSlots = 2
  GenMod = 3
  MaxGen = 2
INVARIANTS OwnersAlive AddNeverAsserts EveryPlaceIsOwn
