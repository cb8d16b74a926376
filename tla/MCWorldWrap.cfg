\* One slot whose generation counts modulo 2: the second Destroy wraps it.
SPECIFICATION Spec
CONSTANTS
  C = {c1}
  Value = {v1}
  Garbage = Garbage
  INVALID = INVALID
  InitCap = 1
  MaxSlots = 1
  GenMod = 2
  MaxGen = 2
PROPERTIES
  DestroyedStaysDead
