\* One component type, three slots, each recycled once.
SPECIFICATION Spec
CONSTANTS
  C = {c1}
  Value = {v1}
  Garbage = Garbage
  INVALID = INVALID
  InitCap = 1
  MaxSlots = 3
  GenMod = 3
  MaxGen = 2
INVARIANTS
  TypeOK
  SparseDenseInverse
  FreeListDistinct
PROPERTIES
  DestroyedStaysDead
  ImplementsStore
