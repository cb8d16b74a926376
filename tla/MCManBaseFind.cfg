\* Two nodes under two names: a search for a name nobody was given.
SPECIFICATION Spec
CONSTANTS
  List = {active, reserve}
  active = active
  reserve = reserve
  null = null
  Name = {k1, k2}
  Washed = Washed
  MaxNodes = 2
  MaxReserve = 2
  MaxGrow = 1
INVARIANTS
  FindMissIsNull
