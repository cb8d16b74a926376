\* Up to four nodes under two names, every reserve and growth up to two.
SPECIFICATION Spec
CONSTANTS
  List = {active, reserve}
  active = active
  reserve = reserve
  null = null
  Name = {k1, k2}
  Washed = Washed
  MaxNodes = 4
  MaxReserve = 2
  MaxGrow = 2
INVARIANTS
  TypeOK
  ListsLinked
  CountersExact
  SpareMeansWashed
PROPERTIES
  ImplementsPool
