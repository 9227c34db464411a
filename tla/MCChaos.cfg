SPECIFICATION ApiFairSpec
CONSTANTS
  Node = {n1, n2, n3}
  Any = Any
  Coordinators = {n1}
  Target = n2
  Applied <- AppliedRules
  MaxOrders = 2
INVARIANTS CleanHeal OrderedCutsHold
PROPERTY OrderEnds
CHECK_DEADLOCK FALSE
