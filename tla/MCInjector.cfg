\* Two nodes; the scenario meddles with one of them.
SPECIFICATION FairSpec
CONSTANTS
  Node = {n1, n2}
  Any = Any
  Targets = {n2}
  MaxInjections = 3
  MaxInstances = 2
  MaxCalls = 1
  MaxHeals = 1
INVARIANTS RulesAccounted InstancesAgree
PROPERTIES CutsHold TimedHealEnds
CHECK_DEADLOCK FALSE
