SPECIFICATION Spec
CONSTANTS
  Self = self
  Other = other
  NoNode = NoNode
  Faults = {"torn", "rewrite", "error", "stop", "cut"}
  MaxTerm = 2
  MaxLogLen = 2
  MaxRecords = 3
  MaxCrashes = 2
INVARIANTS MemoryOnDisk PromisesKeptUnlessFaulty RecoveredInOrder RecoveryNotAhead
CHECK_DEADLOCK FALSE
