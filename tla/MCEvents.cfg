\* Three nodes, one election each; servers break down or come back twice.
SPECIFICATION FairSpec
CONSTANTS
  Node = {1, 2, 3}
  Observer = 1
  MaxTerm = 1
  MaxFaults = 2
INVARIANTS EventsTellAll SnapshotTrue
PROPERTIES FramesGoOn
CHECK_DEADLOCK FALSE
