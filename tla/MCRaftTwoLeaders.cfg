SPECIFICATION Spec
CONSTANTS
  Node = {n1, n2, n3}
  NoNode = NoNode
  Value = {}
  EnablePreVote = TRUE
  MaxTerm = 1
  MaxLogLen = 1
  Slot = {s1}
  CallSlot = {c1}
  Campaigners = {n1, n2}
INVARIANT ElectionSafety
CHECK_DEADLOCK FALSE
