SPECIFICATION LiveSpec
CONSTANTS
  Node = {n1, n2, n3}
  NoNode = NoNode
  Value = {}
  EnablePreVote = FALSE
  MaxTerm = 3
  MaxLogLen = 2
  Slot = {s1}
  CallSlot = {c1}
  Campaigners = {n1, n2}
CONSTRAINTS OneCampaign FewReached InTurn
PROPERTY EventuallyCommitted
CHECK_DEADLOCK FALSE
