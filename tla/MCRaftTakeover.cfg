SPECIFICATION HistorySpec
CONSTANTS
  Crashers = {n1, n2}
  MaxRestarts = 1
  MaxCrashTerm = 1
  Node = {n1, n2, n3}
  NoNode = NoNode
  Value = {v}
  EnablePreVote = FALSE
  MaxTerm = 3
  MaxLogLen = 2
  Slot = {s1}
  CallSlot = {c1}
  Campaigners = {n1, n2}
SYMMETRY NodeSymmetry
CONSTRAINTS OneCampaign CrashInEarlyTerms
INVARIANTS LogShape LogMatching CommitCovered
PROPERTY CommittedPrefixKept
CHECK_DEADLOCK FALSE
