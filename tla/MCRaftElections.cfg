SPECIFICATION RestartLiveSpec
CONSTANTS
  Crashers = {n2}
  MaxRestarts = 1
  MaxCrashTerm = 1
  Node = {n1, n2}
  NoNode = NoNode
  Value = {}
  EnablePreVote = TRUE
  MaxTerm = 2
  MaxLogLen = 2
  Slot = {s1, s2}
  Second = s2
  CallSlot = {c1}
  Campaigners = {n1, n2}
CONSTRAINTS FewGoroutines CrashInEarlyTerms
INVARIANTS TypeOK NoStall
PROPERTIES VoteRegisterSpec CampaignEnds PrefixCatchesUp
CHECK_DEADLOCK FALSE
