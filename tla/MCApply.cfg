SPECIFICATION FairSpec
CONSTANTS
  Client = {c1}
  Nobody = Nobody
  Value = {}
  Worker = {w1, w2}
  ChanCap = 1
  MaxLogLen = 3
INVARIANTS OnlyCommitted NoGaps
PROPERTIES EventuallyApplied RegisteredAnswered
CHECK_DEADLOCK FALSE
