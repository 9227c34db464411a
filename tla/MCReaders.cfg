\* A node with one client and one viewer; safety only, so that the log may hold values.
SPECIFICATION ViewSpec
CONSTANTS
  Client = {c1}
  Nobody = Nobody
  Value = {v}
  Worker = {w1, w2}
  ChanCap = 1
  MaxLogLen = 2
  Limits = {1, 2}
INVARIANTS ConfirmedArrives OwnWhileLeading MapFollowsLog ViewHolds
CHECK_DEADLOCK FALSE
