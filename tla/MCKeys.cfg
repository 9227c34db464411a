\* One request has up to three handlers on two servers; leadership changes twice, a
\* server stops once and dies once while it starts.
SPECIFICATION FairSpec
CONSTANTS
  Node = {n1, n2}
  NoNode = NoNode
  Known = {n1, n2}
  MaxRequests = 1
  MaxHops = 3
  MaxChanges = 2
  MaxStops = 1
  MaxDeaths = 1
INVARIANTS AtMostOnce AnswersAreTrue BadOnlyAfterRefusal
PROPERTIES HandlersEnd StopEnds
CHECK_DEADLOCK FALSE
