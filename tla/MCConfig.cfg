\* Durations have 7 bits and a millisecond is 3 units: 22 ms overflow to a negative
\* duration, 43 ms to 1 unit.
SPECIFICATION FairSpec
CONSTANTS
  Node = {n1, n2}
  Coordinator = n1
  Stoppable = {n2}
  MaxOrders = 2
  Update <- MCUpdate
  Initial <- MCInitial
  Asked <- MCAsked
  Milli = 3
  Word = 128
INVARIANTS TimingsPositive TickerFollows ConfirmedTimings
PROPERTIES OrderEnds
CHECK_DEADLOCK FALSE
