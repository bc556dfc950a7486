\* Slack is one and a half periods, and the run long enough for a stall that
\* exceeds it, the burst after it and the return to the schedule.
CONSTANTS
  NSyms = 2
  Per = 2
  Slack = 3
  Counts <- SomeCounts
  Deadlines <- SomeDeadlines
  MaxTime = 10
SPECIFICATION Spec
INVARIANTS NeverAhead BurstBounded CountIsExact
PROPERTIES ExchangeExits
\* The exchange exits.
CHECK_DEADLOCK FALSE
