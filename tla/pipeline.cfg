\* Rings and channels of one slot: all fill, ticks and orders drop.
CONSTANTS
  RingCap = 1
  SockCap = 2
  SymbolList <- TwoSymbols
  WorkerOf <- AWorkerEach
  ChanCap = 1
  MaxTicks = 4
SPECIFICATION Spec
INVARIANTS NothingStale ReportsReconcile RowsAreOfThisBench
\* The script ends.
CHECK_DEADLOCK FALSE
