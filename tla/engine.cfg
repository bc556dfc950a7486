CONSTANTS
  s1 = s1
  s2 = s2
  WorkerCounts <- InlineOrTwo
  MaxWorkers = 2
  Symbols <- TwoSymbols
  Hash <- HashOf
  ChanCap = 1
  RingCap = 1
  IdSpace = 8
  Cooldown = 1
  U64 = 8
  MaxTicks = 4
  MaxTime = 2
SPECIFICATION FairSpec
INVARIANTS CooldownKept OrderIdsUnique OrdersInTickOrder OrdersAccounted DeadlineLosesNoTick
PROPERTIES ExitsUnlessClogged
\* The engine exits: ExitsUnlessClogged is about the states where it cannot.
CHECK_DEADLOCK FALSE
