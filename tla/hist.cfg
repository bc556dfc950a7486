\* 101 samples: the least count at which p90, p99 and p99.9 all differ in rank.
CONSTANTS
  Bounds <- CodeBounds
  Latencies <- EdgeLatencies
  MaxCount = 101
SPECIFICATION HistSpec
INVARIANTS QuantilesAreRanks SummaryConsistent
