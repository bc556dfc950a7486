CONSTANTS
  Hosts <- ThreeHosts
  MinBits = 2
  HotPct = 75
  Workers = 1
  NoiseThreads = 1
  Timeout = 1
  MaxSignals = 1
SPECIFICATION Spec
INVARIANTS HostRestored MeasuredAsPrepared NoiseConfined HotThreadsApart
PROPERTIES BenchEnds
\* The script ends.
CHECK_DEADLOCK FALSE
