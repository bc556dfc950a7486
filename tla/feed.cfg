CONSTANTS
  b1 = b1
  b2 = b2
  Buffers <- TwoBuffers
  RingDepth = 1
  TickRingCap = 1
  Short <- SecondIsShort
  MaxDatagrams = 3
  MaxErrors = 1
  MaxOrders = 1
  MaxTimers = 2
SPECIFICATION FairSpec
INVARIANTS PublishedInOrder DatagramsAccounted EveryBufferArmed
PROPERTIES ImplementsRelay FeedhandlerExits
\* The feedhandler exits.
CHECK_DEADLOCK FALSE
