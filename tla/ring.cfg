\* Capacity 2: full, empty and wrap-around of the slot index all occur.
\* No symmetry: EventuallyDelivered is temporal.
CONSTANTS
  Capacity = 2
  U64 = 7
  Words = {lo, hi}
  Msgs = {m1, m2}
  NoMsg = NoMsg
SPECIFICATION FairSpec
INVARIANTS RingWellFormed ProducerOwnsSlot PendingIsClose
PROPERTIES RefinesFifo RefusedOnlyWhenFull NoneOnlyWhenEmpty EventuallyDelivered
