\* Scripts' staggered start, every leftover, a kill at every point.
CONSTANTS
  MaxSeq = 2
  Leftovers <- LeftoverKinds
SPECIFICATION StaggeredSpec
INVARIANTS InitialisedByOne HandlesAgree OpenBusIsReady
PROPERTIES OpenReturnsUnlessAbandoned
