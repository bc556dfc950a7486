CONSTANTS
  MaxSeq = 2
  Leftovers <- MissingOnly
SPECIFICATION RacingSpec
INVARIANTS InitialisedByOne
