CONSTANTS
  Capacity = 2
  U64 = 5
  Words = {lo, hi}
  Msgs = {m1, m2}
  NoMsg = NoMsg
SPECIFICATION KillSpec
PROPERTIES RefusedOnlyWhenFull
