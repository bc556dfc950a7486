\* Gaps of one and of two CPUs, duplicates, overlaps and inverted ranges.
CONSTANTS
  MaxCpu = 3
  MaxParts = 3
  Texts <- AllTexts
SPECIFICATION Spec
INVARIANTS ReportNamesTheCpus RefusedIfWrong
\* A list is done with.
CHECK_DEADLOCK FALSE
