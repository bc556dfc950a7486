CONSTANTS
  v1 = v1
  v2 = v2
  v3 = v3
  Knobs <- ThreeKnobs
  MenuKnobs <- Thp
  Values <- ThreeValues
  Targets <- ScriptTargets
  Options <- KeepSmtNoHugepages
  None = None
  Refusals <- FirstOnly
SPECIFICATION PrepSpec
INVARIANTS RevertRestores SnapshotIsOriginal
