CONSTANTS
  k1 = k1
  k2 = k2
  k3 = k3
  e1 = e1
  e2 = e2
  CommandKeys = {k1, k2, k3}
  EffectIds = {e1, e2}
  EffectLimit = 1
  KeepFiles = 2
  MaxRevision = 5
SPECIFICATION FilesSpec
INVARIANTS AckedSurvivesRestart
