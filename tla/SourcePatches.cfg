SPECIFICATION Spec
CONSTANTS
  None = None
  Refused = Refused
  OldTrees <- MCOldTrees
  MaxRuns = 4
  MaxKills = 2
CHECK_DEADLOCK FALSE
INVARIANTS TrainsAsAsked PatchesAcceptTheirOwn FingerprintIsStable
