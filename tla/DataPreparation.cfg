SPECIFICATION Spec
CONSTANTS
  Datasets <- MCDatasets
  Paths <- MCPaths
  Source <- MCSource
  Corpus <- MCCorpus
  Requests <- MCRequests
  MixedSeed = 1
  Modes = {"backend-id"}
  Inputs <- MCInputs
  MaxEdits = 1
  MaxCrashes = 1
INVARIANTS PreparationIsAccepted CoverageIsExact AcceptedInputsAreClean
PROPERTIES VerdictChangesInRenames PreparationEnds
