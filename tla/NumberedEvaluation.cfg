SPECIFICATION FairSpec
CONSTANTS
  Order <- MCOrder
  Signatures = {s1, s2}
  ChunkSize = 2
  None = None
  MaxCrashes = 1
  MaxFailures = 2
INVARIANTS CheckpointIsSound CompletionIsTrue
PROPERTIES NotEvaluatedTwice ReaderIsExact KeepsFinishing
