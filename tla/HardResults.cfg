SPECIFICATION Spec
CONSTANTS
  None = None
  Questions <- MCQuestions
  Topks <- MCTopks
  PrimaryTopk = 3
  MinSeeds = 2
  MinConfirmatory = 2
  Threshold = 5
  Unit = 5
  Measured <- MCMeasured
  Requests <- MCRequests
  WatchSeeds <- MCWatchSeeds
  Workers = 2
  MaxRuns = 2
  MaxEdits = 1
  MaxFaults = 1
CHECK_DEADLOCK FALSE
INVARIANTS MarkersAreTrue NoEpisodeIsRepeated
PROPERTIES ReportIsTrue DurableRowsAreKept AcceptedIsMeasured
