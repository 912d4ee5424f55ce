SPECIFICATION FairSpec
CONSTANTS
  NumParts = 3
  End <- MCEnd
  Leftovers <- MCLeftovers
  OldStates <- MCOldStates
  OldIndexes <- AnyOldIndex
  KeepChoices = {TRUE, FALSE}
  MaxCrashes = 2
  MaxFailures = 2
  MaxLosses = 1
INVARIANTS
  PartsAreAccounted
  TrustedBytesAreVerified
PROPERTIES
  KeepsItsPromise
  EventuallyReady
