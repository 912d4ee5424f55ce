SPECIFICATION FairSpec
CONSTANTS
  Downloads = {prefetch, foreground}
  E5Parts = 1
  OldStagings <- AnyStaging
  OldLinks <- AnyLink
  MaxCrashes = 1
  MaxFailures = 1
  MaxLosses = 1
INVARIANTS RecordsAreTrue ChecksAreSound
PROPERTIES ReusableStays InstalledTreeIsAdopted EventuallyReady
