\* launch_retrievers.sh under run_all.sh under run_full_pipeline.sh: two servers
\* one after the other, the trap set before the first, and an interrupt in two
\* runs.
SPECIFICATION FairSpec
CONSTANTS
  p1 = p1
  p2 = p2
  p3 = p3
  Pids = {p1, p2, p3}
  Order <- Retrievers
  TrapFirst = TRUE
  Nested = TRUE
  MaxRuns = 2
  MaxInterrupts = 1
  MaxKills = 0
  MaxDeaths = 0
  MaxReuses = 0
  MaxUserStops = 0
PROPERTIES
  RunsEnd
\* The runs are bounded: after the last one nothing is left to do.
CHECK_DEADLOCK FALSE
