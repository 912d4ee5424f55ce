\* launch_vllm_bg.sh under run_all.sh: one server, its trap set once it is
\* recorded; two interrupts, a kill, a stop by hand beside two runs.
SPECIFICATION Spec
CONSTANTS
  p1 = p1
  p2 = p2
  p3 = p3
  Pids = {p1, p2, p3}
  Order <- Vllm
  TrapFirst = FALSE
  Nested = FALSE
  MaxRuns = 2
  MaxInterrupts = 2
  MaxKills = 1
  MaxDeaths = 1
  MaxReuses = 1
  MaxUserStops = 1
SYMMETRY PidSymmetry
INVARIANTS
  ServersAreKnown
  EnvironmentIsQuiet
  StrangersAreSafe
  LeavesNothing
\* The runs are bounded: after the last one nothing is left to do.
CHECK_DEADLOCK FALSE
