\* Liveness; no symmetry, and job objects are reused without end.
SPECIFICATION FairSpec
CONSTANTS
  Jobs = {j1, j2}
  NoJob = NoJob
  Kinds = {"read", "write", "stats", "timeout", "interval"}
  Scripts = 2
  Second = 2
  Durations = {0, 3}
  MaxClock = 4
PROPERTIES PostedCallbackRuns MessageRuns DueTimerRuns Terminates
