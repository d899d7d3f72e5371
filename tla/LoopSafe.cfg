\* Every kind of call together: worker threads race the loop thread, and time passes.
SPECIFICATION Spec
CONSTANTS
  Jobs = {j1, j2, j3}
  NoJob = NoJob
  Kinds = {"read", "write", "stats", "timeout", "interval"}
  Scripts = 2
  Second = 2
  Durations <- MixedDurations
  MaxClock = 6
SYMMETRY JobSymmetry
INVARIANTS TypeOK JobsConserved JobCountExact ExitOnlyWhenIdle DeadlineOrder TimerNotEarly
PROPERTY ImplementsAsyncJobs
