\* Who uses the isolate: readAsync and writeAsync against the loop thread.
SPECIFICATION FairSpec
CONSTANTS
  Jobs = {j1, j2}
  NoJob = NoJob
  Kinds = {"read", "write", "stats"}
  Scripts = 1
  Second = 2
  Durations = {}
  MaxClock = 0
INVARIANTS OneThreadPerIsolate
