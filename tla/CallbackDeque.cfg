\* No symmetry; jobs and blocks are reused without end.
SPECIFICATION FairSpec
CONSTANTS
  Jobs = {j1, j2, j3}
  NoJob = NoJob
  Nodes = {n1, n2, n3, n4}
  NodeSize = 2
  MapSize = 5
INVARIANTS OverlapNeedsBacklog
PROPERTIES ImplementsJobQueue PushedJobRuns
