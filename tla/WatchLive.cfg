\* Liveness; no symmetry.
SPECIFICATION FairSpec
CONSTANTS
  Loop = Loop
  Watchers = {w1}
  Jobs = {j1, j2}
  Nothing = Nothing
  Scripts = 1
  MaxOverlaps = 1
PROPERTIES StoppedWatcherEnds Terminates
