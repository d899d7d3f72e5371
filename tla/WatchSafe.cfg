\* Two watchers and a call on an unlocked counter; one overlap is explored.
SPECIFICATION Spec
CONSTANTS
  Loop = Loop
  Watchers = {w1, w2}
  Jobs = {j1, j2}
  Nothing = Nothing
  Scripts = 1
  MaxOverlaps = 1
SYMMETRY ThreadSymmetry
INVARIANTS TypeOK JobCountExact ExitOnlyWhenIdle JobsConserved AtMostOneLateChange
