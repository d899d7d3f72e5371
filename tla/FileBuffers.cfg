CONSTANTS
  Ids = {d1, d2}
  Stores = {s1, s2}
  Ops = {o1, o2}
  NoOp = NoOp
  Available = {1, 4}
  Offsets = {0, 1}
  Asked = {4}
  Lengths = {1, 2}
  PoolSize = 4
  Alignment = 2
  WordRange = 16
SPECIFICATION FileSpec
SYMMETRY Symmetry
INVARIANTS ReadsSpareStrings 
PROPERTY WritesIntact
