CONSTANTS
  Ids = {d1, d2, d3}
  Stores = {s1, s2, s3}
  Lengths = {2, 3, 4}
  PoolSize = 8
  Alignment = 2
  WordRange = 16
SPECIFICATION Spec
SYMMETRY Symmetry
INVARIANTS TypeOK StringsKeepBytes ZeroedIsZero UsageExact
