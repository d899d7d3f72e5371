\* All contents of up to three bytes, whose size the integer holds; four bytes,
\* of which it makes a negative size; ten, of which it keeps two.
SPECIFICATION FairSpec
CONSTANTS
  Bytes = {0, 1}
  Missing = Missing
  MaxSize = 3
  MoreSizes = {4, 10}
  IntRange = 8
  Contents <- AllContents
INVARIANTS AtMostTwoReports
PROPERTIES EventuallyCurrent
