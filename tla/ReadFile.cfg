CONSTANTS
  MaxSize = 9
  MaxChanges = 2
  IntRange = 8
SPECIFICATION FairSpec
INVARIANTS UnchangedIsExact OnlyFileBytes
PROPERTIES CalledUnlessUnsized
