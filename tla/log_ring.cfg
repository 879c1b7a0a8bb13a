SPECIFICATION FairSpec
CONSTANTS
  Size = 7
  MaxLen = 8
INVARIANTS
  NothingLost
  NothingStranded
PROPERTIES
  WriteReturns
