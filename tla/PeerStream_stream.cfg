SPECIFICATION FairSpec
CONSTANTS
  MaxSent = 2
  LengthValues = 3
  Lengths <- MCLengths
PROPERTIES
  KeepsPromise
  WritingEnds
CHECK_DEADLOCK FALSE
