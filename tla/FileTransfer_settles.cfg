SPECIFICATION FairSpec
CONSTANTS
  f1 = f1
  f2 = f2
  Files = {f1, f2}
  Chunks = 2
  MaxFaults = 0
  MaxRefusals = 1
INVARIANT AgreeWhenQuiet
PROPERTY TransfersEnd
