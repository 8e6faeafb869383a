SPECIFICATION Spec
CONSTANTS
  f1 = f1
  f2 = f2
  Files = {f1}
  Chunks = 2
  MaxFaults = 2
  MaxRefusals = 2
INVARIANTS
  TypeOK
  LoadableIsQueued
  TransferringIsActive
  DoneIsWhole
PROPERTY CancelledStays
