SPECIFICATION Spec
CONSTANTS
  ann = ann
  bob = bob
  eve = eve
  home = home
  work = work
  Keys <- MCKeys
  Identities <- MCIdentities
  Owner <- MCOwner
  CacheSize = 2
  MaxMinute = 2
  MaxMessages = 0
  MaxFiles = 0
SYMMETRY MCSymmetry
INVARIANTS
  WritesToChosen
CHECK_DEADLOCK FALSE
