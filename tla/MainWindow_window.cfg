SPECIFICATION Spec
CONSTANTS
  ann = ann
  bob = bob
  eve = eve
  home = home
  work = work
  Keys <- MCKeys
  Identities <- MCIdentities
  Owner <- MCOwner
  CacheSize = 2
  MaxMinute = 2
  MaxMessages = 2
  MaxFiles = 1
SYMMETRY MCSymmetry
INVARIANTS
  TypeOK
  RowsAreTheConversations
  OneObjectPerRow
  LinesAreStored
  SelectionAgrees
CHECK_DEADLOCK FALSE
