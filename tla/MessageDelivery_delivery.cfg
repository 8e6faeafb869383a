SPECIFICATION FairSpec
CONSTANTS
  MaxMessage = 3
  Unacceptable <- MCUnacceptable
INVARIANTS
  TypeOK
  ReceivedMeansStored
  StoredAtMostOnce
  StoredInOrder
  TrackedIsQueuedOrSent
PROPERTIES
  PromiseSpec
  StableQueueDelivers
