SPECIFICATION FairSpec
CONSTANTS
  me = me
  Identities = {me}
  Bootstrapped = {TRUE, FALSE}
  MaxOnions = 3
  MaxPort = 2
  MaxStarts = 2
  MaxRefusals = 1
  MaxPending = 3
INVARIANTS
  TypeOK
  LayersAgree
  OnlineIsReachable
PROPERTIES
  RequestsAreKept
  WaitingIsMade
  StoppedGoesOffline
