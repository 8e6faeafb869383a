SPECIFICATION Spec
CONSTANTS
  alice = alice
  bob = bob
  Peers <- MCPeers
  MaxUpsets = 2
  MaxTimers = 1
SYMMETRY MCSymmetry
INVARIANTS
  AcceptedByBoth
  OnlineIsVerified
  AgreeWhenQuiet
CHECK_DEADLOCK FALSE
