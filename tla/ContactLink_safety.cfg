SPECIFICATION Spec
CONSTANTS
  alice = alice
  bob = bob
  Peers <- MCPeers
  CertHash <- MCCertHash
  MaxConn = 2
INVARIANTS
  TypeOK
  RegisteredWhileConnected
  StatusFollowsConnection
  AbandonedIsClosing
  ErasedIsUnused
  OnlineTogether
CHECK_DEADLOCK FALSE
