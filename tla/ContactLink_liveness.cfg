SPECIFICATION FairSpec
CONSTANTS
  alice = alice
  bob = bob
  Peers <- MCPeers
  CertHash <- MCCertHash
  MaxConn = 1
PROPERTIES
  ConnectingEnds
  AbandonedCloses
CHECK_DEADLOCK FALSE
