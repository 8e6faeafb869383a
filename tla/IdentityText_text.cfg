SPECIFICATION Spec
CONSTANTS
  Keys <- MCKeys
  Onions <- MCOnions
  Ports <- MCPorts
  Checksum <- MCChecksum
INVARIANTS
  ContactIsTheIdentity
CHECK_DEADLOCK FALSE
