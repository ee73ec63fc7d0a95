CONSTANTS
  Clients = {c1, c2}
  Protocols = {"udp", "udpr"}
  Lengths = {0, 3, 4}
  BUFFER_SIZE = 2
  MAX_RETRANSMITS = 2
  Networks = {"wild", "ordered", "stream"}
  MaxLost = 2
  MaxSessions = 2
SPECIFICATION FairSpec
INVARIANTS
  PpcbInv
  SuccessMeansSaved
  FailureHasCause
PROPERTIES
  Termination
CHECK_DEADLOCK FALSE
