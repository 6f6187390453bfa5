SPECIFICATION FairSpec
CONSTANTS
  Addrs <- MCAddrs
  Payloads = {"old"}
  Lengths <- MCLengths
  Vectors = {1}
  SockCap = 5
  GuestReads <- MCGuestReads
  GuestWrites <- MCGuestWrites
  MsixEnabled = TRUE
  EarlyGuest = TRUE
  MaxQueued = 2
  MayUnplug = TRUE
  PeerRequests <- MCPeerRequests
  Answers <- MCAnswers
  Stores <- MCStores
  MayClose = TRUE
CHECK_DEADLOCK FALSE
INVARIANTS TypeOK OwnAnswer OneReadInFlight
PROPERTIES ConnectedReadReturns ExitWakesReader
