SPECIFICATION FairSpec
CONSTANTS
  Addrs <- MCAddrs
  Payloads = {"old"}
  Lengths <- MCLengths
  Vectors = {1}
  SockCap = 5
  GuestReads <- OneRead
  GuestWrites <- MCGuestWrites
  MsixEnabled = TRUE
  EarlyGuest = TRUE
  MaxQueued = 2
  MayUnplug = FALSE
  PeerRequests <- OneRequest
  Answers <- MCAnswers
  Stores <- MCStores
  MayClose = TRUE
CHECK_DEADLOCK FALSE
PROPERTIES ReadReturns
