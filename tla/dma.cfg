SPECIFICATION Spec
CONSTANTS
  fa = fa
  fb = fb
  Addrs <- MCAddrs
  Payloads <- MCPayloads
  Lengths <- MCLengths
  Vectors = {0, 1}
  SockCap = 8
  GuestReads <- StatusRead
  GuestWrites <- DmaWrites
  MsixEnabled = TRUE
  EarlyGuest = FALSE
  MaxQueued = 1
  MayUnplug = FALSE
  RxRing = 1
  Packets <- OneFrame
  Garbage <- MCGarbage
  DontInitialize = {"process_tx"}
  TxRing = 1
  RxBufLen = 2048
  MaxPackets = 0
  MaxTx = 0
  Timely = TRUE
  Patient = TRUE
  Rewrites = TRUE
  RegVals <- MCRegVals
CHECK_DEADLOCK FALSE
INVARIANTS DoneMeansMoved
