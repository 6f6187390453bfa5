SPECIFICATION FairSpec
CONSTANTS
  fa = fa
  fb = fb
  Addrs <- MCAddrs
  Payloads <- MCPayloads
  Lengths <- MCLengths
  Vectors = {0, 1}
  SockCap = 8
  GuestReads <- PlainReads
  GuestWrites <- SharedWrites
  MsixEnabled = FALSE
  EarlyGuest = FALSE
  MaxQueued = 1
  MayUnplug = FALSE
  RxRing = 1
  Packets <- OneFrame
  Garbage <- MCGarbage
  DontInitialize = {"poll_irq", "process_dma", "process_tx"}
  TxRing = 1
  RxBufLen = 2048
  MaxPackets = 1
  MaxTx = 0
  Timely = FALSE
  Patient = FALSE
  Rewrites = FALSE
  RegVals <- MCRegVals
CHECK_DEADLOCK FALSE
PROPERTIES RegFileSpec ReadReturns
