SPECIFICATION Spec
CONSTANTS
  fa = fa
  fb = fb
  Addrs <- MCAddrs
  Payloads <- MCPayloads
  Lengths <- MCLengths
  Vectors = {0, 1}
  SockCap = 4
  GuestReads <- NoReads
  GuestWrites <- RxSetup
  MsixEnabled = TRUE
  EarlyGuest = FALSE
  MaxQueued = 1
  MayUnplug = FALSE
  RxRing = 2
  Packets <- AllSizes
  Garbage <- MCGarbage
  DontInitialize = {"poll_irq", "process_dma", "process_tx"}
  TxRing = 1
  RxBufLen = 2048
  MaxPackets = 3
  MaxTx = 0
  Timely = FALSE
  Patient = FALSE
  Rewrites = FALSE
  RegVals <- MCRegVals
CHECK_DEADLOCK FALSE
INVARIANTS TypeOK RxInOrder IrqAfterDone
PROPERTIES OwnedBuffersOnly
