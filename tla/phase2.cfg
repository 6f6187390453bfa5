SPECIFICATION PciSpec
CONSTANTS
  GuestWrites <- DmaGuest
  BufSize = 2
  NumSlots = 2
  PollLimit = 500
  TickRateHz = 100
CHECK_DEADLOCK FALSE
INVARIANTS PciTypeOK BusyMeansArmed DmaMastered DoneRight
PROPERTIES OwnTransfer IrqServed Ends
