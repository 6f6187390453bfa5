SPECIFICATION Spec
CONSTANTS
  FifoSize = 4
  TickRateHz = 100
  Nibbles = 2
  Ids <- MCIds
  Typed <- MCTyped
  HeapSizes <- MCHeapSizes
  MaxBeats = 1
  MaxWaiting = 1
CHECK_DEADLOCK FALSE
INVARIANTS NoneLost
PROPERTIES EchoUnbroken NumbersSpelled TasksGoOn
