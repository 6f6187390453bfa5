SPECIFICATION FairSpec
CONSTANTS
  w1 = w1
  w2 = w2
  Writers = {w1, w2}
  RingSize = 2
  Envs <- MCEnvs
CHECK_DEADLOCK FALSE
INVARIANTS TypeOK CleanUnwind HandlerSafe CalmKept
PROPERTIES AllReturn
