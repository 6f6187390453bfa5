SPECIFICATION Spec
CONSTANTS
  w1 = w1
  w2 = w2
  Writers = {w1, w2}
  RingSize = 2
  Envs <- PciEnvs
CHECK_DEADLOCK FALSE
INVARIANTS PassMeansDone
