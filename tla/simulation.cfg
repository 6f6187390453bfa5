SPECIFICATION Spec
CONSTANTS
  MaxTries = 2
  MaxLen = 2
  Envs <- MCEnvs
CHECK_DEADLOCK FALSE
INVARIANTS FramesIntact CallbackSafe
PROPERTIES StopsAlone Stops
