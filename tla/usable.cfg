SPECIFICATION Spec
CONSTANTS
  SEND_BUF_LEN = 2
  RECV_BUF_LEN = 2
  CtlMasks <- MixedMasks
  Hows = {"send"}
  MaxOut = 2
  MaxIn = 3
  PeerEnds = {"fin", "reset"}
  PostMayFail = FALSE
  FiniteWait = TRUE
  AppRules = {"connect", "header", "drain"}
INVARIANTS
  NeverStranded
  EmptiedIsReading
  UnreadIsReported
PROPERTIES
  NegativeIsFinal
CHECK_DEADLOCK FALSE
