SPECIFICATION LiveSpec
CONSTANTS
  SEND_BUF_LEN = 2
  RECV_BUF_LEN = 2
  CtlMasks <- LiveMasks
  Hows = {"send"}
  MaxOut = 3
  MaxIn = 1
  PeerEnds = {"fin", "reset"}
  PostMayFail = FALSE
  FiniteWait = TRUE
  AppRules = {"connect", "header"}
PROPERTIES
  FlushedEventually
  RoomReported
  DrainReported
  CloseCompletes
CHECK_DEADLOCK FALSE
