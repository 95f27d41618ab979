SPECIFICATION Spec
CONSTANTS
  SEND_BUF_LEN = 2
  RECV_BUF_LEN = 2
  CtlMasks <- LevelMasks
  Hows = {"send"}
  MaxOut = 2
  MaxIn = 1
  PeerEnds = {}
  PostMayFail = FALSE
  FiniteWait = FALSE
  AppRules = {"connect", "header"}
PROPERTIES
  SafeToClose
CHECK_DEADLOCK FALSE
