SPECIFICATION DemoLive
CONSTANTS
  SEND_BUF_LEN = 2
  RECV_BUF_LEN = 2
  CtlMasks <- NoMasks
  Hows = {}
  MaxOut = 4
  MaxIn = 3
  PeerEnds = {"fin", "reset"}
  PostMayFail = FALSE
  FiniteWait = FALSE
  AppRules = {}
  Request <- TwoStrings
  ReadLen = 1
PROPERTIES
  DownloadEnds
  ResponseRead
CHECK_DEADLOCK FALSE
