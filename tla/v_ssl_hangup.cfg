SPECIFICATION LiveSpec
CONSTANTS
  Roles = {"server"}
  Flights <- ServerRole
  After <- OneData
  REC = 1
  BUF_LEN = 2
  MaxOut = 0
  CtlMasks <- AskAll
  Hows = {}
  PeerEnds = {"fin"}
  MayClose = FALSE
  AppRules = {"polite"}
PROPERTIES
  HangupReported
CHECK_DEADLOCK FALSE
