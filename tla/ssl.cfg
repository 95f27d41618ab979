SPECIFICATION LiveSpec
CONSTANTS
  Roles = {"client", "server"}
  Flights <- BothRoles
  After <- DataThenEnd
  REC = 2
  BUF_LEN = 3
  MaxOut = 1
  CtlMasks <- AskAll
  Hows = {"send"}
  PeerEnds = {"fin", "reset"}
  MayClose = TRUE
  AppRules = {"polite"}
INVARIANTS
  TypeOK
  DeletedIsIdle
  HandshakeNeverStalls
  NoFragmentLost
PROPERTIES
  HandshakeCompletes
  DataDelivered
CHECK_DEADLOCK FALSE
