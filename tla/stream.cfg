SPECIFICATION Spec
CONSTANTS
  SEND_BUF_LEN = 2
  RECV_BUF_LEN = 2
  CtlMasks <- StreamMasks
  Hows = {"both"}
  MaxOut = 3
  MaxIn = 3
  PeerEnds = {"reset"}
  PostMayFail = TRUE
  FiniteWait = FALSE
  AppRules = {"connect"}
INVARIANTS
  TypeOK
  NoInboundLoss
  NoOutboundLoss
  DeletedIsIdle
PROPERTIES
  KernelOwnsRegion
  DrainReportIsTrue
  InboundIsPipe
  OutboundIsPipe
CHECK_DEADLOCK FALSE
