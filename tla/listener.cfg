SPECIFICATION Spec
CONSTANTS
  MaxClients = 3
  MaxAccepts = 3
  CtlMasks <- AllMasks
  ClientsReset = TRUE
  SyncReset = TRUE
  PostMayFail = TRUE
  AppRules = {}
INVARIANTS
  TypeOK
  AcceptedInOrder
  NoSocketLeaked
PROPERTIES
  QueueImplemented
CHECK_DEADLOCK FALSE
