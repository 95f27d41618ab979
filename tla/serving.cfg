SPECIFICATION LiveSpec
CONSTANTS
  MaxClients = 3
  MaxAccepts = 3
  CtlMasks <- AcceptMasks
  ClientsReset = TRUE
  SyncReset = FALSE
  PostMayFail = FALSE
  AppRules = {"arm"}
PROPERTIES
  NotBrokenByCtl
  EveryClientServed
CHECK_DEADLOCK FALSE
