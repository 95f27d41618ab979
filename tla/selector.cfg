SPECIFICATION LiveSpec
CONSTANTS
  Sockets = {s1, s2}
  Listeners = {s1}
  Secure = {s2}
  Olps = {"recv"}
  Timeouts <- EndlessOrTimed
  MaxWakeups = 1
  MaxTicks = 2
INVARIANTS
  TypeOK
  CheckListSound
PROPERTIES
  TimeoutIsDue
  TimedWaitEnds
  ListedIsExamined
  WakeupEndsWait
CHECK_DEADLOCK FALSE
