SPECIFICATION IntrSpec
CONSTANTS
  Threads = {1, 2}
  Timers = {1}
  Callbacks = {1}
  SubIntrs = {0}
  Schedules = {0, 1}
  Returns = {0, 1}
  MaxCalls = 2
  MaxLate = 1
  MaxPending = 2
  MaxNotify = 2
INVARIANTS NoSilentTimer NotificationsHeardOnce
