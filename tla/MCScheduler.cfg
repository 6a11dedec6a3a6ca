SPECIFICATION SchedSpec
CONSTANTS
  Threads = {1, 2}
  Loader = 1
  Priorities = {1, 2}
  InitialPriority <- MCInitialPriority
  Objects = {}
  Requests = {}
  NoObject = NoObject
  NoRequest = NoRequest
  Delays = {0, 1, 2}
  VBlankPeriod = 2
  VBlankHandler = TRUE
  IdleVBlankLimit = 1
  HandlersWait = TRUE
  MaxWakeups = 1
  MaxPending = 2
INVARIANTS SchedTypeOK RunQueueExact UrgentThreadRuns NoOverdueWait NoLostWakeup DeadlockIsReal
PROPERTIES CpuLostOnlyByRule EqualsTakeTurns TimedWaitsEnd InterruptsAreTaken
