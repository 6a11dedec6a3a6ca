SPECIFICATION Spec
CONSTANTS
  Threads = {1, 2, 3}
  Loader = 1
  Priorities = {1}
  InitialPriority <- MCInitialPriority
  Objects = {s}
  Requests = {1, 2}
  NoObject = NoObject
  NoRequest = NoRequest
  Delays = {1}
  VBlankPeriod = 1
  VBlankHandler = FALSE
  IdleVBlankLimit = 0
  HandlersWait = FALSE
  MaxWakeups = 0
  MaxPending = 1
  MaxCount <- MCMaxCount
  Signals <- MCSignals
  IntLimit = 4
INVARIANTS CountInBounds QueuesExact
PROPERTIES SignalReleasesAll KeepsPromises
