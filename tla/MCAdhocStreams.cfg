SPECIFICATION Spec
CONSTANTS
  Openers = {c1}
  Accepts = {a1, a2}
  Listener = l
  Retries = 1
  Backlog = 1
  QueueLimit = 0
  MaxSessions = 5
  MaxListens = 1
  MaxFaults = 1
  MaxBlocks = 2
INVARIANTS PairsAgree InOrderFromOne
CHECK_DEADLOCK FALSE
PROPERTIES OpeningEnds CloseReachesPeer
