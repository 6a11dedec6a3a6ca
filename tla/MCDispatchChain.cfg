SPECIFICATION Spec
CONSTANTS
  Interval = 4
  DepthLimit = 3
  MaxSwitches = 3
INVARIANTS NoStaleResume NoBacklog
PROPERTIES BoundariesKeepComing
