SPECIFICATION Spec
CONSTANTS
  a = a
  b = b
  Replicas = {a, b}
  Pages = {1}
  MaxTries = 2
  MaxFaults = 1
  None = None
  Gone = Gone
INVARIANT NothingDropped StillOnDisk
PROPERTY LocksFreed
CHECK_DEADLOCK FALSE
