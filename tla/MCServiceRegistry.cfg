SPECIFICATION Spec
CONSTANTS
  Server = {s1}
  Interval = 3
  Window = 10
  MaxDelay = 1
  MaxLost = 2
  None = None
INVARIANTS
  LiveServersListed
  DeadServersDropped
