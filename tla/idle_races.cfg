CONSTANTS
  Clients = {k1}
  Apps = {}
  Delays = {d1, d2}
  Requests <- RacingRequests
  MaxFullscreen = 1
  IdleTimeout = 2
  LockDelay = 1
  DisplayOffTimeout = 1
  Threshold = 1
  Serialised = FALSE
SPECIFICATION Spec
CONSTRAINTS
  AtMostTwo
SYMMETRY DelaySymmetry
INVARIANTS
  NoOrphanDelay
  InhibitionFollows
