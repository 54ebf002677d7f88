CONSTANTS
  Clients = {k1}
  Apps = {a1}
  Delays = {d1}
  Requests <- OrdinaryUse
  MaxFullscreen = 1
  IdleTimeout = 3
  LockDelay = 1
  DisplayOffTimeout = 1
  Threshold = 2
  Serialised = TRUE
SPECIFICATION FairSpec
PROPERTIES
  AutoLock
  InhibitionSpec
