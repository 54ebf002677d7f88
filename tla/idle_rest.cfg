CONSTANTS
  Clients = {k1}
  Apps = {a1, a2}
  Delays = {d1}
  Requests <- EverythingButRestart
  MaxFullscreen = 1
  IdleTimeout = 3
  LockDelay = 1
  DisplayOffTimeout = 1
  Threshold = 2
  Serialised = TRUE
SPECIFICATION Spec
INVARIANTS
  TypeOK
  AgreeAtRest
  NoLockWhileLit
  DarkOnPurpose
