CONSTANTS
  Callers = {c1, c2}
  Commanders = {k1}
  Tickers = {g1, g2}
  Commands <- EveryCommand
  MaxAttempts = 2
  LockoutTicks = 2
  MaxActivations = 1
  Fingerprint = TRUE
SPECIFICATION MCSpec
INVARIANTS
  TypeOK
  OneAuthAtATime
  LockoutHasTicker
  AgreeUnlessDisturbed
