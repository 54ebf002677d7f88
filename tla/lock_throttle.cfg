CONSTANTS
  Callers = {c1, c2}
  Commanders = {k1}
  Tickers = {g1, g2}
  Commands <- KeyboardOnly
  MaxAttempts = 3
  LockoutTicks = 3
  MaxActivations = 1
  Fingerprint = FALSE
SPECIFICATION MCFairSpec
INVARIANTS
  LockoutExact
PROPERTIES
  ThrottleSpec
  LockoutEnds
