CONSTANTS
  Callers = {c1}
  Commanders = {k1}
  Tickers = {g1}
  Commands <- LockOnly
  MaxAttempts = 2
  LockoutTicks = 2
  MaxActivations = 1
  Fingerprint = FALSE
SPECIFICATION MCSpec
INVARIANTS
  EveryCallAnswered
