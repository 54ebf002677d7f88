CONSTANTS
  Lockers = {k1}
  Timers = {i1}
  Cap = 2
  Inputs <- ModeInputs
  Faults = 2
  Serialised = TRUE
SPECIFICATION Spec
INVARIANTS
  TypeOK
  StatesAgree
  ModeSaved
