CONSTANTS
  Lockers = {k1}
  Timers = {i1, i2}
  Cap = 2
  Inputs <- KeyboardInputs
  Faults = 0
  Serialised = TRUE
SPECIFICATION FairSpec
INVARIANTS
  OskFollows
  NoOskOverLock
PROPERTIES
  FocusLeaves
