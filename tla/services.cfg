CONSTANTS
  Shipped = {s}
  Generated = {g}
  Foreign = {x}
  Runner = {r1, r2}
  Changes = 2
  Refusals = 1
  MaxRestarts = 2
  Kills = 3
  Screen = {s1, s2}
  Levels = 2
  Multiplier = {1, 3}
  Buses = {{}, {s1}}
  Upsets = 2
  Display = {s1, s2}
  Glare = {1, 2}
  Flusher = {f1, f2}
  Room = 1
  Scenes = 2
  Losses = 1
  Service = {"gamemode", "hyprsunset", "easyeffects", "session", "network", "weather", "updates", "resources", "darkmode"}
  Sources = 2
  Toggles = 1
  Errors = 1
  Mishaps = 2
  m1 = m1
  m2 = m2
  m3 = m3
  Monitor <- MCMonitor
  Scale <- ScaleOf
  Place <- PlaceOf
  Reloads = 2
  Upheavals = 1
  Keyboards = {b1, b2}
  Timers = {i1, i2}
  Timeout = 2
  HasTouch = TRUE
  HasSwitch = TRUE
  QueriesFail = TRUE
SPECIFICATION SmSpec
INVARIANTS
  GivesUpForCause
  CompleteIsWhole
  WorkspacesSplit
  KeyboardTimerLives
  FollowsUnlessDisturbed
PROPERTIES
  ChangesUndone
  QsComesBack
  BrightnessSettles
  MultiplierFollows
  ViewCatchesUp
  SetupConverges
  KeyboardGoesIdle
CHECK_DEADLOCK FALSE
