CONSTANTS
  File <- MCFile
  Rel <- MCRel
  Strategy <- MCStrategy
  Releases <- MCReleases
  Edits <- MCEdits
  UserValues <- MCUserValues
  Plans <- MCPlans
  Missing = Missing
  Empty = Empty
  Budget <- MCBudget
  MCFile = {"fuzzel/fuzzel.ini", "bash/bashrc", "~/.bashrc", "bash/bash_profile", "Kvantum/theme", "hypr/monitors.lua"}
  Releasing = 2
  Editing = 2
  Faulting = 1
SPECIFICATION Spec
INVARIANTS
  UntouchedCatchesUp
PROPERTIES
  LostOnlyInConflict
  Settles
