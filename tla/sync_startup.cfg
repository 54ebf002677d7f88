CONSTANTS
  File <- MCFile
  Rel <- MCRel
  Strategy <- MCStrategy
  Releases <- MCReleases
  Edits <- MCEdits
  UserValues <- MCUserValues
  Plans <- MCPlans
  Missing = Missing
  Empty = Empty
  Budget <- MCBudget
  MCFile = {"fuzzel/fuzzel.ini", "bash/bashrc", "~/.bashrc", "bash/bash_profile", "Kvantum/theme", "hypr/monitors.lua"}
  Releasing = 1
  Editing = 0
  Faulting = 0
SPECIFICATION Spec
INVARIANTS
  StartUpCatchesUp
