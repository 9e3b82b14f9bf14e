\* The patcher, its two files, and the processes of the game.
SPECIFICATION InjectionSpec
CONSTANTS
  NoFile = NoFile
INVARIANTS
  PatcherTypeOK
  OriginalSurvivesKills
  DllTypeOK
  ConsoleIsRestored
PROPERTIES
  PatchIsAllOrNothing
  GameIsSafe
  InstallationEnds
