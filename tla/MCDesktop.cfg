\* The player's files, the program the emulator gets and the mark of a crash,
\* on either platform
SPECIFICATION LauncherSpec
CONSTANTS
  Game = {g1}
  None = None
  Cut = Cut
  Policy1 = Policy1
  MaxWrites = 2
  MaxPackage = 2
  Troubles = 2
CONSTRAINTS OneIdentity ProgramOrFiles
INVARIANTS SaveKept CrashIsNoticed
PROPERTIES PackageRules UpdatesPersist
CHECK_DEADLOCK FALSE
