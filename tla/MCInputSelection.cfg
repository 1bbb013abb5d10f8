\* Every disk and call of MCInputSelection.
SPECIFICATION SelectSpec
CONSTANTS
  Dirs <- MCDirs
  Worlds <- MCWorlds
  Cwd <- Root
  Fallback <- MCFallback
CHECK_DEADLOCK FALSE
INVARIANTS
  AnalysesWanted
  ParsedAsCompiled
