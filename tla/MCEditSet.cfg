\* Every order of ten proposals, with and without the sources at hand.
SPECIFICATION Spec
CONSTANTS
  f1 = f1
  f2 = f2
  x = x
  y = y
  r1 = r1
  r2 = r2
  NoFile = NoFile
  Files <- MCFiles
  Loaded <- MCLoaded
  SizeOf <- MCSizeOf
  Replacements <- MCReplacements
  Rules <- MCRules
  Proposals <- MCProposals
  MaxConflicts = 2
INVARIANTS
  AcceptedDisjoint
  NothingDropped
  ConflictGateExact
PROPERTIES
  ImplementsLedger
