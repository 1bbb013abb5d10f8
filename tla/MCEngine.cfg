\* Up to three facts from either adapter, under four sets of options.
SPECIFICATION Spec
CONSTANTS
  f1 = f1
  f2 = f2
  x = x
  y = y
  r1 = r1
  r2 = r2
  edit_rule = edit_rule
  review_rule = review_rule
  accept_rule = accept_rule
  cpp = cpp
  legacy = legacy
  NoFile = NoFile
  NoTarget = NoTarget
  NoRange = NoRange
  NoAttr = NoAttr
  Garbled = Garbled
  Files <- MCFiles
  Loaded <- MCLoaded
  SizeOf <- MCSizeOf
  Replacements <- MCReplacements
  Rules <- MCRules
  Capsules <- MCCapsules
  Options <- MCOptions
  Offers <- MCOffers
  AdapterFacts <- MCAdapterFacts
  Transpilers = 2
  MaxFacts = 3
CHECK_DEADLOCK FALSE
INVARIANTS
  EditsExplained
  NoEditAgainstGuard
  EverySiteClassified
  PlannedIsPlanned
  FailureVisible
PROPERTIES
  ImplementsEditSet
