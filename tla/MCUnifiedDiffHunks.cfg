\* Two changes with three to six equal lines between them.
SPECIFICATION PlanSpec
CONSTANTS
  Rewrites <- MCApart
  FrontLine <- MCB
  NoText = NoText
CHECK_DEADLOCK FALSE
INVARIANTS
  HunksInSequence
