\* An insertion may share its offset with another edit.
SPECIFICATION Spec
CONSTANTS
  Files <- MCFiles
  Text <- MCText
  Bytes <- MCBytes
  Rules <- MCRules
  EditSets <- MCAll
CHECK_DEADLOCK FALSE
INVARIANTS
  LaterRangesUnshifted
