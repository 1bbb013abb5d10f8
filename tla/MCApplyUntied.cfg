\* No two edits of a file begin at one offset.
SPECIFICATION Spec
CONSTANTS
  Files <- MCFiles
  Text <- MCText
  Bytes <- MCBytes
  Rules <- MCRules
  EditSets <- MCUntied
CHECK_DEADLOCK FALSE
INVARIANTS
  LaterRangesUnshifted
  ThrowsExactly
  ResultIsSubstitution
