\* Texts of up to four pieces for the scanner; up to two declarations a file for libclang.
SPECIFICATION AdapterSpec
CONSTANTS
  Texts <- MCTexts
  Sources <- MCSources
  Cxx <- MCCxx
  Included <- MCIncluded
  Versions <- MCVersions
  Cursors <- MCCursors
CHECK_DEADLOCK FALSE
INVARIANTS
  FindsExactly
  NoUnitUnsaid
  RangesHold
  AdaptersAgree
PROPERTIES
  AnalysisEnds
