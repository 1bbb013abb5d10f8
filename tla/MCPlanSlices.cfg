\* Slices of slices of one plan at two paths, applied in any order.
SPECIFICATION Spec
CONSTANTS
  a = a
  b = b
  r1 = r1
  r2 = r2
  whole = whole
  s = s
  d = d
  Names <- MCNames
  Whole = whole
  Plans <- MCPlans
  Filters <- MCFilters
  Unfiltered = Unfiltered
  NoFile = NoFile
  NoPlan = NoPlan
  Bytes <- MCBytes
  Text <- MCText
  Directory <- MCDirectory
  Here = Here
  LargeScope = 2
CHECK_DEADLOCK FALSE
INVARIANTS
  ReferencesResolve
  CountsTrue
  SlicesSelect
  ReportsStand
  FileSlicesCompose
