\* Three invocations of plan and apply, with crashes, failures, saves and undo between.
SPECIFICATION SpecAll
CONSTANTS
  Paths <- MCPaths
  Files <- MCFiles
  FileOf <- MCOneEach
  Lossy <- MCLossy
  UserTexts <- MCUserTexts
  Torn = Torn
  Absent = Absent
  MaxRuns = 2
  Outputs <- MCOutputs
  LossyOutputs = {"findings.sarif"}
  Made <- MCMade
  Name <- MCName
  MaxCalls = 3
INVARIANTS
  Recoverable
  UntouchedUnlessAccepted
  StopsInOrder
  ExitZeroMeansApplied
  ExitZeroMeansWritten
  AppliesWhatWasPlanned
