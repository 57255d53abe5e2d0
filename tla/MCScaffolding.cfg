SPECIFICATION Spec
CONSTANTS
  Documents <- MCDocuments
  Base <- MCBase
  Numbered <- MCNumbered
  Templates <- MCTemplates
  MaxRuns = 2
  MaxEdits = 1
INVARIANTS TypeOK SuccessIsComplete DryRunForetells
PROPERTY ExistingFilesKeptIfDistinct
CHECK_DEADLOCK FALSE
