SPECIFICATION Spec
CONSTANTS
  Documents <- MCDocuments
  Base <- MCBase
  Numbered <- MCNumbered
  Templates <- MCTemplates
  MaxRuns = 2
  MaxEdits = 1
PROPERTY ExistingFilesKept
CHECK_DEADLOCK FALSE
