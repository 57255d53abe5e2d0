SPECIFICATION Spec
CONSTANTS
  Calls <- MCCalls
  BodyErrors <- MCBodyErrors
  RequestNamesModule = FALSE
INVARIANTS
  TypeOK
  DeniedNeverRuns
  HumanWasAsked
  EveryRunAudited
  RecordTellsOutcome
  DryRunInert
PROPERTY ImplementsGovernedCall
CHECK_DEADLOCK FALSE
