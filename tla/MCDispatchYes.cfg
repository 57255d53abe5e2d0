SPECIFICATION Spec
CONSTANTS
  Calls <- MCCalls
  BodyErrors <- MCBodyErrors
  RequestNamesModule = FALSE
INVARIANT YesBypassesApproval
CHECK_DEADLOCK FALSE
