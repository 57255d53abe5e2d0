SPECIFICATION Spec
CONSTANTS
  Setups <- MCSetups
  Requests <- MCRequests
INVARIANTS
  TypeOK
  HostHasTheLastWord
  HidingRemovesNothing
  ControlNeedsConsent
  AppliedIffRecorded
CHECK_DEADLOCK FALSE
