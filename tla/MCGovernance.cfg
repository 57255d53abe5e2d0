SPECIFICATION Spec
CONSTANTS
  Clis = {first, second}
  Setups <- MCSetups
  RuleSets <- MCRuleSets
  Rules <- MCRules
  Default <- MCDefault
  Invocations <- MCInvocations
  Roles = {"admin", "guest"}
  Types = {"service"}
  Ids = {"alice"}
INVARIANTS
  TypeOK
  GateAgreesWithPipeline
  CheckForetellsCall
  DecisionsAreRecorded
PROPERTY HostKeepsItsAcl
SYMMETRY Symmetry
CHECK_DEADLOCK FALSE
