\* Two processes, two records each, of one or two write calls each.
SPECIFICATION Spec
CONSTANTS
  Procs = {p1, p2}
  MaxRecords = 2
  MaxPieces = 2
INVARIANTS
  TypeOK
  LossIsLocal
PROPERTY SummaryOnlyGrows
CHECK_DEADLOCK FALSE
