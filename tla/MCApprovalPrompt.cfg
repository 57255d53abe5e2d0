SPECIFICATION Spec
CONSTANT Timeouts <- MCTimeouts
INVARIANTS
  TypeOK
  GrantIsTheUsers
  AnswerLeavesNoTrace
PROPERTY PromptEnds
CHECK_DEADLOCK FALSE
