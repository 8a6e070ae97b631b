CONSTANTS
  Commands <- MCCommands
  Widths <- MCWidths
  MaxRuns = 2
SPECIFICATION Spec
INVARIANTS
  TypeOK
  InputsMade
  WiderAndEven
PROPERTIES
  Promise
  SuccessIsOfThisRun
  FlowEnds
CHECK_DEADLOCK FALSE
