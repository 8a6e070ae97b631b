CONSTANTS
  Commands <- MCCommands
  Widths = {3}
  MaxRuns = 1
SPECIFICATION Spec
INVARIANT ExtraWidth
CHECK_DEADLOCK FALSE
