SPECIFICATION FairSpec
CONSTANTS
  num_nets = 3
  OPEN = OPEN
  Garbage = Garbage
  RRType <- TypeOf
  Switch <- SwitchDef
  Routings <- LocalRoutings
  MayBeCut = FALSE
INVARIANTS
  PrintedFilesAreRead
