SPECIFICATION FairSpec
CONSTANTS
  num_nets = 3
  OPEN = OPEN
  Garbage = Garbage
  RRType <- TypeOf
  Switch <- SwitchDef
  Routings <- PlainRoutings
  MayBeCut = FALSE
INVARIANTS
  OnlyActiveWiresCharged
