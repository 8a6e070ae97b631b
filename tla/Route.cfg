SPECIFICATION FairSpec
CONSTANTS
  num_nets = 3
  OPEN = OPEN
  Garbage = Garbage
  RRType <- TypeOf
  Switch <- SwitchDef
  Routings <- AnyRoutings
  MayBeCut = TRUE
INVARIANTS
  TypeOK
  LoadedTraceIsRouting
  ListsOwnTheirCells
  ChargesAreTheRouting
PROPERTIES
  Terminates
