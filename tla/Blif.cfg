SPECIFICATION FairSpec
CONSTANTS
  a = a
  c = c
  w = w
  y = y
  OPEN = OPEN
  LutSize = 2
  Nets <- NetsDef
  Slots <- SlotsDef
  Files <- AllFiles
  ActFiles <- CompleteActivity
INVARIANTS
  TypeOK
  PinListInBounds
  PinListInitialised
  BlocksInBounds
  LoadedNetlistIsFile
  AcceptsExactly
  SweptNetlist
  TruthTableComplete
PROPERTY
  Terminates
