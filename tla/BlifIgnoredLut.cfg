SPECIFICATION FairSpec
CONSTANTS
  a = a
  c = c
  w = w
  y = y
  OPEN = OPEN
  LutSize = 2
  Nets <- NetsDef
  Slots <- SlotsDef
  Files <- RowFiles
  ActFiles <- NoActivity
INVARIANT TruthTableOwn
