SPECIFICATION Spec
CONSTANTS
  Inputs <- MCInputs
  Types <- MCTypes
  ColumnType <- MCColumnType
  BlockParts <- power_pb
  NeverEnds <- Endless
  LoadedEntry <- ProcessPbPower
  EntryRefused <- Refused
INVARIANTS
  TypeOK
  OptionsUnderstood
  PlacedWhereNamed
  SitesCountedOnce
PROPERTIES
  OptionsEnd
  RightRunsFinish
CHECK_DEADLOCK FALSE
