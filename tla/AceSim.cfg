SPECIFICATION FairSpec
CONSTANTS
  max_cycles = 4
  Circuits <- CircuitsDef
INVARIANTS
  TypeOK
  LogicSwitchingBounded
PROPERTIES
  LazyIsEager
