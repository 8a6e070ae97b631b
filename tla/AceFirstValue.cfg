SPECIFICATION FairSpec
CONSTANTS
  max_cycles = 4
  Circuits <- CircuitsDef
INVARIANTS
  SwitchingBounded
