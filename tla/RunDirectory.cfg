SPECIFICATION FairSpec
CONSTANTS
  s1 = s1
  s2 = s2
  s3 = s3
  Scripts <- ScriptsDef
  MaxRun = 3
INVARIANTS
  TypeOK
  OwnRunDirectory
  DiesOnlyBeaten
  FirstFreeNumber
PROPERTIES
  SomeoneRuns
