SPECIFICATION FairSpec
CONSTANTS
  t1 = t1
  t2 = t2
  t3 = t3
  j1 = j1
  j2 = j2
  j3 = j3
  Nobody = Nobody
  Threads <- ThreeThreads
  Jobs <- ThreeJobs
  Silent <- TwoOfThem
  Unreadable <- TwoOfThem
CHECK_DEADLOCK FALSE
INVARIANTS
  TypeOK
  JobsRunOnce
  PrintedOnce
  LeavesOnlyBySilence
  AllResultsPrinted
PROPERTIES
  PoolEnds
