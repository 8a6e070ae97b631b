------------------------- MODULE RunDirectoryProofs -------------------------
(***************************************************************************)
(* Theorems about the race for the directory of a run, for any number of   *)
(* scripts and any directories of earlier runs: no two runs share one, a   *)
(* script dies only if it was beaten, and no number is skipped.            *)
(***************************************************************************)
EXTENDS RunDirectory, TLAPS

\* What mkdir made is the directory of a script that runs.
MadeByRunning ==
  /\ old \subseteq dirs
  /\ \A n \in dirs \ old : \E r \in Running : experiment_number[r] = n

\* A script that has found its number free found it free of earlier runs, and
\* has seen all the numbers before it taken.
FoundFree == \A s \in Scripts : at[s] # "count" => experiment_number[s] \notin old
Counted == \A s \in Scripts : \A n \in 1 .. experiment_number[s] - 1 : n \in dirs

DirectoryInv ==
  /\ TypeOK /\ MadeByRunning /\ FoundFree /\ Counted
  /\ OwnRunDirectory /\ DiesOnlyBeaten

\* The types are kept by every step.
LEMMA StepType ==
  ASSUME TypeOK, NEW s \in Scripts, Step(s)
  PROVE  TypeOK'
<1>1. CASE Count(s)
  BY <1>1 DEF Count, TypeOK, NextNumber
<1>2. CASE Found(s)
  BY <1>2 DEF Found, TypeOK
<1>3. CASE Make(s)
  BY <1>3 DEF Make, TypeOK, Made
<1>4. CASE Die(s)
  BY <1>4 DEF Die, TypeOK
<1>5. QED
  BY <1>1, <1>2, <1>3, <1>4 DEF Step

\* A script that counts on changes nothing but its own number.
LEMMA CountInv ==
  ASSUME DirectoryInv, NEW s \in Scripts, Count(s)
  PROVE  DirectoryInv'
<1>1. TypeOK'
  BY StepType DEF DirectoryInv, Step
<1>2. /\ dirs' = dirs /\ old' = old /\ at' = at /\ at[s] = "count"
      /\ experiment_number[s] \in dirs /\ Running' = Running
      /\ \A r \in Scripts : r # s => experiment_number'[r] = experiment_number[r]
      /\ experiment_number'[s] = experiment_number[s] + 1
  BY DEF Count, Taken, NextNumber, Running, DirectoryInv, TypeOK
<1>3. MadeByRunning' /\ FoundFree'
  BY <1>2 DEF DirectoryInv, MadeByRunning, FoundFree, Running
<1>4. Counted'
  BY <1>2 DEF DirectoryInv, Counted, TypeOK
<1>5. OwnRunDirectory' /\ DiesOnlyBeaten'
  BY <1>2 DEF DirectoryInv, OwnRunDirectory, DiesOnlyBeaten, Running
<1>6. QED
  BY <1>1, <1>3, <1>4, <1>5 DEF DirectoryInv

\* A script that finds its number free changes only where it is.
LEMMA FoundInv ==
  ASSUME DirectoryInv, NEW s \in Scripts, Found(s)
  PROVE  DirectoryInv'
<1>1. TypeOK'
  BY StepType DEF DirectoryInv, Step
<1>2. /\ UNCHANGED <<dirs, old, experiment_number>>
      /\ experiment_number[s] \notin dirs /\ Running' = Running
      /\ at'[s] = "make" /\ \A r \in Scripts : r # s => at'[r] = at[r]
  BY DEF Found, Taken, Running, DirectoryInv, TypeOK
<1>3. MadeByRunning' /\ FoundFree' /\ Counted'
  BY <1>2 DEF DirectoryInv, MadeByRunning, FoundFree, Counted
<1>4. OwnRunDirectory' /\ DiesOnlyBeaten'
  BY <1>2 DEF DirectoryInv, OwnRunDirectory, DiesOnlyBeaten
<1>5. QED
  BY <1>1, <1>3, <1>4 DEF DirectoryInv

\* mkdir succeeds for one script only: the directory was there for no other.
LEMMA MakeInv ==
  ASSUME DirectoryInv, NEW s \in Scripts, Make(s)
  PROVE  DirectoryInv'
<1>1. TypeOK'
  BY StepType DEF DirectoryInv, Step
<1>2. /\ UNCHANGED <<old, experiment_number>>
      /\ experiment_number[s] \notin dirs /\ experiment_number[s] \notin old
      /\ dirs' = dirs \cup {experiment_number[s]}
      /\ at[s] = "make" /\ at'[s] = "run" /\ \A r \in Scripts : r # s => at'[r] = at[r]
      /\ Running' = Running \cup {s}
  BY DEF Make, Exists, Made, Running, DirectoryInv, TypeOK, FoundFree
<1>3. MadeByRunning'
  BY <1>2 DEF DirectoryInv, MadeByRunning
<1>4. FoundFree' /\ Counted'
  BY <1>2 DEF DirectoryInv, FoundFree, Counted
<1>5. OwnRunDirectory'
  BY <1>2 DEF DirectoryInv, OwnRunDirectory
<1>6. DiesOnlyBeaten'
  BY <1>2 DEF DirectoryInv, DiesOnlyBeaten
<1>7. QED
  BY <1>1, <1>3, <1>4, <1>5, <1>6 DEF DirectoryInv

\* A script dies because its directory was made after it had been found free,
\* and what was made since belongs to a script that runs.
LEMMA DieInv ==
  ASSUME DirectoryInv, NEW s \in Scripts, Die(s)
  PROVE  DirectoryInv'
<1>1. TypeOK'
  BY StepType DEF DirectoryInv, Step
<1>2. /\ UNCHANGED <<dirs, old, experiment_number>>
      /\ experiment_number[s] \in dirs \ old
      /\ at[s] = "make" /\ at'[s] = "died" /\ \A r \in Scripts : r # s => at'[r] = at[r]
      /\ Running' = Running /\ s \notin Running
  BY DEF Die, Exists, Running, DirectoryInv, TypeOK, FoundFree
<1>3. MadeByRunning' /\ FoundFree' /\ Counted' /\ OwnRunDirectory'
  BY <1>2 DEF DirectoryInv, MadeByRunning, FoundFree, Counted, OwnRunDirectory
<1>4. PICK r \in Running : experiment_number[r] = experiment_number[s]
  BY <1>2 DEF DirectoryInv, MadeByRunning
<1>5. DiesOnlyBeaten'
  BY <1>2, <1>4 DEF DirectoryInv, DiesOnlyBeaten
<1>6. QED
  BY <1>1, <1>3, <1>5 DEF DirectoryInv

-----------------------------------------------------------------------------
\* The inductive invariant of the race (run_vtr_task.pl, lines 270-275).
THEOREM DirectoriesCorrect == Spec => []DirectoryInv
<1>1. Init => DirectoryInv
  <2> SUFFICES ASSUME Init
               PROVE  DirectoryInv
    OBVIOUS
  <2>1. TypeOK
    BY DEF Init, TypeOK, FirstNumber
  <2>2. Running = {} /\ \A s \in Scripts : at[s] = "count" /\ experiment_number[s] = 1
    BY DEF Init, Running, FirstNumber
  <2>3. MadeByRunning /\ FoundFree
    BY <2>2 DEF Init, MadeByRunning, FoundFree
  <2>4. Counted
    BY <2>2 DEF Counted
  <2>5. OwnRunDirectory /\ DiesOnlyBeaten
    BY <2>2 DEF OwnRunDirectory, DiesOnlyBeaten
  <2>6. QED
    BY <2>1, <2>3, <2>4, <2>5 DEF DirectoryInv
<1>2. DirectoryInv /\ [Next]_vars => DirectoryInv'
  <2> SUFFICES ASSUME DirectoryInv, [Next]_vars
               PROVE  DirectoryInv'
    OBVIOUS
  <2>1. CASE UNCHANGED vars
    BY <2>1 DEF vars, DirectoryInv, TypeOK, MadeByRunning, FoundFree, Counted,
                OwnRunDirectory, DiesOnlyBeaten, Running
  <2>2. ASSUME NEW s \in Scripts, Step(s)
        PROVE  DirectoryInv'
    BY <2>2, CountInv, FoundInv, MakeInv, DieInv DEF Step
  <2>3. QED
    BY <2>1, <2>2 DEF Next, Stopped
<1>3. QED
  BY <1>1, <1>2, PTL DEF Spec

\* Every script stays between its counting and its run, with a number from 1 on.
THEOREM DirectoryTypes == Spec => []TypeOK
<1>1. DirectoryInv => TypeOK
  BY DEF DirectoryInv
<1>2. QED
  BY <1>1, DirectoriesCorrect, PTL

\* Every run has a directory of its own ("Counts up until directory number
\* doesn't exist").
THEOREM RunsApart == Spec => []OwnRunDirectory
<1>1. DirectoryInv => OwnRunDirectory
  BY DEF DirectoryInv
<1>2. QED
  BY <1>1, DirectoriesCorrect, PTL

\* A script dies only if another one was faster and runs.
THEOREM DeathIsDefeat == Spec => []DiesOnlyBeaten
<1>1. DirectoryInv => DiesOnlyBeaten
  BY DEF DirectoryInv
<1>2. QED
  BY <1>1, DirectoriesCorrect, PTL

\* A run takes the first number that is free.
THEOREM NoNumberSkipped == Spec => []FirstFreeNumber
<1>1. DirectoryInv => FirstFreeNumber
  <2> SUFFICES ASSUME DirectoryInv, NEW s \in Running,
                      NEW n \in 1 .. experiment_number[s]
               PROVE  n \in dirs
    BY DEF FirstFreeNumber
  <2>1. s \in Scripts /\ experiment_number[s] \in Nat \ {0} /\ experiment_number[s] \in dirs
    BY DEF DirectoryInv, TypeOK, OwnRunDirectory, Running
  <2>2. n = experiment_number[s] \/ n \in 1 .. experiment_number[s] - 1
    BY <2>1
  <2>3. QED
    BY <2>1, <2>2 DEF DirectoryInv, Counted
<1>2. QED
  BY <1>1, DirectoriesCorrect, PTL
=============================================================================
