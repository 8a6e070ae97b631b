---------------------------- MODULE RunDirectory ----------------------------
(***************************************************************************)
(* How a run of a task finds its directory (run_vtr_task.pl, lines         *)
(* 266-277): it counts up until run<N> does not exist, and makes run<N>.   *)
(* The test and the making are two steps, and several copies of the script *)
(* may run the same task at the same time; mkdir fails when another copy   *)
(* was faster, and the script dies.                                        *)
(***************************************************************************)
EXTENDS Integers, FiniteSets

CONSTANTS
  Scripts,   \* the copies of the script
  MaxRun     \* bounds the directories left by earlier runs

ASSUME ScriptsAssumption == IsFiniteSet(Scripts) /\ Scripts # {} /\ MaxRun \in Nat

VARIABLES
  dirs,               \* the numbers of the directories that exist
  old,                \* those of them left by earlier runs
  experiment_number,  \* of each script
  at                  \* where each script is

vars == <<dirs, old, experiment_number, at>>

\* Mutant: counting from 0.
FirstNumberZero == 0
FirstNumber == 1

Init ==
  /\ old \in SUBSET (1 .. MaxRun) /\ dirs = old
  /\ experiment_number = [s \in Scripts |-> FirstNumber]
  /\ at = [s \in Scripts |-> "count"]

\* Mutant: the number stays the same.
SameNumber(n) == n
NextNumber(n) == n + 1

\* Mutant: only the first directory is looked for.
TakenFirst(n) == n \in dirs /\ n = FirstNumber
Taken(n) == n \in dirs

\* The directory exists: try the next number.
Count(s) ==
  /\ at[s] = "count" /\ Taken(experiment_number[s])
  /\ experiment_number' = [experiment_number EXCEPT ![s] = NextNumber(@)]
  /\ UNCHANGED <<dirs, old, at>>

Found(s) ==
  /\ at[s] = "count" /\ ~ Taken(experiment_number[s])
  /\ at' = [at EXCEPT ![s] = "make"]
  /\ UNCHANGED <<dirs, old, experiment_number>>

\* Mutants: mkdir -p, which is content with a directory that exists; the next
\* number is made.
ExistsUnnoticed(n) == FALSE
MadeNext(n) == n + 1
Exists(n) == n \in dirs
Made(n) == n

\* mkdir makes the directory or fails, in one step of the file system.
Make(s) ==
  /\ at[s] = "make" /\ ~ Exists(experiment_number[s])
  /\ dirs' = dirs \cup {Made(experiment_number[s])}
  /\ at' = [at EXCEPT ![s] = "run"]
  /\ UNCHANGED <<old, experiment_number>>

Die(s) ==
  /\ at[s] = "make" /\ Exists(experiment_number[s])
  /\ at' = [at EXCEPT ![s] = "died"]
  /\ UNCHANGED <<dirs, old, experiment_number>>

Stopped == (\A s \in Scripts : at[s] \in {"run", "died"}) /\ UNCHANGED vars

Step(s) == Count(s) \/ Found(s) \/ Make(s) \/ Die(s)
Next == (\E s \in Scripts : Step(s)) \/ Stopped
Spec == Init /\ [][Next]_vars
FairSpec == Spec /\ \A s \in Scripts : WF_vars(Step(s))

-----------------------------------------------------------------------------
(* Properties *)

Running == {s \in Scripts : at[s] = "run"}

\* The type invariant; directories are numbered from 1.
TypeOK ==
  /\ old \subseteq 1 .. MaxRun /\ dirs \subseteq Nat \ {0}
  /\ experiment_number \in [Scripts -> Nat \ {0}]
  /\ at \in [Scripts -> {"count", "make", "run", "died"}]

\* No two runs of a task share a directory, and none uses that of an earlier run
\* ("Counts up until directory number doesn't exist", line 268).
OwnRunDirectory ==
  /\ \A s \in Running : experiment_number[s] \in dirs \ old
  /\ \A s, r \in Running : experiment_number[s] = experiment_number[r] => s = r

\* A script dies only because another one made the directory it had found free,
\* and that one runs.
DiesOnlyBeaten ==
  \A s \in Scripts : at[s] = "died" =>
    \E r \in Running : r # s /\ experiment_number[r] = experiment_number[s]

\* The numbers have no gap but those earlier runs left: each run takes the first
\* free number.
FirstFreeNumber ==
  \A s \in Running : \A n \in 1 .. experiment_number[s] : n \in dirs

\* Every copy of the script gets to run or dies, and one of them runs.
SomeoneRuns == <>((\A s \in Scripts : at[s] \in {"run", "died"}) /\ Running # {})
=============================================================================
