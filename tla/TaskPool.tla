------------------------------ MODULE TaskPool ------------------------------
(***************************************************************************)
(* The parallel execution of a task (run_vtr_task.pl, lines 313-377).  The *)
(* main thread fills a queue with one command per circuit and architecture,*)
(* starts the threads, and reads a queue of results until it has counted   *)
(* one end per thread.  A thread takes a command, runs it, reads the file  *)
(* of its output, and reports the text; when there is no command left it   *)
(* reports undef.                                                          *)
(*                                                                         *)
(* The main thread tells an end from a text by its truth value: a command  *)
(* that prints nothing looks like the end of a thread.  A thread whose     *)
(* output file cannot be opened dies and reports nothing.                  *)
(***************************************************************************)
EXTENDS Integers, Sequences, FiniteSets

CONSTANTS
  Threads,      \* the threads of the pool
  Jobs,         \* the commands, one per circuit and architecture
  Silent,       \* the commands that may print nothing
  Unreadable,   \* the commands whose output file may be missing
  Nobody        \* no command

ASSUME ThreadsAssumption == IsFiniteSet(Threads) /\ Threads # {}
ASSUME JobsAssumption ==
  IsFiniteSet(Jobs) /\ Silent \subseteq Jobs /\ Unreadable \subseteq Jobs /\ Nobody \notin Jobs

VARIABLES
  thread_work,    \* the queue of commands
  thread_result,  \* the queue of results: <<thread, command, text>>, a false text being an end
  at, work,       \* where each thread is, and its command
  main, ends,     \* the main thread, and the ends it has counted
  printed,        \* the commands whose results were printed, in order
  runs, output    \* how often each command was run, and what it left in its file

vars == <<thread_work, thread_result, at, work, main, ends, printed, runs, output>>

Texts == {"text", "empty", "undef"}
True(text) == text = "text"

\* One command per circuit and architecture, in whatever order the task lists them.
Queues == {q \in [1 .. Cardinality(Jobs) -> Jobs] :
             \A i, j \in DOMAIN q : q[i] = q[j] => i = j}

Init ==
  /\ thread_work \in Queues
  /\ thread_result = <<>>
  /\ at = [t \in Threads |-> "take"] /\ work = [t \in Threads |-> Nobody]
  /\ main = "collect" /\ ends = 0 /\ printed = <<>>
  /\ runs = [j \in Jobs |-> 0] /\ output = [j \in Jobs |-> "none"]

-----------------------------------------------------------------------------
(* do_work *)

\* Mutant: the command stays in the queue until it was run.
WorkAfterPeek == thread_work
WorkAfterTake == Tail(thread_work)

\* dequeue_nb: the next command, if there is one.
Take(t) ==
  /\ at[t] = "take" /\ thread_work # <<>>
  /\ work' = [work EXCEPT ![t] = Head(thread_work)]
  /\ thread_work' = WorkAfterTake
  /\ at' = [at EXCEPT ![t] = "run"]
  /\ UNCHANGED <<thread_result, main, ends, printed, runs, output>>

\* What a command may leave in the output file of its thread.
OutputsOf(j) == {"text"} \cup {x \in {"empty"} : j \in Silent} \cup {x \in {"missing"} : j \in Unreadable}

\* The command runs in its directory; the thread dies if its file is not there.
Run(t) ==
  /\ at[t] = "run"
  /\ runs' = [runs EXCEPT ![work[t]] = @ + 1]
  /\ \E x \in OutputsOf(work[t]) :
       /\ output' = [output EXCEPT ![work[t]] = x]
       /\ at' = [at EXCEPT ![t] = IF x = "missing" THEN "dead" ELSE "report"]
  /\ UNCHANGED <<thread_work, thread_result, work, main, ends, printed>>

Enqueue(t, text) == thread_result' = Append(thread_result, <<t, work[t], text>>)

Report(t) ==
  /\ at[t] = "report"
  /\ Enqueue(t, output[work[t]])
  /\ at' = [at EXCEPT ![t] = "take"] /\ work' = [work EXCEPT ![t] = Nobody]
  /\ UNCHANGED <<thread_work, main, ends, printed, runs, output>>

\* Mutant: a thread that finds no command ends without a word.
EndSilently(t) == UNCHANGED thread_result
EndReported(t) == Enqueue(t, "undef")

Finish(t) ==
  /\ at[t] = "take" /\ thread_work = <<>>
  /\ EndReported(t)
  /\ at' = [at EXCEPT ![t] = "ended"]
  /\ UNCHANGED <<thread_work, work, main, ends, printed, runs, output>>

-----------------------------------------------------------------------------
(* the main thread *)

AllEnds == Cardinality(Threads)
\* Mutants: one end is enough; the loop runs once too often.
OneEnd(n) == n = 1
TooManyEnds(n) == n = AllEnds + 1
EnoughEnds(n) == n = AllEnds

\* Mutant: the result stays in the queue.
ResultsAfterPeek == thread_result
ResultsAfterDequeue == Tail(thread_result)

\* dequeue blocks until there is a result; a true one is printed.
PrintResult ==
  /\ main = "collect" /\ thread_result # <<>>
  /\ True(Head(thread_result)[3])
  /\ printed' = Append(printed, Head(thread_result)[2])
  /\ thread_result' = ResultsAfterDequeue
  /\ UNCHANGED <<thread_work, at, work, main, ends, runs, output>>

CountEnd ==
  /\ main = "collect" /\ thread_result # <<>>
  /\ ~ True(Head(thread_result)[3])
  /\ ends' = ends + 1
  /\ main' = IF EnoughEnds(ends') THEN "join" ELSE "collect"
  /\ thread_result' = ResultsAfterDequeue
  /\ UNCHANGED <<thread_work, at, work, printed, runs, output>>

\* join waits for every thread, a dead one being over.
Over == {"ended", "dead"}
Join ==
  /\ main = "join" /\ \A t \in Threads : at[t] \in Over
  /\ main' = "done"
  /\ UNCHANGED <<thread_work, thread_result, at, work, ends, printed, runs, output>>

DoWork(t) == Take(t) \/ Run(t) \/ Report(t) \/ Finish(t)
Main == PrintResult \/ CountEnd \/ Join
Next == (\E t \in Threads : DoWork(t)) \/ Main

Spec == Init /\ [][Next]_vars
\* Threads are scheduled, and the commands have time limits of their own.
FairSpec == Spec /\ WF_vars(Main) /\ \A t \in Threads : WF_vars(DoWork(t))

-----------------------------------------------------------------------------
(* Properties *)

Result == Threads \X (Jobs \cup {Nobody}) \X Texts

\* The type invariant; a thread holds a command just when it runs or reports one.
TypeOK ==
  /\ thread_work \in Seq(Jobs) /\ thread_result \in Seq(Result) /\ printed \in Seq(Jobs)
  /\ at \in [Threads -> {"take", "run", "report"} \cup Over]
  /\ work \in [Threads -> Jobs \cup {Nobody}]
  /\ \A t \in Threads : at[t] \in {"run", "report"} => work[t] \in Jobs
  /\ main \in {"collect", "join", "done"} /\ ends \in 0 .. AllEnds
  /\ runs \in [Jobs -> Nat] /\ output \in [Jobs -> {"none", "text", "empty", "missing"}]

Times(s, j) == Cardinality({i \in DOMAIN s : s[i] = j})
Texted(j) == {i \in DOMAIN thread_result : thread_result[i][2] = j /\ True(thread_result[i][3])}
Left(what) == {j \in Jobs : output[j] = what}
Dead == {t \in Threads : at[t] = "dead"}
Alive == {t \in Threads : at[t] \notin Over}

\* However the threads interleave, no command is run twice.
JobsRunOnce == \A j \in Jobs : runs[j] <= 1

\* No text is printed twice, or printed and still queued.
PrintedOnce == \A j \in Jobs : Times(printed, j) + Cardinality(Texted(j)) <= runs[j]

\* The main thread stops reading while threads still work, or are dead, only if
\* at least as many commands printed nothing: each empty text is an end too many.
LeavesOnlyBySilence ==
  main # "collect" => Cardinality(Alive \cup Dead) <= Cardinality(Left("empty"))

\* Unless a command printed nothing, the main thread does not leave before every
\* command has been run and its result printed once.
AllResultsPrinted ==
  main # "collect" /\ Left("empty") = {} => \A j \in Jobs : runs[j] = 1 /\ Times(printed, j) = 1

\* The main thread joins the pool in the end, and waits for ever only if more
\* threads died than commands printed nothing: the end of a dead one never comes.
PoolEnds == <>(main = "done" \/ Cardinality(Dead) > Cardinality(Left("empty")))
=============================================================================
