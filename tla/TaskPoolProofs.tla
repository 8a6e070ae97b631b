--------------------------- MODULE TaskPoolProofs ---------------------------
(***************************************************************************)
(* Theorems about the pool of threads, for any number of threads and of    *)
(* commands, silent and unreadable ones included: no command is run twice, *)
(* no text is printed twice, and the main thread leaves before the end     *)
(* only as far as empty results explain it, and otherwise loses nothing.   *)
(***************************************************************************)
EXTENDS TaskPool, FiniteSetTheorems, FunctionTheorems, SequenceTheorems, TLAPS

\* The loop of the main thread goes on while it has not counted every end.
CountsEnds == main = "collect" => ends < AllEnds

\* A command that was not run is in the queue once, or with one thread.
Runs(t) == at[t] = "run"
RunInv ==
  /\ \A i, k \in DOMAIN thread_work : thread_work[i] = thread_work[k] => i = k
  /\ \A i \in DOMAIN thread_work :
       runs[thread_work[i]] = 0 /\ \A t \in Threads : Runs(t) => work[t] # thread_work[i]
  /\ \A t \in Threads : Runs(t) =>
       runs[work[t]] = 0 /\ \A u \in Threads : Runs(u) /\ work[u] = work[t] => u = t
  /\ JobsRunOnce

\* A text is with the thread that is to report it, or in the queue of results,
\* or printed, and it is there once.
Reports(t) == at[t] = "report"
TextsQueued == {k \in DOMAIN thread_result : True(thread_result[k][3])}
JobAt(k) == thread_result[k][2]
PrintInv ==
  /\ \A t \in Threads : Reports(t) => runs[work[t]] = 1 /\ output[work[t]] \in {"text", "empty"}
  /\ \A k \in TextsQueued : JobAt(k) \in Jobs /\ runs[JobAt(k)] = 1
  /\ \A i \in DOMAIN printed : runs[printed[i]] = 1
  /\ \A t, u \in Threads : Reports(t) /\ Reports(u) /\ work[t] = work[u] => t = u
  /\ \A i, k \in TextsQueued : JobAt(i) = JobAt(k) => i = k
  /\ \A i, k \in DOMAIN printed : printed[i] = printed[k] => i = k
  /\ \A t \in Threads, k \in TextsQueued : Reports(t) => JobAt(k) # work[t]
  /\ \A t \in Threads, i \in DOMAIN printed : Reports(t) => printed[i] # work[t]
  /\ \A i \in DOMAIN printed, k \in TextsQueued : JobAt(k) # printed[i]

PoolInv == TypeOK /\ CountsEnds /\ RunInv /\ PrintInv

-----------------------------------------------------------------------------
\* There is at least one thread, and the sizes are numbers.
LEMMA Sizes == AllEnds \in Nat \ {0} /\ Cardinality(Jobs) \in Nat
  BY ThreadsAssumption, JobsAssumption, FS_CardinalityType, FS_EmptySet DEF AllEnds

\* What is left of a queue when its head was taken.
LEMMA TailFacts ==
  ASSUME NEW S, NEW s \in Seq(S), s # <<>>
  PROVE  /\ Head(s) = s[1] /\ 1 \in DOMAIN s /\ s[1] \in S
         /\ Tail(s) \in Seq(S)
         /\ \A i \in DOMAIN Tail(s) : i + 1 \in DOMAIN s /\ i + 1 # 1 /\ Tail(s)[i] = s[i + 1]
  BY HeadTailProperties

\* What a queue holds when an element was appended.
LEMMA AppendFacts ==
  ASSUME NEW S, NEW s \in Seq(S), NEW e \in S
  PROVE  /\ Append(s, e) \in Seq(S)
         /\ \A i \in DOMAIN Append(s, e) :
              \/ i \in DOMAIN s /\ Append(s, e)[i] = s[i]
              \/ i = Len(s) + 1 /\ i \notin DOMAIN s /\ Append(s, e)[i] = e
  BY AppendProperties

-----------------------------------------------------------------------------
(* Init *)

LEMMA InitPool == Init => PoolInv
<1> SUFFICES ASSUME Init
             PROVE  PoolInv
  OBVIOUS
<1>1. /\ thread_work \in Seq(Jobs) /\ thread_result = <<>> /\ printed = <<>>
      /\ \A i, k \in DOMAIN thread_work : thread_work[i] = thread_work[k] => i = k
  BY Sizes DEF Init, Queues
<1>2. /\ at \in [Threads -> {"take"}] /\ work = [t \in Threads |-> Nobody]
      /\ main = "collect" /\ ends = 0
      /\ runs = [j \in Jobs |-> 0] /\ output = [j \in Jobs |-> "none"]
  BY DEF Init
<1>3. TypeOK
  <2>1. thread_result \in Seq(Result) /\ printed \in Seq(Jobs)
    BY <1>1, EmptySeq
  <2>2. ends \in 0 .. AllEnds
    BY <1>2, Sizes
  <2>3. QED
    BY <1>1, <1>2, <2>1, <2>2 DEF TypeOK, Over
<1>4. CountsEnds
  BY <1>2, Sizes DEF CountsEnds
<1>5. RunInv
  BY <1>1, <1>2 DEF RunInv, Runs, JobsRunOnce
<1>6. PrintInv
  BY <1>1, <1>2 DEF PrintInv, Reports, TextsQueued
<1>7. QED
  BY <1>3, <1>4, <1>5, <1>6 DEF PoolInv

\* The results left when the first was taken, and those there are with one more.
LEMMA ResultTaken ==
  ASSUME TypeOK, thread_result # <<>>, thread_result' = Tail(thread_result)
  PROVE  /\ 1 \in DOMAIN thread_result /\ Head(thread_result) = thread_result[1]
         /\ thread_result[1] \in Result /\ thread_result' \in Seq(Result)
         /\ \A k \in TextsQueued' :
              k \in Nat /\ k + 1 # 1 /\ k + 1 \in TextsQueued /\ JobAt(k)' = JobAt(k + 1)
<1>1. thread_result \in Seq(Result)
  BY DEF TypeOK
<1>2. /\ Head(thread_result) = thread_result[1] /\ 1 \in DOMAIN thread_result
      /\ thread_result[1] \in Result /\ Tail(thread_result) \in Seq(Result)
      /\ \A i \in DOMAIN Tail(thread_result) :
           i + 1 \in DOMAIN thread_result /\ i + 1 # 1 /\ Tail(thread_result)[i] = thread_result[i + 1]
  BY <1>1, TailFacts
<1>3. DOMAIN Tail(thread_result) \subseteq Nat
  BY <1>2
<1>4. QED
  BY <1>2, <1>3 DEF TextsQueued, JobAt, True

LEMMA ResultAdded ==
  ASSUME TypeOK, NEW r \in Result, thread_result' = Append(thread_result, r)
  PROVE  /\ thread_result' \in Seq(Result)
         /\ \A k \in TextsQueued' :
              \/ k \in TextsQueued /\ JobAt(k)' = JobAt(k)
              \/ k = Len(thread_result) + 1 /\ JobAt(k)' = r[2] /\ True(r[3])
<1>1. thread_result \in Seq(Result)
  BY DEF TypeOK
<1>2. /\ Append(thread_result, r) \in Seq(Result)
      /\ \A i \in DOMAIN Append(thread_result, r) :
           \/ i \in DOMAIN thread_result /\ Append(thread_result, r)[i] = thread_result[i]
           \/ i = Len(thread_result) + 1 /\ i \notin DOMAIN thread_result
              /\ Append(thread_result, r)[i] = r
  BY <1>1, AppendFacts
<1>3. QED
  BY <1>2 DEF TextsQueued, JobAt, True

\* What a thread is to report is a result.
LEMMA ReportedResult ==
  ASSUME TypeOK, PrintInv, NEW t \in Threads, Reports(t)
  PROVE  <<t, work[t], output[work[t]]>> \in Result
  BY DEF TypeOK, PrintInv, Reports, Result, Texts

LEMMA EndResult ==
  ASSUME TypeOK, NEW t \in Threads
  PROVE  <<t, work[t], "undef">> \in Result
  BY DEF TypeOK, Result, Texts

-----------------------------------------------------------------------------
(* Types *)

LEMMA StepType ==
  ASSUME TypeOK, CountsEnds, PrintInv, Next
  PROVE  TypeOK' /\ CountsEnds'
<1>1. ASSUME NEW t \in Threads, Take(t)
      PROVE  TypeOK' /\ CountsEnds'
  BY <1>1, TailFacts DEF Take, WorkAfterTake, TypeOK, CountsEnds, Over, AllEnds
<1>2. ASSUME NEW t \in Threads, Run(t)
      PROVE  TypeOK' /\ CountsEnds'
  BY <1>2 DEF Run, OutputsOf, TypeOK, CountsEnds, Over, AllEnds
<1>3. ASSUME NEW t \in Threads, Report(t)
      PROVE  TypeOK' /\ CountsEnds'
  <2>1. thread_result' \in Seq(Result)
    BY <1>3, ReportedResult, ResultAdded DEF Report, Reports, Enqueue
  <2>2. QED
    BY <1>3, <2>1 DEF Report, TypeOK, CountsEnds, Over, AllEnds, Result
<1>4. ASSUME NEW t \in Threads, Finish(t)
      PROVE  TypeOK' /\ CountsEnds'
  <2>1. thread_result' \in Seq(Result)
    BY <1>4, EndResult, ResultAdded DEF Finish, EndReported, Enqueue
  <2>2. QED
    BY <1>4, <2>1 DEF Finish, TypeOK, CountsEnds, Over, AllEnds, Result
<1>5. CASE PrintResult
  <2>1. thread_result' \in Seq(Result) /\ Head(thread_result) = thread_result[1] /\ 1 \in DOMAIN thread_result
    BY <1>5, ResultTaken DEF PrintResult, ResultsAfterDequeue
  <2>2. Head(thread_result)[2] \in Jobs
    BY <1>5, <2>1 DEF PrintResult, PrintInv, TextsQueued, JobAt
  <2>3. printed' \in Seq(Jobs)
    BY <1>5, <2>2, AppendFacts DEF PrintResult, TypeOK
  <2>4. QED
    BY <1>5, <2>1, <2>3 DEF PrintResult, TypeOK, CountsEnds, AllEnds, Result
<1>6. CASE CountEnd
  <2>1. thread_result' \in Seq(Result)
    BY <1>6, ResultTaken DEF CountEnd, ResultsAfterDequeue
  <2>2. main' \in {"collect", "join", "done"} /\ ends' \in 0 .. AllEnds /\ CountsEnds'
    BY <1>6, Sizes DEF CountEnd, EnoughEnds, TypeOK, CountsEnds, AllEnds
  <2>3. QED
    BY <1>6, <2>1, <2>2 DEF CountEnd, TypeOK, AllEnds, Result
<1>7. CASE Join
  BY <1>7 DEF Join, TypeOK, CountsEnds, AllEnds
<1>8. QED
  BY <1>1, <1>2, <1>3, <1>4, <1>5, <1>6, <1>7 DEF Next, DoWork, Main

-----------------------------------------------------------------------------
(* No command is run twice *)

LEMMA StepRuns ==
  ASSUME TypeOK, RunInv, Next
  PROVE  RunInv'
<1>1. ASSUME NEW t \in Threads, Take(t)
      PROVE  RunInv'
  <2>1. /\ thread_work' = Tail(thread_work) /\ UNCHANGED runs
        /\ work' = [work EXCEPT ![t] = Head(thread_work)] /\ at' = [at EXCEPT ![t] = "run"]
    BY <1>1 DEF Take, WorkAfterTake
  <2>2. /\ Head(thread_work) = thread_work[1] /\ 1 \in DOMAIN thread_work
        /\ \A i \in DOMAIN thread_work' :
             i + 1 \in DOMAIN thread_work /\ i + 1 # 1 /\ thread_work'[i] = thread_work[i + 1]
    BY <1>1, <2>1, TailFacts DEF Take, TypeOK
  <2>3. \A i \in DOMAIN thread_work' : i \in Nat
    BY <1>1, <2>1, TailFacts DEF Take, TypeOK
  <2>4. \A u \in Threads : u # t => work'[u] = work[u] /\ (Runs(u)' <=> Runs(u))
    BY <2>1 DEF TypeOK, Runs
  <2>5. work'[t] = thread_work[1]
    BY <2>1, <2>2 DEF TypeOK
  <2>6. \A i, k \in DOMAIN thread_work' : thread_work'[i] = thread_work'[k] => i = k
    BY <2>2, <2>3 DEF RunInv
  <2>7. ASSUME NEW i \in DOMAIN thread_work'
        PROVE  runs'[thread_work'[i]] = 0
               /\ \A u \in Threads : Runs(u)' => work'[u] # thread_work'[i]
    <3>1. runs'[thread_work'[i]] = 0
      BY <2>1, <2>2 DEF RunInv
    <3>2. ASSUME NEW u \in Threads, Runs(u)', u # t
          PROVE  work'[u] # thread_work'[i]
      BY <2>2, <2>4, <3>2 DEF RunInv
    <3>3. work'[t] # thread_work'[i]
      BY <2>2, <2>5 DEF RunInv
    <3>4. QED
      BY <3>1, <3>2, <3>3
  <2>8. \A u \in Threads : Runs(u)' =>
          runs'[work'[u]] = 0 /\ \A v \in Threads : Runs(v)' /\ work'[v] = work'[u] => v = u
    BY <2>1, <2>2, <2>4, <2>5 DEF RunInv
  <2>9. JobsRunOnce'
    BY <2>1 DEF RunInv, JobsRunOnce
  <2>10. QED
    BY <2>6, <2>7, <2>8, <2>9 DEF RunInv
<1>2. ASSUME NEW t \in Threads, Run(t)
      PROVE  RunInv'
  <2>1. /\ runs' = [runs EXCEPT ![work[t]] = runs[work[t]] + 1]
        /\ UNCHANGED <<thread_work, work>> /\ Runs(t) /\ ~ Runs(t)'
        /\ \A u \in Threads : Runs(u)' => Runs(u) /\ u # t
    BY <1>2 DEF Run, Runs, TypeOK
  <2>2. work[t] \in Jobs /\ runs[work[t]] = 0
    BY <2>1 DEF RunInv, Runs, TypeOK
  <2>3. \A j \in Jobs : runs'[j] = IF j = work[t] THEN 1 ELSE runs[j]
    BY <2>1, <2>2 DEF TypeOK
  <2>4. \A i \in DOMAIN thread_work : thread_work[i] \in Jobs /\ thread_work[i] # work[t]
    BY <2>1 DEF RunInv, TypeOK
  <2>5. \A u \in Threads : Runs(u)' => work[u] \in Jobs /\ work[u] # work[t]
    BY <2>1 DEF RunInv, Runs, TypeOK
  <2>6. JobsRunOnce'
    BY <2>3 DEF RunInv, JobsRunOnce
  <2>7. QED
    BY <2>1, <2>3, <2>4, <2>5, <2>6 DEF RunInv
<1>3. ASSUME UNCHANGED <<thread_work, runs>>,
             \A u \in Threads : Runs(u)' => Runs(u) /\ work'[u] = work[u]
      PROVE  RunInv'
  BY <1>3 DEF RunInv, JobsRunOnce
<1>4. ASSUME NEW t \in Threads, Report(t) \/ Finish(t)
      PROVE  RunInv'
  BY <1>3, <1>4 DEF Report, Finish, Runs, TypeOK
<1>5. CASE Main
  BY <1>3, <1>5 DEF Main, PrintResult, CountEnd, Join, Runs
<1>6. QED
  BY <1>1, <1>2, <1>4, <1>5 DEF Next, DoWork

-----------------------------------------------------------------------------
(* No text is printed twice *)

\* A step keeps the texts apart when it makes none and moves none.
LEMMA TextsKept ==
  ASSUME TypeOK, PrintInv, UNCHANGED <<printed, runs, output>>,
         \A u \in Threads : Reports(u)' => Reports(u) /\ work'[u] = work[u],
         \A k \in TextsQueued' : k \in TextsQueued /\ JobAt(k)' = JobAt(k)
  PROVE  PrintInv'
<1>1. \A u \in Threads : Reports(u)' =>
        runs'[work'[u]] = 1 /\ output'[work'[u]] \in {"text", "empty"}
  BY DEF PrintInv
<1>2. /\ \A k \in TextsQueued' : JobAt(k)' \in Jobs /\ runs'[JobAt(k)'] = 1
      /\ \A i \in DOMAIN printed' : runs'[printed'[i]] = 1
  BY DEF PrintInv
<1>3. QED
  BY <1>1, <1>2 DEF PrintInv

LEMMA RunPrints ==
  ASSUME TypeOK, RunInv, PrintInv, NEW t \in Threads, Run(t)
  PROVE  PrintInv'
<1>1. /\ Runs(t) /\ work[t] \in Jobs /\ runs[work[t]] = 0
      /\ runs' = [runs EXCEPT ![work[t]] = runs[work[t]] + 1]
      /\ UNCHANGED <<thread_result, printed, work>>
  BY DEF Run, Runs, RunInv, TypeOK
<1>2. PICK x \in OutputsOf(work[t]) :
        /\ output' = [output EXCEPT ![work[t]] = x]
        /\ at' = [at EXCEPT ![t] = IF x = "missing" THEN "dead" ELSE "report"]
  BY DEF Run
<1>3. \A u \in Threads : u # t => (Reports(u)' <=> Reports(u))
  BY <1>2 DEF Reports, TypeOK
<1>4. Reports(t)' => output'[work[t]] \in {"text", "empty"}
  BY <1>1, <1>2 DEF Reports, TypeOK, OutputsOf
<1>5. /\ runs'[work[t]] = 1
      /\ \A j \in Jobs : j # work[t] => runs'[j] = runs[j] /\ output'[j] = output[j]
  BY <1>1, <1>2 DEF TypeOK
<1>6. \A u \in Threads : Reports(u) => work[u] \in Jobs /\ work[u] # work[t]
  BY <1>1 DEF PrintInv, Reports, TypeOK
<1>7. /\ TextsQueued' = TextsQueued /\ \A k \in TextsQueued : JobAt(k)' = JobAt(k)
      /\ \A k \in TextsQueued : JobAt(k) \in Jobs /\ JobAt(k) # work[t]
  BY <1>1 DEF PrintInv, TextsQueued, JobAt, True
<1>8. \A i \in DOMAIN printed : printed[i] \in Jobs /\ printed[i] # work[t]
  BY <1>1 DEF PrintInv, TypeOK
<1>9. \A u \in Threads : Reports(u)' =>
        runs'[work'[u]] = 1 /\ output'[work'[u]] \in {"text", "empty"}
  BY <1>1, <1>3, <1>4, <1>5, <1>6 DEF PrintInv
<1>10. /\ \A k \in TextsQueued' : JobAt(k)' \in Jobs /\ runs'[JobAt(k)'] = 1
       /\ \A i, k \in TextsQueued' : JobAt(i)' = JobAt(k)' => i = k
  BY <1>5, <1>7 DEF PrintInv
<1>11. /\ \A i \in DOMAIN printed' : runs'[printed'[i]] = 1
       /\ \A i, k \in DOMAIN printed' : printed'[i] = printed'[k] => i = k
       /\ \A i \in DOMAIN printed', k \in TextsQueued' : JobAt(k)' # printed'[i]
  BY <1>1, <1>5, <1>7, <1>8 DEF PrintInv
<1>12. /\ \A u, v \in Threads : Reports(u)' /\ Reports(v)' /\ work'[u] = work'[v] => u = v
       /\ \A u \in Threads, k \in TextsQueued' : Reports(u)' => JobAt(k)' # work'[u]
       /\ \A u \in Threads, i \in DOMAIN printed' : Reports(u)' => printed'[i] # work'[u]
  BY <1>1, <1>3, <1>6, <1>7, <1>8 DEF PrintInv
<1>13. QED
  BY <1>9, <1>10, <1>11, <1>12 DEF PrintInv

LEMMA ReportPrints ==
  ASSUME TypeOK, RunInv, PrintInv, NEW t \in Threads, Report(t)
  PROVE  PrintInv'
<1> DEFINE n == Len(thread_result) + 1
<1>1. Reports(t) /\ work[t] \in Jobs /\ UNCHANGED <<printed, runs, output>>
  BY DEF Report, Reports, TypeOK
<1>2. \A u \in Threads : Reports(u)' => Reports(u) /\ u # t /\ work'[u] = work[u]
  BY DEF Report, Reports, TypeOK
<1>3. \A k \in TextsQueued' :
        \/ k \in TextsQueued /\ JobAt(k)' = JobAt(k)
        \/ k = n /\ JobAt(k)' = work[t]
  BY <1>1, ReportedResult, ResultAdded DEF Report, Enqueue
<1> HIDE DEF n
<1>4. \A u \in Threads : Reports(u)' =>
        runs'[work'[u]] = 1 /\ output'[work'[u]] \in {"text", "empty"}
  BY <1>1, <1>2 DEF PrintInv
<1>5. \A k \in TextsQueued' : JobAt(k)' \in Jobs /\ runs'[JobAt(k)'] = 1
  BY <1>1, <1>3 DEF PrintInv
<1>6. \A i, k \in TextsQueued' : JobAt(i)' = JobAt(k)' => i = k
  BY <1>1, <1>3 DEF PrintInv
<1>7. /\ \A i \in DOMAIN printed' : runs'[printed'[i]] = 1
      /\ \A i, k \in DOMAIN printed' : printed'[i] = printed'[k] => i = k
  BY <1>1 DEF PrintInv
<1>8. \A u, v \in Threads : Reports(u)' /\ Reports(v)' /\ work'[u] = work'[v] => u = v
  BY <1>2 DEF PrintInv
<1>9. \A u \in Threads, k \in TextsQueued' : Reports(u)' => JobAt(k)' # work'[u]
  BY <1>1, <1>2, <1>3 DEF PrintInv
<1>10. \A u \in Threads, i \in DOMAIN printed' : Reports(u)' => printed'[i] # work'[u]
  BY <1>1, <1>2 DEF PrintInv
<1>11. \A i \in DOMAIN printed', k \in TextsQueued' : JobAt(k)' # printed'[i]
  BY <1>1, <1>3 DEF PrintInv
<1>12. QED
  BY <1>4, <1>5, <1>6, <1>7, <1>8, <1>9, <1>10, <1>11 DEF PrintInv

LEMMA PrintResultPrints ==
  ASSUME TypeOK, RunInv, PrintInv, PrintResult
  PROVE  PrintInv'
<1> DEFINE job == JobAt(1)
<1>1. /\ UNCHANGED <<at, work, runs, output>> /\ thread_result # <<>>
      /\ thread_result' = Tail(thread_result) /\ printed' = Append(printed, Head(thread_result)[2])
      /\ True(Head(thread_result)[3])
  BY DEF PrintResult, ResultsAfterDequeue
<1>2. /\ 1 \in TextsQueued /\ Head(thread_result)[2] = job
      /\ \A k \in TextsQueued' :
           k \in Nat /\ k + 1 # 1 /\ k + 1 \in TextsQueued /\ JobAt(k)' = JobAt(k + 1)
  BY <1>1, ResultTaken DEF TextsQueued, JobAt
<1>3. job \in Jobs
  BY <1>2 DEF PrintInv
<1>4. \A i \in DOMAIN printed' :
        \/ i \in DOMAIN printed /\ printed'[i] = printed[i]
        \/ i = Len(printed) + 1 /\ printed'[i] = job
  BY <1>1, <1>2, <1>3, AppendFacts DEF TypeOK
<1> HIDE DEF job
<1>5. runs[job] = 1 /\ \A k \in TextsQueued : k # 1 => JobAt(k) # job
  BY <1>2 DEF PrintInv, job
<1>6. /\ \A u \in Threads : Reports(u) => work[u] # job
      /\ \A i \in DOMAIN printed : printed[i] # job
  BY <1>2 DEF PrintInv, job
<1>7. \A u \in Threads : (Reports(u)' <=> Reports(u)) /\ work'[u] = work[u]
  BY <1>1 DEF Reports
<1>8. \A k \in TextsQueued' : JobAt(k)' \in Jobs /\ runs'[JobAt(k)'] = 1
  BY <1>1, <1>2 DEF PrintInv
<1>9. \A i, k \in TextsQueued' : JobAt(i)' = JobAt(k)' => i = k
  BY <1>2 DEF PrintInv
<1>10. /\ \A i \in DOMAIN printed' : runs'[printed'[i]] = 1
       /\ \A i, k \in DOMAIN printed' : printed'[i] = printed'[k] => i = k
  BY <1>1, <1>4, <1>5, <1>6 DEF PrintInv
<1>11. \A u \in Threads : Reports(u)' =>
         runs'[work'[u]] = 1 /\ output'[work'[u]] \in {"text", "empty"}
  BY <1>1, <1>7 DEF PrintInv
<1>12. \A u, v \in Threads : Reports(u)' /\ Reports(v)' /\ work'[u] = work'[v] => u = v
  BY <1>7 DEF PrintInv
<1>13. \A u \in Threads, k \in TextsQueued' : Reports(u)' => JobAt(k)' # work'[u]
  BY <1>2, <1>7 DEF PrintInv
<1>14. \A u \in Threads, i \in DOMAIN printed' : Reports(u)' => printed'[i] # work'[u]
  BY <1>4, <1>6, <1>7 DEF PrintInv
<1>15. \A i \in DOMAIN printed', k \in TextsQueued' : JobAt(k)' # printed'[i]
  BY <1>2, <1>4, <1>5 DEF PrintInv
<1>16. QED
  BY <1>8, <1>9, <1>10, <1>11, <1>12, <1>13, <1>14, <1>15 DEF PrintInv

LEMMA CountEndPrints ==
  ASSUME TypeOK, RunInv, PrintInv, CountEnd
  PROVE  PrintInv'
<1>1. /\ UNCHANGED <<at, work, runs, output, printed>> /\ thread_result # <<>>
      /\ thread_result' = Tail(thread_result)
  BY DEF CountEnd, ResultsAfterDequeue
<1>2. \A k \in TextsQueued' :
        k \in Nat /\ k + 1 \in TextsQueued /\ JobAt(k)' = JobAt(k + 1)
  BY <1>1, ResultTaken
<1>3. \A u \in Threads : (Reports(u)' <=> Reports(u)) /\ work'[u] = work[u]
  BY <1>1 DEF Reports
<1>4. /\ \A k \in TextsQueued' : JobAt(k)' \in Jobs /\ runs'[JobAt(k)'] = 1
      /\ \A i, k \in TextsQueued' : JobAt(i)' = JobAt(k)' => i = k
      /\ \A u \in Threads, k \in TextsQueued' : Reports(u)' => JobAt(k)' # work'[u]
      /\ \A i \in DOMAIN printed', k \in TextsQueued' : JobAt(k)' # printed'[i]
  BY <1>1, <1>2, <1>3 DEF PrintInv
<1>5. QED
  BY <1>1, <1>3, <1>4 DEF PrintInv

LEMMA StepPrints ==
  ASSUME TypeOK, RunInv, PrintInv, Next
  PROVE  PrintInv'
<1>1. ASSUME NEW t \in Threads, Take(t)
      PROVE  PrintInv'
  BY <1>1, TextsKept DEF Take, Reports, TextsQueued, JobAt, True, TypeOK
<1>2. ASSUME NEW t \in Threads, Finish(t)
      PROVE  PrintInv'
  <2>1. \A k \in TextsQueued' : k \in TextsQueued /\ JobAt(k)' = JobAt(k)
    BY <1>2, EndResult, ResultAdded DEF Finish, EndReported, Enqueue, True
  <2>2. QED
    BY <1>2, <2>1, TextsKept DEF Finish, Reports, TypeOK
<1>3. CASE Join
  BY <1>3, TextsKept DEF Join, Reports, TextsQueued, JobAt, True
<1>4. QED
  BY <1>1, <1>2, <1>3, RunPrints, ReportPrints, PrintResultPrints, CountEndPrints
  DEF Next, DoWork, Main

-----------------------------------------------------------------------------
(* The theorems *)

LEMMA Stutter == PoolInv /\ UNCHANGED vars => PoolInv'
<1> SUFFICES ASSUME PoolInv, UNCHANGED vars
             PROVE  PoolInv'
  OBVIOUS
<1>1. UNCHANGED <<thread_work, thread_result, at, work, main, ends, printed, runs, output>>
  BY DEF vars
<1>2. TypeOK' /\ CountsEnds'
  BY <1>1 DEF PoolInv, TypeOK, CountsEnds, AllEnds, Result
<1>3. RunInv'
  BY <1>1 DEF PoolInv, RunInv, Runs, JobsRunOnce
<1>4. PrintInv'
  BY <1>1, TextsKept DEF PoolInv, Reports, TextsQueued, JobAt, True
<1>5. QED
  BY <1>2, <1>3, <1>4 DEF PoolInv

\* The inductive invariant of the pool.
THEOREM PoolCorrect == Spec => []PoolInv
<1>1. PoolInv /\ Next => PoolInv'
  BY StepType, StepRuns, StepPrints DEF PoolInv
<1>2. QED
  BY InitPool, <1>1, Stutter, PTL DEF Spec

\* Every queue holds what belongs there, and the main thread never counts more
\* ends than there are threads.
THEOREM PoolTypes == Spec => []TypeOK
<1>1. PoolInv => TypeOK
  BY DEF PoolInv
<1>2. QED
  BY PoolCorrect, <1>1, PTL

\* do_work runs no command twice, however many threads share the queue.
THEOREM RunOnce == Spec => []JobsRunOnce
<1>1. PoolInv => JobsRunOnce
  BY DEF PoolInv, RunInv
<1>2. QED
  BY PoolCorrect, <1>1, PTL

\* The main thread prints no text twice, whatever the order in which the
\* threads report and whatever ends are counted too early.
THEOREM TextsPrintedOnce == Spec => []PrintedOnce
<1>1. ASSUME PoolInv, NEW j \in Jobs
      PROVE  Times(printed, j) + Cardinality(Texted(j)) <= runs[j]
  <2> DEFINE there == {i \in DOMAIN printed : printed[i] = j}
  <2>1. TypeOK /\ PrintInv /\ runs[j] \in Nat /\ Times(printed, j) = Cardinality(there)
    BY <1>1 DEF PoolInv, TypeOK, Times
  <2>2. Texted(j) = {k \in TextsQueued : JobAt(k) = j}
    BY DEF Texted, TextsQueued, JobAt
  <2>3. Cardinality({}) = 0 /\ \A i : Cardinality({i}) = 1
    BY FS_EmptySet, FS_Singleton
  <2>4. CASE there # {}
    <3>1. PICK i \in DOMAIN printed : printed[i] = j
      BY <2>4
    <3>2. there = {i}
      BY <2>1, <3>1 DEF PrintInv
    <3>3. Texted(j) = {}
      BY <2>1, <2>2, <3>1 DEF PrintInv
    <3>4. runs[j] = 1
      BY <2>1, <3>1 DEF PrintInv
    <3>5. Times(printed, j) = 1 /\ Cardinality(Texted(j)) = 0
      BY <2>1, <2>3, <3>2, <3>3, Zenon
    <3>6. QED
      BY <3>4, <3>5
  <2>5. CASE there = {} /\ Texted(j) # {}
    <3>1. PICK k \in TextsQueued : JobAt(k) = j
      BY <2>2, <2>5
    <3>2. Texted(j) = {k}
      BY <2>1, <2>2, <3>1 DEF PrintInv
    <3>3. runs[j] = 1
      BY <2>1, <3>1 DEF PrintInv
    <3>4. Times(printed, j) = 0 /\ Cardinality(Texted(j)) = 1
      BY <2>1, <2>3, <2>5, <3>2, Zenon
    <3>5. QED
      BY <3>3, <3>4
  <2>6. CASE there = {} /\ Texted(j) = {}
    BY <2>1, <2>3, <2>6
  <2>7. QED
    BY <2>4, <2>5, <2>6
<1>2. PoolInv => PrintedOnce
  BY <1>1 DEF PrintedOnce
<1>3. QED
  BY PoolCorrect, <1>2, PTL

-----------------------------------------------------------------------------
(* How the main thread leaves the pool: only as early as empty results      *)
(* explain it, and with every result printed when there was none.  The      *)
(* argument counts: every false result was the end of a thread or the empty *)
(* text of a command, and is in the queue or was counted as an end.         *)

EndsQueued == {k \in DOMAIN thread_result : ~ True(thread_result[k][3])}
Ended == {t \in Threads : at[t] = "ended"}
\* The commands whose empty text is no longer with its thread.
EmptyReported == {j \in Left("empty") : \A t \in Threads : Reports(t) => work[t] # j}

EndsBalance == ends + Cardinality(EndsQueued) = Cardinality(Ended) + Cardinality(EmptyReported)
LeavesAfterAll == main # "collect" => ends = AllEnds

\* Where each command is, or its text.
Queued(j) == \E i \in DOMAIN thread_work : thread_work[i] = j
NotRun == \A j \in Jobs : runs[j] = 0 =>
  output[j] = "none" /\ (Queued(j) \/ \E t \in Threads : Runs(t) /\ work[t] = j)
TextIsThere(j) ==
  \/ \E t \in Threads : Reports(t) /\ work[t] = j
  \/ \E k \in TextsQueued : JobAt(k) = j
  \/ \E i \in DOMAIN printed : printed[i] = j
HasRun == \A j \in Jobs : runs[j] = 1 =>
  /\ output[j] # "none"
  /\ output[j] = "missing" => Dead # {}
  /\ output[j] = "text" => TextIsThere(j)

\* A thread ends when no command is left, and reports its end after its texts.
EndsAfterAll == Ended # {} => thread_work = <<>>
EndIsLast == \A k \in TextsQueued : thread_result[k][1] \in Ended =>
               \E i \in EndsQueued : k < i

EndsInv == EndsBalance /\ LeavesAfterAll /\ NotRun /\ HasRun /\ EndsAfterAll /\ EndIsLast

-----------------------------------------------------------------------------
(* Counting *)

LEMMA FiniteParts ==
  ASSUME TypeOK
  PROVE  /\ IsFiniteSet(EndsQueued) /\ Cardinality(EndsQueued) \in Nat
         /\ IsFiniteSet(Ended) /\ Cardinality(Ended) \in Nat
         /\ IsFiniteSet(EmptyReported) /\ Cardinality(EmptyReported) \in Nat
         /\ ends \in Int
<1>1. IsFiniteSet(DOMAIN thread_result)
  <2>1. /\ Len(thread_result) \in Nat
        /\ DOMAIN thread_result = 1 .. Len(thread_result)
    BY DEF TypeOK
  <2>. QED
    BY <2>1, FS_Interval
<1>2. IsFiniteSet(EndsQueued)
  BY <1>1, FS_Subset DEF EndsQueued
<1>3. IsFiniteSet(Ended)
  BY ThreadsAssumption, FS_Subset DEF Ended
<1>4. IsFiniteSet(EmptyReported)
  BY JobsAssumption, FS_Subset DEF EmptyReported, Left
<1>5. ends \in Int
  BY DEF TypeOK
<1>. QED
  BY <1>2, <1>3, <1>4, <1>5, FS_CardinalityType

\* Taking the first result moves the others up.
LEMMA EndsTaken ==
  ASSUME TypeOK, thread_result # <<>>, thread_result' = Tail(thread_result)
  PROVE  /\ \A k \in EndsQueued' : k + 1 \in EndsQueued \ {1}
         /\ \A k \in EndsQueued \ {1} : k - 1 \in EndsQueued'
         /\ Cardinality(EndsQueued') = Cardinality(EndsQueued \ {1})
<1>1. /\ thread_result \in Seq(Result) /\ Tail(thread_result) \in Seq(Result)
      /\ Len(thread_result) \in Nat \ {0}
      /\ Len(Tail(thread_result)) = Len(thread_result) - 1
      /\ \A i \in 1 .. Len(Tail(thread_result)) : Tail(thread_result)[i] = thread_result[i + 1]
  BY HeadTailProperties DEF TypeOK
<1>2. /\ DOMAIN thread_result = 1 .. Len(thread_result)
      /\ DOMAIN Tail(thread_result) = 1 .. Len(thread_result) - 1
  BY <1>1
<1>3. \A k \in EndsQueued' : k \in Nat /\ k + 1 \in EndsQueued \ {1}
  BY <1>1, <1>2 DEF EndsQueued, True
<1>4. \A k \in EndsQueued \ {1} : k \in Nat /\ k - 1 \in EndsQueued'
  BY <1>1, <1>2 DEF EndsQueued, True
<1> DEFINE S == EndsQueued'
           T == EndsQueued \ {1}
           shift == [k \in S |-> k + 1]
<1>5. shift \in Bijection(S, T)
  <2>1. shift \in [S -> T]
    BY <1>3
  <2>2. \A i, k \in S : shift[i] = shift[k] => i = k
    BY <1>3
  <2>3. \A k \in T : \E i \in S : shift[i] = k
    <3>1. ASSUME NEW k \in T
          PROVE  k - 1 \in S /\ shift[k - 1] = k
      BY <1>4
    <3>. QED
      BY <3>1
  <2>. HIDE DEF S, T, shift
  <2>. QED
    BY <2>1, <2>2, <2>3, Fun_IsBij
<1>6. IsFiniteSet(S)
  <2>1. S \subseteq DOMAIN Tail(thread_result)
    BY DEF EndsQueued
  <2>2. IsFiniteSet(DOMAIN Tail(thread_result))
    BY <1>1, <1>2, FS_Interval
  <2>. HIDE DEF S
  <2>. QED
    BY <2>1, <2>2, FS_Subset
<1>7. Cardinality(T) = Cardinality(S)
  <2>. HIDE DEF S, T, shift
  <2>. QED
    BY <1>5, <1>6, FS_Bijection DEF ExistsBijection
<1>. QED
  BY <1>3, <1>4, <1>7

\* A result that is added comes after those that are there.
LEMMA EndsAdded ==
  ASSUME TypeOK, NEW r \in Result, thread_result' = Append(thread_result, r)
  PROVE  /\ Len(thread_result) + 1 \notin EndsQueued
         /\ EndsQueued' = IF True(r[3]) THEN EndsQueued ELSE EndsQueued \cup {Len(thread_result) + 1}
<1>1. /\ thread_result \in Seq(Result) /\ Append(thread_result, r) \in Seq(Result)
      /\ Len(Append(thread_result, r)) = Len(thread_result) + 1
      /\ \A i \in 1 .. Len(thread_result) : Append(thread_result, r)[i] = thread_result[i]
      /\ Append(thread_result, r)[Len(thread_result) + 1] = r
  BY AppendProperties DEF TypeOK
<1>2. /\ Len(thread_result) \in Nat
      /\ DOMAIN thread_result = 1 .. Len(thread_result)
      /\ DOMAIN Append(thread_result, r) = 1 .. Len(thread_result) + 1
  BY <1>1
<1>. QED
  BY <1>1, <1>2 DEF EndsQueued, True
-----------------------------------------------------------------------------
(* The balance of false results *)

\* A command that was not run has no empty text, and while it is reported the text is not
\* counted.
LEMMA RunBalance ==
  ASSUME PoolInv, EndsInv, NEW t \in Threads, Run(t)
  PROVE  EndsBalance'
<1>1. /\ Runs(t) /\ work[t] \in Jobs /\ output[work[t]] = "none"
      /\ UNCHANGED <<thread_result, work, ends>>
  BY DEF Run, Runs, PoolInv, RunInv, TypeOK, EndsInv, NotRun
<1>2. PICK x \in OutputsOf(work[t]) :
        /\ output' = [output EXCEPT ![work[t]] = x]
        /\ at' = [at EXCEPT ![t] = IF x = "missing" THEN "dead" ELSE "report"]
  BY DEF Run
<1>3. \A u \in Threads : u # t => at'[u] = at[u]
  BY <1>2 DEF PoolInv, TypeOK
<1>4. \A j \in Jobs : j # work[t] => output'[j] = output[j]
  BY <1>2 DEF PoolInv, TypeOK
<1>5. x = "empty" => Reports(t)'
  BY <1>2 DEF Reports, PoolInv, TypeOK
<1>6. output'[work[t]] = x
  BY <1>1, <1>2 DEF PoolInv, TypeOK
<1>7. EmptyReported' = EmptyReported
  BY <1>1, <1>3, <1>4, <1>5, <1>6 DEF EmptyReported, Left, Reports, Runs
<1>8. Ended' = Ended
  BY <1>1, <1>2, <1>3 DEF Ended, Runs, PoolInv, TypeOK
<1>9. EndsQueued' = EndsQueued
  BY <1>1 DEF EndsQueued, True
<1>. QED
  BY <1>1, <1>7, <1>8, <1>9 DEF EndsInv, EndsBalance

\* An empty text that is reported is one false result more.
LEMMA ReportBalance ==
  ASSUME PoolInv, EndsInv, NEW t \in Threads, Report(t)
  PROVE  EndsBalance'
<1> DEFINE j == work[t]
           r == <<t, j, output[j]>>
           n == Len(thread_result) + 1
<1>1. /\ Reports(t) /\ j \in Jobs /\ UNCHANGED <<ends, output>>
      /\ thread_result' = Append(thread_result, r)
      /\ output[j] \in {"text", "empty"}
  BY DEF Report, Reports, Enqueue, PoolInv, PrintInv, TypeOK
<1>2. r \in Result
  BY <1>1, ReportedResult DEF PoolInv
<1>3. \A u \in Threads : Reports(u)' <=> Reports(u) /\ u # t
  BY DEF Report, Reports, PoolInv, TypeOK
<1>4. \A u \in Threads : u # t => work'[u] = work[u]
  BY DEF Report, PoolInv, TypeOK
<1>5. Ended' = Ended
  BY DEF Report, Ended, PoolInv, TypeOK
<1>6. \A u \in Threads : Reports(u) /\ work[u] = j => u = t
  BY <1>1 DEF PoolInv, PrintInv
<1>7. n \notin EndsQueued /\ EndsQueued' = IF True(r[3]) THEN EndsQueued ELSE EndsQueued \cup {n}
  BY <1>1, <1>2, EndsAdded DEF PoolInv
<1>8. CASE output[j] = "text"
  <2>1. EmptyReported' = EmptyReported
    BY <1>1, <1>3, <1>4, <1>8 DEF EmptyReported, Left
  <2>2. EndsQueued' = EndsQueued
    BY <1>7, <1>8 DEF True
  <2>. QED
    BY <1>1, <1>5, <2>1, <2>2 DEF EndsInv, EndsBalance
<1>9. CASE output[j] = "empty"
  <2>1. j \notin EmptyReported /\ EmptyReported' = EmptyReported \cup {j}
    BY <1>1, <1>3, <1>4, <1>6, <1>9 DEF EmptyReported, Left
  <2>2. EndsQueued' = EndsQueued \cup {n}
    BY <1>7, <1>9 DEF True
  <2>. HIDE DEF n, j
  <2>3. /\ Cardinality(EmptyReported') = Cardinality(EmptyReported) + 1
        /\ Cardinality(EndsQueued') = Cardinality(EndsQueued) + 1
    BY <1>7, <2>1, <2>2, FiniteParts, FS_AddElement DEF PoolInv
  <2>4. EndsBalance /\ TypeOK /\ ends' = ends
    BY <1>1 DEF EndsInv, PoolInv
  <2>. QED
    BY <1>5, <2>3, <2>4, FiniteParts DEF EndsBalance
<1>. QED
  BY <1>1, <1>8, <1>9

\* A thread that ends reports one false result.
LEMMA FinishBalance ==
  ASSUME PoolInv, EndsInv, NEW t \in Threads, Finish(t)
  PROVE  EndsBalance'
<1> DEFINE r == <<t, work[t], "undef">>
           n == Len(thread_result) + 1
<1>1. UNCHANGED <<work, ends, output>> /\ thread_result' = Append(thread_result, r) /\ r \in Result
  BY EndResult DEF Finish, EndReported, Enqueue, PoolInv
<1>2. t \notin Ended /\ Ended' = Ended \cup {t}
  BY DEF Finish, Ended, PoolInv, TypeOK
<1>3. EmptyReported' = EmptyReported
  <2>1. \A u \in Threads : Reports(u)' <=> Reports(u)
    BY DEF Finish, Reports, PoolInv, TypeOK
  <2>. QED
    BY <1>1, <2>1 DEF EmptyReported, Left
<1>4. n \notin EndsQueued /\ EndsQueued' = EndsQueued \cup {n}
  BY <1>1, EndsAdded DEF PoolInv, True
<1>. HIDE DEF n
<1>5. /\ Cardinality(Ended') = Cardinality(Ended) + 1
      /\ Cardinality(EndsQueued') = Cardinality(EndsQueued) + 1
  BY <1>2, <1>4, FiniteParts, FS_AddElement DEF PoolInv
<1>6. EndsBalance /\ TypeOK /\ ends' = ends
  BY <1>1 DEF EndsInv, PoolInv
<1>. QED
  BY <1>3, <1>5, <1>6, FiniteParts DEF EndsBalance

\* A false result that is taken is counted; a text never was.
LEMMA MainBalance ==
  ASSUME PoolInv, EndsInv, Main
  PROVE  EndsBalance'
<1>1. UNCHANGED <<at, work, output>>
  BY DEF Main, PrintResult, CountEnd, Join
<1>2. Ended' = Ended /\ EmptyReported' = EmptyReported
  BY <1>1 DEF Ended, EmptyReported, Left, Reports
<1>3. CASE PrintResult
  <2>1. thread_result # <<>> /\ thread_result' = Tail(thread_result) /\ UNCHANGED ends
    BY <1>3 DEF PrintResult, ResultsAfterDequeue
  <2>2. EndsQueued \ {1} = EndsQueued
    BY <1>3, <2>1, ResultTaken DEF PrintResult, EndsQueued, PoolInv
  <2>. QED
    BY <1>2, <2>1, <2>2, EndsTaken DEF EndsInv, EndsBalance, PoolInv
<1>4. CASE CountEnd
  <2>1. thread_result # <<>> /\ thread_result' = Tail(thread_result) /\ ends' = ends + 1
    BY <1>4 DEF CountEnd, ResultsAfterDequeue
  <2>2. 1 \in EndsQueued
    BY <1>4, <2>1, ResultTaken DEF CountEnd, EndsQueued, PoolInv
  <2>3. Cardinality(EndsQueued') = Cardinality(EndsQueued) - 1
    BY <2>1, <2>2, EndsTaken, FiniteParts, FS_RemoveElement DEF PoolInv
  <2>. QED
    BY <1>2, <2>1, <2>3, FiniteParts DEF EndsInv, EndsBalance, PoolInv, TypeOK
<1>5. CASE Join
  BY <1>2, <1>5 DEF Join, EndsQueued, True, EndsInv, EndsBalance
<1>. QED
  BY <1>3, <1>4, <1>5 DEF Main

LEMMA TakeBalance ==
  ASSUME PoolInv, EndsInv, NEW t \in Threads, Take(t)
  PROVE  EndsBalance'
<1>1. /\ UNCHANGED <<thread_result, ends, output>>
      /\ \A u \in Threads : Reports(u)' <=> Reports(u)
      /\ \A u \in Threads : Reports(u) => work'[u] = work[u]
  BY DEF Take, Reports, PoolInv, TypeOK
<1>2. Ended' = Ended
  BY DEF Take, Ended, PoolInv, TypeOK
<1>3. EmptyReported' = EmptyReported
  BY <1>1 DEF EmptyReported, Left
<1>4. EndsQueued' = EndsQueued
  BY <1>1 DEF EndsQueued, True
<1>. QED
  BY <1>1, <1>2, <1>3, <1>4 DEF EndsInv, EndsBalance

\* The main thread leaves with the last end it waits for.
LEMMA StepLeaves ==
  ASSUME LeavesAfterAll, Next
  PROVE  LeavesAfterAll'
  BY DEF LeavesAfterAll, Next, DoWork, Take, Run, Report, Finish, Main, PrintResult, CountEnd,
         Join, EnoughEnds, AllEnds
-----------------------------------------------------------------------------
(* Where the commands and their texts are *)

\* A command waits in the queue, then with the thread that is to run it.
LEMMA StepNotRun ==
  ASSUME PoolInv, NotRun, Next
  PROVE  NotRun'
<1>1. ASSUME NEW t \in Threads, Take(t)
      PROVE  NotRun'
  <2>1. /\ thread_work # <<>> /\ thread_work' = Tail(thread_work) /\ UNCHANGED <<runs, output>>
        /\ thread_work \in Seq(Jobs)
        /\ at[t] = "take" /\ Runs(t)' /\ work'[t] = Head(thread_work)
        /\ \A u \in Threads : u # t => (Runs(u)' <=> Runs(u)) /\ work'[u] = work[u]
    BY <1>1 DEF Take, WorkAfterTake, Runs, PoolInv, TypeOK
  <2>2. /\ Head(thread_work) = thread_work[1]
        /\ DOMAIN thread_work = 1 .. Len(thread_work)
        /\ DOMAIN thread_work' = 1 .. Len(thread_work) - 1
        /\ \A i \in DOMAIN thread_work' : thread_work'[i] = thread_work[i + 1]
        /\ Len(thread_work) \in Nat
    BY <2>1, HeadTailProperties
  <2>3. ASSUME NEW j \in Jobs, Queued(j)
        PROVE  Queued(j)' \/ j = Head(thread_work)
    <3>1. PICK i \in DOMAIN thread_work : thread_work[i] = j
      BY <2>3 DEF Queued
    <3>2. CASE i = 1
      BY <2>2, <3>1, <3>2
    <3>3. CASE i # 1
      <4>1. i - 1 \in DOMAIN thread_work' /\ thread_work'[i - 1] = j
        BY <2>2, <3>1, <3>3
      <4>. QED
        BY <4>1 DEF Queued
    <3>. QED
      BY <3>2, <3>3
  <2>4. \A u \in Threads : Runs(u) => u # t
    BY <2>1 DEF Runs
  <2>. QED
    BY <2>1, <2>3, <2>4 DEF NotRun
<1>2. ASSUME NEW t \in Threads, Run(t)
      PROVE  NotRun'
  <2>1. /\ work[t] \in Jobs /\ UNCHANGED <<thread_work, work>>
        /\ runs' = [runs EXCEPT ![work[t]] = @ + 1]
        /\ \A u \in Threads : u # t => (Runs(u)' <=> Runs(u))
        /\ \A j \in Jobs : j # work[t] => output'[j] = output[j] /\ runs'[j] = runs[j]
    BY <1>2 DEF Run, Runs, PoolInv, TypeOK
  <2>2. runs[work[t]] \in Nat /\ runs'[work[t]] # 0
    BY <2>1 DEF PoolInv, TypeOK
  <2>. QED
    BY <2>1, <2>2 DEF NotRun, Queued
<1>3. ASSUME UNCHANGED <<thread_work, runs, output>>,
             \A u \in Threads : Runs(u) => Runs(u)' /\ work'[u] = work[u]
      PROVE  NotRun'
  BY <1>3 DEF NotRun, Queued
<1>4. ASSUME NEW t \in Threads, Report(t) \/ Finish(t)
      PROVE  NotRun'
  BY <1>3, <1>4 DEF Report, Finish, Runs, PoolInv, TypeOK
<1>5. CASE Main
  BY <1>3, <1>5 DEF Main, PrintResult, CountEnd, Join, Runs
<1>. QED
  BY <1>1, <1>2, <1>4, <1>5 DEF Next, DoWork

\* A step that moves no text keeps each where it is.
LEMMA HasRunKept ==
  ASSUME HasRun, UNCHANGED <<runs, output>>, Dead \subseteq Dead',
         \A j \in Jobs : TextIsThere(j) => TextIsThere(j)'
  PROVE  HasRun'
  BY DEF HasRun

\* A text goes from the thread to the queue, and from there to the output.
LEMMA StepHasRun ==
  ASSUME PoolInv, NotRun, HasRun, Next
  PROVE  HasRun'
<1>1. ASSUME NEW t \in Threads, Take(t) \/ Finish(t)
      PROVE  HasRun'
  <2>1. /\ UNCHANGED <<runs, output, printed>> /\ Dead' = Dead
        /\ \A u \in Threads : Reports(u) => Reports(u)' /\ work'[u] = work[u]
    BY <1>1 DEF Take, Finish, Dead, Reports, PoolInv, TypeOK
  <2>2. \A k \in TextsQueued : k \in TextsQueued' /\ JobAt(k)' = JobAt(k)
    <3>1. CASE Take(t)
      BY <3>1 DEF Take, TextsQueued, JobAt, True
    <3>2. CASE Finish(t)
      <4>1. thread_result \in Seq(Result) /\ thread_result' = Append(thread_result, <<t, work[t], "undef">>)
            /\ <<t, work[t], "undef">> \in Result
        BY <3>2, EndResult DEF Finish, EndReported, Enqueue, PoolInv, TypeOK
      <4>2. /\ DOMAIN thread_result \subseteq DOMAIN thread_result'
            /\ \A k \in DOMAIN thread_result : thread_result'[k] = thread_result[k]
        BY <4>1, AppendProperties
      <4>. QED
        BY <4>2 DEF TextsQueued, JobAt, True
    <3>. QED
      BY <1>1, <3>1, <3>2
  <2>. QED
    BY <2>1, <2>2, HasRunKept DEF TextIsThere
<1>2. ASSUME NEW t \in Threads, Run(t)
      PROVE  HasRun'
  <2>1. /\ Runs(t) /\ work[t] \in Jobs /\ UNCHANGED <<thread_result, printed, work>>
        /\ \A j \in Jobs : j # work[t] => output'[j] = output[j] /\ runs'[j] = runs[j]
    BY <1>2 DEF Run, Runs, PoolInv, TypeOK
  <2>2. PICK x \in OutputsOf(work[t]) :
          /\ output' = [output EXCEPT ![work[t]] = x]
          /\ at' = [at EXCEPT ![t] = IF x = "missing" THEN "dead" ELSE "report"]
    BY <1>2 DEF Run
  <2>3. /\ output'[work[t]] = x /\ x # "none"
        /\ x = "missing" => at'[t] = "dead"
        /\ x # "missing" => Reports(t)'
    BY <2>1, <2>2 DEF OutputsOf, Reports, PoolInv, TypeOK
  <2>4. \A u \in Threads : u # t => at'[u] = at[u]
    BY <2>2 DEF PoolInv, TypeOK
  <2>5. Dead \subseteq Dead' /\ \A u \in Threads : Reports(u) => Reports(u)'
    BY <2>1, <2>4 DEF Dead, Reports, Runs
  <2>6. \A j \in Jobs : TextIsThere(j) => TextIsThere(j)'
    BY <2>1, <2>5 DEF TextIsThere, TextsQueued, JobAt, True
  <2>7. x = "missing" => Dead' # {}
    BY <2>3 DEF Dead
  <2>8. ASSUME NEW j \in Jobs, j = work[t], x = "text"
        PROVE  TextIsThere(j)'
    BY <2>1, <2>3, <2>8 DEF TextIsThere
  <2>9. ASSUME NEW j \in Jobs, runs'[j] = 1
        PROVE  /\ output'[j] # "none"
               /\ output'[j] = "missing" => Dead' # {}
               /\ output'[j] = "text" => TextIsThere(j)'
    <3>1. CASE j = work[t]
      BY <2>3, <2>7, <2>8, <3>1
    <3>2. CASE j # work[t]
      BY <2>1, <2>5, <2>6, <2>9, <3>2 DEF HasRun
    <3>. QED
      BY <3>1, <3>2
  <2>. QED
    BY <2>9 DEF HasRun
<1>3. ASSUME NEW t \in Threads, Report(t)
      PROVE  HasRun'
  <2> DEFINE r == <<t, work[t], output[work[t]]>>
             n == Len(thread_result) + 1
  <2>1. /\ Reports(t) /\ UNCHANGED <<runs, output, printed>> /\ Dead' = Dead
        /\ thread_result \in Seq(Result) /\ thread_result' = Append(thread_result, r)
        /\ \A u \in Threads : u # t => (Reports(u)' <=> Reports(u)) /\ work'[u] = work[u]
    BY <1>3 DEF Report, Reports, Enqueue, Dead, PoolInv, TypeOK
  <2>2. r \in Result
    BY <2>1, ReportedResult DEF PoolInv
  <2>3. /\ DOMAIN thread_result \subseteq DOMAIN thread_result'
        /\ \A k \in DOMAIN thread_result : thread_result'[k] = thread_result[k]
        /\ n \in DOMAIN thread_result' /\ thread_result'[n] = r
    BY <2>1, <2>2, AppendProperties
  <2>4. \A k \in TextsQueued : k \in TextsQueued' /\ JobAt(k)' = JobAt(k)
    BY <2>3 DEF TextsQueued, JobAt, True
  <2>5. output[work[t]] = "text" => \E k \in TextsQueued' : JobAt(k)' = work[t]
    <3>1. thread_result'[n] = <<t, work[t], output[work[t]]>>
      BY <2>3
    <3>. QED
      BY <2>3, <3>1 DEF TextsQueued, JobAt, True
  <2>6. ASSUME NEW j \in Jobs, output[j] = "text", TextIsThere(j)
        PROVE  TextIsThere(j)'
    <3>1. CASE \E u \in Threads : Reports(u) /\ work[u] = j /\ u # t
      BY <2>1, <3>1 DEF TextIsThere
    <3>2. CASE work[t] = j
      BY <2>5, <2>6, <3>2 DEF TextIsThere
    <3>3. CASE \E k \in TextsQueued : JobAt(k) = j
      BY <2>4, <3>3 DEF TextIsThere
    <3>4. CASE \E i \in DOMAIN printed : printed[i] = j
      BY <2>1, <3>4 DEF TextIsThere
    <3>. QED
      BY <2>6, <3>1, <3>2, <3>3, <3>4 DEF TextIsThere
  <2>. QED
    BY <2>1, <2>6 DEF HasRun
<1>4. ASSUME Main
      PROVE  HasRun'
  <2>1. /\ UNCHANGED <<at, work, runs, output>> /\ Dead' = Dead
        /\ \A u \in Threads : Reports(u)' <=> Reports(u)
    BY <1>4 DEF Main, PrintResult, CountEnd, Join, Dead, Reports
  <2>2. CASE Join
    BY <2>1, <2>2, HasRunKept DEF Join, TextIsThere, TextsQueued, JobAt, True
  <2>3. ASSUME PrintResult \/ CountEnd
        PROVE  HasRun'
    <3>1. /\ thread_result \in Seq(Result) /\ thread_result # <<>>
          /\ thread_result' = Tail(thread_result)
      BY <2>3 DEF PrintResult, CountEnd, ResultsAfterDequeue, PoolInv, TypeOK
    <3>2. /\ Head(thread_result) = thread_result[1]
          /\ Len(thread_result) \in Nat
          /\ DOMAIN thread_result = 1 .. Len(thread_result)
          /\ DOMAIN thread_result' = 1 .. Len(thread_result) - 1
          /\ \A k \in DOMAIN thread_result' : thread_result'[k] = thread_result[k + 1]
      BY <3>1, HeadTailProperties
    <3>3. ASSUME NEW k \in TextsQueued, k # 1
          PROVE  k - 1 \in TextsQueued' /\ JobAt(k - 1)' = JobAt(k)
      <4>1. k - 1 \in DOMAIN thread_result' /\ thread_result'[k - 1] = thread_result[k]
        BY <3>2, <3>3 DEF TextsQueued
      <4>. QED
        BY <3>3, <4>1 DEF TextsQueued, JobAt, True
    <3>4. /\ \A i \in DOMAIN printed : i \in DOMAIN printed' /\ printed'[i] = printed[i]
          /\ 1 \in TextsQueued => \E i \in DOMAIN printed' : printed'[i] = JobAt(1)
      <4>1. CASE PrintResult
        <5>1. printed \in Seq(Jobs) /\ printed' = Append(printed, JobAt(1)) /\ 1 \in TextsQueued
          BY <3>1, <3>2, <4>1 DEF PrintResult, JobAt, TextsQueued, PoolInv, TypeOK
        <5>2. JobAt(1) \in Jobs
          BY <5>1 DEF PoolInv, PrintInv
        <5>. QED
          BY <5>1, <5>2, AppendProperties
      <4>2. CASE CountEnd
        BY <3>2, <4>2 DEF CountEnd, TextsQueued
      <4>. QED
        BY <2>3, <4>1, <4>2
    <3>5. ASSUME NEW j \in Jobs, TextIsThere(j)
          PROVE  TextIsThere(j)'
      <4>1. CASE \E u \in Threads : Reports(u) /\ work[u] = j
        BY <2>1, <4>1 DEF TextIsThere
      <4>2. CASE \E i \in DOMAIN printed : printed[i] = j
        BY <3>4, <4>2 DEF TextIsThere
      <4>3. ASSUME NEW k \in TextsQueued, JobAt(k) = j
            PROVE  TextIsThere(j)'
        BY <3>3, <3>4, <4>3 DEF TextIsThere
      <4>. QED
        BY <3>5, <4>1, <4>2, <4>3 DEF TextIsThere
    <3>. QED
      BY <2>1, <3>5, HasRunKept
  <2>. QED
    BY <1>4, <2>2, <2>3 DEF Main
<1>. QED
  BY <1>1, <1>2, <1>3, <1>4 DEF Next, DoWork

\* No thread ends while a command is left.
LEMMA StepEndsAfterAll ==
  ASSUME PoolInv, EndsAfterAll, Next
  PROVE  EndsAfterAll'
<1>1. ASSUME NEW t \in Threads, Take(t)
      PROVE  EndsAfterAll'
  <2>1. thread_work # <<>> /\ \A u \in Threads : at'[u] = "ended" => at[u] = "ended"
    BY <1>1 DEF Take, PoolInv, TypeOK
  <2>. QED
    BY <2>1 DEF EndsAfterAll, Ended
<1>2. ASSUME NEW t \in Threads, Run(t) \/ Report(t)
      PROVE  EndsAfterAll'
  <2>1. thread_work' = thread_work /\ \A u \in Threads : at'[u] = "ended" => at[u] = "ended"
    BY <1>2 DEF Run, Report, PoolInv, TypeOK
  <2>. QED
    BY <2>1 DEF EndsAfterAll, Ended
<1>3. ASSUME NEW t \in Threads, Finish(t)
      PROVE  EndsAfterAll'
  BY <1>3 DEF Finish, EndsAfterAll
<1>4. CASE Main
  BY <1>4 DEF Main, PrintResult, CountEnd, Join, EndsAfterAll, Ended
<1>. QED
  BY <1>1, <1>2, <1>3, <1>4 DEF Next, DoWork

\* The end of a thread is queued after its texts.
LEMMA StepEndIsLast ==
  ASSUME PoolInv, EndIsLast, Next
  PROVE  EndIsLast'
<1>1. ASSUME NEW t \in Threads, Take(t) \/ Run(t)
      PROVE  EndIsLast'
  <2>1. UNCHANGED thread_result /\ Ended' = Ended
    BY <1>1 DEF Take, Run, Ended, PoolInv, TypeOK
  <2>. QED
    BY <2>1 DEF EndIsLast, TextsQueued, EndsQueued, True
<1>2. ASSUME NEW r \in Result, thread_result' = Append(thread_result, r)
      PROVE  /\ thread_result \in Seq(Result) /\ Len(thread_result) \in Nat
             /\ \A k \in DOMAIN thread_result : k < Len(thread_result) + 1
             /\ EndsQueued \subseteq EndsQueued'
             /\ ~ True(r[3]) => Len(thread_result) + 1 \in EndsQueued'
             /\ \A k \in TextsQueued' :
                  \/ k \in TextsQueued /\ thread_result'[k] = thread_result[k]
                  \/ True(r[3]) /\ thread_result'[k] = r
  <2>1. thread_result \in Seq(Result)
    BY DEF PoolInv, TypeOK
  <2>2. /\ Len(thread_result) \in Nat
        /\ DOMAIN thread_result = 1 .. Len(thread_result)
        /\ DOMAIN thread_result' = 1 .. Len(thread_result) + 1
        /\ \A k \in 1 .. Len(thread_result) : thread_result'[k] = thread_result[k]
        /\ thread_result'[Len(thread_result) + 1] = r
    BY <1>2, <2>1, AppendProperties
  <2>3. EndsQueued' = IF True(r[3]) THEN EndsQueued ELSE EndsQueued \cup {Len(thread_result) + 1}
    BY <1>2, EndsAdded DEF PoolInv
  <2>. QED
    BY <2>1, <2>2, <2>3 DEF TextsQueued, True
<1>3. ASSUME NEW t \in Threads, Report(t)
      PROVE  EndIsLast'
  <2> DEFINE r == <<t, work[t], output[work[t]]>>
  <2>1. Ended' = Ended /\ t \notin Ended /\ r \in Result /\ thread_result' = Append(thread_result, r)
    BY <1>3, ReportedResult DEF Report, Reports, Enqueue, Ended, PoolInv, TypeOK
  <2>2. r[1] = t
    OBVIOUS
  <2>. HIDE DEF r
  <2>3. /\ EndsQueued \subseteq EndsQueued'
        /\ \A k \in TextsQueued' :
             \/ k \in TextsQueued /\ thread_result'[k] = thread_result[k]
             \/ thread_result'[k] = r
    BY <1>2, <2>1
  <2>4. ASSUME NEW k \in TextsQueued', thread_result'[k][1] \in Ended'
        PROVE  \E i \in EndsQueued' : k < i
    <3>1. k \in TextsQueued /\ thread_result'[k] = thread_result[k]
      BY <2>1, <2>2, <2>3, <2>4
    <3>. QED
      BY <2>1, <2>3, <2>4, <3>1 DEF EndIsLast
  <2>. QED
    BY <2>4 DEF EndIsLast
<1>4. ASSUME NEW t \in Threads, Finish(t)
      PROVE  EndIsLast'
  <2> DEFINE r == <<t, work[t], "undef">>
             n == Len(thread_result) + 1
  <2>1. r \in Result /\ thread_result' = Append(thread_result, r) /\ ~ True(r[3])
    BY <1>4, EndResult DEF Finish, EndReported, Enqueue, PoolInv, True
  <2>2. ASSUME NEW k \in TextsQueued'
        PROVE  \E i \in EndsQueued' : k < i
    <3>1. k \in DOMAIN thread_result
      BY <1>2, <2>1 DEF TextsQueued
    <3>. QED
      BY <1>2, <2>1, <3>1
  <2>. QED
    BY <2>2 DEF EndIsLast
<1>5. ASSUME PrintResult \/ CountEnd
      PROVE  EndIsLast'
  <2>1. /\ thread_result # <<>> /\ thread_result' = Tail(thread_result) /\ Ended' = Ended
        /\ thread_result \in Seq(Result)
    BY <1>5 DEF PrintResult, CountEnd, ResultsAfterDequeue, Ended, PoolInv, TypeOK
  <2>2. /\ Len(thread_result) \in Nat
        /\ DOMAIN thread_result = 1 .. Len(thread_result)
        /\ DOMAIN thread_result' = 1 .. Len(thread_result) - 1
        /\ \A k \in DOMAIN thread_result' : thread_result'[k] = thread_result[k + 1]
    BY <2>1, HeadTailProperties
  <2>3. \A k \in EndsQueued \ {1} : k - 1 \in EndsQueued'
    BY <2>1, EndsTaken DEF PoolInv
  <2>4. ASSUME NEW k \in TextsQueued', thread_result'[k][1] \in Ended'
        PROVE  \E i \in EndsQueued' : k < i
    <3>1. /\ k \in 1 .. Len(thread_result) - 1
          /\ k + 1 \in TextsQueued /\ thread_result[k + 1][1] \in Ended
      BY <2>1, <2>2, <2>4 DEF TextsQueued, True
    <3>2. PICK i \in EndsQueued : k + 1 < i
      BY <3>1 DEF EndIsLast
    <3>3. i \in 1 .. Len(thread_result)
      BY <2>2 DEF EndsQueued
    <3>4. i - 1 \in EndsQueued' /\ k < i - 1
      BY <2>2, <2>3, <3>1, <3>2, <3>3
    <3>. QED
      BY <3>4
  <2>. QED
    BY <2>4 DEF EndIsLast
<1>6. CASE Join
  BY <1>6 DEF Join, EndIsLast, TextsQueued, EndsQueued, True, Ended
<1>. QED
  BY <1>1, <1>3, <1>4, <1>5, <1>6 DEF Next, DoWork, Main

-----------------------------------------------------------------------------
(* The invariant *)

\* The queue of commands holds every command, since it is as long as there are commands.
LEMMA InitEnds == Init => EndsInv
<1> SUFFICES ASSUME Init
             PROVE  EndsInv
  OBVIOUS
<1>1. /\ thread_work \in Queues /\ thread_result = <<>> /\ printed = <<>>
      /\ at = [t \in Threads |-> "take"] /\ main = "collect" /\ ends = 0
      /\ runs = [j \in Jobs |-> 0] /\ output = [j \in Jobs |-> "none"]
  BY DEF Init
<1>2. EndsBalance
  <2>1. EndsQueued = {} /\ Ended = {} /\ EmptyReported = {}
    BY <1>1 DEF EndsQueued, Ended, EmptyReported, Left
  <2>. QED
    BY <1>1, <2>1, FS_EmptySet DEF EndsBalance
<1>3. \A j \in Jobs : Queued(j)
  <2> DEFINE S == 1 .. Cardinality(Jobs)
  <2>1. /\ thread_work \in [S -> Jobs]
        /\ \A i, k \in S : thread_work[i] = thread_work[k] => i = k
    BY <1>1 DEF Queues
  <2>2. IsFiniteSet(Jobs) /\ Cardinality(S) = Cardinality(Jobs)
    BY JobsAssumption, Sizes, FS_Interval
  <2>. HIDE DEF S
  <2>3. thread_work \in Injection(S, Jobs)
    BY <2>1, Fun_IsInj
  <2>4. thread_work \in Surjection(S, Jobs)
    BY <2>2, <2>3, FS_Injection
  <2>. QED
    BY <2>1, <2>4, Fun_SurjectionProperties DEF Queued
<1>4. NotRun /\ HasRun
  BY <1>1, <1>3 DEF NotRun, HasRun
<1>. QED
  BY <1>1, <1>2, <1>4 DEF EndsInv, LeavesAfterAll, EndsAfterAll, EndIsLast, TextsQueued, Ended

LEMMA StutterEnds == EndsInv /\ UNCHANGED vars => EndsInv'
<1> SUFFICES ASSUME EndsInv, UNCHANGED vars
             PROVE  EndsInv'
  OBVIOUS
<1>1. UNCHANGED <<thread_work, thread_result, at, work, main, ends, printed, runs, output>>
  BY DEF vars
<1>2. /\ EndsQueued' = EndsQueued /\ TextsQueued' = TextsQueued /\ Ended' = Ended
      /\ EmptyReported' = EmptyReported /\ Dead' = Dead
      /\ \A j \in Jobs : TextIsThere(j)' <=> TextIsThere(j)
  BY <1>1 DEF EndsQueued, TextsQueued, True, Ended, EmptyReported, Dead, Left, Reports, TextIsThere,
              JobAt
<1>3. EndsBalance' /\ LeavesAfterAll' /\ EndsAfterAll' /\ EndIsLast'
  BY <1>1, <1>2 DEF EndsInv, EndsBalance, LeavesAfterAll, AllEnds, EndsAfterAll, EndIsLast
<1>4. NotRun'
  BY <1>1 DEF EndsInv, NotRun, Queued, Runs
<1>5. HasRun'
  BY <1>1, <1>2 DEF EndsInv, HasRun
<1>. QED
  BY <1>3, <1>4, <1>5 DEF EndsInv

\* The invariant of the ends: the false results balance, and every command and every text is
\* somewhere.
THEOREM EndsCorrect == Spec => [](PoolInv /\ EndsInv)
<1>1. PoolInv /\ EndsInv /\ Next => EndsInv'
  <2> SUFFICES ASSUME PoolInv, EndsInv, Next
               PROVE  EndsInv'
    OBVIOUS
  <2>1. EndsBalance'
    BY TakeBalance, RunBalance, ReportBalance, FinishBalance, MainBalance DEF Next, DoWork
  <2>2. LeavesAfterAll' /\ NotRun' /\ HasRun' /\ EndsAfterAll' /\ EndIsLast'
    BY StepLeaves, StepNotRun, StepHasRun, StepEndsAfterAll, StepEndIsLast DEF EndsInv
  <2>. QED
    BY <2>1, <2>2 DEF EndsInv
<1>. QED
  BY InitEnds, <1>1, StutterEnds, PoolCorrect, PTL DEF Spec

-----------------------------------------------------------------------------
(* The theorems *)

\* The loop of run_vtr_task.pl that counts ends stops with threads at work or
\* dead only if as many commands printed nothing, however many threads and commands there are.
THEOREM LeavesBySilenceOnly == Spec => []LeavesOnlyBySilence
<1>1. ASSUME PoolInv, EndsInv, main # "collect"
      PROVE  Cardinality(Alive \cup Dead) <= Cardinality(Left("empty"))
  <2>1. Alive \cup Dead = Threads \ Ended
    BY <1>1 DEF Alive, Dead, Ended, Over, PoolInv, TypeOK
  <2>2. Cardinality(Threads \ Ended) = AllEnds - Cardinality(Ended)
    <3>1. Ended \subseteq Threads /\ Threads \cap Ended = Ended
      BY DEF Ended
    <3>. QED
      BY <3>1, ThreadsAssumption, FS_Difference DEF AllEnds
  <2>3. AllEnds + Cardinality(EndsQueued) = Cardinality(Ended) + Cardinality(EmptyReported)
    BY <1>1 DEF EndsInv, LeavesAfterAll, EndsBalance
  <2>4. /\ IsFiniteSet(Left("empty")) /\ EmptyReported \subseteq Left("empty")
        /\ Cardinality(Left("empty")) \in Nat
    BY JobsAssumption, FS_Subset, FS_CardinalityType DEF Left, EmptyReported
  <2>5. Cardinality(EmptyReported) <= Cardinality(Left("empty"))
    BY <2>4, FS_Subset
  <2>6. /\ AllEnds \in Nat /\ Cardinality(EndsQueued) \in Nat /\ Cardinality(Ended) \in Nat
        /\ Cardinality(EmptyReported) \in Nat
    BY <1>1, Sizes, FiniteParts DEF PoolInv
  <2>7. AllEnds - Cardinality(Ended) <= Cardinality(Left("empty"))
    BY <2>3, <2>4, <2>5, <2>6
  <2>. QED
    BY <2>1, <2>2, <2>7
<1>2. PoolInv /\ EndsInv => LeavesOnlyBySilence
  BY <1>1 DEF LeavesOnlyBySilence
<1>. QED
  BY EndsCorrect, <1>2, PTL

\* When no command printed nothing, the main thread leaves with every command run and its text
\* printed once: no thread ends before its texts are queued, and no end overtakes a text.
THEOREM NothingLost == Spec => []AllResultsPrinted
<1>1. ASSUME PoolInv, EndsInv, main # "collect", Left("empty") = {}
      PROVE  EndsQueued = {} /\ Ended = Threads
  <2>1. AllEnds + Cardinality(EndsQueued) = Cardinality(Ended) + Cardinality(EmptyReported)
    BY <1>1 DEF EndsInv, LeavesAfterAll, EndsBalance
  <2>2. EmptyReported = {} /\ Cardinality(EmptyReported) = 0
    BY <1>1, FS_EmptySet DEF EmptyReported
  <2>3. Ended \in SUBSET Threads /\ Cardinality(Ended) <= AllEnds
    BY ThreadsAssumption, FS_Subset DEF Ended, AllEnds
  <2>4. Cardinality(EndsQueued) = 0 /\ Cardinality(Ended) = AllEnds
    BY <1>1, <2>1, <2>2, <2>3, Sizes, FiniteParts DEF PoolInv
  <2>. QED
    BY <1>1, <2>3, <2>4, ThreadsAssumption, FS_Subset, FS_EmptySet, FiniteParts DEF AllEnds, PoolInv
<1>2. ASSUME PoolInv, EndsInv, main # "collect", Left("empty") = {}, NEW j \in Jobs
      PROVE  runs[j] = 1 /\ Times(printed, j) = 1
  <2>1. EndsQueued = {} /\ \A t \in Threads : at[t] = "ended"
    BY <1>1, <1>2 DEF Ended
  <2>2. thread_work = <<>> /\ Dead = {} /\ TextsQueued = {}
    <3>1. thread_work = <<>>
      BY <1>1, <1>2, ThreadsAssumption DEF EndsInv, EndsAfterAll
    <3>2. ASSUME NEW k \in TextsQueued
          PROVE  FALSE
      <4>1. thread_result[k][1] \in Threads
        BY <1>2 DEF TextsQueued, PoolInv, TypeOK, Result
      <4>. QED
        BY <1>1, <1>2, <4>1 DEF EndsInv, EndIsLast
    <3>. QED
      BY <2>1, <3>1, <3>2 DEF Dead
  <2>3. runs[j] = 1
    <3>1. runs[j] \in Nat /\ runs[j] <= 1
      BY <1>2 DEF PoolInv, TypeOK, RunInv, JobsRunOnce
    <3>2. runs[j] # 0
      BY <1>2, <2>1, <2>2 DEF EndsInv, NotRun, Queued, Runs
    <3>. QED
      BY <3>1, <3>2
  <2>4. output[j] = "text"
    <3>1. output[j] # "empty" /\ output[j] \in {"none", "text", "empty", "missing"}
      BY <1>2 DEF Left, PoolInv, TypeOK
    <3>. QED
      BY <1>2, <2>2, <2>3, <3>1 DEF EndsInv, HasRun
  <2>5. PICK i \in DOMAIN printed : printed[i] = j
    BY <1>2, <2>1, <2>2, <2>3, <2>4 DEF EndsInv, HasRun, TextIsThere, Reports
  <2>6. {k \in DOMAIN printed : printed[k] = j} = {i}
    BY <1>2, <2>5 DEF PoolInv, PrintInv
  <2>. QED
    BY <2>3, <2>6, FS_Singleton DEF Times
<1>3. PoolInv /\ EndsInv => AllResultsPrinted
  BY <1>2 DEF AllResultsPrinted
<1>. QED
  BY EndsCorrect, <1>3, PTL
=============================================================================
