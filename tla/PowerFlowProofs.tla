--------------------------- MODULE PowerFlowProofs ---------------------------
(***************************************************************************)
(* Proofs about PowerFlow, for any command lines, widths and number of     *)
(* runs: the type invariant, that the script implements StagePipeline,     *)
(* that a success told from an old file needs a directory with old files,  *)
(* and that a tool finds what a stage of the run was to make for it.       *)
(***************************************************************************)
EXTENDS PowerFlow, TLAPS

USE DEF stage_idx_odin, stage_idx_abc, stage_idx_script, stage_idx_ace, stage_idx_vpr,
        stage_idx_hpower

-----------------------------------------------------------------------------
(* Types *)

\* Writing outputs leaves every file with a mark.
LEMMA WrittenMarks ==
  ASSUME NEW n, files \in [Files -> {"none", "old", "new"}]
  PROVE  Written(n) \in [Files -> {"none", "old", "new"}]
BY DEF Written

\* So does removing files.
LEMMA WithoutMarks ==
  ASSUME NEW gone, NEW found \in [Files -> {"none", "old", "new"}]
  PROVE  Without(found, gone) \in [Files -> {"none", "old", "new"}]
BY DEF Without

\* A clean-up removes all it should or nothing.
LEMMA CleanedMarks ==
  ASSUME NEW gone, NEW found \in [Files -> {"none", "old", "new"}], NEW left \in Cleaned(found, gone)
  PROVE  left \in [Files -> {"none", "old", "new"}]
BY WithoutMarks DEF Cleaned

\* And taking over those of the run before.
LEMMA InheritedMarks ==
  ASSUME NEW o, files \in [Files -> {"none", "old", "new"}]
  PROVE  Inherited(o) \in [Files -> {"none", "old", "new"}]
BY DEF Inherited, Exists

\* The widened width is an integer.
LEMMA WidenedInt ==
  ASSUME NEW w \in Int
  PROVE  Widened(w) \in Int
BY DEF Widened

\* A width is an integer, NoWidth included.
LEMMA WidthInt ==
  ASSUME NEW w \in Widths \cup {NoWidth}
  PROVE  w \in Int
BY WidthAssumption DEF NoWidth

\* The first state is well typed.
LEMMA TypeInit == Init => TypeOK
<1> SUFFICES ASSUME Init PROVE TypeOK
  OBVIOUS
<1>1. RequestOK
  BY RunAssumption DEF Init, RequestOK
<1>2. PlaceOK
  BY DEF Init, PlaceOK, NoWidth
<1>3. FlagsOK
  BY DEF Init, FlagsOK
<1>4. ProcessOK
  BY DEF Init, ProcessOK, Ends
<1>5. ReportOK
  BY DEF Init, ReportOK, Status
<1>6. DiskOK
  BY DEF Init, DiskOK
<1>. QED
  BY <1>1, <1>2, <1>3, <1>4, <1>5, <1>6 DEF TypeOK

\* Starting the script keeps the types.
LEMMA TypeStart ==
  ASSUME TypeOK, NEW o \in Commands, Start(o)
  PROVE  TypeOK'
<1>1. o \in CommandType
  BY CommandAssumption
<1>2. RequestOK'
  BY RunAssumption DEF TypeOK, RequestOK, Start
<1>3. PlaceOK'
  <2>1. o.width \in Widths \cup {NoWidth}
    BY <1>1, Zenon DEF CommandType
  <2>2. o.width \in Int
    BY <2>1, WidthInt, Zenon
  <2>. QED
    BY <2>2 DEF TypeOK, PlaceOK, Start
<1>4. FlagsOK'
  BY DEF TypeOK, FlagsOK, Start
<1>5. ProcessOK'
  BY DEF TypeOK, ProcessOK, Start
<1>6. ReportOK'
  BY DEF TypeOK, ReportOK, Start, Status
<1>7. DiskOK'
  BY InheritedMarks DEF TypeOK, DiskOK, Start
<1>. QED
  BY <1>2, <1>3, <1>4, <1>5, <1>6, <1>7 DEF TypeOK

\* The steps of a tool keep them, and calling the fix scripts, and losing the script to a tool.
LEMMA TypeTool ==
  ASSUME TypeOK,
         ToolEnds \/ ToolAborts \/ AlarmRings \/ CallScripts \/ ForkFails \/ EndsAsTool \/ ToolMissing
  PROVE  TypeOK'
<1>1. RequestOK' /\ PlaceOK' /\ ReportOK'
  BY DEF TypeOK, RequestOK, PlaceOK, ReportOK, ToolEnds, ToolAborts, AlarmRings, CallScripts,
         ForkFails, EndsAsTool, ToolMissing, report, disk, request
<1>2. FlagsOK'
  BY DEF TypeOK, FlagsOK, ToolEnds, ToolAborts, AlarmRings, CallScripts, ForkFails, EndsAsTool,
         ToolMissing, report, process
<1>3. ProcessOK'
  <2>1. CASE ToolEnds \/ ToolAborts \/ AlarmRings
    BY <2>1 DEF TypeOK, ProcessOK, ToolEnds, ToolAborts, AlarmRings, Ends
  <2>2. CASE CallScripts \/ ForkFails \/ EndsAsTool \/ ToolMissing
    BY <2>2 DEF TypeOK, ProcessOK, CallScripts, ForkFails, EndsAsTool, ToolMissing, StartsTool,
                StartsScript, process
  <2>. QED
    BY <2>1, <2>2
<1>4. DiskOK'
  <2>1. CASE AlarmRings \/ CallScripts \/ ForkFails \/ ToolMissing
    BY <2>1 DEF TypeOK, DiskOK, AlarmRings, CallScripts, ForkFails, ToolMissing, disk, texts
  <2>2. CASE ToolEnds
    <3>1. bench_out' \in Widths \cup {NoWidth}
      BY <2>2 DEF TypeOK, DiskOK, ToolEnds, Found
    <3>. QED
      BY <2>2, <3>1, WrittenMarks DEF TypeOK, DiskOK, ToolEnds
  <2>3. CASE ToolAborts \/ EndsAsTool
    <3>1. \E n : files' = Written(n)
      BY <2>3 DEF ToolAborts, EndsAsTool
    <3>2. UNCHANGED <<bench_out, said, refused>>
      BY <2>3 DEF ToolAborts, EndsAsTool, texts
    <3>. QED
      BY <3>1, <3>2, WrittenMarks DEF TypeOK, DiskOK
  <2>. QED
    BY <2>1, <2>2, <2>3
<1>. QED
  BY <1>1, <1>2, <1>3, <1>4 DEF TypeOK

\* So do starting a tool, waiting for it, and a signal.
LEMMA TypeWait ==
  ASSUME TypeOK, Fork \/ Wait \/ Return \/ Hangup
  PROVE  TypeOK'
<1>1. RequestOK' /\ PlaceOK'
  BY DEF TypeOK, RequestOK, PlaceOK, Fork, Wait, Return, Hangup, report, request
<1>2. FlagsOK'
  BY DEF TypeOK, FlagsOK, Fork, Wait, Return, Hangup, process, report
<1>3. ProcessOK'
  BY DEF TypeOK, ProcessOK, Fork, Wait, Return, Hangup, StartsTool, process, Ends
<1>4. ReportOK'
  <2>1. CASE Return
    <3>1. ToolStatus \in Status
      BY <2>1 DEF TypeOK, ProcessOK, Return, ToolStatus, Status
    <3>. QED
      BY <2>1, <3>1 DEF TypeOK, ReportOK, Return, report
  <2>2. CASE Fork \/ Wait \/ Hangup
    BY <2>2 DEF TypeOK, ReportOK, Fork, Wait, Hangup, report
  <2>. QED
    BY <2>1, <2>2
<1>5. DiskOK'
  <2>1. CASE Fork \/ Wait \/ Return
    BY <2>1 DEF TypeOK, DiskOK, Fork, Wait, Return, disk, texts
  <2>2. CASE Hangup
    <3>1. files' = files \/ \E n : files' = Written(n)
      BY <2>2 DEF Hangup
    <3>2. said' \in {said, "new", "no"}
      BY <2>2 DEF Hangup, ScriptsWrite
    <3>. QED
      BY <2>2, <3>1, <3>2, WrittenMarks DEF TypeOK, DiskOK, Hangup
  <2>. QED
    BY <2>1, <2>2
<1>. QED
  BY <1>1, <1>2, <1>3, <1>4, <1>5 DEF TypeOK

\* Reporting a stage, or noting its failure, keeps the types.
LEMMA TypeCheck ==
  ASSUME TypeOK, NEW s \in Stages, NEW spent, CheckStage(s, spent)
  PROVE  TypeOK'
<1>1. RequestOK'
  BY DEF TypeOK, RequestOK, CheckStage, request
<1>2. PlaceOK'
  <2>1. passed' \subseteq passed \cup {s}
    BY DEF CheckStage, Pass, Fail
  <2>. QED
    BY <2>1 DEF TypeOK, PlaceOK, CheckStage, NextStage, Stages
<1>3. FlagsOK'
  BY DEF TypeOK, FlagsOK, CheckStage, NextStage, Pass, Fail, process
<1>4. ProcessOK'
  BY DEF TypeOK, ProcessOK, CheckStage, NextStage, process
<1>5. ReportOK'
  BY DEF TypeOK, ReportOK, CheckStage
<1>6. DiskOK'
  BY CleanedMarks DEF TypeOK, DiskOK, CheckStage, Pass, Fail, texts
<1>. QED
  BY <1>1, <1>2, <1>3, <1>4, <1>5, <1>6 DEF TypeOK

\* The script waits for the fix scripts only in their stage, when it is due.
InScripts == pc = "script" => stage = stage_idx_script /\ Due(stage)

\* What is left when the fix scripts have been judged, started or not: files and words that may
\* be of this run, and a report that follows from them.
LEMMA ScriptsJudged ==
  ASSUME TypeOK, InScripts, FixScripts \/ ScriptsRefused
  PROVE  \E found \in [Files -> {"none", "old", "new"}] :
           /\ JudgeScripts(found)
           /\ stage = stage_idx_script /\ Due(stage)
           /\ pc \in {"stage", "script"}
           /\ \/ /\ FixScripts /\ refused' = refused
                 /\ \E n \in 0 .. 1, success \in BOOLEAN : found = Written(n) /\ ScriptsWrite(n, success)
              \/ /\ ScriptsRefused /\ refused' = refused \cup {stage}
                 /\ found = files /\ said' = said
<1>1. files \in [Files -> {"none", "old", "new"}]
  BY DEF TypeOK, DiskOK
<1>2. CASE FixScripts
  <2>1. PICK n \in 0 .. 1, success \in BOOLEAN : ScriptsWrite(n, success) /\ JudgeScripts(Written(n))
    BY <1>2 DEF FixScripts
  <2>2. pc = "script" /\ refused' = refused
    BY <1>2 DEF FixScripts
  <2>3. Written(n) \in [Files -> {"none", "old", "new"}]
    BY <1>1, WrittenMarks
  <2>4. stage = stage_idx_script /\ Due(stage)
    BY <2>2 DEF InScripts
  <2>. QED
    BY <1>2, <2>1, <2>2, <2>3, <2>4
<1>3. CASE ScriptsRefused
  <2>1. /\ pc = "stage" /\ stage = stage_idx_script /\ Due(stage)
        /\ refused' = refused \cup {stage} /\ said' = said /\ JudgeScripts(files)
    BY <1>3 DEF ScriptsRefused, StartsScript
  <2>. QED
    BY <1>1, <1>3, <2>1
<1>. QED
  BY <1>2, <1>3

\* Judging the fix scripts, the script goes on to the next stage.
LEMMA ScriptsGoOn ==
  ASSUME TypeOK, InScripts, FixScripts \/ ScriptsRefused
  PROVE  pc # "idle" /\ NextStage /\ UNCHANGED <<runs, opts, verdict>> /\ stage \in Stages
<1>1. PICK found \in [Files -> {"none", "old", "new"}] :
        JudgeScripts(found) /\ stage = stage_idx_script /\ pc \in {"stage", "script"}
  BY ScriptsJudged
<1>. QED
  BY <1>1 DEF JudgeScripts, Stages, request

\* The judgement on the fix scripts keeps the types.
LEMMA TypeScripts ==
  ASSUME TypeOK, InScripts, FixScripts \/ ScriptsRefused
  PROVE  TypeOK'
<1>1. PICK found \in [Files -> {"none", "old", "new"}] :
        /\ JudgeScripts(found)
        /\ stage = stage_idx_script
        /\ pc \in {"stage", "script"}
        /\ refused' \in {refused, refused \cup {stage}}
        /\ said' \in {said, "new", "no"}
  BY ScriptsJudged DEF ScriptsWrite
<1>2. RequestOK' /\ ReportOK'
  BY <1>1 DEF TypeOK, RequestOK, ReportOK, JudgeScripts, request
<1>3. PlaceOK'
  <2>1. passed' \subseteq passed \cup {stage_idx_script}
    BY <1>1 DEF JudgeScripts
  <2>2. min_chan_width' = min_chan_width /\ stage' = stage_idx_script + 1
    BY <1>1 DEF JudgeScripts, NextStage
  <2>. QED
    BY <2>1, <2>2 DEF TypeOK, PlaceOK, Stages
<1>4. FlagsOK'
  BY <1>1 DEF TypeOK, FlagsOK, JudgeScripts, NextStage, process
<1>5. ProcessOK'
  BY <1>1 DEF TypeOK, ProcessOK, JudgeScripts, NextStage, process
<1>6. DiskOK'
  BY <1>1, CleanedMarks DEF TypeOK, DiskOK, JudgeScripts
<1>. QED
  BY <1>2, <1>3, <1>4, <1>5, <1>6 DEF TypeOK

\* The other steps of the script between two tools keep them.
LEMMA TypeBetween ==
  ASSUME TypeOK, Skip \/ AceDies \/ CheckFirstRouting \/ CheckHPower \/ WriteResults
  PROVE  TypeOK'
<1>1. RequestOK'
  BY DEF TypeOK, RequestOK, Skip, AceDies, CheckFirstRouting, CheckHPower, WriteResults, request
<1>2. PlaceOK'
  <2>1. CASE CheckFirstRouting
    <3>1. SearchedWidth \in Int
      BY WidthInt DEF TypeOK, RequestOK, PlaceOK, SearchedWidth
    <3>. QED
      BY <2>1, <3>1, WidenedInt DEF TypeOK, PlaceOK, CheckFirstRouting, report
  <2>2. CASE Skip \/ AceDies \/ CheckHPower \/ WriteResults
    <3>1. passed' \subseteq passed \cup {stage_idx_hpower}
      BY <2>2 DEF Skip, AceDies, CheckHPower, WriteResults, Pass, report
    <3>2. CASE Skip \/ CheckHPower
      BY <3>1, <3>2 DEF TypeOK, PlaceOK, Skip, CheckHPower, NextStage, Stages
    <3>3. CASE AceDies \/ WriteResults
      BY <3>1, <3>3 DEF TypeOK, PlaceOK, AceDies, WriteResults, Stages
    <3>. QED
      BY <2>2, <3>2, <3>3
  <2>. QED
    BY <2>1, <2>2
<1>3. FlagsOK'
  BY DEF TypeOK, FlagsOK, Skip, AceDies, CheckFirstRouting, CheckHPower, WriteResults,
         NextStage, Pass, process, report
<1>4. ProcessOK'
  BY DEF TypeOK, ProcessOK, Skip, AceDies, CheckFirstRouting, CheckHPower, WriteResults,
         NextStage, process
<1>5. ReportOK'
  BY DEF TypeOK, ReportOK, Skip, AceDies, CheckFirstRouting, CheckHPower, WriteResults,
         Verdict, report
<1>6. DiskOK'
  <2>1. CASE Skip \/ AceDies \/ WriteResults
    BY <2>1 DEF TypeOK, DiskOK, Skip, AceDies, WriteResults, disk, texts
  <2>2. CASE CheckHPower
    BY <2>2, CleanedMarks DEF TypeOK, DiskOK, CheckHPower, Pass, texts
  <2>3. CASE CheckFirstRouting
    <3>1. files' \in {files, Without(files, {"route"})}
      BY <2>3 DEF CheckFirstRouting, Unrouted
    <3>2. refused' \subseteq refused \cup {stage_idx_vpr} /\ UNCHANGED texts
      BY <2>3 DEF CheckFirstRouting
    <3>. QED
      BY <3>1, <3>2, WithoutMarks DEF TypeOK, DiskOK, texts
  <2>. QED
    BY <2>1, <2>2, <2>3
<1>. QED
  BY <1>1, <1>2, <1>3, <1>4, <1>5, <1>6 DEF TypeOK

\* The fix scripts are called in their stage, and nothing moves while they run.
LEMMA InScriptsNext ==
  ASSUME TypeOK, InScripts, [Next]_vars
  PROVE  InScripts'
<1>1. CASE CallScripts
  BY <1>1 DEF CallScripts, StartsScript, InScripts, Due, report, request
<1>2. CASE UNCHANGED vars
  BY <1>2 DEF InScripts, Due, vars, report, request
<1>3. CASE pc' # "script"
  BY <1>3 DEF InScripts
<1>4. CASE ToolEnds \/ ToolAborts \/ AlarmRings
  BY <1>4 DEF ToolEnds, ToolAborts, AlarmRings, InScripts, Due, report, request
<1>5. CallScripts \/ ToolEnds \/ ToolAborts \/ AlarmRings \/ UNCHANGED vars \/ pc' # "script"
  <2>1. CASE Skip \/ CheckOdin \/ CheckAbc \/ CheckAce \/ CheckVpr \/ CheckHPower
             \/ FixScripts \/ ScriptsRefused
    BY <2>1 DEF Skip, CheckOdin, CheckAbc, CheckAce, CheckVpr, CheckHPower, CheckStage, FixScripts,
                ScriptsRefused, JudgeScripts, NextStage
  <2>2. CASE \E o \in Commands : Start(o)
    BY <2>2 DEF Start
  <2>3. CASE Fork \/ Wait \/ Return \/ CheckFirstRouting
    BY <2>3 DEF Fork, Wait, Return, CheckFirstRouting
  <2>4. CASE ForkFails \/ EndsAsTool \/ ToolMissing \/ Hangup \/ AceDies \/ WriteResults
    BY <2>4 DEF ForkFails, EndsAsTool, ToolMissing, Hangup, AceDies, WriteResults
  <2>. QED
    BY <2>1, <2>2, <2>3, <2>4 DEF Next, Script
<1>. QED
  BY <1>1, <1>2, <1>3, <1>4, <1>5

\* Every step keeps the types.
LEMMA TypeNext ==
  ASSUME TypeOK, InScripts, [Next]_vars
  PROVE  TypeOK'
<1>1. CASE CheckOdin \/ CheckAbc \/ CheckAce \/ CheckVpr
  BY <1>1, TypeCheck DEF CheckOdin, CheckAbc, CheckAce, CheckVpr, Stages
<1>2. CASE UNCHANGED vars
  BY <1>2 DEF TypeOK, RequestOK, PlaceOK, FlagsOK, ProcessOK, ReportOK, DiskOK,
              vars, process, report, disk, texts, request
<1>. QED
  BY <1>1, <1>2, TypeStart, TypeTool, TypeWait, TypeScripts, TypeBetween DEF Next, Script

\* The types of PowerFlow, for any command lines, widths and number of runs.
THEOREM FlowTypes == Spec => []TypeOK
<1>1. Init => InScripts
  BY DEF Init, InScripts
<1>. QED
  BY <1>1, TypeInit, TypeNext, InScriptsNext, PTL DEF Spec

-----------------------------------------------------------------------------
(* The promise of StagePipeline *)

\* A run that goes on was started with a first stage that is not after the last.
Started == pc # "idle" => runs > 0 /\ opts \in CommandType /\ opts.start <= opts.end

Active == pc # "idle" <=> verdict = "running"

\* What was reported was asked for, and is behind.
Behind == pc # "idle" => \A s \in passed : s \in Wanted /\ s < stage

\* Without a failure, all that was asked for and is behind was reported.
Complete == pc # "idle" /\ error_code = FALSE => \A s \in Wanted : s < stage => s \in passed

\* The stage of a tool was asked for, and is the last one after a failure.
AtWork == pc \in {"wait", "reaped", "check", "tool"} =>
            stage \in Wanted /\ (error_code # FALSE => stage = stage_idx_hpower)

FlowInv == Started /\ Active /\ Behind /\ Complete /\ AtWork /\ InScripts

\* A stage that is due was asked for, and is the last one after a failure.
LEMMA DueIsWanted ==
  ASSUME TypeOK, Started, pc # "idle", stage \in Stages, Due(stage)
  PROVE  stage \in Wanted /\ (error_code # FALSE => stage = stage_idx_hpower)
<1>1. opts.start \in Stages /\ opts.end \in Stages /\ opts.start <= opts.end
  BY DEF Started, CommandType
<1>2. stage # stage_idx_hpower => error_code = FALSE
  BY DEF TypeOK, FlagsOK, Due, Stages
<1>3. stage \in Wanted
  <2>1. CASE stage = stage_idx_odin
    BY <1>1, <2>1 DEF Due, Wanted, Stages
  <2>2. CASE stage = stage_idx_hpower
    BY <1>1, <2>2 DEF Due, Wanted, Stages
  <2>3. CASE stage \notin {stage_idx_odin, stage_idx_hpower}
    <3>1. opts.end >= stage /\ opts.start <= stage
      BY <2>3 DEF Due
    <3>. QED
      BY <1>1, <3>1 DEF Wanted, Stages
  <2>. QED
    BY <2>1, <2>2, <2>3
<1>. QED
  BY <1>2, <1>3

\* Without a failure, a stage that is not due was not asked for.
LEMMA NotDueIsUnwanted ==
  ASSUME TypeOK, Started, pc # "idle", stage \in Stages, ~Due(stage), error_code = FALSE
  PROVE  stage \notin Wanted
<1>1. opts.start \in Stages /\ opts.end \in Stages
  BY DEF Started, CommandType
<1>. QED
  BY <1>1 DEF Due, Wanted, Stages

\* Nothing is owed before the script is started.
LEMMA InvInit == Init => FlowInv
BY DEF Init, FlowInv, Started, Active, Behind, Complete, AtWork, InScripts

\* The steps of a stage leave the report as it is.
LEMMA InvWithin ==
  ASSUME TypeOK, FlowInv,
         \/ Fork \/ Wait \/ Return \/ ToolEnds \/ ToolAborts \/ AlarmRings \/ CheckFirstRouting
         \/ CallScripts \/ ForkFails
  PROVE  FlowInv' /\ UNCHANGED <<report, runs, opts, stage>>
<1>1. UNCHANGED <<report, runs, opts, stage>>
  BY DEF Fork, Wait, Return, ToolEnds, ToolAborts, AlarmRings, CheckFirstRouting, CallScripts,
         ForkFails, request
<1>2. pc # "idle" /\ pc' # "idle"
  BY DEF TypeOK, ProcessOK, Fork, StartsTool, StartsScript, Wait, Return, ToolEnds, ToolAborts,
         AlarmRings, CheckFirstRouting, CallScripts, ForkFails
<1>3. AtWork'
  <2>1. CASE Fork \/ ForkFails
    BY <1>1, <2>1, DueIsWanted DEF FlowInv, Fork, ForkFails, StartsTool, AtWork, Wanted, report
  <2>2. CASE Wait \/ Return \/ ToolEnds \/ ToolAborts \/ AlarmRings \/ CheckFirstRouting
    <3>1. pc \in {"wait", "reaped", "check"}
      BY <2>2 DEF TypeOK, ProcessOK, Wait, Return, ToolEnds, ToolAborts, AlarmRings, CheckFirstRouting
    <3>. QED
      BY <1>1, <3>1 DEF FlowInv, AtWork, Wanted, report
  <2>3. CASE CallScripts
    BY <2>3 DEF CallScripts, AtWork
  <2>. QED
    BY <2>1, <2>2, <2>3
<1>4. Started' /\ Active' /\ Behind' /\ Complete'
  BY <1>1, <1>2 DEF FlowInv, Started, Active, Behind, Complete, Wanted, report
<1>5. InScripts'
  BY InScriptsNext DEF FlowInv, Next, Script
<1>. QED
  BY <1>1, <1>3, <1>4, <1>5 DEF FlowInv

\* A run that is over owes nothing.
LEMMA InvOver ==
  ASSUME TypeOK, pc' = "idle", verdict' # "running"
  PROVE  FlowInv'
BY DEF FlowInv, Started, Active, Behind, Complete, AtWork, InScripts

\* Starting the script owes only what it was started with.
LEMMA InvStart ==
  ASSUME TypeOK, FlowInv, NEW o \in Commands, Start(o)
  PROVE  FlowInv'
<1>1. CASE pc' = "idle"
  <2>1. verdict' # "running"
    BY <1>1 DEF Start
  <2>. QED
    BY <1>1, <2>1, InvOver
<1>2. CASE pc' # "idle"
  <2>1. pc' = "stage" /\ verdict' = "running" /\ o.start <= o.end /\ passed' = {} /\ opts' = o
        /\ stage' = stage_idx_odin
    BY <1>2 DEF Start
  <2>2. o \in CommandType /\ runs' > 0
    BY CommandAssumption, RunAssumption DEF Start, TypeOK, RequestOK
  <2>3. \A s \in Wanted' : ~(s < stage')
    <3>1. o.start \in Stages /\ o.end \in Stages
      BY <2>2 DEF CommandType
    <3>. QED
      BY <2>1, <3>1 DEF Wanted, Stages
  <2>. QED
    BY <2>1, <2>2, <2>3 DEF FlowInv, Started, Active, Behind, Complete, AtWork, InScripts
<1>. QED
  BY <1>1, <1>2

\* Going on to the next stage: the report gets the stage, or there is a failure, or the
\* stage was not due.
LEMMA InvNextStage ==
  ASSUME TypeOK, FlowInv, pc # "idle", NextStage, UNCHANGED <<runs, opts, verdict>>,
         stage \in Stages,
         \/ passed' = passed \cup {stage} /\ stage \in Wanted /\ error_code' = error_code
         \/ passed' = passed /\ error_code' # FALSE
         \/ passed' = passed /\ error_code' = error_code /\ ~Due(stage)
  PROVE  FlowInv'
<1>1. stage' = stage + 1 /\ pc' = "stage" /\ Wanted' = Wanted
  BY DEF NextStage, Wanted
<1>2. stage \in Int /\ \A s \in Wanted : s \in Int
  <2>1. opts.start \in Stages /\ opts.end \in Stages
    BY DEF FlowInv, Started, CommandType
  <2>. QED
    BY <2>1 DEF TypeOK, PlaceOK, Wanted, Stages
<1>3. Started' /\ Active' /\ AtWork' /\ InScripts'
  BY <1>1 DEF FlowInv, Started, Active, AtWork, InScripts
<1>4. Behind'
  <2>1. SUFFICES ASSUME NEW s \in passed'
                 PROVE  s \in Wanted /\ s < stage + 1
    BY <1>1 DEF Behind
  <2>2. CASE s \in passed
    <3>1. s \in Wanted /\ s < stage
      BY <2>2, Zenon DEF FlowInv, Behind
    <3>. QED
      BY <1>2, <3>1
  <2>3. CASE s \notin passed
    <3>1. s = stage /\ stage \in Wanted
      BY <2>1, <2>3, Zenon
    <3>. QED
      BY <1>2, <3>1
  <2>. QED
    BY <2>2, <2>3
<1>5. Complete'
  <2>1. CASE passed' = passed \cup {stage} /\ error_code' = error_code
    <3>1. SUFFICES ASSUME error_code = FALSE, NEW s \in Wanted, s < stage + 1
                   PROVE  s \in passed \cup {stage}
      BY <1>1, <2>1 DEF Complete
    <3>2. s < stage \/ s = stage
      BY <1>2, <3>1
    <3>3. s < stage => s \in passed
      BY <3>1 DEF FlowInv, Complete
    <3>. QED
      BY <3>2, <3>3
  <2>2. CASE error_code' # FALSE
    BY <2>2 DEF Complete
  <2>3. CASE passed' = passed /\ error_code' = error_code /\ ~Due(stage)
    <3>1. SUFFICES ASSUME error_code = FALSE, NEW s \in Wanted, s < stage + 1
                   PROVE  s \in passed
      BY <1>1, <2>3 DEF Complete
    <3>2. s # stage
      BY <2>3, <3>1, NotDueIsUnwanted DEF FlowInv
    <3>3. s < stage
      BY <1>2, <3>1, <3>2
    <3>. QED
      BY <3>1, <3>3 DEF FlowInv, Complete
  <2>. QED
    BY <2>1, <2>2, <2>3
<1>. QED
  BY <1>3, <1>4, <1>5 DEF FlowInv

\* What each stage leaves when it goes on.
LEMMA InvPassing ==
  ASSUME TypeOK, FlowInv,
         \/ Skip \/ CheckOdin \/ CheckAbc \/ FixScripts \/ ScriptsRefused
         \/ CheckAce \/ CheckVpr \/ CheckHPower
  PROVE  FlowInv'
<1>1. pc # "idle" /\ NextStage /\ UNCHANGED <<runs, opts, verdict>> /\ stage \in Stages
  BY ScriptsGoOn
  DEF Skip, CheckOdin, CheckAbc, CheckAce, CheckVpr, CheckHPower, CheckStage, FlowInv, Stages,
      report, request
<1>2. CASE Skip
  <2>1. passed' = passed /\ error_code' = error_code /\ ~Due(stage)
    BY <1>2 DEF Skip, report
  <2>. QED
    BY <1>1, <2>1, InvNextStage
<1>3. CASE FixScripts \/ ScriptsRefused
  <2>1. \/ passed' = passed \cup {stage} /\ error_code' = FALSE
        \/ passed' = passed /\ error_code' # FALSE
    BY <1>3, ScriptsJudged DEF FlowInv, JudgeScripts
  <2>2. stage \in Wanted /\ error_code = FALSE
    <3>1. stage = stage_idx_script /\ Due(stage)
      BY <1>3, ScriptsJudged DEF FlowInv
    <3>2. stage \in Wanted /\ (error_code # FALSE => stage = stage_idx_hpower)
      BY <1>1, <3>1, DueIsWanted DEF FlowInv
    <3>3. stage # stage_idx_hpower
      BY <3>1
    <3>. QED
      BY <3>2, <3>3, Zenon
  <2>. QED
    BY <1>1, <2>1, <2>2, InvNextStage
<1>4. CASE CheckOdin \/ CheckAbc \/ CheckAce \/ CheckVpr \/ CheckHPower
  <2>1. \/ passed' = passed \cup {stage} /\ error_code' = error_code
        \/ passed' = passed /\ error_code' # FALSE
    BY <1>4 DEF CheckOdin, CheckAbc, CheckAce, CheckVpr, CheckHPower, CheckStage, Pass, Fail
  <2>2. stage \in Wanted
    <3>1. pc = "check"
      BY <1>4 DEF CheckOdin, CheckAbc, CheckAce, CheckVpr, CheckHPower, CheckStage
    <3>. QED
      BY <3>1 DEF FlowInv, AtWork
  <2>. QED
    BY <1>1, <2>1, <2>2, InvNextStage
<1>. QED
  BY <1>2, <1>3, <1>4

\* Every step keeps the invariant.
LEMMA InvNext ==
  ASSUME TypeOK, FlowInv, [Next]_vars
  PROVE  FlowInv'
<1>1. CASE ToolMissing \/ EndsAsTool \/ Hangup \/ AceDies \/ WriteResults
  <2>1. pc' = "idle" /\ verdict' # "running"
    BY <1>1 DEF ToolMissing, EndsAsTool, Hangup, AceDies, WriteResults, Verdict
  <2>. QED
    BY <2>1, InvOver
<1>2. CASE UNCHANGED vars
  BY <1>2 DEF FlowInv, Started, Active, Behind, Complete, AtWork, InScripts, Due, Wanted, vars,
              report, request
<1>. QED
  BY <1>1, <1>2, InvStart, InvWithin, InvPassing DEF Next, Script

\* What the refinement rests on.
LEMMA FlowInvariant == Spec => [](TypeOK /\ FlowInv)
<1>1. Init => TypeOK /\ FlowInv
  BY TypeInit, InvInit
<1>2. TypeOK /\ FlowInv /\ [Next]_vars => (TypeOK /\ FlowInv)'
  BY TypeNext, InvNext DEF FlowInv
<1>. QED
  BY <1>1, <1>2, PTL DEF Spec

\* The first state is the first state of the promise.
LEMMA PromiseInit == Init => Pipeline!Init
BY DEF Init, Pipeline!Init, Asked

\* Starting the script begins a run.
LEMMA PromiseStart ==
  ASSUME TypeOK, FlowInv, NEW o \in Commands, Start(o)
  PROVE  Pipeline!Begin
<1>1. verdict # "running"
  BY DEF Start, FlowInv, Active
<1>2. Asked' \in SUBSET Pipeline!Stages
  <2>1. opts' = o /\ o.start \in Stages /\ o.end \in Stages
    BY CommandAssumption DEF Start, CommandType
  <2>. QED
    BY <2>1 DEF Asked, Wanted, Stages, Pipeline!Stages
<1>3. passed' = {} /\ verdict' \in {"running", "died"}
  BY DEF Start
<1>4. error_code' \in BOOLEAN
  BY DEF Start
<1>. QED
  BY <1>1, <1>2, <1>3, <1>4 DEF Pipeline!Begin

\* Within a stage, and when a stage is skipped, nothing is reported.
LEMMA PromiseStutters ==
  ASSUME TypeOK, FlowInv,
         \/ Fork \/ Wait \/ Return \/ ToolEnds \/ ToolAborts \/ AlarmRings \/ CheckFirstRouting
         \/ CallScripts \/ ForkFails \/ Skip \/ UNCHANGED vars
  PROVE  UNCHANGED Pipeline!vars
<1>1. UNCHANGED <<report, runs, opts>>
  BY InvWithin DEF Skip, vars, report, request
<1>. QED
  BY <1>1 DEF Pipeline!vars, Asked, Wanted, report

\* The end of a stage reports it in its turn, or is a failure.
LEMMA PromiseCheck ==
  ASSUME TypeOK, FlowInv,
         \/ CheckOdin \/ CheckAbc \/ FixScripts \/ ScriptsRefused
         \/ CheckAce \/ CheckVpr \/ CheckHPower
  PROVE  Pipeline!Report \/ Pipeline!Fail
<1>1. pc # "idle" /\ UNCHANGED <<runs, opts, verdict>> /\ stage \in Stages
  BY ScriptsGoOn
  DEF CheckOdin, CheckAbc, CheckAce, CheckVpr, CheckHPower, CheckStage, FlowInv, Stages, report,
      request
<1>2. stage \in Wanted /\ (error_code # FALSE => stage = stage_idx_hpower)
  <2>1. CASE FixScripts \/ ScriptsRefused
    <3>1. Due(stage)
      BY <2>1, ScriptsJudged DEF FlowInv
    <3>. QED
      BY <1>1, <3>1, DueIsWanted DEF FlowInv
  <2>2. CASE ~(FixScripts \/ ScriptsRefused)
    <3>1. pc = "check"
      BY <2>2 DEF CheckOdin, CheckAbc, CheckAce, CheckVpr, CheckHPower, CheckStage
    <3>. QED
      BY <3>1 DEF FlowInv, AtWork
  <2>. QED
    BY <2>1, <2>2
<1>3. verdict = "running" /\ Asked = Wanted /\ Asked' = Asked
  <2>1. runs > 0 /\ verdict = "running"
    BY <1>1 DEF FlowInv, Started, Active
  <2>2. runs # 0
    BY <2>1
  <2>. QED
    BY <1>1, <2>1, <2>2 DEF Asked, Wanted
<1>4. \/ passed' = passed \cup {stage} /\ error_code' = error_code
      \/ passed' = passed /\ error_code' = TRUE
  <2>1. CASE FixScripts \/ ScriptsRefused
    <3>1. \/ passed' = passed \cup {stage} /\ error_code' = FALSE
          \/ passed' = passed /\ error_code' = TRUE
      BY <2>1, ScriptsJudged DEF FlowInv, JudgeScripts
    <3>2. stage # stage_idx_hpower
      BY <2>1, ScriptsJudged DEF FlowInv
    <3>3. error_code = FALSE
      BY <1>2, <3>2, Zenon
    <3>. QED
      BY <3>1, <3>3
  <2>2. CASE ~(FixScripts \/ ScriptsRefused)
    BY <2>2 DEF CheckOdin, CheckAbc, CheckAce, CheckVpr, CheckHPower, CheckStage, Pass, Fail
  <2>. QED
    BY <2>1, <2>2
<1>5. CASE passed' = passed \cup {stage} /\ error_code' = error_code
  <2>1. \A r \in passed : r < stage
    BY <1>1, Zenon DEF FlowInv, Behind
  <2>2. error_code => stage = stage_idx_hpower
    BY <1>2, Zenon
  <2>. QED
    BY <1>1, <1>2, <1>3, <1>5, <2>1, <2>2 DEF Pipeline!Report
<1>6. CASE passed' = passed /\ error_code' = TRUE
  BY <1>1, <1>3, <1>6 DEF Pipeline!Fail
<1>. QED
  BY <1>4, <1>5, <1>6

\* The last line of a run: OK only when everything asked for was reported.
LEMMA PromiseFinish ==
  ASSUME TypeOK, FlowInv, WriteResults
  PROVE  Pipeline!Finish
<1>1. pc # "idle" /\ stage = stage_idx_hpower + 1
  BY DEF WriteResults
<1>2. UNCHANGED <<passed, error_code, runs, opts>>
  BY DEF WriteResults, request
<1>3. verdict = "running" /\ Asked = Wanted /\ Asked' = Asked
  <2>1. runs > 0 /\ verdict = "running"
    BY <1>1 DEF FlowInv, Started, Active
  <2>2. runs # 0
    BY <2>1
  <2>. QED
    BY <1>2, <2>1, <2>2 DEF Asked, Wanted
<1>4. ~error_code => passed = Asked
  <2>1. SUFFICES ASSUME error_code = FALSE
                 PROVE  passed = Wanted
    BY <1>3 DEF TypeOK, FlagsOK
  <2>2. \A s \in Wanted : s < stage
    <3>1. opts.start \in Stages /\ opts.end \in Stages
      BY <1>1 DEF FlowInv, Started, CommandType
    <3>. QED
      BY <1>1, <3>1 DEF Wanted, Stages
  <2>3. passed \subseteq Wanted
    BY <1>1 DEF FlowInv, Behind
  <2>4. Wanted \subseteq passed
    BY <1>1, <2>1, <2>2 DEF FlowInv, Complete
  <2>. QED
    BY <2>3, <2>4
<1>5. verdict' = IF error_code THEN "failed" ELSE "ok"
  BY DEF WriteResults, Verdict
<1>. QED
  BY <1>2, <1>3, <1>4, <1>5 DEF Pipeline!Finish

\* A run that is lost says nothing of itself.
LEMMA PromiseQuit ==
  ASSUME TypeOK, FlowInv, ToolMissing \/ EndsAsTool \/ Hangup \/ AceDies
  PROVE  Pipeline!Quit
<1>1. pc # "idle" /\ verdict' = "died" /\ UNCHANGED <<passed, error_code, runs, opts>>
  BY DEF ToolMissing, EndsAsTool, StartsTool, Hangup, AceDies, request
<1>2. verdict = "running"
  BY <1>1 DEF FlowInv, Active
<1>. QED
  BY <1>1, <1>2 DEF Pipeline!Quit, Asked, Wanted

\* Every step is one of the promise, or none.
LEMMA PromiseNext ==
  ASSUME TypeOK, FlowInv, [Next]_vars
  PROVE  [Pipeline!Next]_(Pipeline!vars)
BY PromiseStart, PromiseStutters, PromiseCheck, PromiseFinish, PromiseQuit
DEF Next, Script, Pipeline!Next

\* The script keeps the promise of StagePipeline, for any command lines, widths and number
\* of runs.
THEOREM KeepsPromise == Spec => Promise
<1>1. Init => Pipeline!Init
  BY PromiseInit
<1>2. TypeOK /\ FlowInv /\ [Next]_vars => [Pipeline!Next]_(Pipeline!vars)
  BY PromiseNext
<1>. QED
  BY <1>1, <1>2, FlowInvariant, PTL DEF Spec, Promise, Pipeline!Spec

-----------------------------------------------------------------------------
(* The width of the second routing *)

\* What widening does to a width: it is even, and larger but for a width of 2.
LEMMA WidenedIsWider ==
  ASSUME NEW w \in Int
  PROVE  /\ Widened(w) % 2 = 0
         /\ w > 0 /\ w # 2 => Widened(w) > w
<1>1. PICK more \in Int : more = (13 * w) \div 10
  OBVIOUS
<1>2. Widened(w) = more + (more % 2)
  BY <1>1 DEF Widened
<1>3. (more + (more % 2)) % 2 = 0
  BY <1>1
<1>4. w > 0 /\ w # 2 => more + (more % 2) > w
  <2>1. w >= 4 => more > w
    BY <1>1
  <2>2. w = 1 => more = 1
    BY <1>1
  <2>3. w = 3 => more = 3
    BY <1>1
  <2>. QED
    BY <1>1, <2>1, <2>2, <2>3
<1>. QED
  BY <1>2, <1>3, <1>4

SecondWider ==
  second =>
    /\ min_chan_width % 2 = 0
    /\ vpr_out \notin {NoWidth, 2} => min_chan_width > vpr_out

\* The width of a second routing is only set when it is widened.
LEMMA WiderNext ==
  ASSUME TypeOK, SecondWider, [Next]_vars
  PROVE  SecondWider'
<1>1. CASE CheckFirstRouting
  <2>1. SearchedWidth \in Int
    BY WidthInt DEF TypeOK, RequestOK, PlaceOK, SearchedWidth
  <2>2. min_chan_width' = Widened(SearchedWidth) /\ vpr_out' = vpr_out
    BY <1>1 DEF CheckFirstRouting, request
  <2>3. vpr_out \notin {NoWidth, 2} => SearchedWidth = vpr_out /\ vpr_out > 0 /\ vpr_out # 2
    BY WidthAssumption DEF TypeOK, RequestOK, SearchedWidth
  <2>. QED
    BY <2>1, <2>2, <2>3, WidenedIsWider DEF SecondWider
<1>2. CASE UNCHANGED <<second, min_chan_width, vpr_out>>
  BY <1>2 DEF SecondWider
<1>3. CASE second' = FALSE
  BY <1>3 DEF SecondWider
<1>4. CheckFirstRouting \/ UNCHANGED <<second, min_chan_width, vpr_out>> \/ second' = FALSE
  <2>1. CASE Skip \/ CheckOdin \/ CheckAbc \/ FixScripts \/ ScriptsRefused \/ CheckAce \/ CheckVpr
             \/ CheckHPower
    BY <2>1 DEF Skip, CheckOdin, CheckAbc, FixScripts, ScriptsRefused, JudgeScripts, CheckAce,
                CheckVpr, CheckHPower, CheckStage, NextStage
  <2>2. CASE \E o \in Commands : Start(o)
    BY <2>2 DEF Start
  <2>3. CASE Fork \/ Wait \/ Return \/ ToolEnds \/ ToolAborts \/ AlarmRings \/ CallScripts \/ ForkFails
    BY <2>3 DEF Fork, Wait, Return, ToolEnds, ToolAborts, AlarmRings, CallScripts, ForkFails, request
  <2>4. CASE ToolMissing \/ EndsAsTool \/ Hangup \/ AceDies \/ WriteResults \/ UNCHANGED vars
    BY <2>4 DEF ToolMissing, EndsAsTool, Hangup, AceDies, WriteResults, vars, request
  <2>. QED
    BY <2>1, <2>2, <2>3, <2>4 DEF Next, Script
<1>. QED
  BY <1>1, <1>2, <1>3, <1>4

\* The second routing is given an even width, wider than the one of vpr.out, for any widths.
THEOREM RoutedWider == Spec => []WiderAndEven
<1>1. Init => SecondWider
  BY DEF Init, SecondWider
<1>2. SecondWider => WiderAndEven
  BY DEF SecondWider, WiderAndEven
<1>. QED
  BY <1>1, <1>2, WiderNext, FlowTypes, PTL DEF Spec

-----------------------------------------------------------------------------
(* Successes told from an old file *)

\* The first run finds an empty directory; a searched width leaves no old routing that rm was
\* started for; and before the fix scripts have run, what they said is not of this run.
OldFiles ==
  /\ runs = 0 => \A f \in Files : files[f] = "none"
  /\ runs <= 1 => \A f \in Files : files[f] # "old"
  /\ second => files["route"] # "old" \/ stage_idx_vpr \in refused
  /\ pc # "idle" /\ stage <= stage_idx_script => said # "new"

\* Writing and removing files makes none old.
LEMMA NoneGetsOld ==
  ASSUME NEW n, NEW gone, NEW found, NEW f \in Files
  PROVE  /\ Written(n)[f] = "old" => files[f] = "old"
         /\ Without(found, gone)[f] = "old" => found[f] = "old"
BY DEF Written, Without

\* The judgement on the fix scripts makes no file old that was not old for it.
LEMMA JudgedOld ==
  ASSUME NEW found \in [Files -> {"none", "old", "new"}], JudgeScripts(found),
         NEW f \in Files, files'[f] = "old"
  PROVE  found[f] = "old"
<1>1. files' = found \/ files' = Without(found, {"abc"})
  BY DEF JudgeScripts, Cleaned
<1>. QED
  BY <1>1, NoneGetsOld

\* No step but the start of a run makes a file old, or forgets a call that was refused.
LEMMA OldOnlyAtStart ==
  ASSUME TypeOK, InScripts, [Next]_vars, ~\E o \in Commands : Start(o)
  PROVE  /\ \A f \in Files : files'[f] = "old" => files[f] = "old"
         /\ runs' = runs
         /\ refused \subseteq refused'
         /\ pc = "idle" => files' = files
<1>1. CASE \/ Fork \/ Wait \/ Return \/ AlarmRings \/ Skip \/ AceDies \/ WriteResults \/ CallScripts
           \/ ForkFails \/ ToolMissing \/ UNCHANGED vars
  BY <1>1 DEF Fork, Wait, Return, AlarmRings, Skip, AceDies, WriteResults, CallScripts, ForkFails,
              ToolMissing, vars, disk, request
<1>2. CASE ToolEnds \/ ToolAborts \/ EndsAsTool
  <2>1. PICK n : files' = Written(n)
    BY <1>2 DEF ToolEnds, ToolAborts, EndsAsTool
  <2>2. pc # "idle" /\ runs' = runs /\ refused' = refused
    BY <1>2 DEF TypeOK, ProcessOK, ToolEnds, ToolAborts, EndsAsTool, request
  <2>. QED
    BY <2>1, <2>2, NoneGetsOld
<1>3. CASE Hangup
  <2>1. files' = files \/ \E n : files' = Written(n)
    BY <1>3 DEF Hangup
  <2>2. pc # "idle" /\ runs' = runs /\ refused' = refused
    BY <1>3 DEF Hangup, request
  <2>. QED
    BY <2>1, <2>2, NoneGetsOld
<1>4. CASE CheckOdin \/ CheckAbc \/ CheckAce \/ CheckVpr \/ CheckHPower \/ CheckFirstRouting
  <2>1. files' = files \/ \E gone : files' = Without(files, gone)
    BY <1>4 DEF CheckOdin, CheckAbc, CheckAce, CheckVpr, CheckHPower, CheckFirstRouting,
                CheckStage, Pass, Fail, Cleaned, Unrouted
  <2>2. pc # "idle" /\ runs' = runs /\ refused \subseteq refused'
    BY <1>4 DEF CheckOdin, CheckAbc, CheckAce, CheckVpr, CheckHPower, CheckFirstRouting,
                CheckStage, request
  <2>. QED
    BY <2>1, <2>2, NoneGetsOld
<1>5. CASE FixScripts \/ ScriptsRefused
  <2>1. PICK found \in [Files -> {"none", "old", "new"}] :
          /\ JudgeScripts(found)
          /\ found = files \/ \E n : found = Written(n)
          /\ pc \in {"stage", "script"} /\ refused \subseteq refused'
    BY <1>5, ScriptsJudged
  <2>2. pc # "idle" /\ runs' = runs
    BY <2>1 DEF JudgeScripts, request
  <2>3. \A f \in Files : files'[f] = "old" => found[f] = "old"
    BY <2>1, JudgedOld
  <2>4. \A f \in Files : found[f] = "old" => files[f] = "old"
    BY <2>1, NoneGetsOld
  <2>. QED
    BY <2>1, <2>2, <2>3, <2>4
<1>. QED
  BY <1>1, <1>2, <1>3, <1>4, <1>5 DEF Next, Script

\* Every step keeps what is said of old files.
LEMMA OldNext ==
  ASSUME TypeOK, Started, InScripts, OldFiles, [Next]_vars
  PROVE  OldFiles'
<1>0. runs \in Nat
  BY RunAssumption DEF TypeOK, RequestOK
<1>1. CASE \E o \in Commands : Start(o)
  <2>1. PICK o \in Commands : Start(o)
    BY <1>1
  <2>2. runs' = runs + 1 /\ second' = FALSE /\ files' \in {files, Inherited(o)} /\ said' # "new"
    BY <2>1 DEF Start
  <2>3. runs = 0 => \A f \in Files : files'[f] # "old"
    BY <2>2 DEF OldFiles, Inherited, Exists
  <2>. QED
    BY <1>0, <2>2, <2>3 DEF OldFiles
<1>2. CASE ~\E o \in Commands : Start(o)
  <2>1. /\ \A f \in Files : files'[f] = "old" => files[f] = "old"
        /\ runs' = runs
        /\ refused \subseteq refused'
        /\ pc = "idle" => files' = files
    BY <1>2, OldOnlyAtStart
  <2>2. runs = 0 => pc = "idle"
    BY DEF Started
  <2>3. second' => second \/ files'["route"] # "old" \/ stage_idx_vpr \in refused'
    <3>1. CASE CheckFirstRouting
      <4>1. CASE Exists("route")
        BY <3>1, <4>1 DEF CheckFirstRouting, Unrouted, Without, Files
      <4>2. CASE ~Exists("route")
        BY <3>1, <4>2 DEF CheckFirstRouting, Exists
      <4>. QED
        BY <4>1, <4>2
    <3>2. CASE ~CheckFirstRouting
      <4>1. second' = second \/ second' = FALSE
        <5>1. CASE Skip \/ CheckOdin \/ CheckAbc \/ FixScripts \/ ScriptsRefused \/ CheckAce
                   \/ CheckVpr \/ CheckHPower
          BY <5>1 DEF Skip, CheckOdin, CheckAbc, FixScripts, ScriptsRefused, JudgeScripts, CheckAce,
                      CheckVpr, CheckHPower, CheckStage, NextStage
        <5>2. CASE \/ Fork \/ Wait \/ Return \/ ToolEnds \/ ToolAborts \/ AlarmRings \/ CallScripts
                   \/ ForkFails
          BY <5>2 DEF Fork, Wait, Return, ToolEnds, ToolAborts, AlarmRings, CallScripts, ForkFails
        <5>3. CASE ToolMissing \/ EndsAsTool \/ Hangup \/ AceDies \/ WriteResults \/ UNCHANGED vars
          BY <5>3 DEF ToolMissing, EndsAsTool, Hangup, AceDies, WriteResults, vars
        <5>. QED
          BY <1>2, <3>2, <5>1, <5>2, <5>3 DEF Next, Script
      <4>. QED
        BY <4>1
    <3>. QED
      BY <3>1, <3>2
  <2>4. "route" \in Files
    BY DEF Files
  <2>5. pc' # "idle" /\ stage' <= stage_idx_script => said' # "new"
    <3>1. CASE FixScripts \/ ScriptsRefused
      <4>1. stage' = stage_idx_script + 1
        BY <3>1, ScriptsJudged DEF JudgeScripts, NextStage
      <4>. QED
        BY <4>1
    <3>2. CASE Hangup
      BY <3>2 DEF Hangup
    <3>3. CASE ~(FixScripts \/ ScriptsRefused \/ Hangup)
      <4>1. said' = said
        <5>1. CASE Skip \/ CheckOdin \/ CheckAbc \/ CheckAce \/ CheckVpr \/ CheckHPower
                   \/ CheckFirstRouting
          BY <5>1 DEF Skip, CheckOdin, CheckAbc, CheckAce, CheckVpr, CheckHPower, CheckFirstRouting,
                      CheckStage, disk, texts
        <5>2. CASE \/ Fork \/ Wait \/ Return \/ ToolEnds \/ ToolAborts \/ AlarmRings \/ CallScripts
                   \/ ForkFails
          BY <5>2 DEF Fork, Wait, Return, ToolEnds, ToolAborts, AlarmRings, CallScripts, ForkFails,
                      disk, texts
        <5>3. CASE ToolMissing \/ EndsAsTool \/ AceDies \/ WriteResults \/ UNCHANGED vars
          BY <5>3 DEF ToolMissing, EndsAsTool, AceDies, WriteResults, vars, disk, texts
        <5>. QED
          BY <1>2, <3>3, <5>1, <5>2, <5>3 DEF Next, Script
      <4>2. pc' # "idle" => pc # "idle" /\ (stage' = stage \/ stage' = stage + 1)
        <5>1. CASE Skip \/ CheckOdin \/ CheckAbc \/ CheckAce \/ CheckVpr \/ CheckHPower
                   \/ CheckFirstRouting
          BY <5>1 DEF Skip, CheckOdin, CheckAbc, CheckAce, CheckVpr, CheckHPower, CheckFirstRouting,
                      CheckStage, NextStage
        <5>2. CASE \/ Fork \/ Wait \/ Return \/ ToolEnds \/ ToolAborts \/ AlarmRings \/ CallScripts
                   \/ ForkFails
          BY <5>2 DEF TypeOK, ProcessOK, Fork, StartsTool, Wait, Return, ToolEnds, ToolAborts, AlarmRings,
                      CallScripts, StartsScript, ForkFails
        <5>3. CASE ToolMissing \/ EndsAsTool \/ AceDies \/ WriteResults \/ UNCHANGED vars
          BY <5>3 DEF ToolMissing, EndsAsTool, AceDies, WriteResults, vars
        <5>. QED
          BY <1>2, <3>3, <5>1, <5>2, <5>3 DEF Next, Script
      <4>3. stage \in Int
        BY DEF TypeOK, PlaceOK
      <4>. QED
        BY <4>1, <4>2, <4>3 DEF OldFiles
    <3>. QED
      BY <3>1, <3>2, <3>3
  <2>. QED
    BY <2>1, <2>2, <2>3, <2>4, <2>5 DEF OldFiles
<1>. QED
  BY <1>1, <1>2

\* A stage that is reported successful for an old file.
LEMMA OldSuccess ==
  ASSUME TypeOK, InScripts, OldFiles, [Next]_vars, NEW s \in passed' \ passed,
         s # stage_idx_hpower, files'[Evidence[s]] = "old"
  PROVE  /\ runs > 1
         /\ s = stage_idx_script => s \in refused' /\ said' = "old"
         /\ s = stage_idx_vpr /\ Searches => s \in refused'
<1>1. CASE CheckOdin \/ CheckAbc \/ CheckAce \/ CheckVpr
  <2>1. s = stage /\ stage \in {1, 2, 4, 5} /\ (s = stage_idx_vpr => (Searches => second))
    BY <1>1 DEF CheckOdin, CheckAbc, CheckAce, CheckVpr, CheckStage, Pass, Fail
  <2>2. Evidence[s] \in Files
    BY <2>1 DEF Evidence, Files
  <2>3. files' = files \/ \E gone : files' = Without(files, gone)
    BY <1>1 DEF CheckOdin, CheckAbc, CheckAce, CheckVpr, CheckStage, Pass, Fail, Cleaned
  <2>4. files[Evidence[s]] = "old"
    BY <2>2, <2>3, NoneGetsOld
  <2>5. runs > 1
    BY <2>2, <2>4, RunAssumption DEF OldFiles, TypeOK, RequestOK
  <2>6. s = stage_idx_vpr /\ Searches => s \in refused'
    <3>1. SUFFICES ASSUME s = stage_idx_vpr, Searches PROVE s \in refused'
      OBVIOUS
    <3>2. Evidence[s] = "route"
      BY <3>1 DEF Evidence
    <3>3. refused' = refused
      BY <1>1 DEF CheckOdin, CheckAbc, CheckAce, CheckVpr, CheckStage
    <3>. QED
      BY <2>1, <2>4, <3>1, <3>2, <3>3 DEF OldFiles
  <2>. QED
    BY <2>1, <2>5, <2>6
<1>2. CASE FixScripts \/ ScriptsRefused
  <2>1. PICK found \in [Files -> {"none", "old", "new"}] :
          /\ JudgeScripts(found)
          /\ stage = stage_idx_script
          /\ pc \in {"stage", "script"}
          /\ \/ \E n \in 0 .. 1, success \in BOOLEAN : found = Written(n) /\ ScriptsWrite(n, success)
             \/ /\ refused' = refused \cup {stage}
                /\ found = files /\ said' = said
    BY <1>2, ScriptsJudged
  <2>2. s = stage_idx_script /\ said' # "no"
    BY <2>1 DEF JudgeScripts
  <2>3. Evidence[s] = "pre_vpr" /\ "pre_vpr" \in Files
    BY <2>2 DEF Evidence, Files
  <2>4. found["pre_vpr"] = "old"
    BY <2>1, <2>3, JudgedOld
  <2>5. CASE \E n \in 0 .. 1, success \in BOOLEAN : found = Written(n) /\ ScriptsWrite(n, success)
    <3>1. PICK n \in 0 .. 1, success \in BOOLEAN : found = Written(n) /\ ScriptsWrite(n, success)
      BY <2>5
    <3>2. n = 1
      BY <2>2, <3>1 DEF ScriptsWrite
    <3>3. Written(n)["pre_vpr"] = "new"
      BY <2>1, <2>3, <3>2 DEF Written, Outputs
    <3>. QED
      BY <2>4, <3>1, <3>3
  <2>6. CASE refused' = refused \cup {stage} /\ found = files /\ said' = said
    <3>1. said' = "old"
      BY <2>1, <2>2, <2>6 DEF OldFiles, TypeOK, DiskOK
    <3>2. runs > 1
      BY <2>3, <2>4, <2>6, RunAssumption DEF OldFiles, TypeOK, RequestOK
    <3>. QED
      BY <2>1, <2>2, <2>6, <3>1, <3>2
  <2>. QED
    BY <2>1, <2>5, <2>6
<1>3. CASE CheckHPower
  BY <1>3 DEF CheckHPower, Pass
<1>4. CASE \E o \in Commands : Start(o)
  BY <1>4 DEF Start
<1>5. CASE \/ Fork \/ Wait \/ Return \/ ToolEnds \/ ToolAborts \/ AlarmRings \/ CheckFirstRouting
           \/ CallScripts \/ ForkFails
  BY <1>5 DEF Fork, Wait, Return, ToolEnds, ToolAborts, AlarmRings, CheckFirstRouting, CallScripts,
              ForkFails, report
<1>6. CASE Skip \/ ToolMissing \/ EndsAsTool \/ Hangup \/ AceDies \/ WriteResults \/ UNCHANGED vars
  BY <1>6 DEF Skip, ToolMissing, EndsAsTool, Hangup, AceDies, WriteResults, vars, report
<1>. QED
  BY <1>1, <1>2, <1>3, <1>4, <1>5, <1>6 DEF Next, Script

\* A file of an earlier run makes a stage successful only in a directory that has had one; and
\* the fix scripts, or the routing of a searched width, only when the system has refused the
\* process that was to write fix_scripts.out anew, or to remove the first routing.
THEOREM OldFilesTellLittle == Spec => SuccessIsOfThisRun
<1>1. Init => OldFiles
  BY DEF Init, OldFiles
<1>2. TypeOK /\ FlowInv /\ OldFiles /\ [Next]_vars => OldFiles'
  BY OldNext DEF FlowInv
<1>3. TypeOK /\ FlowInv /\ OldFiles /\ [Next]_vars =>
        [\A s \in passed' \ passed :
           s # stage_idx_hpower /\ files'[Evidence[s]] = "old" =>
             /\ runs > 1
             /\ s = stage_idx_script => s \in refused' /\ said' = "old"
             /\ s = stage_idx_vpr /\ Searches => s \in refused']_vars
  BY OldSuccess DEF FlowInv
<1>. QED
  BY <1>1, <1>2, <1>3, FlowInvariant, PTL DEF Spec, SuccessIsOfThisRun

-----------------------------------------------------------------------------
(* A tool of the flow finds its inputs: no clean-up takes away what a later *)
(* stage reads, and a file of an earlier run stands in for it only where    *)
(* there was one.                                                           *)

\* The evidence of a stage that the clean-up of a later one may have removed.
Spent(s) == \/ s = stage_idx_odin /\ stage > stage_idx_abc
            \/ s = stage_idx_abc /\ stage > stage_idx_script

\* What the stages behind have made is there, until no stage is to read it.
MadeSoFar == pc # "idle" /\ error_code = FALSE =>
  \A s \in Wanted : s < stage /\ s # stage_idx_hpower /\ ~Spent(s) => Exists(Evidence[s])

\* VPR writes its placement before its routing, and the second routing needs a first one.
PlaceFirst == Exists("route") => Exists("place")
PlaceOfFirst == second /\ pc \in {"stage", "wait", "reaped", "tool"} => Exists("place")

\* The routing of a searched width is of this run, and the netlist of the fix scripts, when the
\* system has not refused a process.
RouteIsNew == pc # "idle" /\ error_code = FALSE /\ Searches /\ stage_idx_vpr \in Wanted
              /\ stage > stage_idx_vpr => files["route"] # "old" \/ stage_idx_vpr \in refused
NetlistIsNew == pc # "idle" /\ error_code = FALSE /\ stage_idx_script \in Wanted
                /\ stage > stage_idx_script => files["pre_vpr"] # "old" \/ stage_idx_script \in refused

MadeInv == MadeSoFar /\ PlaceFirst /\ PlaceOfFirst /\ RouteIsNew /\ NetlistIsNew

-----------------------------------------------------------------------------
\* A tool writes its outputs and removes nothing; only VPR writes a routing, and in its first
\* run the placement comes before it.
LEMMA WrittenThere ==
  ASSUME stage \in Stages, NEW n \in 0 .. Len(Outputs(stage)), files' = Written(n)
  PROVE  /\ \A f \in Files : Exists(f) => Exists(f)'
         /\ stage # stage_idx_vpr => files'["route"] = files["route"]
         /\ Exists("route")' => Exists("route") \/ second \/ Exists("place")'
<1> DEFINE Makes(f) == \E i \in 1 .. n : Outputs(stage)[i] = f
<1>1. \A f \in Files : files'[f] = IF Makes(f) THEN "new" ELSE files[f]
  BY DEF Written
<1>2. "route" \in Files /\ "place" \in Files
  BY DEF Files
<1>3. stage # stage_idx_vpr => ~Makes("route")
  <2>1. CASE stage = stage_idx_odin
    <3>1. Outputs(stage) = <<"odin">>
      BY <2>1 DEF Outputs
    <3>. QED
      BY <2>1, <3>1
  <2>2. CASE stage = stage_idx_abc
    <3>1. Outputs(stage) = <<"abc">>
      BY <2>2 DEF Outputs
    <3>. QED
      BY <2>2, <3>1
  <2>3. CASE stage = stage_idx_script
    <3>1. Outputs(stage) = <<"pre_vpr">>
      BY <2>3 DEF Outputs
    <3>. QED
      BY <2>3, <3>1
  <2>4. CASE stage = stage_idx_ace
    <3>1. Outputs(stage) = <<"act", "blif">>
      BY <2>4 DEF Outputs
    <3>. QED
      BY <2>4, <3>1
  <2>5. CASE stage = stage_idx_hpower
    <3>1. Outputs(stage) = <<>>
      BY <2>5 DEF Outputs
    <3>. QED
      BY <2>5, <3>1
  <2>. QED
    BY <2>1, <2>2, <2>3, <2>4, <2>5 DEF Stages
<1>4. stage = stage_idx_vpr /\ ~second /\ Makes("route") => Makes("place")
  <2>1. SUFFICES ASSUME stage = stage_idx_vpr, ~second,
                        NEW i \in 1 .. n, Outputs(stage)[i] = "route"
                 PROVE  Makes("place")
    OBVIOUS
  <2>2. Outputs(stage) = <<"place", "route">>
    BY <2>1 DEF Outputs
  <2>3. n \in Int /\ 1 <= n
    BY <2>2
  <2>. QED
    BY <2>2, <2>3
<1>. HIDE DEF Makes
<1>. QED
  BY <1>1, <1>2, <1>3, <1>4 DEF Exists

\* Within a stage nothing is removed, and what VPR adds comes in its order.
LEMMA MadeWithin ==
  ASSUME TypeOK, FlowInv, MadeInv,
         Fork \/ Wait \/ Return \/ ToolEnds \/ ToolAborts \/ AlarmRings \/ CallScripts \/ ForkFails
  PROVE  MadeInv'
<1>1. /\ UNCHANGED <<opts, stage, error_code, second, refused>> /\ Wanted' = Wanted /\ Searches' = Searches
      /\ pc # "idle" /\ pc' # "idle"
      /\ pc' \in {"stage", "wait", "reaped", "tool"} => pc \in {"stage", "wait", "reaped", "tool"}
  BY DEF TypeOK, ProcessOK, Fork, StartsTool, StartsScript, Wait, Return, ToolEnds, ToolAborts, AlarmRings,
         CallScripts, ForkFails, request, report, disk, Wanted, Searches
<1>2. stage \in Stages \/ files' = files
  <2>1. pc = "wait" => stage \in Wanted /\ Wanted \subseteq Stages
    BY DEF FlowInv, AtWork, Started, CommandType, Wanted, Stages
  <2>. QED
    BY <2>1 DEF Fork, Wait, Return, ToolEnds, ToolAborts, AlarmRings, CallScripts, ForkFails, TypeOK,
                ProcessOK, disk
<1>3. /\ \A f \in Files : Exists(f) => Exists(f)'
      /\ stage # stage_idx_vpr => files'["route"] = files["route"]
      /\ Exists("route")' => Exists("route") \/ second \/ Exists("place")'
  <2>1. CASE files' = files
    BY <2>1 DEF Exists
  <2>2. CASE \E n \in 0 .. Len(Outputs(stage)) : files' = Written(n)
    <3>1. CASE stage \in Stages
      BY <2>2, <3>1, WrittenThere
    <3>. QED
      BY <1>2, <2>1, <3>1
  <2>. QED
    BY <2>1, <2>2 DEF Fork, Wait, Return, ToolEnds, ToolAborts, AlarmRings, CallScripts, ForkFails, disk
<1>4. \A s \in Stages : s # stage_idx_hpower => Evidence[s] \in Files
  BY DEF Stages, Evidence, Files
<1>5. "route" \in Files /\ "place" \in Files
  BY DEF Files
<1>6. MadeSoFar'
  <2>1. Wanted \subseteq Stages
    BY <1>1 DEF FlowInv, Started, CommandType, Wanted, Stages
  <2>2. \A s \in Wanted : Spent(s)' <=> Spent(s)
    BY <1>1 DEF Spent
  <2>. QED
    BY <1>1, <1>3, <1>4, <2>1, <2>2 DEF MadeInv, MadeSoFar
<1>7. PlaceOfFirst'
  BY <1>1, <1>3, <1>5 DEF MadeInv, PlaceOfFirst
<1>8. PlaceFirst'
  <2>1. CASE files' = files
    BY <2>1 DEF MadeInv, PlaceFirst, Exists
  <2>2. CASE files' # files
    <3>1. pc = "wait"
      BY <2>2 DEF Fork, Wait, Return, ToolEnds, ToolAborts, AlarmRings, CallScripts, ForkFails,
                  TypeOK, ProcessOK, disk
    <3>. QED
      BY <1>3, <1>5, <3>1 DEF MadeInv, PlaceFirst, PlaceOfFirst
  <2>. QED
    BY <2>1, <2>2
<1>9. RouteIsNew'
  <2>1. stage > stage_idx_vpr => stage # stage_idx_vpr
    OBVIOUS
  <2>. QED
    BY <1>1, <1>3, <2>1 DEF MadeInv, RouteIsNew
<1>10. NetlistIsNew'
  <2>1. files'["pre_vpr"] = "old" => files["pre_vpr"] = "old"
    <3>1. CASE files' = files
      BY <3>1
    <3>2. CASE \E n \in 0 .. Len(Outputs(stage)) : files' = Written(n)
      BY <3>2, NoneGetsOld DEF Files
    <3>. QED
      BY <3>1, <3>2 DEF Fork, Wait, Return, ToolEnds, ToolAborts, AlarmRings, CallScripts, ForkFails, disk
  <2>. QED
    BY <1>1, <2>1 DEF MadeInv, NetlistIsNew
<1>. QED
  BY <1>6, <1>7, <1>8, <1>9, <1>10 DEF MadeInv

\* A run that is over leaves the placement with the routing.
LEMMA MadeOver ==
  ASSUME TypeOK, FlowInv, MadeInv, ToolMissing \/ EndsAsTool \/ Hangup \/ AceDies \/ WriteResults
  PROVE  MadeInv'
<1>1. pc' = "idle"
  BY DEF ToolMissing, EndsAsTool, Hangup, AceDies, WriteResults
<1>2. PlaceFirst'
  <2>1. CASE files' = files
    BY <2>1 DEF MadeInv, PlaceFirst, Exists
  <2>2. CASE files' # files
    <3>1. /\ pc \in {"wait", "tool"} \/ stage = stage_idx_script
          /\ stage \in Stages
          /\ \E n \in 0 .. Len(Outputs(stage)) : files' = Written(n)
      <4>1. pc \in {"wait", "tool"} => stage \in Wanted /\ Wanted \subseteq Stages
        <5>1. pc \in {"wait", "tool"} => stage \in Wanted /\ opts \in CommandType
          BY DEF FlowInv, AtWork, Started
        <5>2. opts \in CommandType => Wanted \subseteq Stages
          BY DEF CommandType, Wanted, Stages
        <5>. QED
          BY <5>1, <5>2
      <4>2. CASE pc \in {"wait", "tool"} /\ \E n \in 0 .. Len(Outputs(stage)) : files' = Written(n)
        BY <4>1, <4>2
      <4>3. CASE pc = "script" /\ \E n \in 0 .. 1 : files' = Written(n)
        <5>1. stage = stage_idx_script
          BY <4>3 DEF FlowInv, InScripts
        <5>2. Len(Outputs(stage)) = 1
          BY <5>1 DEF Outputs
        <5>. QED
          BY <4>3, <5>1, <5>2 DEF Stages
      <4>4. CASE EndsAsTool
        BY <4>2, <4>4 DEF EndsAsTool
      <4>5. CASE Hangup
        <5>1. \/ /\ child = "running" \/ pc = "tool"
                 /\ \E n \in 0 .. Len(Outputs(stage)) : files' = Written(n)
              \/ pc = "script" /\ \E n \in 0 .. 1 : files' = Written(n)
          BY <2>2, <4>5 DEF Hangup
        <5>2. child = "running" => pc = "wait"
          BY DEF TypeOK, ProcessOK
        <5>. QED
          BY <4>2, <4>3, <5>1, <5>2
      <4>6. CASE ToolMissing \/ AceDies \/ WriteResults
        BY <2>2, <4>6 DEF ToolMissing, AceDies, WriteResults, disk
      <4>. QED
        BY <4>4, <4>5, <4>6
    <3>2. /\ \A f \in Files : Exists(f) => Exists(f)'
          /\ Exists("route")' => Exists("route") \/ second \/ Exists("place")'
      BY <3>1, WrittenThere
    <3>3. "place" \in Files /\ "route" \in Files
      BY DEF Files
    <3>4. CASE pc \in {"wait", "tool"}
      BY <3>2, <3>3, <3>4 DEF MadeInv, PlaceFirst, PlaceOfFirst
    <3>5. CASE stage = stage_idx_script
      <4>1. files'["route"] = files["route"]
        BY <3>1, <3>5, WrittenThere
      <4>. QED
        BY <3>2, <3>3, <4>1 DEF MadeInv, PlaceFirst, Exists
    <3>. QED
      BY <3>1, <3>4, <3>5
  <2>. QED
    BY <2>1, <2>2
<1>. QED
  BY <1>1, <1>2 DEF MadeInv, MadeSoFar, PlaceOfFirst, RouteIsNew, NetlistIsNew

\* A new run has nothing behind it.
LEMMA MadeStart ==
  ASSUME TypeOK, FlowInv, MadeInv, NEW o \in Commands, Start(o)
  PROVE  MadeInv'
<1>1. /\ stage' = stage_idx_odin /\ second' = FALSE /\ opts' = o
      /\ files' = files \/ files' = Inherited(o)
  BY DEF Start
<1>2. PlaceFirst'
  BY <1>1 DEF MadeInv, PlaceFirst, Exists, Inherited, Files
<1>3. MadeSoFar'
  <2>1. \A s \in Wanted' : ~(s < stage')
    BY <1>1, CommandAssumption DEF CommandType, Wanted, Stages
  <2>. QED
    BY <2>1 DEF MadeSoFar
<1>. QED
  BY <1>1, <1>2, <1>3 DEF MadeInv, PlaceOfFirst, RouteIsNew, NetlistIsNew

\* The second routing begins with a placement, and without the first routing if rm was started.
LEMMA MadeFirstRouting ==
  ASSUME TypeOK, FlowInv, MadeInv, CheckFirstRouting
  PROVE  MadeInv'
<1>1. /\ pc = "check" /\ stage = stage_idx_vpr /\ UNCHANGED <<stage, opts, error_code>>
      /\ Wanted' = Wanted /\ Searches' = Searches
  BY DEF CheckFirstRouting, request, report, Wanted, Searches
<1>2. \/ Exists("route") /\ files' \in {files, Without(files, {"route"})} /\ pc' = "stage"
      \/ ~Exists("route") /\ files' = files /\ pc' = "check"
  BY <1>1 DEF CheckFirstRouting, Unrouted
<1>3. \A f \in Files \ {"route"} : Exists(f)' <=> Exists(f)
  BY <1>2 DEF Exists, Without
<1>4. /\ Exists("route")' => Exists("route")
      /\ files'["pre_vpr"] = files["pre_vpr"]
      /\ refused \subseteq refused'
  BY <1>2 DEF CheckFirstRouting, Exists, Without, Files
<1>5. "place" \in Files \ {"route"}
  BY DEF Files
<1>6. MadeSoFar'
  <2>1. Wanted \subseteq Stages
    BY <1>1 DEF FlowInv, Started, CommandType, Wanted, Stages
  <2>2. \A s \in Stages : s < stage_idx_vpr => Evidence[s] \in Files \ {"route"}
    BY DEF Stages, Evidence, Files
  <2>3. \A s \in Wanted : Spent(s)' <=> Spent(s)
    BY <1>1 DEF Spent
  <2>. QED
    BY <1>1, <1>3, <2>1, <2>2, <2>3 DEF MadeInv, MadeSoFar
<1>7. PlaceOfFirst'
  BY <1>2, <1>3, <1>5 DEF MadeInv, PlaceFirst, PlaceOfFirst
<1>. QED
  BY <1>1, <1>3, <1>4, <1>5, <1>6, <1>7 DEF MadeInv, PlaceFirst, RouteIsNew, NetlistIsNew

\* Going on to the next stage: the stage left its evidence, and nothing else is removed but
\* what no later stage reads.
LEMMA MadeNextStage ==
  ASSUME TypeOK, FlowInv, MadeInv, pc # "idle", NextStage, UNCHANGED opts, stage \in Stages,
         error_code' = FALSE => error_code = FALSE,
         error_code' = FALSE /\ stage \in Wanted /\ stage # stage_idx_hpower =>
           files'[Evidence[stage]] # "none",
         \A f \in Files : \/ Exists(f) => Exists(f)'
                          \/ f = "odin" /\ stage >= stage_idx_abc
                          \/ f = "abc" /\ stage >= stage_idx_script,
         Exists("route")' => Exists("route"),
         \A f \in Files : files'[f] = "old" => files[f] = "old",
         refused \subseteq refused',
         error_code' = FALSE /\ stage = stage_idx_script /\ stage \in Wanted =>
           files'["pre_vpr"] # "old" \/ stage \in refused',
         error_code' = FALSE /\ stage = stage_idx_vpr /\ stage \in Wanted /\ Searches =>
           files["route"] # "old" \/ stage \in refused'
  PROVE  MadeInv'
<1>1. stage' = stage + 1 /\ second' = FALSE /\ Wanted' = Wanted /\ Searches' = Searches
  BY DEF NextStage, Wanted, Searches
<1>2. Wanted \subseteq Stages
  BY DEF FlowInv, Started, CommandType, Wanted, Stages
<1>3. MadeSoFar'
  <2>1. SUFFICES ASSUME error_code' = FALSE, NEW s \in Wanted, s < stage + 1,
                        s # stage_idx_hpower, ~Spent(s)'
                 PROVE  files'[Evidence[s]] # "none"
    BY <1>1 DEF MadeSoFar, Exists
  <2>2. CASE s = stage
    BY <2>1, <2>2
  <2>3. CASE s # stage
    <3>1. s \in Stages /\ s < stage
      BY <1>2, <2>1, <2>3 DEF Stages
    <3>2. ~Spent(s)
      BY <1>1, <2>1, <3>1 DEF Spent, Stages
    <3>3. Exists(Evidence[s])
      BY <2>1, <3>1, <3>2 DEF MadeInv, MadeSoFar
    <3>4. /\ Evidence[s] \in Files
          /\ Evidence[s] = "odin" => s = stage_idx_odin
          /\ Evidence[s] = "abc" => s = stage_idx_abc
      BY <2>1, <3>1 DEF Stages, Evidence, Files
    <3>5. /\ Evidence[s] = "odin" => ~(stage >= stage_idx_abc)
          /\ Evidence[s] = "abc" => ~(stage >= stage_idx_script)
      BY <1>1, <2>1, <3>4 DEF Spent, Stages
    <3>. QED
      BY <3>3, <3>4, <3>5 DEF Exists
  <2>. QED
    BY <2>2, <2>3
<1>4. PlaceFirst'
  <2>1. "place" \in Files
    BY DEF Files
  <2>. QED
    BY <2>1 DEF MadeInv, PlaceFirst
<1>5. RouteIsNew'
  <2>1. stage + 1 > stage_idx_vpr => stage = stage_idx_vpr \/ stage > stage_idx_vpr
    BY DEF Stages
  <2>2. "route" \in Files
    BY DEF Files
  <2>. QED
    BY <1>1, <2>1, <2>2 DEF MadeInv, RouteIsNew
<1>6. NetlistIsNew'
  <2>1. stage + 1 > stage_idx_script => stage = stage_idx_script \/ stage > stage_idx_script
    BY DEF Stages
  <2>2. "pre_vpr" \in Files
    BY DEF Files
  <2>. QED
    BY <1>1, <2>1, <2>2 DEF MadeInv, NetlistIsNew
<1>. QED
  BY <1>1, <1>3, <1>4, <1>5, <1>6 DEF MadeInv, PlaceOfFirst

\* What each stage leaves to the next.
LEMMA MadePassing ==
  ASSUME TypeOK, FlowInv, OldFiles, MadeInv,
         \/ Skip \/ CheckOdin \/ CheckAbc \/ FixScripts \/ ScriptsRefused
         \/ CheckAce \/ CheckVpr \/ CheckHPower
  PROVE  MadeInv'
<1>1. pc # "idle" /\ NextStage /\ UNCHANGED opts /\ stage \in Stages
  BY ScriptsGoOn
  DEF Skip, CheckOdin, CheckAbc, CheckAce, CheckVpr, CheckHPower, CheckStage, FlowInv, Stages,
      report, request
<1>0. /\ \A f \in Files : files'[f] = "old" => files[f] = "old"
      /\ refused \subseteq refused'
  <2>1. [Next]_vars /\ ~\E o \in Commands : Start(o)
    BY <1>1 DEF Next, Script, Start
  <2>. QED
    BY <2>1, OldOnlyAtStart DEF FlowInv
<1>2. CASE Skip
  <2>1. files' = files /\ error_code' = error_code /\ ~Due(stage)
    BY <1>2 DEF Skip, report, disk
  <2>2. error_code = FALSE => stage \notin Wanted
    BY <1>1, <2>1, NotDueIsUnwanted DEF FlowInv
  <2>3. \A f \in Files : Exists(f) => Exists(f)'
    BY <2>1 DEF Exists
  <2>4. Exists("route")' => Exists("route")
    BY <2>1 DEF Exists
  <2>. QED
    BY <1>0, <1>1, <2>1, <2>2, <2>3, <2>4, MadeNextStage
<1>3. CASE FixScripts \/ ScriptsRefused
  <2>1. PICK found \in [Files -> {"none", "old", "new"}] :
          /\ JudgeScripts(found)
          /\ stage = stage_idx_script /\ Due(stage)
          /\ \/ \E n \in 0 .. 1, success \in BOOLEAN : found = Written(n) /\ ScriptsWrite(n, success)
             \/ refused' = refused \cup {stage} /\ found = files
    BY <1>3, ScriptsJudged DEF FlowInv
  <2>2. error_code = FALSE
    BY <2>1 DEF Due, TypeOK, FlagsOK
  <2>3. Outputs(stage) = <<"pre_vpr">>
    BY <2>1 DEF Outputs
  <2>4. \A f \in Files : found[f] = files[f] \/ (f = "pre_vpr" /\ found[f] = "new")
    <3>1. CASE found = files
      BY <3>1
    <3>2. CASE \E n \in 0 .. 1 : found = Written(n)
      BY <2>3, <3>2 DEF Written
    <3>. QED
      BY <2>1, <3>1, <3>2
  <2>5. \A f \in Files : files'[f] = found[f] \/ (f = "abc" /\ files'[f] = "none")
    <3>1. files' = found \/ files' = Without(found, {"abc"})
      BY <2>1 DEF JudgeScripts, Cleaned
    <3>. QED
      BY <3>1 DEF Without
  <2>6. \A f \in Files : (Exists(f) => Exists(f)') \/ (f = "abc" /\ stage >= stage_idx_script)
    BY <2>1, <2>4, <2>5 DEF Exists
  <2>7. Exists("route")' => Exists("route")
    BY <2>4, <2>5 DEF Exists, Files
  <2>8. files'["pre_vpr"] = found["pre_vpr"]
    BY <2>5 DEF Files
  <2>9. error_code' = FALSE => found["pre_vpr"] # "none" /\ said' # "no"
    BY <2>1 DEF JudgeScripts
  <2>10. error_code' = FALSE => files'["pre_vpr"] # "old" \/ stage \in refused'
    <3>1. CASE stage \in refused'
      BY <3>1
    <3>2. CASE \E n \in 0 .. 1, success \in BOOLEAN : found = Written(n) /\ ScriptsWrite(n, success)
      <4>1. PICK n \in 0 .. 1, success \in BOOLEAN : found = Written(n) /\ ScriptsWrite(n, success)
        BY <3>2
      <4>2. error_code' = FALSE => n = 1
        BY <2>9, <4>1 DEF ScriptsWrite
      <4>3. n = 1 => Written(n)["pre_vpr"] = "new"
        BY <2>3 DEF Written, Files
      <4>. QED
        BY <2>8, <4>1, <4>2, <4>3
    <3>. QED
      BY <2>1, <3>1, <3>2
  <2>11. Evidence[stage] = "pre_vpr" /\ stage # stage_idx_vpr
    BY <2>1 DEF Evidence
  <2>12. error_code' = FALSE => files'[Evidence[stage]] # "none"
    BY <2>8, <2>9, <2>11
  <2>. QED
    BY <1>0, <1>1, <2>2, <2>6, <2>7, <2>10, <2>11, <2>12, MadeNextStage
<1>4. CASE CheckOdin \/ CheckAbc \/ CheckAce \/ CheckVpr \/ CheckHPower
  <2>1. PICK spent \in {{}, {"odin"}} :
          /\ spent = {"odin"} => stage = stage_idx_abc
          /\ files' = files \/ files' = Without(files, spent)
          /\ error_code' = FALSE => error_code = FALSE
          /\ error_code' = FALSE /\ stage # stage_idx_hpower => Exists(Evidence[stage])
    BY <1>4 DEF CheckOdin, CheckAbc, CheckAce, CheckVpr, CheckHPower, CheckStage, Pass, Fail, Cleaned,
                Succeeded
  <2>2. \A f \in Files : files'[f] = files[f] \/ (f \in spent /\ files'[f] = "none")
    BY <2>1 DEF Without
  <2>3. \A f \in Files : (Exists(f) => Exists(f)') \/ (f = "odin" /\ stage >= stage_idx_abc)
    BY <2>1, <2>2 DEF Exists
  <2>4. files'["route"] = files["route"]
    BY <2>1, <2>2 DEF Files
  <2>5. stage # stage_idx_hpower => files'[Evidence[stage]] = files[Evidence[stage]]
    <3>1. stage # stage_idx_hpower => Evidence[stage] \in Files /\ (stage = stage_idx_abc => Evidence[stage] = "abc")
      BY <1>1 DEF Evidence, Files, Stages
    <3>. QED
      BY <2>1, <2>2, <3>1
  <2>6. stage = stage_idx_vpr /\ Searches => files["route"] # "old" \/ stage \in refused'
    BY <1>0, <1>4 DEF CheckOdin, CheckAbc, CheckAce, CheckVpr, CheckHPower, CheckStage, OldFiles
  <2>7. Exists("route")' => Exists("route")
    BY <2>4 DEF Exists
  <2>8. error_code' = FALSE /\ stage # stage_idx_hpower => files'[Evidence[stage]] # "none"
    BY <2>1, <2>5 DEF Exists
  <2>9. stage # stage_idx_script
    BY <1>4 DEF CheckOdin, CheckAbc, CheckAce, CheckVpr, CheckHPower, CheckStage
  <2>. QED
    BY <1>0, <1>1, <2>1, <2>3, <2>6, <2>7, <2>8, <2>9, MadeNextStage
<1>. QED
  BY <1>2, <1>3, <1>4

\* Every step keeps what has been made.
LEMMA MadeStep ==
  ASSUME TypeOK, FlowInv, OldFiles, MadeInv, [Next]_vars
  PROVE  MadeInv'
<1>1. CASE UNCHANGED vars
  BY <1>1 DEF MadeInv, MadeSoFar, PlaceFirst, PlaceOfFirst, RouteIsNew, NetlistIsNew, Spent, Exists,
              Wanted, Searches,
              vars, report, request, disk
<1>. QED
  BY <1>1, MadeStart, MadeWithin, MadeOver, MadeFirstRouting, MadePassing DEF Next, Script

\* With what has been made, a tool finds what it reads.
LEMMA MadeIsThere ==
  ASSUME TypeOK, FlowInv, OldFiles, MadeInv
  PROVE  InputsMade
<1> SUFFICES ASSUME child = "running" \/ StartsScript, error_code = FALSE,
                    NEW f \in Reads(stage), MakerOf[f] \in Wanted
             PROVE  /\ Exists(f)
                    /\ files[f] = "old" =>
                         /\ runs > 1
                         /\ f = "pre_vpr" \/ (f = "route" /\ Searches) => MakerOf[f] \in refused
  BY DEF InputsMade, TypeOK, FlagsOK
<1>1. pc \in {"stage", "wait"}
  BY DEF TypeOK, ProcessOK, StartsScript
<1>2. stage \in Stages
  <2>1. pc = "wait" => stage \in Wanted /\ Wanted \subseteq Stages
    BY DEF FlowInv, AtWork, Started, CommandType, Wanted, Stages
  <2>. QED
    BY <1>1, <2>1 DEF TypeOK, ProcessOK, StartsScript, Stages
<1>3. Exists(f)
  <2>1. CASE stage = stage_idx_vpr
    <3>1. second /\ f = "place"
      BY <2>1 DEF Reads
    <3>. QED
      BY <1>1, <3>1 DEF MadeInv, PlaceOfFirst
  <2>2. CASE stage # stage_idx_vpr
    <3>1. /\ f \in {"odin", "abc", "pre_vpr", "act", "place", "route"}
          /\ MakerOf[f] < stage /\ ~Spent(MakerOf[f]) /\ MakerOf[f] \in Stages \ {stage_idx_hpower}
      BY <1>2, <2>2 DEF Reads, MakerOf, Spent, Stages
    <3>2. Exists(Evidence[MakerOf[f]])
      BY <1>1, <3>1 DEF MadeInv, MadeSoFar
    <3>3. CASE f = "place"
      <4>1. Evidence[MakerOf[f]] = "route"
        BY <3>3 DEF MakerOf, Evidence
      <4>. QED
        BY <3>2, <3>3, <4>1 DEF MadeInv, PlaceFirst
    <3>4. CASE f # "place"
      <4>1. Evidence[MakerOf[f]] = f
        BY <3>1, <3>4 DEF MakerOf, Evidence
      <4>. QED
        BY <3>2, <4>1
    <3>. QED
      BY <3>3, <3>4
  <2>. QED
    BY <2>1, <2>2
<1>4. f \in Files
  BY <1>2 DEF Reads, Files, Stages
<1>5. files[f] = "old" => runs > 1
  BY <1>4, RunAssumption DEF OldFiles, TypeOK, RequestOK
<1>6. files[f] = "old" /\ f = "route" /\ Searches => MakerOf[f] \in refused
  <2>1. f = "route" => stage = stage_idx_hpower /\ MakerOf[f] = stage_idx_vpr
    BY <1>2 DEF Reads, MakerOf, Stages
  <2>. QED
    BY <1>1, <2>1 DEF MadeInv, RouteIsNew
<1>7. files[f] = "old" /\ f = "pre_vpr" => MakerOf[f] \in refused
  <2>1. f = "pre_vpr" => stage = stage_idx_ace /\ MakerOf[f] = stage_idx_script
    BY <1>2 DEF Reads, MakerOf, Stages
  <2>. QED
    BY <1>1, <2>1 DEF MadeInv, NetlistIsNew
<1>. QED
  BY <1>3, <1>5, <1>6, <1>7

\* As long as nothing has failed, a tool finds what a stage of this run was to make for it,
\* whatever the tools write, whichever files earlier runs left and whichever processes the
\* system refuses: no clean-up of the script removes an input of a later stage.
THEOREM InputsAreMade == Spec => []InputsMade
<1>1. Init => OldFiles /\ MadeInv
  BY DEF Init, OldFiles, MadeInv, MadeSoFar, PlaceFirst, PlaceOfFirst, RouteIsNew, NetlistIsNew,
         Exists, Files
<1>2. TypeOK /\ FlowInv /\ OldFiles /\ MadeInv /\ [Next]_vars => (OldFiles /\ MadeInv)'
  BY OldNext, MadeStep DEF FlowInv
<1>3. TypeOK /\ FlowInv /\ OldFiles /\ MadeInv => InputsMade
  BY MadeIsThere
<1>. QED
  BY <1>1, <1>2, <1>3, FlowInvariant, PTL DEF Spec
=============================================================================
