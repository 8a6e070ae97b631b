------------------------------ MODULE PowerFlow ------------------------------
(***************************************************************************)
(* run_vtr_flow_power.pl: six stages, one after the other, each a program  *)
(* started as a child with a time limit.  The script does not ask how the  *)
(* program ended: a stage has succeeded when its output file exists.  The  *)
(* directory is kept from one run to the next, so a file may be of an      *)
(* earlier run.  Tools are external: a tool may hang, crash, or end with   *)
(* any status, having written any number of its outputs.  A process may be *)
(* refused by the system wherever the script asks for one, by fork or by   *)
(* system; a tool that is there can be executed.                           *)
(*                                                                         *)
(* One circuit, in one directory.  A file that was touched in this run is  *)
(* "new", whole or not.                                                    *)
(***************************************************************************)
EXTENDS Integers, Sequences

CONSTANTS
  Commands,            \* the command lines the script may be started with
  Widths,              \* channel widths VPR may find, or another flow may have left in vpr.out
  MaxRuns              \* bound on the runs of the script in the directory

stage_idx_odin == 1
stage_idx_abc == 2
stage_idx_script == 3
stage_idx_ace == 4
stage_idx_vpr == 5
stage_idx_hpower == 6
Stages == stage_idx_odin .. stage_idx_hpower

NoWidth == -1          \* the initial $min_chan_width: nothing asked for or found

\* The files one stage makes and another reads, or that tell the success of a stage.
Files == {"odin", "abc", "pre_vpr", "act", "blif", "place", "route"}
\* A tool that "exited" and one that "crashed" differ in nothing the script does.
Ends == {"success", "exited"}
Status == Ends \cup {"not_run", "timeout"}

\* keep: -keep_intermediate_files.  timing: not -no_timing.  width: -vpr_route_chan_width.
\* blif: the circuit is named <benchmark>.blif.  arch: the architecture names the sizes of
\* its memory and of its LUTs.
CommandType == [start : Stages, end : Stages, keep : BOOLEAN, timing : BOOLEAN,
                width : Widths \cup {NoWidth}, blif : BOOLEAN, arch : BOOLEAN]

ASSUME CommandAssumption == Commands \subseteq CommandType
ASSUME WidthAssumption == Widths \subseteq Nat \ {0}
ASSUME RunAssumption == MaxRuns \in Nat

VARIABLES
  runs,                \* how often the script has been started
  opts,                \* the command line
  pc,                  \* "idle", "stage", "wait", "reaped" or "check"; "script" in the fix
                       \* scripts; "tool" when the script itself has become the tool
  stage,               \* the stage the script is at; one more than the last when all are done
  second,              \* is it the second routing of the VPR stage?
  child,               \* the tool: "none", "running", or how it ended
  alarm,               \* is the alarm set?
  timed_out,           \* has the handler of the alarm run?
  q,                   \* what the last system_with_timeout returned
  error_code,
  min_chan_width,
  files,               \* each file of the directory: "none", "old" or "new"
  bench_out,           \* the width in <benchmark>.out, the output of the first routing of this run
  said,                \* the "Success" in fix_scripts.out: "no", or of an "old" or this "new" run
  refused,             \* history: the stages whose call of system, at 426 or 524, did not start
  vpr_out,             \* the width in vpr.out, which no stage of this script writes
  passed,              \* the stages reported successful
  vpr_status,          \* what this run has written to output.txt, "not_run" before
  verdict

process == <<child, alarm, timed_out>>
report == <<passed, verdict, vpr_status, error_code>>
texts == <<bench_out, said>>
disk == <<files, texts, refused>>
request == <<runs, opts, vpr_out>>
vars == <<pc, stage, second, min_chan_width, process, q, report, disk, request>>

-----------------------------------------------------------------------------
(* Files *)

\* The estimate of the power stage is read by no one here.
Outputs(s) == CASE s = stage_idx_odin -> <<"odin">>
                [] s = stage_idx_abc -> <<"abc">>
                [] s = stage_idx_script -> <<"pre_vpr">>
                [] s = stage_idx_ace -> <<"act", "blif">>
                [] s = stage_idx_vpr -> IF second THEN <<"route">> ELSE <<"place", "route">>
                [] s = stage_idx_hpower -> <<>>

\* The file whose existence is the success of a stage.
Evidence == [s \in stage_idx_odin .. stage_idx_vpr |->
               <<"odin", "abc", "pre_vpr", "act", "route">>[s]]

\* The tool writes its outputs in order, and may end after any of them.
Written(n) == [f \in Files |-> IF \E i \in 1 .. n : Outputs(stage)[i] = f THEN "new" ELSE files[f]]

Without(found, gone) == [f \in Files |-> IF f \in gone THEN "none" ELSE found[f]]

\* The fix scripts empty fix_scripts.out, write their file, and say "Success" last.
ScriptsWrite(n, success) ==
  /\ success => files["abc"] # "none" /\ n = 1
  /\ said' = IF success THEN "new" ELSE "no"

Exists(f) == files[f] # "none"

\* The files of the run before, and the circuit copied over them.
Inherited(o) == [f \in Files |-> IF f = "blif" /\ o.blif THEN "new"
                                 ELSE IF Exists(f) THEN "old" ELSE "none"]
-----------------------------------------------------------------------------
(* Options *)

\* The stages the command line asks for.
Wanted == opts.start .. opts.end

Due(s) == CASE s = stage_idx_odin -> opts.start <= s /\ ~error_code
            [] s = stage_idx_hpower -> opts.end >= s
            [] OTHER -> opts.end >= s /\ opts.start <= s /\ ~error_code

\* No width is given and timing matters: VPR is to find a width, then route with a larger one.
Searches == opts.width = NoWidth /\ opts.timing

\* Mutant: an odd width is left odd.
WidenedOnly(w) == (13 * w) \div 10

\* floor($min_chan_width * 1.3), made even
Widened(w) == LET more == (13 * w) \div 10 IN more + (more % 2)

DefaultOptions == [start |-> stage_idx_odin, end |-> stage_idx_hpower, keep |-> FALSE,
                   timing |-> TRUE, width |-> NoWidth, blif |-> FALSE, arch |-> TRUE]

Start(o) ==
  /\ pc = "idle"
  /\ runs < MaxRuns
  /\ runs' = runs + 1
  /\ opts' = o
  /\ passed' = {}
  /\ q' = "not_run"
  /\ error_code' = ~o.arch
  /\ min_chan_width' = o.width
  /\ stage' = stage_idx_odin
  /\ second' = FALSE
  /\ timed_out' = FALSE
  /\ bench_out' = NoWidth
  /\ said' = IF said = "no" THEN "no" ELSE "old"
  /\ refused' = {}
  /\ vpr_status' = "not_run"
  /\ \/ /\ o.start <= o.end
        /\ files' = Inherited(o)
        /\ pc' = "stage"
        /\ verdict' = "running"
     \/ /\ o.start > o.end
        /\ verdict' = "died"
        /\ UNCHANGED <<pc, files>>
  /\ UNCHANGED <<child, alarm, vpr_out>>
-----------------------------------------------------------------------------
(* system_with_timeout: the child, and the alarm that may come at any time *)

StartsTool == pc = "stage" /\ stage \in Stages /\ stage # stage_idx_script /\ Due(stage)

Fork ==
  /\ StartsTool
  /\ child' = "running"
  /\ alarm' = TRUE
  /\ timed_out' = FALSE
  /\ pc' = "wait"
  /\ UNCHANGED <<stage, second, min_chan_width, q, report, disk, request>>

\* die: the tool is not there, or no time was given for it.
ToolMissing ==
  /\ StartsTool
  /\ pc' = "idle"
  /\ verdict' = "died"
  /\ UNCHANGED <<stage, second, min_chan_width, process, q, disk, request,
                 passed, vpr_status, error_code>>

\* fork returns undef, which is 0 to the script: it takes itself for the child, and becomes
\* the tool. The alarm is set in the other branch, so nothing ends a tool that hangs.
ForkFails ==
  /\ StartsTool
  /\ pc' = "tool"
  /\ UNCHANGED <<stage, second, min_chan_width, process, q, report, disk, request>>

\* The run ends with the tool the script has become.
EndsAsTool ==
  /\ pc = "tool"
  /\ pc' = "idle"
  /\ verdict' = "died"
  /\ \E n \in 0 .. Len(Outputs(stage)) : files' = Written(n)
  /\ UNCHANGED <<stage, second, min_chan_width, process, q, texts, refused, request,
                 passed, vpr_status, error_code>>

\* The first routing that finishes names the width it found.
Found(n) == IF stage = stage_idx_vpr /\ ~second /\ Searches /\ n = Len(Outputs(stage))
            THEN Widths ELSE {bench_out}

ToolEnds ==
  /\ child = "running"
  /\ \E how \in Ends, n \in 0 .. Len(Outputs(stage)) :
       /\ child' = how
       /\ files' = Written(n)
       /\ bench_out' \in Found(n)
  /\ UNCHANGED <<pc, stage, second, min_chan_width, alarm, timed_out, q, report, said, refused,
                 request>>

\* The handler of SIGALRM; after the wait, it kills a process that is no more.
AlarmRings ==
  /\ alarm
  /\ alarm' = FALSE
  /\ timed_out' = TRUE
  /\ UNCHANGED <<pc, stage, second, min_chan_width, child, q, report, disk, request>>

\* Mutant: the handler only notes that the time is over.
KilledNever == FALSE

\* The tool dies of the signal the handler sent.
Killed == timed_out

ToolAborts ==
  /\ child = "running"
  /\ Killed
  /\ child' = "exited"
  /\ \E n \in 0 .. Len(Outputs(stage)) : files' = Written(n)
  /\ UNCHANGED <<pc, stage, second, min_chan_width, alarm, timed_out, q, report,
                 texts, refused, request>>

Wait ==
  /\ pc = "wait"
  /\ child \in Ends
  /\ pc' = "reaped"
  /\ UNCHANGED <<stage, second, min_chan_width, process, q, report, disk, request>>

\* Mutant: a tool killed by the alarm counts as one that was killed by another signal.
ToolStatusKilled == IF timed_out THEN "killed" ELSE child

ToolStatus == IF timed_out THEN "timeout" ELSE child

Return ==
  /\ pc = "reaped"
  /\ alarm' = FALSE
  /\ q' = ToolStatus
  /\ child' = "none"
  /\ pc' = "check"
  /\ UNCHANGED <<stage, second, min_chan_width, timed_out, report, disk, request>>

\* SIGHUP: the handler kills the tool and exits. The fix scripts may be anywhere by then.
Hangup ==
  /\ pc # "idle"
  /\ pc' = "idle"
  /\ verdict' = "died"
  /\ child' = "none"
  /\ alarm' = FALSE
  /\ \/ /\ child = "running" \/ pc = "tool"
        /\ \E n \in 0 .. Len(Outputs(stage)) : files' = Written(n)
        /\ UNCHANGED said
     \/ /\ pc = "script"
        /\ \E n \in 0 .. 1, success \in BOOLEAN : ScriptsWrite(n, success) /\ files' = Written(n)
     \/ /\ child # "running" /\ pc \notin {"tool", "script"}
        /\ UNCHANGED <<files, said>>
  /\ UNCHANGED <<stage, second, min_chan_width, timed_out, q, bench_out, refused, request,
                 passed, vpr_status, error_code>>
-----------------------------------------------------------------------------
(* The stages *)

NextStage ==
  /\ stage' = stage + 1
  /\ second' = FALSE
  /\ pc' = "stage"

\* What a clean-up leaves, which may be everything: no one asks if rm was started.
Cleaned(found, spent) == IF opts.keep THEN {found} ELSE {found, Without(found, spent)}

\* A stage reports its success, and removes what only it needed.
Pass(spent) ==
  /\ passed' = passed \cup {stage}
  /\ files' \in Cleaned(files, spent)
  /\ UNCHANGED error_code

Fail ==
  /\ error_code' = TRUE
  /\ UNCHANGED <<passed, files>>

Skip ==
  /\ pc = "stage"
  /\ stage \in Stages
  /\ ~Due(stage)
  /\ NextStage
  /\ UNCHANGED <<min_chan_width, process, q, report, disk, request>>

Succeeded(s) == Exists(Evidence[s])

CheckStage(s, spent) ==
  /\ pc = "check"
  /\ stage = s
  /\ IF Succeeded(s) THEN Pass(spent) ELSE Fail
  /\ NextStage
  /\ UNCHANGED <<min_chan_width, process, q, verdict, vpr_status, texts, refused, request>>

CheckOdin == CheckStage(stage_idx_odin, {})

\* Mutant: ABC's own output goes with the file it came from.
CheckAbcEager == CheckStage(stage_idx_abc, {"odin", "abc"})

CheckAbc == CheckStage(stage_idx_abc, {"odin"})

StartsScript == pc = "stage" /\ stage = stage_idx_script /\ Due(stage)

\* No time limit here: system waits, and the fix scripts may hang, as they do on a line of more
\* than 1500 characters with no blank where they want to break it.
CallScripts ==
  /\ StartsScript
  /\ pc' = "script"
  /\ UNCHANGED <<stage, second, min_chan_width, process, q, report, disk, request>>

\* The stage is successful when its file is there and fix_scripts.out says so.
JudgeScripts(found) ==
  /\ IF found["pre_vpr"] # "none" /\ said' # "no"
     THEN /\ passed' = passed \cup {stage}
          /\ error_code' = FALSE
          /\ files' \in Cleaned(found, {"abc"})
     ELSE /\ error_code' = TRUE
          /\ files' = found
          /\ UNCHANGED passed
  /\ NextStage
  /\ UNCHANGED <<min_chan_width, process, q, verdict, vpr_status, bench_out, request>>

FixScripts ==
  /\ pc = "script"
  /\ \E n \in 0 .. 1, success \in BOOLEAN :
       /\ ScriptsWrite(n, success)
       /\ JudgeScripts(Written(n))
  /\ UNCHANGED refused

\* The call of system does not start: what is judged is of an earlier run, if it is there.
ScriptsRefused ==
  /\ StartsScript
  /\ refused' = refused \cup {stage}
  /\ UNCHANGED said
  /\ JudgeScripts(files)

CheckAce ==
  /\ Succeeded(stage_idx_ace)
  /\ CheckStage(stage_idx_ace, {})

\* die: nothing is written to output.txt.
AceDies ==
  /\ pc = "check"
  /\ stage = stage_idx_ace
  /\ ~Succeeded(stage_idx_ace)
  /\ pc' = "idle"
  /\ verdict' = "died"
  /\ UNCHANGED <<stage, second, min_chan_width, process, q, disk, request, passed,
                 vpr_status, error_code>>

SearchedWidth == IF vpr_out # NoWidth THEN vpr_out ELSE min_chan_width

\* Mutant: the routing of the first width is left where it is.
UnroutedNever == files

Unrouted == Without(files, {"route"})

\* After the search for a width: route again, if there is a routing.
CheckFirstRouting ==
  /\ pc = "check"
  /\ stage = stage_idx_vpr
  /\ Searches
  /\ ~second
  /\ min_chan_width' = Widened(SearchedWidth)
  /\ second' = TRUE
  /\ \/ /\ Exists("route")
        /\ pc' = "stage"
        /\ \/ files' = Unrouted /\ UNCHANGED refused
           \/ UNCHANGED files /\ refused' = refused \cup {stage}
     \/ /\ ~Exists("route")
        /\ UNCHANGED <<pc, files, refused>>
  /\ UNCHANGED <<stage, process, q, report, texts, request>>

CheckVpr ==
  /\ Searches => second
  /\ CheckStage(stage_idx_vpr, {})

CheckHPower ==
  /\ pc = "check"
  /\ stage = stage_idx_hpower
  /\ Pass({})
  /\ NextStage
  /\ UNCHANGED <<min_chan_width, process, q, verdict, vpr_status, texts, refused, request>>

\* Mutant: a run that reached the power stage is called OK.
VerdictOfLast == IF stage_idx_hpower \notin passed /\ error_code THEN "failed" ELSE "ok"

Verdict == IF error_code THEN "failed" ELSE "ok"

WriteResults ==
  /\ pc = "stage"
  /\ stage = stage_idx_hpower + 1
  /\ vpr_status' = q
  /\ verdict' = Verdict
  /\ pc' = "idle"
  /\ UNCHANGED <<stage, second, min_chan_width, process, q, disk, request, passed, error_code>>
-----------------------------------------------------------------------------
Init ==
  /\ runs = 0
  /\ opts = DefaultOptions
  /\ pc = "idle"
  /\ stage = stage_idx_odin
  /\ second = FALSE
  /\ child = "none"
  /\ alarm = FALSE
  /\ timed_out = FALSE
  /\ q = "not_run"
  /\ error_code = FALSE
  /\ min_chan_width = NoWidth
  /\ files = [f \in Files |-> "none"]
  /\ bench_out = NoWidth
  /\ said = "no"
  /\ refused = {}
  /\ vpr_out \in Widths \cup {NoWidth}
  /\ passed = {}
  /\ vpr_status = "not_run"
  /\ verdict = "none"

Script == \/ Skip \/ Fork \/ Wait \/ Return
          \/ CheckOdin \/ CheckAbc \/ CallScripts \/ CheckAce \/ AceDies
          \/ CheckFirstRouting \/ CheckVpr \/ CheckHPower \/ WriteResults

Next ==
  \/ \E o \in Commands : Start(o)
  \/ Script
  \/ ToolEnds \/ ToolAborts \/ AlarmRings
  \/ FixScripts \/ ScriptsRefused
  \/ ToolMissing \/ ForkFails \/ EndsAsTool \/ Hangup

\* The script goes on when it can, the alarm rings if it is not cancelled, and a tool
\* dies of the signal. Nothing makes a tool or the fix scripts end by themselves.
Spec == /\ Init /\ [][Next]_vars
        /\ WF_vars(Script) /\ WF_vars(AlarmRings) /\ WF_vars(ToolAborts)
-----------------------------------------------------------------------------
(* Properties *)

RequestOK ==
  /\ runs \in 0 .. MaxRuns
  /\ opts \in Commands \cup {DefaultOptions}
  /\ vpr_out \in Widths \cup {NoWidth}

PlaceOK ==
  /\ stage \in 1 .. 7
  /\ min_chan_width \in Int
  /\ passed \subseteq Stages

FlagsOK ==
  /\ second \in BOOLEAN
  /\ timed_out \in BOOLEAN
  /\ error_code \in BOOLEAN
  /\ alarm \in BOOLEAN

ProcessOK ==
  /\ pc \in {"idle", "stage", "wait", "reaped", "check", "script", "tool"}
  /\ child \in Ends \cup {"none", "running"}
  /\ child = "running" => pc = "wait"
  /\ pc \in {"wait", "reaped"} <=> child # "none"
  /\ pc \notin {"wait", "reaped"} => alarm = FALSE

ReportOK ==
  /\ q \in Status
  /\ vpr_status \in Status
  /\ verdict \in {"none", "running", "ok", "failed", "died"}

DiskOK ==
  /\ files \in [Files -> {"none", "old", "new"}]
  /\ bench_out \in Widths \cup {NoWidth}
  /\ said \in {"no", "old", "new"}
  /\ refused \subseteq {stage_idx_script, stage_idx_vpr}

\* Every variable keeps its type; an alarm or a tool is there only while the script waits.
TypeOK == RequestOK /\ PlaceOK /\ FlagsOK /\ ProcessOK /\ ReportOK /\ DiskOK

Asked == IF runs = 0 THEN {} ELSE Wanted

Pipeline == INSTANCE StagePipeline WITH
  Last <- stage_idx_hpower,
  wanted <- Asked,
  reported <- passed,
  failed <- error_code

\* The script keeps the promise of StagePipeline: stages are reported in their order, after
\* a failure only the power estimate (line 584), and "OK" (line 636) is printed only when
\* every stage the command line asks for was reported successful.
Promise == Pipeline!Spec

\* What a tool reads of the directory, and which stage makes it. ACE's netlist is left
\* out: ACE counts as successful with its activity file alone (line 470).
Reads(s) == CASE s = stage_idx_odin -> {}
              [] s = stage_idx_abc -> {"odin"}
              [] s = stage_idx_script -> {"abc"}
              [] s = stage_idx_ace -> {"pre_vpr"}
              [] s = stage_idx_vpr -> IF second THEN {"place"} ELSE {}
              [] s = stage_idx_hpower -> {"act", "place", "route"}

MakerOf == [f \in {"odin", "abc", "pre_vpr", "act", "place", "route"} |->
              CASE f = "odin" -> stage_idx_odin [] f = "abc" -> stage_idx_abc
                [] f = "pre_vpr" -> stage_idx_script [] f = "act" -> stage_idx_ace
                [] OTHER -> stage_idx_vpr]

\* As long as nothing has failed, a tool finds what a stage of this run was to make for it:
\* no clean-up takes it away, and a file of an earlier run stands in for it only in a
\* directory that has had one, and for the netlist of the fix scripts, or the routing when a
\* width was searched, only when a call of system (426, 524) was not started.
InputsMade ==
  (child = "running" \/ StartsScript) /\ ~error_code =>
    \A f \in Reads(stage) :
      MakerOf[f] \in Wanted =>
        /\ Exists(f)
        /\ files[f] = "old" =>
             /\ runs > 1
             /\ f = "pre_vpr" \/ (f = "route" /\ Searches) => MakerOf[f] \in refused

\* A success told from a file of an earlier run (lines 371, 402, 470, 558) needs a directory
\* that has had one. The fix scripts must also say so themselves, and a searched width
\* removes the first routing, so these two are wrong that way only when the system refuses
\* the process that would write fix_scripts.out anew (426), or remove the routing (524); and
\* for the fix scripts an earlier run must have said "Success".
SuccessIsOfThisRun ==
  [][\A s \in passed' \ passed :
       s # stage_idx_hpower /\ files'[Evidence[s]] = "old" =>
         /\ runs > 1
         /\ s = stage_idx_script => s \in refused' /\ said' = "old"
         /\ s = stage_idx_vpr /\ Searches => s \in refused']_vars

\* The second routing gets an even width, and a larger one than was read from vpr.out, but
\* for a width of 2, which 30 percent do not change.
WiderAndEven ==
  child = "running" /\ second =>
    /\ min_chan_width % 2 = 0
    /\ vpr_out \notin {NoWidth, 2} => min_chan_width > vpr_out

\* A run of the script comes to an end even when a tool hangs, but for the two places where no
\* alarm is set: in the fix scripts, which system waits for (426), and when fork has failed and
\* the script itself has become the tool (654 to 677).
FlowEnds == (pc # "idle") ~> (pc \in {"idle", "script", "tool"})

\* "Additional channel width needs to be added so that there is a reasonable trade-off
\* between delay and area" (line 496): the second routing is wider than the first found.
ExtraWidth ==
  child = "running" /\ second /\ bench_out # NoWidth => min_chan_width > bench_out
=============================================================================
