# A verification project for HPowerEstimator

HPowerEstimator estimates the power of a circuit mapped to an FPGA. Its own code is small and sits
in three places; the rest of the repository is the tool chain it drives (ODIN II, ABC, VPR,
libvpr), which is vendored.

This directory holds TLA+ modules translated from that code, the TLC configurations that check
them on small instances, and theorems about them that TLAPS checks. `PROJECT.json` maps every
definition to the lines it models, lists the runs, a mutation of the code that breaks each checked
property, the hazards of the code, and the findings. All paths below are relative to
`src/HPowerEstimator/`.

## 1. The system

A run of the flow is a pipeline of programs that talk through files:

    run_vtr_task.pl --> run_vtr_flow_power.pl --> ODIN II --> ABC --> fix script
         (threads)          (one circuit)           --> ACE2 --> VPR --> HPower

| Component | State it keeps | Operations | Talks to |
|---|---|---|---|
| BLIF and activity reader (`HPower/blif.c`) | symbol table of nets with a count each, pin list and driver count of each net, the blocks, line counters | `build_blif` (ten passes), `get_tok` and a handler per keyword, `add_vpack_net`, `init_parse`, `check_net`, `read_activity` | reads ACE2's `.blif` and `.act`; fills the globals `logical_block[]`, `vpack_net[]` that power estimation uses |
| Routing reader (`HPower/route.c`) | `trace_head[]`, `trace_tail[]`, a heap of list cells, the current net, cell and node type | `read_trace_file`, a case per kind of line | reads what VPR's `print_route` (`vpr/SRC/route/route_common.c`) printed; fills the lists `power_routing` walks |
| Power estimation (`HPower/power.c`) | per routing node its net and its activity, sums of power | `power_routing`, the block power, multiplexer counts, the power library | all the globals of the readers |
| Placement and architecture input (`HPower/input.c`) | block coordinates, the grid of the architecture | `build_place`, `InitArch`, `sync_grid_to_blocks` | VPR's `.place`; the grid is walked by power estimation |
| Main program (`HPower/main.c`) | `argv` as it is rewritten, the file names | `read_options`, then the readers in a fixed order | all of the above |
| ACE2 (`ace2/`) | per object of the network a status, a value and two counters | the simulation of `sim.c`, latch cycles, switching estimates, input and output | reads and writes BLIF; writes the `.act` file HPower reads |
| Flow script (`vtr_flow/scripts/run_vtr_flow_power.pl`) | an error code, the files of the run directory, a child process and an alarm | one stage after the other, each with a success test and a time limit | starts every tool |
| Task runner (`vtr_flow/scripts/run_vtr_task.pl`) | run directories, a queue of commands, a queue of results, a pool of threads | `run_single_task`, `do_work` | starts the flow script, once per circuit and architecture |
| Task reports (`parse_vtr_task.pl`, `parse_vtr_flow.pl`) | none beyond text | extraction from result files | reads the run directories |

Behaviours that are hard to test:

* **Agreement of passes.** The BLIF reader sizes its arrays in five counting passes and fills them
  in five loading passes over the same file. Every ignored, repeated or malformed line must be
  treated alike by both rounds, or an array is overrun or read where it was never written.
* **Agreement of programs.** HPower reads what VPR printed, with a reader of its own. The lists of
  cells are built by a state machine over lines with memory that is never cleared.
* **Stale state.** A current net, cell or truth table that outlives the line it belonged to; an
  index that is OPEN (-1) when it is used; a node evaluated only if a fanin is marked as new.
* **Concurrency.** Threads share two queues, and the end of a thread and an empty result look the
  same; scripts race for the number of a run directory; an alarm races the end of a stage.
* **Failure.** A stage whose output file was left by an earlier run, a tool that hangs, crashes or
  writes half its files, a `fork` that fails, a signal in the middle of a run, a thread that dies.
* **Loops that may not end.** `read_options` advances only on a word it knows; the counting of
  multiplexers divides until 1 is reached, which a size of 1 never does.

What makes each part correct: the netlist in memory is the one in the file, within the arrays
allocated for it, and exactly the well-formed files are accepted (reader); the lists are the
tracebacks that were printed, and wires are charged with the nets that use them (routing); the
lazy simulation is a synchronous circuit (ACE2); every command runs once, its result is printed
once and the pool ends (tasks); a run directory is used by one run (tasks); a run of the flow calls
itself OK only if every stage it was asked for succeeded, in this run, and it comes to an end (flow
script); every block is on the site the placement names, and is counted once (main program).

## 2. The modules

| Module | Models | Extended or instantiated by |
|---|---|---|
| `BlifNetlist` | the BLIF and activity reader | `MCBlifNetlist`, `BlifNetlistProofs` |
| `RouteTrace` | `print_route`, `read_trace_file` and the walk of `power_routing`, composed through the file and the heap | `MCRouteTrace`, `RouteTraceProofs` |
| `SyncCircuit` | the abstract specification: a synchronous circuit with its counts | `AceSim` (INSTANCE) |
| `AceSim` | the simulation of ACE2; implements `SyncCircuit` | `MCAceSim`, `AceSimProofs` |
| `TaskPool` | the threads and queues of the task runner | `MCTaskPool`, `TaskPoolProofs` |
| `RunDirectory` | the race for a run directory | `MCRunDirectory`, `RunDirectoryProofs` |
| `StagePipeline` | the abstract specification: what a run of the flow promises of its stages | `PowerFlow` (INSTANCE) |
| `PowerFlow` | the stages of the flow script, its child processes, alarm and files; implements `StagePipeline` | `MCPowerFlow`, `PowerFlowProofs` |
| `LogicPower` | what is counted in a complex block: its parts, configuration bits and multiplexers | `HPower` |
| `BlockWalk` | the walk over the tree of a complex block and of a library entry | `MCHPower` |
| `HPower` | the main program: options, placement, grid, library, the walk over the grid | `MCHPower`, `HPowerProofs` |
| `NaturalRecursion` | no code: induction and recursion over the naturals and sums over finite sets, as facts on sets | `RouteTraceProofs`, `AceSimProofs`, `HPowerProofs` |

Definitions that begin with a comment "Mutant:" are plausible bugs. They stand before the
definition they would replace, are used by no specification, and show that each checked property
can fail.

### BlifNetlist

A line of the file is a record: a keyword, the pins it names (net token, role, slot) and whether it is
well formed: a latch of five parameters, a model that the architecture describes, a row of a truth table
that is a constant or ends in one character (211-223). A `.subckt` may lack the name of its model or have
a signal without partner, and a signal may name a port the model does not have or a pin the port does not
have: these are lines (`nameless`, `unpaired`) and roles (`none`, `beyond`) of their own, refused, killed
or written out of bounds as the code has it (`BadLine`, `BadPin`). A step of the model is one line, or
one pin given to `add_vpack_net`; `doall` and `pass` are the two loops of `build_blif`, `linenum` the
position in the file. `hash` is the count of each net in the symbol table, `node_block` the pin list of
each net as a function on the positions written so far, so that reading an unwritten position is visible.
`NoRoom` is the test of `add_vpack_net`, `PinIndex` its choice of position. `Stop` ends the program:
"exit" (a message and `exit(1)`), "abort" (a failed assert), "corrupt" (a write out of an array).
`CheckNet` is `check_net` with its sweep, in one step since nothing else runs.

The reference the properties compare with (`PinsOf`, `DriversOf`, `WellFormed`, `ClockOrder`, ...)
reads the file once, line by line, with no passes and no state.

Left out: names and ports (a slot is a port and a pin), the limit `MAX_ATOM_PARSE`, the freeing of
memory, the counters printed at the end (`num_p_inputs`, `num_luts`, ...), the loading of the default
models, an activity file that does not open.

### RouteTrace

A line that names a node of the routing graph is that node (the lookup by coordinates and pin, pad,
class or track is one to one). `heap` is the sequence of cells allocated, `trace_head`, `trace`,
`next` are pointers into it, `Garbage` what memory holds before it is written. A read or write
through garbage may do anything: the model ends in "corrupt". `print_route` and `NetLines` are the
writer, `NetLine` ... `EndOfFile` the cases of the reader, `MarkCell`, `NextNet` and `Charge` the
walk. `charged` holds, for each wire, the net whose activity multiplies its power
(`clb_net_activity[node->net_num]`); `active_fanin`, for each node, the nodes whose nets multiply its
average fan-in activity. The powers themselves are products of reals and are left out. The three
heading lines are one line; reading them builds the graph, which is VPR's code.

### SyncCircuit and AceSim

`AceSim` keeps a status, a value and two counters per object, as `Ace_Obj_Info_t` does. Its steps are the
three calls of a cycle (`get_pi_values`, `evaluate_circuit`, `update_FFs`), and the final loop that turns
the counters into probabilities; the program is sequential, and `Swept` and `Copied` are the loops over
nodes and latches, in order: the table after the first k of them. The random generator and the vector
file are any choice of values. The three objects of a latch are one.

`SyncCircuit` has no statuses and no order: all gates settle at once, all latches load at once.
A circuit is what ABC's network is (`Network`: its objects are told apart and read one another), with
the nodes in the order of `Abc_NtkDfs`, each after the nodes it reads (`DfsOrder`).

`LazyIsEager` says that `AceSim` implements `SyncCircuit`, with the counters as part of the mapping:
skipping a node whose fanins are old never loses a value, a one or a toggle. The circuit it implements
is `Simulated(c)`, for every circuit `c`. It differs from `c` in two ways, and in no other:

* `update_FFs` copies in place. A latch that is listed after the latch which feeds it loads what that
  one has just loaded, so it reads the source found by following such feeders back (`Source`); a shift
  register listed from its input on collapses to one latch. Listed before its feeder, a latch reads
  the value of the cycle, as it should (`LatchOrder`).
* A node without fanins has the status old and is never evaluated, and neither is a node all of whose
  fanins are such nodes (`ConstantsOf`). They stay 0, whatever their function says (`ConstantsZero`).

No text of the repository excludes either. `Faithful` is the condition under which the circuit simulated
is the one given; two of the six circuits of the run are not.

### TaskPool

A queue of commands, a queue of results, a thread per processor, the main thread. `Take`, `Run`,
`Report`, `Finish` are the steps of `do_work` between two accesses to a queue or to the file
system; `PrintResult`, `CountEnd`, `Join` those of the main thread. The truth value of a result
decides whether it is a text or an end (`while (my $result = ...)`), so a command that prints
nothing is counted as the end of a thread (`Silent`), and a thread whose output file does not open
dies (`Unreadable`). One processor, which uses no threads, is not modelled. That a command ends is
assumed: of the two places where the flow may hang (`FlowEnds`, below) the pool knows nothing.

### RunDirectory

Several copies of the script look for the first run number with no directory (`Count`, `Found`) and
make it (`Make`), two steps with any interleaving; `mkdir` fails if the directory exists (`Die`).
A `mkdir` or `chdir` that fails for another reason (275-287: no permission, a full disk) also ends the
script, and is left out: `DiesOnlyBeaten` and `SomeoneRuns` speak of the race alone.

### StagePipeline and PowerFlow

`PowerFlow` runs `run_vtr_flow_power.pl` several times in one directory. `stage`, `error_code`, `q`,
`min_chan_width` are the script's variables; `pc` is where it is between two system calls; `child`,
`alarm` and `timed_out` are the process that `system_with_timeout` starts, the pending alarm and what
its handler has done. `Fork`, `Wait`, `Return` are that subroutine, with `AlarmRings` at
any point between them, `wait` having returned or not (690-702): the alarm is cancelled only in
`Return`. `Check...` are the tests that follow each stage, with the clean-up that is part of them;
`CheckFirstRouting` is the search for a width.
`files` marks each file of the directory "none", "old" or "new", so that a success that a file of an
earlier run pretends is visible. `Hangup` is SIGHUP, which kills the tool and exits.

The tools are external: one may hang, or end in any way having written any number of its outputs.
`Written(n)` lets it write them in order and stop after any.

The system may refuse any process the script asks for.

* At `fork` (654) the result is undef, which the script takes for the 0 of the child: it becomes the
  tool itself (`ForkFails`, `pc` "tool"). No alarm is set then (it is in the other branch, 691), so the
  run ends with the tool (`EndsAsTool`), or never.
* At `system` nobody asks. A clean-up that does not start leaves its files (`Cleaned`), and the first
  routing when a width was searched (524). When the fix scripts do not start (426, `ScriptsRefused`),
  what is judged is `fix_scripts.out` as it is: `said` tells whether there is a "Success" in it and
  of which run. `refused` is a history variable: the stages whose call of `system` did not start.

The fix scripts have no time limit (`CallScripts`, `FixScripts`, `pc` "script"), and they may hang: on a
line of more than 1500 characters with no blank where they look for one, the loop of
`hack_fix_lines_and_latches.pl:62` runs past the end of the line for ever. A tool that is not there ends
the script (`ToolMissing`); that a tool which is there can be executed is assumed.

`StagePipeline` is what the flow promises of its stages whatever they do: reports in order, none
after a failure but the power estimate's (584), "OK" only with every stage asked for reported.
`Promise` says that `PowerFlow` implements it, with the stages `opts.start .. opts.end` as those asked
for and `error_code` as the failure. `SuccessIsOfThisRun` and `InputsMade` then bound how wrong a
report may be: a success is told from an old file only in a directory that has had a run; for the fix
scripts, and for a routing whose width was searched, only when moreover the system refused the process
that would have written `fix_scripts.out` anew, or removed the first routing.

Left out: the parsing of the command line (a record), the text of the architecture file (a boolean:
it names the sizes or not), the numbers taken from the output of the tools, the copies of input files
other than the netlist, the commands' options.

### LogicPower and HPower

`main` is the phase of `main()`, or how the program ended: "done", "exit" (a message and `exit`),
"crashed" (a failed assert, a read through NULL) or "overrun" (something beyond an array was overwritten:
of what follows the model says nothing). `argv` is the command line as `read_options` rewrites it (it
strips the dashes of a word in place, so a word it does not know is looked at again as a name; an option
without a value takes the NULL that ends `argv` for one, has no name again, and leaves `arg_idx` one
beyond that NULL, `NoValue`); `next_line`, `nx`, `ny`, `coords` what `build_place` reads; `grid` the
tiles that `alloc_and_load_grid` makes and `sync_grid_to_blocks` fills, one block per step; `instances`
the power library as `ProcessPbPower` keeps it; `at` the tile of `power_complex_block`, `counted` how
often the walk has met each block.

`power_pb` of `BlockWalk` is what the function of that name finds below a tile: the parts the library
knows; `LogicPower` has the configuration bits and multiplexers of a part, which the estimate prints.
`num_default_muxes` is the loop that divides; it has no value for a size of 1 and more inputs, which is
the endless loop, and `Endless` tells when the walk of a block meets it. `HPower` takes the four
recursions over trees (`power_pb`, `Endless`, `ProcessPbPower`, `Refused`) as operator constants, so that theorems
about it hold whatever they find; the run gives them those of `BlockWalk`. It assumes that what is
found in a block can be counted (`PartsAssumption`); that a pad is one tile high, which is what the
reader of the architecture gives a type that says nothing (`libvpr/read_xml_arch_file.c:1051`) and no
code checks; that a column has one block a tile (`SetupGrid.c:119` exits on more); and that blocks have
types of the architecture. A method of the library that is not one of the known words
is left uninitialised by the code, with the children of its entry (`power.c:154`), and is any value
here (`Unset`). An entry with a child or a property its method does not take is refused, by `FreeNode`
(`EntryRefused`, given in the run by `Refused` of `BlockWalk`).

A block whose z is the capacity of its type passes the check of `vpr_utils.c:69`. The read beyond the
list of the tile may find anything; if it is taken for a free place, the write of line 106 may fall into
the slack of the allocation (`SetBlock`, which then changes no tile) or onto something else (`Overrun`,
the end of what the model says). A grid of more than 32766 columns or rows is refused (`TooLarge`).

The readers of the architecture, of the netlists and of the routing end well or exit here
(`ReadPart`): two of them are `BlifNetlist` and `RouteTrace`, the others are VPR's. Left out: powers
and activities (reals), a placement file that does not open (a failed heading stands for it), the
auto-sizing branch of `InitArch`, which `main` never takes, and the wording of messages. `vpr/` code
is modelled where the program calls it on the way: the grid of `SetupGrid.c`, `sync_grid_to_blocks`
of `vpr_utils.c`.

## 3. The runs

| Run | Bounds | Shows |
|---|---|---|
| `blif` | every body of at most three lines over ten LUTs and latches with four nets, two inputs per LUT; every body of at most two lines over twenty-nine lines of models, subcircuits (a port named twice, a clock pin other than 0), reserved names, malformed lines; two models; headers dropped or repeated; too many LUT inputs; rows, malformed ones too | 170 932 states. Pin lists within bounds and written where read; blocks fill their array; the loaded netlist is the file's; exactly the well-formed files (with a checkable clock order) are accepted; what the sweep leaves; no row of a truth table is lost; every file is read to an end |
| `route` | three nets, a graph of fourteen nodes (two sources, four wires, a shared sink), up to two branches, every cut of the file, nets that are global, local, of another netlist or another architecture | 60 418 states. The lists are the tracebacks; they share no cell and reach no freed cell; when the file is whole and of routed and global nets, charges and fan-ins are the routing's; reading and charging end |
| `ace_sim` | six circuits (a toggle flip-flop, a shift register, reconverging logic, a latch that holds with a constant 0, four latches of which two are listed after their feeders, a constant 1 with nodes that read only it), four cycles, every input | 2 879 states. Refinement of `SyncCircuit` by the circuit simulated; switching of logic within the asserted bounds |
| `task_pool` | three threads, three commands, two of them possibly silent or without a file | 49 976 states. No command twice, no text twice; the main thread leaves early, or blocks, only as far as silence and death explain it |
| `run_directory` | three scripts, any of three old directories | 1 778 states. Runs apart, no number skipped, a script dies only if beaten, one runs |
| `power_flow` | two runs of the script in one directory (`MaxRuns`), ten command lines (each option in turn, parts of the flow, a request with no stage), width 3 (`Widths`), any process refused | 832 950 states. The script implements `StagePipeline`; tools find what a stage was to make; successes told from old files are only where they can be; the second width is even and larger than the one read; every run ends, a hanging tool included, but in the fix scripts and as a tool after a failed fork |
| `hpower` | a grid of two columns and two or three rows, one of large blocks; three blocks; eighteen command lines, some 140 placements right and wrong, twelve libraries, each with the rest plain | 3 764 states. Options mean what they should wherever they stand; a list of blocks is overrun only for a z that is the capacity, and otherwise a placement that gets through is the one named; every site counts once and multiplexers are those of a tree; `read_options` loops just on the words it does not know; the files the flow makes reach an estimate |
| `blif_ignored_lut` | as `blif`, rows | finding: rows of an ignored LUT are added to another |
| `route_local` | as `route` | finding: a line print_route writes makes the reader use memory never written |
| `route_charge` | as `route`, plain nets | finding: unused wires are charged with index -1 |
| `flow_width` | one run, width 3 | finding: the width VPR found is read from a file no stage writes, and the second routing is not wider |
| `ace_first_value` | as `ace_sim` | finding: an input that stays 1 breaks the assertion on its switching |

Why the bounds are enough. In the reader the interesting conflicts are between two uses of one net
(driver and sink, clock and data, used and swept) and between two lines of which one changes what the
other means (a model, an ignored LUT, a row); three lines hold any two of them with one between, and
four nets leave one that is a pin of nothing else. In the routing, two nets that share a sink and
one that is not routed, in every position of the file, give every transition between the kinds of
line. In the simulation, a status lives for one cycle: four cycles hold a first value, a change, a
pause and a change after it. Two threads make every race of the pool; the third leaves one to run
after one has died and one has been silent. In the flow, two runs give a directory with files of an
earlier one, left by any failure at any stage; a third adds none, since all files of runs before are
"old". Width 3 is one that 30 percent leave odd, so making it even shows; the theorem `RoutedWider` is
about all widths, 2 included, which 30 percent do not change. The grid has both kinds of column, a
row that large blocks cannot use and one they can, and a pad with two places; each way in which a
line of the placement can be wrong is there for each kind of block.

Deadlock is checked except in `task_pool` (the pool really ends, and the main thread really blocks
when a thread has died), in `power_flow` and `flow_width` (the last run of the script is over) and in
`hpower` (the program ends, and in the endless walk of multiplexers of size 1, which has no step that
changes the state, nothing is enabled).

Fairness. The reader, the routing and the simulation are sequential: weak fairness of the next step says
only that a program that can go on does. In `TaskPool` each thread and the main thread is scheduled (weak
fairness of each); that a command ends is assumed, as the flow script gives each stage but the fix
scripts a time limit. In `RunDirectory` each script is a process. In `PowerFlow` the script goes on when
it can, an alarm that is not cancelled rings, and a tool that was sent the signal dies of it (weak
fairness of `Script`, `AlarmRings`, `ToolAborts`); there is none on `ToolEnds`, `FixScripts` and
`EndsAsTool`: a tool may hang, and `FlowEnds` rests on the alarm alone; where there is none, it claims
nothing. `HPower` is sequential.

## 4. The proofs

All theorems hold for every value of the constants that the named assumptions allow: files,
routings and circuits of any size, any number of nets, threads, commands, scripts, cycles and runs.

**The BLIF reader.** `BlifNetlistProofs` proves

* `TypeCorrect`: the type invariant. Its content is in the indices: the line, the pin and the block
  that a step uses exist.
* `PinListsSafe`: no write beyond the pin list that was allocated (`PinListInBounds`).
* `PinListsWritten`: `check_net` reads no entry that was not written (`PinListInitialised`).

Neither of the last two is inductive: whether a write fits depends on what the counting passes saw
in a part of the file the loading passes have yet to reach. `PinListsInv` adds what they need:
`Tracks` (each count is the number of pins of the file added so far, in the lines and the passes that
add them; `PinsOf` gives the reference), `Counting` (nothing is loaded in the first round),
`Loading` (the counts of the first round are the totals of the file) and `Lists` (the positions
written are those numbered by the counts so far, the driver's if there was one). The step that
matters is `AddPinInv`: the test `NoRoom` of `add_vpack_net` together with `Loading` leaves exactly
the positions that exist. `PinListsCorrect` is the invariance of `PinListsInv`.

Its second part builds on that and proves what the ten passes leave behind.

* `BlocksSafe` (`BlocksInBounds`), from `Numbering`: at each line the number of blocks is that of the
  pads and lines which this round has begun, in both rounds, and the first round ends with all of them.
* `LoadedIsFile` (`LoadedNetlistIsFile`), from `Placing`: so far, each net has counted the pins of the
  file added, its last driver is at 0, and each block and slot is in its list as often as the file
  puts the net there.
* `RowsComplete` (`TruthTableComplete`), from `RowsInv`: the block of each `.names` line that was begun
  has the rows which follow it.
* `NetlistSwept` (`SweptNetlist`), from `Filling`: before the sweep no block is EMPTY, an output pad
  drives nothing, an input pad at most the net of its one pin, a net on an output pin has a driver, and
  the driver entry of a net names a pin, its own when that is a pad's. The sweep is then one step.

Its third part is `AcceptsExactlyThose` (`AcceptsExactly`): the reader returns for exactly the files that the
reference says it should. The inductive invariant beside the ones above is `LoadInv` (`Loaded`), which
says what the loading passes know of the lines behind them:

* `Contents`: each slot of a block holds the net of the pin added to it last, the block counts the pins
  that named a net, its type is its line's or its pad's; a net is global when its last pin is a clock, and
  each entry of its list is one of its sinks; and every pin added is one that `add_vpack_net` accepts.
* `LinesAccepted`: the lines passed were of a width and a model that the reader takes, their signals
  had names, partners, ports and pins, and the rows that follow a LUT were well formed and had a block
  to go to. `RowsExpected` ties the flag `add_truth_table` to the lines just read, which that needs.
* `LinesCounted`: the four counters that error checking compares are those of the lines read.

At `check_net` the whole file is behind (`ReadWhole`), and each of its tests is then equivalent to a
conjunct of the reference: the line counters to `CompleteModels` (`LinesCompared`), the drivers to
`OneDriverEach` (`DriversCompared`), the asserts on the used pins to no pin replacing another
(`AssertsMean`), the errors of the nets to their sinks being found on the clock or the inputs of their
blocks (`NetErrorsMean`, `FoundOnLine`, `FoundComplete`), and those of the blocks to `Useful`, connected
latches and connected output pads (`LineErrorsMean`, `PadErrorsMean`). The equivalences hold only in
this order: what is left after the sweep is known once each net has one driver, and the lists can be
followed once no pin is replaced. `CheckedIsWellFormed` and `WellFormedIsChecked` put them together.
What is left are the two ways to stop before that: `NoBadLine` and `NoBadPin` show that no line and no pin
of a well-formed file is refused. The second is where the reference is tight: a net with one driver has
room for a sink whether the driver was loaded before it or not (`RoomForSink`), and the clock of a
subcircuit is free when its pin is added only because no pin replaces another (`ClockIsFree`).

**The routing.** `RouteTraceProofs` proves `TypesOK`, `ListsOwn` (`ListsOwnTheirCells`), `LoadedTraces`
(`LoadedTraceIsRouting`) and `ChargesRight` (`ChargesAreTheRouting`). The printed file is first shown to be
the concatenation of the lines of the nets, by recursion over the nets. `ListsInvariant` is the state of
the reader on each line: `Typed`, `Place` (what each variable holds, given the net and the line of the
net that comes next), `Linked` (a link leads to the cell allocated next, or from the head of a net which
never left its block to its successor, and no two heads are one cell) and `Ended` (no link but the
current cell's is unset). That the lists share no cell follows by induction along a list. `Loaded`
adds that the first nodes of a traceback are in cells that follow one another, with the switches of its
edges; `AllListed` that each net whose lines were read has its list; `Walk` that the walk is on such a
list and what it has marked so far.

The last two theorems have the hypothesis `SourceOnce`, that no routed net returns to its source. It
is the condition under which the code is right: a SOURCE line overwrites the cell before it
(`HPower/route.c:181`), and with a branch from the source the list is not the traceback. The
routings of the run meet it. `GraphAssumption` says that no edge leaves a SINK, which is how VPR
builds the graph (`vpr/SRC/route/rr_graph.c:1249`).

**The simulation.** `AceSimProofs` proves `SimTypes` (`TypeOK`), `SwitchingOfLogic`
(`LogicSwitchingBounded`) and the refinement `SimulatesCircuit`. First the loops: `Evaluates` and `Copies`,
`CopiesAtOnce` say what the sweep and the copying come to with no order, from the recursion over the
nodes and the order of `Abc_NtkDfs`: each node goes by the statuses and values its fanins have when
the sweep is over. `SimInv` then has `Counts` (one count a cycle), `Defined` (nothing is undefined once its
turn has come), `Fresh` (the first cycle as it starts) and `Turns`, the strengthening of the bound on
the switching: a toggle to 1 begins a cycle at 1 and one to 0 a cycle at 0, so a node at 0 has room
for one more toggle in its ones and a node at 1 in its zeros. `Turns` needs that the first value is no
toggle, which is where the inputs differ (the run `ace_first_value`). A latch takes its counters over
with its value, so the bound of a node is that of the latches it feeds, a cycle later (`Carried`), and
of those that such a latch feeds (`LogicLatches`); the latches an input reaches through latches alone
have its counters, and are left out for the same reason as the input.

`SimulatesCircuit` says of every circuit that each step of `AceSim` is one of `SyncCircuit`, for the
circuit simulated, or a stutter under the mapping of `Eager`. That the copies in place come to a load
from the sources is `CopiesAtOnce`, by induction over the list of latches (`SourceRead`); that the nodes of
constants stay 0 is `ConstantIsZero`. `FaithfulCircuits` adds when the circuit simulated is the one given.
The invariant of the refinement, `LazyInv`, is what makes skipping right:
between two sweeps there is a valuation, that of the sweep before, on which all gates had settled,
which the latches have loaded, and which everything old still has (`Between`). A node with old fanins
has then the value of its function still (`SweepSettles`). In the first cycle, where there is no sweep
before, every node is new but the constants (`AllNew`).

**The tasks.** `RunDirectoryProofs` proves `RunsApart`, `DeathIsDefeat`, `NoNumberSkipped` and
`DirectoryTypes` for any finite set of scripts and any old directories. The inductive invariant adds
that each new directory belongs to a script that runs, that a number found free was not an earlier
run's, and that the numbers before it are taken.

`TaskPoolProofs` proves `PoolTypes`, `RunOnce` and `TextsPrintedOnce` for any number of threads and
commands, silent and unreadable ones included. A command is in the queue, with the thread that runs
it, or run, and in one of these places only (`RunInv`); its text is with the thread that reports it,
in the queue of results, or printed, once (`PrintInv`). The two support one another: a thread that runs
a command must not overwrite the output another one is about to report, and does not, because the
first has run no time and the second once. `CountsEnds` bounds the ends counted. `PoolCorrect` is
the invariance of their conjunction.

Its second part proves `LeavesBySilenceOnly` and `NothingLost`, that the main thread leaves
early only as far as empty results explain it and otherwise loses nothing. The argument counts false
results (`EndsBalance`): those counted and those in the queue are as many as the threads that ended
and the commands whose empty text has left its thread. Each step of a thread that adds to one side
adds to the other, and taking a result moves it from the queue to the count, which needs that the
queue shifts one to one (`EndsTaken`). When the count reaches the number of threads, as many threads
are missing as empty texts came. For the second theorem the invariant also says where things are: a
command not run is in the queue or with a thread (`NotRun`; at first the queue, as long as there are
commands and without repetition, holds them all), a text is with its thread, queued or printed
(`HasRun`), no thread ends while a command is left (`EndsAfterAll`), and the end of a thread is
queued after its texts (`EndIsLast`). With no empty text and all ends counted, no end is in the queue,
so no text is, and all are printed.

**The flow.** `PowerFlowProofs` proves, for any command lines, widths and number of runs, `FlowTypes`, the
refinement `KeepsPromise` (initial states and steps of `PowerFlow` are those of `StagePipeline`, or
stutter), `RoutedWider` and `OldFilesTellLittle`. The type invariant carries the bond of process and
script: a child or an alarm is there only between `Fork` and `Return`. The refinement needs that,
while a run is under way, the stages reported lie before the one the script is at, are all of those
asked for unless something failed, and that the run calls itself running just as long (`FlowInv`).
`RoutedWider` needs that in the second routing the width is a widened one (`SecondWider`);
`OldFilesTellLittle` that in the first run no file is old, that the routing file is not in the second
routing unless `rm` was refused, and that before the stage of the fix scripts `fix_scripts.out` holds no
"Success" of this run (`OldFiles`).

It also proves `InputsAreMade`: a tool finds what a stage of this run was to make for
it. `InputsMade` looks only at the stage under way; the invariant `MadeInv` keeps what each stage
behind has left, until the clean-up of a stage after which nothing reads it (`MadeSoFar`). The
placement needs a conjunct of its own, since the success of VPR is told from the routing alone: VPR
writes the placement first, so there is one wherever there is a routing (`PlaceFirst`), and the
second routing, which removes the first, begins only when there was one (`PlaceOfFirst`). For the two files
that an old one stands in for only after a refusal there are `RouteIsNew` and `NetlistIsNew`.

**The main program.** `HPowerProofs` proves `TypesOK`, `OptionsAreUnderstood` (`OptionsUnderstood`),
`BlocksPlacedWhereNamed` (`PlacedWhereNamed`) and `EstimateCountsOnce` (`SitesCountedOnce`), for any command
lines, files and architectures.

* `TypesOK` allows `arg_idx` up to two beyond the last word, where an option without a value leaves it.
* `OptionsUnderstood` speaks of the end of `read_options`; `OptionsInv` of each word on the way
  (`ReadSoFar`): the position is never that of an option's value, the names given are as many as the
  plain words before it, each file is that of the last option so far, and the words to come are as
  they were, since the dashes are stripped in place. The rank of a plain word among the others is the
  number of names given before it (`WordAtHand`).
* `ReadInv` has the coordinates of each block at each line of the placement file: those of its last line
  so far, if it is the first of its name. `GridInv` says what `sync_grid_to_blocks` keeps: each tile has
  the type, offset and cells it was made with (`Made`), each block so far is in the cell of its
  coordinates (`OnSite`), unless its z is the capacity of its type, and a cell that is not free holds the
  block that has its coordinates (`Filled`). `OverrunInv` says that only such a block overruns a list.
  `BlocksPlacedWhereNamed` and `EstimateCountsOnce` then claim nothing of a run with such a block.
  A block without a line would be in a corner, whose type is no block's.
* `WalkInv` says what the walk over the grid has counted so far: the sums over the sites on the tiles
  before the one at hand (`Visited`), and for each block the number of these it is on. At the end these
  are all sites of the types in the library; the sites of a type are as many as `alloc_and_load_grid`
  counts (`InstancesOf`: the pads around the grid, and in the core the first tiles of the large blocks
  that fit); each block is on one of them (`SiteOfBlock`), so the others are as many as the estimate of
  idle sites says (`SumOfType`, `EstimateSum`).
* The multiplexers: dividing by the size, rounding up, again and again is dividing by its powers
  (`CeilTwice`), so the recursion of `num_default_muxes` satisfies the equation of the tree (`TreeStep`),
  which has one solution (`MuxesOfTree`).

What `power_pb` finds in a block (`BlockParts`) is not looked into: the theorems hold for any answer that
can be counted.

**Induction.** The induction theorems of the library take an operator, which the provers cannot
instantiate. `NaturalRecursion` has them for sets: a set that holds 0 and the successor of each of its
naturals has all of them (`SetInduction`, from the cardinality of finite sets: adding one would
otherwise map an initial segment into less), and a recursive function on an initial segment, or on all
naturals, has the values its definition gives (`Recursion`, `EndlessIteration`). A property becomes a set
by comprehension, a recursive definition a sequence of step functions. From these follows what sums
over finite sets are: the fold of the community modules has a value (`FoldExists`, `FoldUnique`), any
element may be taken first (`SumAny`), and a sum may be split, renamed and grouped (`SumSplit`,
`SumImage`, `SumGroups`).

The assumptions are the ASSUMEs of the modules (sets of nets, threads, jobs and scripts are finite, a latch line has
three pins, a traceback follows the edges of the graph, a circuit is a network in depth-first order,
...), which TLC evaluates in the runs.

Only model-checked: liveness (`Terminates`, `PoolEnds`, `SomeoneRuns`, `FlowEnds`, `OptionsEnd`,
`RightRunsFinish`, and the fairness that is part of `LazyIsEager`), which is out of the prover's
reach; the walk of `BlockWalk` over trees, which is RECURSIVE. Every other invariant and action
property of the passing runs is a theorem.

## 5. What the code does otherwise than it says

The five findings of `PROJECT.json` are the runs that expect a violation. Met on the way, and
modelled as the code has them:

* The usage comment of the flow script says that `-ending_stage` is "vpr" by default; it is "hpower". It
  names a stage "script" which the option calls "scripts".
* `print_usage` of HPower names `--crit_path` and `--chan_width` (`HPower/main.c:264-265`); given either
  after the names, `read_options` never ends (`OptionsEnd`, whose first conjunct states it).
* A block on a site numbered by the capacity overruns the list of its tile (`vpr_utils.c:69`, 106).
* Latches listed after their feeders, and constants, are not simulated as they should be
  (`ace2/sim.c:143`, 258).
* When `fork` fails the flow script itself becomes the tool (`run_vtr_flow_power.pl:654`).
* `build_place` is called with the names of the netlist and the architecture exchanged; the checks
  that would notice are commented out.
* `vpr_status` in `output.txt` is the status of the last tool run, VPR or not
  (`run_vtr_flow_power.pl:607`).
* ACE's activity file is opened before ACE does anything, so its existence (line 470) says little of
  ACE's success.
* `$SIG{INTR}` is no signal: an interrupt ends the script without its handler, and leaves the tool.
* A clock net is refused or not according to the order in which the netlist uses it
  (`HPower/blif.c:903` and `1232`); `AcceptsExactly` states the order with which it is accepted.
* A SOURCE line overwrites the cell before it, so a net that branches from its source loses a sink
  (`HPower/route.c:181`); the routings of `route` leave their source once.

## 6. Not modelled, and what is left

* ACE2's latch cycles (`ace2/cycle.c`), the order of `ace2/ace.c` and its readers (`io_ace.c`): they
  decide the order of latches that `AceSim` takes as given. The next module to write.
* A composition of `TaskPool` with `PowerFlow`. The pool sees of a flow only what it prints, and
  `PowerFlow` leaves printing out; a command of the pool is silent or not by choice.
* The task configuration (`run_vtr_task.pl`, options, circuit and architecture lists) and its
  sequential case, which no other actor sees.
* The floating-point formulas of `power.c` and `bdd.c`: neither TLC nor the provers have reals.
* The vendored tools (VPR, ABC, ODIN II, libvpr, CUDD), which are most of the repository's lines:
  they are other projects, modelled by what this program's code asks of them. `HPower` takes in the
  few VPR functions the main program calls between its own steps.
* The report scripts, which extract text and keep no state, and the data files.
