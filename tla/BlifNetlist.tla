---------------------------- MODULE BlifNetlist ----------------------------
(***************************************************************************)
(* The BLIF reader of HPower (HPower/blif.c).  build_blif reads the file   *)
(* ten times: five passes that only count the pins of each net, so that    *)
(* init_parse can allocate its pin list, then five passes that fill the    *)
(* lists.  check_net then validates and sweeps the netlist and             *)
(* read_activity attaches the switching activities.                        *)
(*                                                                         *)
(* A line of the file is a record: its keyword, the pins it names (the net *)
(* token, the role of the pin and its slot in the block) and whether it is *)
(* well formed (a latch of five parameters, a model that the architecture  *)
(* describes, a row that ends in one character).  Everything is            *)
(* sequential; a step is one line or one call of add_vpack_net.            *)
(***************************************************************************)
EXTENDS Integers, Sequences, FiniteSets

CONSTANTS
  Nets,      \* the net names, the reserved words apart
  Slots,     \* the pin positions of a block, counted from 0
  LutSize,   \* the number of inputs of a LUT of the architecture
  OPEN,      \* "not connected"
  Files,     \* the BLIF files that can be read
  ActFiles   \* the activity files that can be read

Tokens == Nets \cup {"open", "unconn"}
\* none: a port the model does not have, or a pin number that is not a number;
\* beyond: a pin number that its port does not have.
Roles  == {"in", "out", "clk", "none", "beyond"}
\* nameless: a .subckt without the name of its model; unpaired: one with a signal too many.
Kinds  == {"model", "inputs", "outputs", "names", "latch", "subckt", "nameless", "unpaired",
           "row", "end"}
Pin    == [net : Tokens, role : Roles, slot : Slots]
Line   == [kind : Kinds, pins : Seq(Pin), known : BOOLEAN]

ASSUME NetsAssumption == IsFiniteSet(Nets) /\ OPEN \notin Nets /\ Nets \cap {"open", "unconn"} = {}
ASSUME SlotsAssumption == LutSize \in Nat /\ Slots \subseteq Nat /\ 0 \in Slots
\* The keyword gives the pins their roles; those of a subcircuit are its model's.
WellTyped(f) ==
  /\ f \in Seq(Line)
  /\ \A l \in DOMAIN f :
       /\ f[l].kind = "latch" => Len(f[l].pins) = 3
       /\ \A k \in DOMAIN f[l].pins : LET role == f[l].pins[k].role IN
            /\ f[l].kind = "inputs" => role = "out"
            /\ f[l].kind = "outputs" => role = "in"
            /\ f[l].kind = "names" => role = IF k = Len(f[l].pins) THEN "out" ELSE "in"
            /\ f[l].kind = "latch" => role = <<"in", "out", "clk">>[k]
ASSUME FilesAssumption == \A f \in Files : WellTyped(f)
ASSUME ActFilesAssumption == ActFiles \subseteq Seq(Nets)

VARIABLES
  file, act_file,       \* the two files, never written
  pc,                   \* what is being read, or how the program stopped
  doall, pass,          \* the loops of build_blif
  linenum, pin,         \* the current line, and how many of its pins were added
  add_truth_table, model_lines,
  lines,                \* ilines, olines, endlines, num_blif_models
  hash,                 \* the count of each net in the symbol table, 0 if absent
  num_logical_blocks,   \* blocks seen in this round of passes
  alloc_blocks,         \* the length of logical_block[] as allocated
  logical_block,        \* the blocks loaded
  num_driver, num_sinks,
  node_block,           \* the pins of each net: index -> <<block, slot>>, where written
  is_global,
  const_gen,            \* the nets marked is_const_gen
  activity              \* the nets whose activity was read

input == <<file, act_file>>
position == <<doall, pass, linenum, model_lines, lines, alloc_blocks>>
nets == <<num_driver, num_sinks, node_block, is_global>>
vars == <<input, pc, position, pin, add_truth_table, hash, num_logical_blocks,
          logical_block, nets, const_gen, activity>>

NetOrOpen == Nets \cup {OPEN}
Types == {"INPAD", "OUTPAD", "LUT", "SUBCKT", "LATCH", "EMPTY"}
Block == [type : Types, ins : [Slots -> NetOrOpen], outs : [Slots -> NetOrOpen],
          clk : NetOrOpen, truth_table : Seq(Nat), nin : Nat, nout : Int]

LineCounts == [ilines : Nat, olines : Nat, endlines : Nat, num_blif_models : Nat]

\* The program has stopped: loaded, exit, killed by a failed assert or a null pointer, or
\* a write out of an array.
Final == {"done", "exit", "abort", "corrupt"}

-----------------------------------------------------------------------------

NewBlock(type) ==
  [type |-> type, ins |-> [s \in Slots |-> OPEN], outs |-> [s \in Slots |-> OPEN],
   clk |-> OPEN, truth_table |-> <<>>, nin |-> 0, nout |-> 0]

NoLines == [ilines |-> 0, olines |-> 0, endlines |-> 0, num_blif_models |-> 0]

Init ==
  /\ file \in Files
  /\ act_file \in ActFiles
  /\ pc = "line"
  /\ doall = 0 /\ pass = 0 /\ linenum = 1 /\ pin = 0
  /\ add_truth_table = FALSE
  /\ model_lines = 0
  /\ lines = NoLines
  /\ hash = [n \in Nets |-> 0]
  /\ num_logical_blocks = 0 /\ alloc_blocks = 0
  /\ logical_block = <<>>
  /\ num_driver = [n \in Nets |-> 0]
  /\ num_sinks = [n \in Nets |-> 0]
  /\ node_block = [n \in Nets |-> <<>>]
  /\ is_global = [n \in Nets |-> FALSE]
  /\ const_gen = {}
  /\ activity = {}

Stop(how) ==
  /\ pc' = how
  /\ UNCHANGED <<input, position, pin, add_truth_table, hash, num_logical_blocks,
                 logical_block, nets, const_gen, activity>>

-----------------------------------------------------------------------------
(* get_tok: the line at linenum, by its first token *)

TheLine == file[linenum]
AtLine(kind) == pc = "line" /\ linenum \in DOMAIN file /\ TheLine.kind = kind
\* Mutant: the rest of the line is not consumed.
NextLineStuck == UNCHANGED <<linenum, pc, pin, doall, pass, alloc_blocks>>
NextLine == linenum' = linenum + 1 /\ UNCHANGED <<pc, pin, doall, pass, alloc_blocks>>

\* Mutants: pads of later models are added, always or only when loading.
AddsEveryModel(kind) ==
  \/ kind = "inputs" /\ pass = 1
  \/ kind = "outputs" /\ pass = 2
  \/ kind \in {"names", "latch", "subckt", "nameless", "unpaired"} /\ pass = 3
AddsMoreWhenLoading(kind) ==
  \/ kind = "inputs" /\ pass = 1 /\ (model_lines = 1 \/ doall = 1)
  \/ kind = "outputs" /\ pass = 2 /\ model_lines = 1
  \/ kind \in {"names", "latch", "subckt", "nameless", "unpaired"} /\ pass = 3

\* The pass in which the pins of a line are added; pads only of the first model.
Adds(kind) ==
  \/ kind = "inputs" /\ pass = 1 /\ model_lines = 1
  \/ kind = "outputs" /\ pass = 2 /\ model_lines = 1
  \/ kind \in {"names", "latch", "subckt", "nameless", "unpaired"} /\ pass = 3

\* Error checking counts lines only in the last pass of all.
LastPass == pass = 4 /\ doall = 1

DumParse ==
  /\ \E kind \in Kinds \ {"model", "row"} :
       /\ AtLine(kind)
       /\ ~ Adds(kind)
       /\ lines' = [lines EXCEPT
            !.ilines = IF LastPass /\ kind = "inputs" THEN @ + 1 ELSE @,
            !.olines = IF LastPass /\ kind = "outputs" THEN @ + 1 ELSE @,
            !.endlines = IF LastPass /\ kind = "end" THEN @ + 1 ELSE @]
  /\ add_truth_table' = FALSE
  /\ NextLine
  /\ UNCHANGED <<input, model_lines, hash, num_logical_blocks, logical_block, nets,
                 const_gen, activity>>

\* check_and_count_models: from the second model on, and only in pass 0.
ExtraModel == pass = 0 /\ model_lines > 0
UnknownModel == ExtraModel /\ doall = 1 /\ ~ TheLine.known

ModelLine ==
  /\ AtLine("model")
  /\ ~ UnknownModel
  /\ lines' = [lines EXCEPT !.num_blif_models = IF ExtraModel THEN @ + 1 ELSE @]
  /\ model_lines' = model_lines + 1
  /\ add_truth_table' = FALSE
  /\ NextLine
  /\ UNCHANGED <<input, hash, num_logical_blocks, logical_block, nets, const_gen, activity>>

\* Mutant: the list of rows is replaced, not extended.
ReplaceRows(rows) == <<linenum>>
AddRow(rows) == <<linenum>> \o rows

\* A row of a truth table goes to the block loaded last. A single character is the row of
\* a constant; anything else that does not end in one character is refused, not stored.
TruthTableRow ==
  /\ AtLine("row")
  /\ add_truth_table => TheLine.known /\ num_logical_blocks > 0
  /\ logical_block' =
       IF add_truth_table
       THEN [logical_block EXCEPT ![num_logical_blocks].truth_table = AddRow(@)]
       ELSE logical_block
  /\ NextLine
  /\ UNCHANGED <<input, add_truth_table, model_lines, lines, hash, num_logical_blocks, nets,
                 const_gen, activity>>

\* The line is one whose pins are about to be added one by one.
StartPins(newBlock) ==
  /\ add_truth_table' = (TheLine.kind = "names" /\ doall = 1)
  /\ num_logical_blocks' = num_logical_blocks + Len(newBlock)
  /\ logical_block' = IF doall = 1 THEN logical_block \o newBlock ELSE logical_block
  /\ IF TheLine.pins = <<>>
     THEN NextLine
     ELSE pc' = "pins" /\ UNCHANGED <<linenum, pin, doall, pass, alloc_blocks>>
  /\ UNCHANGED <<input, model_lines, lines, hash, nets, const_gen, activity>>

IoLine ==
  \E kind \in {"inputs", "outputs"} : AtLine(kind) /\ Adds(kind) /\ StartPins(<<>>)

\* add_lut first copies the tokens to a table of LutSize + 1 rows and reads the last.
TooWide(line) == Len(line.pins) \notin 1 .. LutSize + 1
IgnoredLut(line) ==
  line.kind = "names" /\ line.pins # <<>> /\ line.pins[Len(line.pins)].net = "unconn"

AddLut ==
  /\ AtLine("names") /\ Adds("names")
  /\ ~ TooWide(TheLine) /\ ~ IgnoredLut(TheLine)
  /\ StartPins(<<NewBlock("LUT")>>)

IgnoreLut ==
  /\ AtLine("names") /\ Adds("names")
  /\ ~ TooWide(TheLine) /\ IgnoredLut(TheLine)
  /\ add_truth_table' = (doall = 1)
  /\ NextLine
  /\ UNCHANGED <<input, model_lines, lines, hash, num_logical_blocks, logical_block, nets,
                 const_gen, activity>>

AddLatch ==
  /\ AtLine("latch") /\ Adds("latch")
  /\ TheLine.known
  /\ StartPins(<<NewBlock("LATCH")>>)

UnknownSubckt == doall = 1 /\ ~ TheLine.known

AddSubckt ==
  /\ AtLine("subckt") /\ Adds("subckt")
  /\ ~ UnknownSubckt
  /\ StartPins(<<NewBlock("SUBCKT")>>)

BadLine ==
  \/ /\ \/ AtLine("model") /\ UnknownModel
        \/ AtLine("latch") /\ Adds("latch") /\ ~ TheLine.known
        \/ AtLine("subckt") /\ Adds("subckt") /\ UnknownSubckt
        \/ AtLine("unpaired") /\ Adds("unpaired")
        \/ AtLine("row") /\ add_truth_table /\ ~ TheLine.known
     /\ Stop("exit")
  \/ /\ \/ AtLine("nameless") /\ Adds("nameless")
        \/ AtLine("model") /\ UnknownModel   \* the line has no name to compare
     /\ Stop("abort")
  \/ /\ \/ AtLine("names") /\ Adds("names") /\ TooWide(TheLine)
        \/ AtLine("row") /\ add_truth_table /\ TheLine.known /\ num_logical_blocks = 0
     /\ Stop("corrupt")

-----------------------------------------------------------------------------
(* add_vpack_net, for one pin of the line *)

\* A latch is counted D, Q, clock and loaded Q, D, clock; the others in order.
LoadsQFirst == TheLine.kind = "latch" /\ doall = 1
PinNumber(k) == IF LoadsQFirst /\ k \in {1, 2} THEN 3 - k ELSE k
ThePin == TheLine.pins[PinNumber(pin + 1)]

IsPad == TheLine.kind \in {"inputs", "outputs"}

\* The block the pin belongs to: io_line makes one for each pin.
PinBlock == IF IsPad THEN num_logical_blocks + 1 ELSE num_logical_blocks

\* Mutant: off by one in the test below.
NoRoomOffByOne(p) ==
  p.role # "out" /\ num_sinks[p.net] + 1 - num_driver[p.net] > hash[p.net]

\* "Net has no driver and will cause memory corruption": the test of add_vpack_net.
\* num_sinks is already incremented, temp_num_pins is the count of the net.
NoRoom(p) ==
  p.role # "out" /\ num_sinks[p.net] + 1 - num_driver[p.net] >= hash[p.net]

NetRefused(p) ==
  \/ p.net = "open"
  \/ doall = 1 /\ p.net \in Nets /\ (hash[p.net] = 0 \/ NoRoom(p))

Refused(p) == NetRefused(p) \/ (doall = 1 /\ p.role \in {"none", "beyond"})

\* The clock of a subckt meets assert(clock_net == OPEN), assert(pin_number == 0).
BadClock(p) ==
  doall = 1 /\ p.role = "clk" /\ TheLine.kind = "subckt"
            /\ (p.slot # 0 \/ logical_block[num_logical_blocks].clk # OPEN)

\* Mutant: num_sinks is incremented after its use.
PinIndexLate(p) == IF p.role = "out" THEN 0 ELSE num_sinks[p.net]

\* The driver is always at position 0 of the pin list.
PinIndex(p) == IF p.role = "out" THEN 0 ELSE num_sinks[p.net] + 1

\* Mutant: the pin number is dropped.
PinEntryNoSlot(p) == <<PinBlock, 0>>
PinEntry(p) == <<PinBlock, p.slot>>

\* Mutant: a net once global stays global.
GlobalSticky(p) == is_global[p.net] \/ p.role = "clk"
GlobalAfter(p) == p.role = "clk"

CountNet(p) ==
  /\ hash' = IF p.net \in Nets THEN [hash EXCEPT ![p.net] = @ + 1] ELSE hash
  /\ UNCHANGED nets

LoadNet(p) ==
  /\ IF p.net \in Nets
     THEN LET j == PinIndex(p) IN
          /\ num_driver' = [num_driver EXCEPT ![p.net] = IF p.role = "out" THEN @ + 1 ELSE @]
          /\ num_sinks' = [num_sinks EXCEPT ![p.net] = IF p.role = "out" THEN @ ELSE @ + 1]
          /\ node_block' = [node_block EXCEPT ![p.net] =
               [i \in DOMAIN @ \cup {j} |-> IF i = j THEN PinEntry(p) ELSE @[i]]]
          /\ is_global' = [is_global EXCEPT ![p.net] = GlobalAfter(p)]
     ELSE UNCHANGED nets
  /\ UNCHANGED hash

\* Mutant: the keyword unconn is stored as a net.
NetIndexUnchecked(p) == p.net
NetIndex(p) == IF p.net \in Nets THEN p.net ELSE OPEN

\* The caller stores the net in the slot of the block; unconn is stored as OPEN.
Connected(block, p) ==
  LET net  == NetIndex(p)
      used == IF p.net \in Nets THEN 1 ELSE 0
  IN CASE p.role = "out" -> [block EXCEPT !.outs[p.slot] = net, !.nout = @ + used]
       [] p.role = "in"  -> [block EXCEPT !.ins[p.slot] = net, !.nin = @ + used]
       [] OTHER          -> [block EXCEPT !.clk = net]

PadType == IF TheLine.kind = "inputs" THEN "INPAD" ELSE "OUTPAD"

AddPin ==
  /\ pc = "pins"
  /\ LET p == ThePin
         blocks == IF IsPad /\ doall = 1
                   THEN Append(logical_block, NewBlock(PadType)) ELSE logical_block
     IN /\ ~ Refused(p) /\ ~ BadClock(p)
        /\ IF doall = 0 THEN CountNet(p) ELSE LoadNet(p)
        /\ num_logical_blocks' = PinBlock
        /\ logical_block' =
             IF doall = 1 THEN [blocks EXCEPT ![PinBlock] = Connected(@, p)] ELSE blocks
  /\ IF pin + 1 = Len(TheLine.pins)
     THEN pc' = "line" /\ pin' = 0 /\ linenum' = linenum + 1
     ELSE pin' = pin + 1 /\ UNCHANGED <<pc, linenum>>
  /\ UNCHANGED <<input, doall, pass, model_lines, lines, alloc_blocks, add_truth_table,
                 const_gen, activity>>

BadPin ==
  /\ pc = "pins"
  /\ LET p == ThePin
     IN \/ BadClock(p) /\ Stop("abort")
        \/ ~ BadClock(p) /\ Refused(p) /\ (p.role = "beyond" => NetRefused(p)) /\ Stop("exit")
        \* the pin number of a second clock is not looked at
        \/ /\ doall = 1 /\ p.role = "none" /\ logical_block[num_logical_blocks].clk # OPEN
           /\ Stop("abort")
        \/ doall = 1 /\ p.role = "beyond" /\ Stop("corrupt")

-----------------------------------------------------------------------------
(* build_blif and init_parse *)

AtEnd == pc = "line" /\ linenum > Len(file)

Rewind ==
  /\ linenum' = 1
  /\ model_lines' = 0
  /\ add_truth_table' = FALSE
  /\ UNCHANGED <<input, pin, hash, nets, const_gen, activity>>

EndPass ==
  /\ AtEnd /\ pass < 4
  /\ pass' = pass + 1
  /\ Rewind
  /\ UNCHANGED <<pc, doall, lines, alloc_blocks, num_logical_blocks, logical_block>>

EndCounting ==
  /\ AtEnd /\ pass = 4 /\ doall = 0
  /\ doall' = 1 /\ pass' = 0
  /\ Rewind
  /\ lines' = NoLines
  /\ alloc_blocks' = num_logical_blocks
  /\ num_logical_blocks' = 0
  /\ UNCHANGED <<pc, logical_block>>

EndLoading ==
  /\ AtEnd /\ pass = 4 /\ doall = 1
  /\ pc' = "check"
  /\ UNCHANGED <<input, position, pin, add_truth_table, hash, num_logical_blocks,
                 logical_block, nets, const_gen, activity>>

-----------------------------------------------------------------------------
(* check_net, called with sweep_hanging_nets_and_inputs TRUE *)

Known == {n \in Nets : hash[n] > 0}
Driver(n) == node_block[n][0]
BlockIds == DOMAIN logical_block

\* A net without sinks is removed from the pin of its driver.
Swept == {n \in Known : /\ num_sinks[n] = 0
                        /\ logical_block[Driver(n)[1]].type # "OUTPAD"}
SweptAt(b, s) == {n \in Swept : Driver(n) = <<b, s>>}

SweptBlocks ==
  [b \in BlockIds |->
     [logical_block[b] EXCEPT
        !.outs = [s \in Slots |-> IF SweptAt(b, s) # {} THEN OPEN ELSE @[s]],
        !.nout = @ - Cardinality({n \in Swept : Driver(n)[1] = b})]]

\* Mutant: unused input pads are kept.
UnusedInpadNever(b) == FALSE

\* An input pad whose net was removed, or is unconn, is removed too.
UnusedInpad(b) == SweptBlocks[b].nout = 0 /\ SweptBlocks[b].type = "INPAD"

Kept(n, b) == n # OPEN /\ ~ UnusedInpad(b)
UsedIns(b)  == {s \in Slots : Kept(logical_block[b].ins[s], b)}
UsedOuts(b) == {s \in Slots : Kept(SweptBlocks[b].outs[s], b)}

NetCheck(n) ==   \* the pins that disagree with the block they name
  {j \in 0 .. num_sinks[n] :
     LET at == node_block[n][j]
         block == logical_block[at[1]]
     IN n # (CASE j = 0 -> SweptBlocks[at[1]].outs[at[2]]
               [] j > 0 /\ is_global[n] -> block.clk
               [] OTHER -> block.ins[at[2]])}

NetErrors ==
  {n \in Known : num_driver[n] # 1} \cup {n \in Known \ Swept : NetCheck(n) # {}}

BlockErrors ==
  {b \in BlockIds :
     LET block == SweptBlocks[b] IN
     \/ block.type \in {"LUT", "SUBCKT", "LATCH"} /\ block.nout = 0
     \/ block.type = "LATCH" /\ (block.nin # 1 \/ block.nout # 1 \/ block.clk = OPEN)
     \/ block.type = "INPAD" /\ block.nout > 1
     \/ block.type = "OUTPAD" /\ block.nin # 1
     \/ block.type = "LUT" /\ block.nout # 1}

\* Mutant: the .end lines are not compared.
LineErrorsNoEnd ==
  LET expected == lines.num_blif_models + 1
  IN {lines.ilines, lines.olines, model_lines} # {expected}

LineErrors ==
  LET expected == lines.num_blif_models + 1
  IN {lines.ilines, lines.olines, lines.endlines, model_lines} # {expected}

AssertsHold ==
  /\ \A n \in Known : num_sinks[n] = 0 => num_driver[n] = 1
  /\ \A b \in BlockIds : ~ UnusedInpad(b) =>
       /\ Cardinality(UsedIns(b)) = logical_block[b].nin
       /\ Cardinality(UsedOuts(b)) = SweptBlocks[b].nout
       /\ \A s \in UsedIns(b) :
            LET n == logical_block[b].ins[s]
            IN \E k \in 1 .. num_sinks[n] : node_block[n][k] = <<b, s>>
       /\ \A s \in UsedOuts(b) : Driver(SweptBlocks[b].outs[s]) = <<b, s>>

\* A mismatch with an unconnected pin also prints vpack_net[OPEN].name.
PrintsOpenNet ==
  \E n \in Known \ Swept : \E j \in NetCheck(n) :
    LET block == logical_block[node_block[n][j][1]]
    IN OPEN = (CASE j = 0 -> SweptBlocks[node_block[n][j][1]].outs[node_block[n][j][2]]
                 [] j > 0 /\ is_global[n] -> block.clk
                 [] OTHER -> block.ins[node_block[n][j][2]])

CheckNet ==
  /\ pc = "check"
  /\ AssertsHold /\ ~ LineErrors /\ NetErrors = {} /\ BlockErrors = {}
  /\ logical_block' = [b \in BlockIds |->
       [SweptBlocks[b] EXCEPT !.type = IF UnusedInpad(b) THEN "EMPTY" ELSE @]]
  /\ node_block' = [n \in Nets |->
       IF n \in Swept THEN [node_block[n] EXCEPT ![0] = <<OPEN, OPEN>>] ELSE node_block[n]]
  /\ const_gen' = {n \in Nets : \E b \in BlockIds : \E t \in UsedOuts(b) :
       /\ SweptBlocks[b].outs[t] = n
       /\ logical_block[b].type # "INPAD"
       /\ UsedIns(b) = {} /\ logical_block[b].clk = OPEN}
  /\ pc' = "activity"
  /\ linenum' = 1
  /\ UNCHANGED <<input, doall, pass, model_lines, lines, alloc_blocks, pin, add_truth_table,
                 hash, num_logical_blocks, num_driver, num_sinks, is_global, activity>>

CheckFails ==
  /\ pc = "check"
  /\ \/ ~ AssertsHold /\ Stop("abort")
     \/ /\ AssertsHold
        /\ LineErrors \/ NetErrors # {} \/ BlockErrors # {}
        /\ Stop("exit")
     \/ PrintsOpenNet /\ Stop("corrupt")

-----------------------------------------------------------------------------
(* read_activity *)

\* A name that is not in the symbol table is reported and skipped.
AddActivity ==
  /\ pc = "activity" /\ linenum \in DOMAIN act_file
  /\ activity' = activity \cup ({act_file[linenum]} \cap Known)
  /\ linenum' = linenum + 1
  /\ UNCHANGED <<input, pc, doall, pass, model_lines, lines, alloc_blocks, pin,
                 add_truth_table, hash, num_logical_blocks, logical_block, nets, const_gen>>

\* The nets without an activity are reported; fail is set and never read.
EndActivity ==
  /\ pc = "activity" /\ linenum > Len(act_file)
  /\ Stop("done")

Stopped == pc \in Final /\ UNCHANGED vars

Next ==
  \/ DumParse \/ ModelLine \/ TruthTableRow
  \/ IoLine \/ AddLut \/ IgnoreLut \/ AddLatch \/ AddSubckt \/ BadLine
  \/ AddPin \/ BadPin
  \/ EndPass \/ EndCounting \/ EndLoading
  \/ CheckNet \/ CheckFails
  \/ AddActivity \/ EndActivity \/ Stopped

Spec == Init /\ [][Next]_vars

\* The reader is one thread that nothing blocks.
FairSpec == Spec /\ WF_vars(Next)
-----------------------------------------------------------------------------
(* What the file says, without reading it ten times: the reference *)

PositionTypeOK ==
  /\ WellTyped(file) /\ act_file \in ActFiles
  /\ pc \in {"line", "pins", "check", "activity"} \cup Final
  /\ doall \in {0, 1} /\ pass \in 0 .. 4
  /\ linenum \in Nat \ {0}
  /\ pin \in Nat /\ (pc = "line" => pin = 0)
  /\ pc = "pins" => linenum \in DOMAIN file /\ pin < Len(TheLine.pins)
  /\ model_lines \in Nat
  /\ lines \in LineCounts

BlocksTypeOK ==
  /\ num_logical_blocks \in Nat /\ alloc_blocks \in Nat
  /\ logical_block \in Seq(Block)

NetsTypeOK ==
  /\ hash \in [Nets -> Nat]
  /\ num_driver \in [Nets -> Nat] /\ num_sinks \in [Nets -> Nat]
  /\ DOMAIN node_block = Nets
  /\ const_gen \subseteq Nets /\ activity \subseteq Nets

FlagsTypeOK == add_truth_table \in BOOLEAN /\ is_global \in [Nets -> BOOLEAN]

TypeOK == PositionTypeOK /\ BlocksTypeOK /\ NetsTypeOK /\ FlagsTypeOK

\* A line of the first model: .inputs and .outputs count only there.
FirstModel(l) == Cardinality({m \in 1 .. l - 1 : file[m].kind = "model"}) = 1

BlockLine(l) ==
  \/ file[l].kind \in {"latch", "subckt"}
  \/ file[l].kind = "names" /\ ~ IgnoredLut(file[l])
PadLine(l) == file[l].kind \in {"inputs", "outputs"} /\ FirstModel(l)

PassOf(l) == CASE file[l].kind = "inputs" -> 1
               [] file[l].kind = "outputs" -> 2
               [] OTHER -> 3

\* The pins of the netlist, as <<line, pin>>, and those of one net.
Occurrences ==
  UNION {{l} \X DOMAIN file[l].pins : l \in {m \in DOMAIN file : BlockLine(m) \/ PadLine(m)}}
PinAt(o) == file[o[1]].pins[o[2]]
PinsOf(n) == {o \in Occurrences : PinAt(o).net = n}
SinksOf(n) == {o \in PinsOf(n) : PinAt(o).role # "out"}
DriversOf(n) == PinsOf(n) \ SinksOf(n)

\* The order of loading (the clock is the last pin of a latch).
NotAfter(o, p) ==
  \/ PassOf(o[1]) < PassOf(p[1])
  \/ PassOf(o[1]) = PassOf(p[1]) /\ (o[1] < p[1] \/ (o[1] = p[1] /\ o[2] <= p[2]))
Latest(S) == CHOOSE o \in S : \A p \in S : NotAfter(p, o)

PadPins == {o \in Occurrences : PadLine(o[1])}
BlockOfLine(l) == Cardinality(PadPins) + Cardinality({m \in 1 .. l : BlockLine(m)})
Place(o) ==
  <<IF PadLine(o[1]) THEN Cardinality({p \in PadPins : NotAfter(p, o)}) ELSE BlockOfLine(o[1]),
    PinAt(o).slot>>

RowsOf(l) == {r \in l + 1 .. Len(file) : \A m \in l + 1 .. r : file[m].kind = "row"}
RowsLoaded(b) == {logical_block[b].truth_table[i] : i \in DOMAIN logical_block[b].truth_table}

LinesOf(kind) == Cardinality({l \in DOMAIN file : file[l].kind = kind})

Readable ==
  /\ \A l \in DOMAIN file :
       /\ file[l].kind \notin {"nameless", "unpaired"}
       /\ file[l].kind = "names" => ~ TooWide(file[l]) /\ \A r \in RowsOf(l) : file[r].known
       /\ file[l].kind \in {"latch", "subckt"} => file[l].known
       /\ file[l].kind = "model" => file[l].known \/ \A m \in 1 .. l - 1 : file[m].kind # "model"
  /\ \A o \in Occurrences : PinAt(o).net # "open" /\ PinAt(o).role \notin {"none", "beyond"}
  /\ \A l \in DOMAIN file :   \* rows have a block to go to
       file[l].kind = "names" /\ RowsOf(l) # {} => PadPins # {} \/ \E m \in 1 .. l : BlockLine(m)

CompleteModels ==
  /\ LinesOf("model") > 0
  /\ {LinesOf("inputs"), LinesOf("outputs"), LinesOf("end")} = {LinesOf("model")}

OneDriverEach == \A n \in Nets : PinsOf(n) # {} => Cardinality(DriversOf(n)) = 1

Useful(l) ==   \* every output of a LUT or latch has a sink, some output of a subckt
  LET used == {o \in {l} \X DOMAIN file[l].pins :
                 PinAt(o).role = "out" /\ PinAt(o).net \in Nets /\ SinksOf(PinAt(o).net) # {}}
  IN used # {}

\* A later pin of the same port takes the place of a net, and the sweep takes neither.
Overwritten(p, q) ==
  LET swept(r) == r.role = "out" /\ (r.net \in Nets => SinksOf(r.net) = {})
  IN  p.role = q.role /\ p.slot = q.slot /\ p.net \in Nets /\ ~ (swept(p) /\ swept(q))

FullyConnected ==
  /\ \A l \in DOMAIN file : BlockLine(l) =>
       /\ Useful(l)
       /\ file[l].kind = "latch" => \A k \in DOMAIN file[l].pins : file[l].pins[k].net \in Nets
       /\ \A k, m \in DOMAIN file[l].pins : k < m => ~ Overwritten(file[l].pins[k], file[l].pins[m])
       /\ file[l].kind = "subckt" =>
            \A k \in DOMAIN file[l].pins : file[l].pins[k].role = "clk" => file[l].pins[k].slot = 0
  /\ \A o \in PadPins : PinAt(o).role = "in" => PinAt(o).net \in Nets

WellFormed == Readable /\ CompleteModels /\ OneDriverEach /\ FullyConnected

\* The pin named last decides whether a net is looked for on the clock pins of its
\* blocks or on their inputs; it must be found there.
ClockOrder ==
  \A n \in Nets : SinksOf(n) # {} =>
    LET onClock == PinAt(Latest(PinsOf(n))).role = "clk"
    IN \A o \in SinksOf(n) : \E k \in DOMAIN file[o[1]].pins :
         LET p == file[o[1]].pins[k]
         IN /\ p.net = n
            /\ IF onClock THEN p.role = "clk" ELSE p.role = "in" /\ p.slot = PinAt(o).slot

-----------------------------------------------------------------------------
(* Properties *)

\* init_parse allocates the pin list of a net for as many pins as the counting passes
\* saw; no call of add_vpack_net in the loading passes writes beyond it, whatever the
\* drivers and the order of the pins ("avoid assigning values beyond end of pins array").
PinListInBounds ==
  doall = 1 => \A n \in Nets : DOMAIN node_block[n] \subseteq 0 .. hash[n] - 1

\* The lists are malloc'ed and not cleared: when check_net walks entries 0 .. num_sinks
\* of a net each of them has been written, the driver's entry 0 included.
PinListInitialised ==
  pc = "check" => \A n \in Known : DOMAIN node_block[n] = 0 .. num_sinks[n]

\* The blocks of the loading passes fit the array sized by the counting passes, and fill it.
BlocksInBounds ==
  /\ doall = 1 => num_logical_blocks <= alloc_blocks /\ Len(logical_block) = num_logical_blocks
  /\ pc = "check" => num_logical_blocks = alloc_blocks

\* After the ten passes the pin lists hold the pins of the file: each net is counted and
\* loaded once per pin, on the block and slot the file puts it on, its driver at 0.
LoadedNetlistIsFile ==
  pc = "check" => \A n \in Nets :
    /\ hash[n] = Cardinality(PinsOf(n))
    /\ num_driver[n] = Cardinality(DriversOf(n)) /\ num_sinks[n] = Cardinality(SinksOf(n))
    /\ DriversOf(n) # {} => Driver(n) = Place(Latest(DriversOf(n)))
    /\ \A o \in SinksOf(n) :
         Cardinality({p \in SinksOf(n) : Place(p) = Place(o)})
           = Cardinality({j \in 1 .. num_sinks[n] : node_block[n][j] = Place(o)})

\* build_blif returns for exactly the well-formed files whose clock nets are named in an
\* order it can check; every other file makes it stop, be killed, or write out of an array.
AcceptsExactly ==
  /\ pc \in {"activity", "done"} => WellFormed /\ ClockOrder
  /\ pc \in {"exit", "abort", "corrupt"} => ~ (WellFormed /\ ClockOrder)

\* What check_net leaves: no output pin drives a net without sinks, the driver entry of a
\* net is the pin that names it, and an input pad without a net is EMPTY.
SweptNetlist ==
  pc \in {"activity", "done"} => \A b \in BlockIds :
    /\ \A s \in Slots : LET n == logical_block[b].outs[s] IN
         n # OPEN => num_sinks[n] > 0 /\ Driver(n) = <<b, s>>
    /\ logical_block[b].type = "INPAD" => \E s \in Slots : logical_block[b].outs[s] # OPEN
    /\ logical_block[b].type \in {"EMPTY", "OUTPAD"}
         <=> \A s \in Slots : logical_block[b].outs[s] = OPEN

\* No row of a truth table is lost: those that follow a .names are on its block.
TruthTableComplete ==
  pc = "check" => \A l \in DOMAIN file :
    file[l].kind = "names" /\ BlockLine(l) => RowsOf(l) \subseteq RowsLoaded(BlockOfLine(l))

\* Every file, well formed or not, is read to the end or refused.
Terminates == <>(pc \in Final)

-----------------------------------------------------------------------------
(* What the comments and messages of blif.c say, and the code does not do *)

\* blif.c:357 "unconn is a keyword to pad unused pins, ignore this block": the rows of an
\* ignored .names are on no block.
TruthTableOwn ==
  pc = "check" => \A l \in DOMAIN file :
    file[l].kind = "names" /\ BlockLine(l) => RowsLoaded(BlockOfLine(l)) \subseteq RowsOf(l)
=============================================================================
