------------------------- MODULE BlifNetlistProofs -------------------------
(***************************************************************************)
(* Theorems about the BLIF reader, for every set of files, of any length:  *)
(* its types; that the two rounds of passes agree well enough for the pin  *)
(* lists to be written within their bounds and read only where they were   *)
(* written; and what the loading passes leave: the blocks fill the array   *)
(* sized by the counting passes, the pin lists hold the pins of the file   *)
(* on the blocks the file puts them on, and no row of a truth table is     *)
(* lost; that check_net leaves a swept netlist; and that build_blif        *)
(* returns for exactly the files that the reference says it should.        *)
(***************************************************************************)
EXTENDS BlifNetlist, FiniteSetTheorems, SequenceTheorems, TLAPS

USE DEF Final

-----------------------------------------------------------------------------
(* Types *)

\* The line being read is a line of the file.
LEMMA LineType ==
  ASSUME TypeOK, linenum \in DOMAIN file
  PROVE  /\ TheLine \in Line
         /\ linenum \in 1 .. Len(file)
         /\ TheLine.pins \in Seq(Pin)
         /\ DOMAIN TheLine.pins = 1 .. Len(TheLine.pins)
         /\ Len(TheLine.pins) \in Nat
         /\ TheLine.kind = "latch" => Len(TheLine.pins) = 3
<1>1. file \in Seq(Line)
  BY DEF TypeOK, PositionTypeOK, WellTyped
<1>2. TheLine \in Line /\ linenum \in 1 .. Len(file)
  BY <1>1 DEF TheLine
<1>3. TheLine.pins \in Seq(Pin)
  BY <1>2 DEF Line
<1>4. TheLine.kind = "latch" => Len(TheLine.pins) = 3
  BY DEF TypeOK, PositionTypeOK, TheLine, WellTyped
<1>5. QED
  BY <1>2, <1>3, <1>4

\* The order in which the pins of a line are added is a permutation of the line.
LEMMA PinNumberType ==
  ASSUME TypeOK, linenum \in DOMAIN file, NEW k \in DOMAIN TheLine.pins
  PROVE  /\ PinNumber(k) \in DOMAIN TheLine.pins
         /\ PinNumber(PinNumber(k)) = k
  BY LineType DEF PinNumber, LoadsQFirst, TypeOK, PositionTypeOK

\* The pin added next is a pin of the line.
LEMMA ThePinType ==
  ASSUME TypeOK, pc = "pins"
  PROVE  /\ pin + 1 \in DOMAIN TheLine.pins
         /\ PinNumber(pin + 1) \in DOMAIN TheLine.pins
         /\ ThePin \in Pin
<1>1. linenum \in DOMAIN file /\ pin + 1 \in DOMAIN TheLine.pins
  BY LineType DEF TypeOK, PositionTypeOK
<1>2. QED
  BY <1>1, LineType, PinNumberType DEF ThePin

\* The sweep keeps blocks blocks.
LEMMA SweptBlocksType ==
  ASSUME TypeOK, NEW b \in BlockIds
  PROVE  SweptBlocks[b] \in Block
<1>1. logical_block[b] \in Block
  BY DEF TypeOK, BlocksTypeOK, BlockIds
<1>2. Cardinality({n \in Swept : Driver(n)[1] = b}) \in Nat
  BY NetsAssumption, FS_Subset, FS_CardinalityType DEF Swept, Known
<1>. DEFINE outs == [s \in Slots |-> IF SweptAt(b, s) # {} THEN OPEN ELSE logical_block[b].outs[s]]
            nout == logical_block[b].nout - Cardinality({n \in Swept : Driver(n)[1] = b})
<1>3. outs \in [Slots -> NetOrOpen] /\ nout \in Int
  BY <1>1, <1>2 DEF Block, NetOrOpen
<1>4. SweptBlocks[b] = [logical_block[b] EXCEPT !.outs = outs, !.nout = nout]
  BY DEF SweptBlocks
<1>. HIDE DEF outs, nout
<1>5. QED
  BY <1>1, <1>3, <1>4 DEF Block

\* A connected block is a block.
LEMMA ConnectedType ==
  ASSUME NEW block \in Block, NEW p \in Pin
  PROVE  Connected(block, p) \in Block
<1>. DEFINE used == IF p.net \in Nets THEN 1 ELSE 0
<1>1. NetIndex(p) \in NetOrOpen /\ used \in {0, 1} /\ p.slot \in Slots
  BY DEF NetIndex, NetOrOpen, Pin
<1>. DEFINE outs == [block.outs EXCEPT ![p.slot] = NetIndex(p)]
            ins  == [block.ins EXCEPT ![p.slot] = NetIndex(p)]
            nout == block.nout + used
            nin  == block.nin + used
<1>2. /\ outs \in [Slots -> NetOrOpen] /\ nout \in Int
      /\ ins \in [Slots -> NetOrOpen] /\ nin \in Nat
  BY <1>1 DEF Block
<1>3. CASE p.role = "out"
  <2>1. Connected(block, p) =
          [block EXCEPT !.outs = outs, !.nout = nout]
    BY <1>3 DEF Connected, Block
  <2>. HIDE DEF outs, nout
  <2>2. QED
    BY <2>1, <1>2 DEF Block
<1>4. CASE p.role = "in"
  <2>1. Connected(block, p) =
          [block EXCEPT !.ins = ins, !.nin = nin]
    BY <1>4 DEF Connected, Block
  <2>. HIDE DEF ins, nin
  <2>2. QED
    BY <2>1, <1>2 DEF Block
<1>5. CASE p.role \notin {"in", "out"}
  <2>1. Connected(block, p) = [block EXCEPT !.clk = NetIndex(p)]
    BY <1>5 DEF Connected
  <2>2. QED
    BY <2>1, <1>1 DEF Block
<1>6. QED
  BY <1>3, <1>4, <1>5

\* A block is born with the type of its line and no net.
LEMMA NewBlockType ==
  ASSUME NEW type \in Types
  PROVE  NewBlock(type) \in Block
  BY EmptySeq DEF NewBlock, Block, NetOrOpen

\* Most steps leave the nets alone.
LEMMA NetsUnchanged ==
  ASSUME TypeOK, UNCHANGED <<hash, nets, const_gen, activity>>
  PROVE  NetsTypeOK'
<1>1. /\ hash' = hash /\ num_driver' = num_driver /\ num_sinks' = num_sinks
      /\ node_block' = node_block
      /\ const_gen' = const_gen /\ activity' = activity
  BY DEF nets
<1>2. QED
  BY <1>1 DEF TypeOK, NetsTypeOK

\* The flags are set to truth values.
LEMMA FlagsUnchanged ==
  ASSUME TypeOK, UNCHANGED nets, add_truth_table' \in BOOLEAN
  PROVE  FlagsTypeOK'
  BY DEF TypeOK, FlagsTypeOK, nets

\* Changing a block for another keeps the sequence of blocks.
LEMMA ExceptBlocks ==
  ASSUME NEW blocks \in Seq(Block), NEW n, NEW f,
         n \in DOMAIN blocks => f \in Block
  PROVE  [blocks EXCEPT ![n] = f] \in Seq(Block)
<1>1. CASE n \in DOMAIN blocks
  BY <1>1, ExceptSeq, LenProperties
<1>2. CASE n \notin DOMAIN blocks
  <2>1. [blocks EXCEPT ![n] = f] = blocks
    BY <1>2, LenProperties
  <2>2. QED
    BY <2>1
<1>3. QED
  BY <1>1, <1>2

\* A line without pins to add moves the reader one line on.
LEMMA NextLineType ==
  ASSUME TypeOK, pc = "line", linenum \in DOMAIN file, NextLine, UNCHANGED input,
         model_lines' \in Nat,
         lines' \in LineCounts
  PROVE  PositionTypeOK'
<1>1. file' = file /\ act_file' = act_file
  BY DEF input
<1>2. QED
  BY <1>1 DEF TypeOK, PositionTypeOK, NextLine

\* A line that begins its pins keeps the types.
LEMMA StartPinsType ==
  ASSUME TypeOK, pc = "line", linenum \in DOMAIN file, NEW newBlock \in Seq(Block),
         StartPins(newBlock)
  PROVE  TypeOK'
<1>1. NetsTypeOK'
  BY NetsUnchanged DEF StartPins
<1>2. logical_block' \in Seq(Block) /\ num_logical_blocks' \in Nat /\ alloc_blocks' = alloc_blocks
  BY ConcatProperties, LenProperties DEF TypeOK, BlocksTypeOK, StartPins, NextLine
<1>3. PositionTypeOK'
  <2>1. /\ UNCHANGED <<model_lines, lines>> /\ UNCHANGED input
        /\ IF TheLine.pins = <<>>
           THEN NextLine
           ELSE pc' = "pins" /\ UNCHANGED <<linenum, pin, doall, pass, alloc_blocks>>
    BY DEF StartPins
  <2>2. CASE TheLine.pins = <<>>
    BY <2>1, <2>2, NextLineType DEF TypeOK, PositionTypeOK
  <2>3. CASE TheLine.pins # <<>>
    <3>1. Len(TheLine.pins) > 0
      BY <2>3, LineType, EmptySeq
    <3>2. file' = file /\ act_file' = act_file /\ TheLine' = TheLine
      BY <2>1, <2>3 DEF input, TheLine
    <3>3. QED
      BY <2>1, <2>3, <3>1, <3>2 DEF TypeOK, PositionTypeOK
  <2>4. QED
    BY <2>2, <2>3
<1>4. QED
  BY <1>1, <1>2, <1>3, FlagsUnchanged DEF TypeOK, BlocksTypeOK, StartPins

\* A call of add_vpack_net, counting or loading.
LEMMA AddPinType ==
  ASSUME TypeOK, AddPin
  PROVE  TypeOK'
<1>. DEFINE p == ThePin
            blocks == IF IsPad /\ doall = 1
                      THEN Append(logical_block, NewBlock(PadType)) ELSE logical_block
<1>1. p \in Pin /\ linenum \in DOMAIN file /\ PinBlock \in Nat
  BY ThePinType DEF AddPin, TypeOK, PositionTypeOK, BlocksTypeOK, PinBlock
<1>2. PositionTypeOK'
  <2>1. /\ file' = file /\ act_file' = act_file /\ doall' = doall /\ pass' = pass
        /\ model_lines' = model_lines /\ lines' = lines
    BY DEF AddPin, input
  <2>2. CASE pin + 1 = Len(TheLine.pins)
    BY <2>1, <2>2 DEF AddPin, TypeOK, PositionTypeOK
  <2>3. CASE pin + 1 # Len(TheLine.pins)
    <3>1. pc' = pc /\ linenum' = linenum /\ pin' = pin + 1 /\ TheLine' = TheLine
      BY <2>1, <2>3 DEF AddPin, TheLine
    <3>2. pc = "pins" /\ pin \in Nat /\ pin < Len(TheLine.pins) /\ Len(TheLine.pins) \in Nat
      BY <1>1, LineType DEF AddPin, TypeOK, PositionTypeOK
    <3>3. QED
      BY <2>1, <2>3, <3>1, <3>2 DEF TypeOK, PositionTypeOK
  <2>4. QED
    BY <2>2, <2>3
<1>3. BlocksTypeOK'
  <2>1. PadType \in Types
    BY DEF PadType, Types
  <2>2. blocks \in Seq(Block)
    BY <2>1, NewBlockType, AppendProperties DEF TypeOK, BlocksTypeOK
  <2>3. \A b \in DOMAIN blocks : blocks[b] \in Block /\ Connected(blocks[b], p) \in Block
    BY <1>1, <2>2, ConnectedType
  <2>. HIDE DEF p, blocks
  <2>4. [blocks EXCEPT ![PinBlock] = Connected(@, p)] \in Seq(Block)
    BY <2>2, <2>3, ExceptBlocks
  <2>5. logical_block' \in Seq(Block)
    BY <2>2, <2>4 DEF AddPin, p, blocks
  <2>6. QED
    BY <1>1, <2>5 DEF AddPin, TypeOK, BlocksTypeOK
<1>4. NetsTypeOK'
  <2>1. const_gen' = const_gen /\ activity' = activity
    BY DEF AddPin
  <2>2. CASE doall = 0
    BY <2>1, <2>2 DEF AddPin, CountNet, TypeOK, NetsTypeOK, nets
  <2>3. CASE doall # 0
    <3>1. LoadNet(p)
      BY <2>3 DEF AddPin
    <3>. HIDE DEF p
    <3>2. DOMAIN node_block' = Nets
      BY <3>1 DEF LoadNet, TypeOK, NetsTypeOK, nets
    <3>3. /\ num_driver' \in [Nets -> Nat] /\ num_sinks' \in [Nets -> Nat]
          /\ hash' \in [Nets -> Nat]
      BY <3>1 DEF LoadNet, TypeOK, NetsTypeOK, nets
    <3>4. QED
      BY <2>1, <3>2, <3>3 DEF TypeOK, NetsTypeOK
  <2>4. QED
    BY <2>2, <2>3
<1>5. FlagsTypeOK'
  <2>1. add_truth_table' = add_truth_table
    BY DEF AddPin
  <2>2. is_global' = is_global \/ is_global' = [is_global EXCEPT ![p.net] = GlobalAfter(p)]
    BY DEF AddPin, CountNet, LoadNet, nets
  <2>3. GlobalAfter(p) \in BOOLEAN
    BY DEF GlobalAfter
  <2>. HIDE DEF p
  <2>4. QED
    BY <2>1, <2>2, <2>3 DEF TypeOK, FlagsTypeOK
<1>6. QED
  BY <1>2, <1>3, <1>4, <1>5 DEF TypeOK

\* check_net sweeps pins and pads; it never adds a block.
LEMMA CheckNetType ==
  ASSUME TypeOK, CheckNet
  PROVE  TypeOK'
<1>1. PositionTypeOK'
  BY DEF CheckNet, TypeOK, PositionTypeOK, input
<1>2. BlocksTypeOK'
  <2>. DEFINE swept(b) == [SweptBlocks[b] EXCEPT
                            !.type = IF UnusedInpad(b) THEN "EMPTY" ELSE @]
  <2>1. \A b \in BlockIds : swept(b) \in Block
    <3>1. TAKE b \in BlockIds
    <3>2. SweptBlocks[b] \in Block
      BY SweptBlocksType
    <3>3. QED
      BY <3>2 DEF Block, Types
  <2>2. logical_block' = [b \in BlockIds |-> swept(b)]
    BY DEF CheckNet
  <2>. HIDE DEF swept
  <2>3. BlockIds = 1 .. Len(logical_block) /\ Len(logical_block) \in Nat
    BY LenProperties DEF TypeOK, BlocksTypeOK, BlockIds
  <2>4. logical_block' \in Seq(Block)
    BY <2>1, <2>2, <2>3
  <2>5. QED
    BY <2>4 DEF CheckNet, TypeOK, BlocksTypeOK
<1>3. NetsTypeOK'
  <2>1. const_gen' \subseteq Nets
    BY DEF CheckNet
  <2>2. QED
    BY <2>1 DEF CheckNet, TypeOK, NetsTypeOK
<1>4. FlagsTypeOK'
  BY DEF CheckNet, TypeOK, FlagsTypeOK
<1>5. QED
  BY <1>1, <1>2, <1>3, <1>4 DEF TypeOK

\* The types hold before the first line.
LEMMA InitType ==
  ASSUME Init
  PROVE  TypeOK
<1>1. PositionTypeOK
  <2>1. lines \in LineCounts
    BY DEF Init, NoLines, LineCounts
  <2>2. file \in Files /\ act_file \in ActFiles /\ pc = "line" /\ doall = 0 /\ pass = 0
        /\ linenum = 1 /\ pin = 0 /\ model_lines = 0
    BY DEF Init
  <2>3. QED
    BY <2>1, <2>2, FilesAssumption DEF PositionTypeOK, WellTyped
<1>2. BlocksTypeOK /\ NetsTypeOK
  BY EmptySeq DEF Init, BlocksTypeOK, NetsTypeOK
<1>3. FlagsTypeOK
  BY DEF Init, FlagsTypeOK
<1>4. QED
  BY <1>1, <1>2, <1>3 DEF TypeOK

\* Every step keeps the types.
LEMMA NextType ==
  ASSUME TypeOK, [Next]_vars
  PROVE  TypeOK'
<1>. USE DEF AtLine
<1>1. CASE DumParse \/ ModelLine \/ IgnoreLut
  <2>1. BlocksTypeOK'
    BY <1>1 DEF DumParse, ModelLine, IgnoreLut, NextLine, TypeOK, BlocksTypeOK
  <2>2. NetsTypeOK'
    BY <1>1, NetsUnchanged DEF DumParse, ModelLine, IgnoreLut
  <2>3. PositionTypeOK'
    <3>1. /\ model_lines' \in Nat
          /\ NextLine /\ UNCHANGED input /\ pc = "line" /\ linenum \in DOMAIN file
      <4>1. CASE DumParse
        <5>1. /\ UNCHANGED input /\ UNCHANGED model_lines /\ NextLine
              /\ \E kind \in Kinds \ {"model", "row"} : AtLine(kind)
          BY <4>1, Zenon DEF DumParse
        <5>2. QED
          BY <5>1 DEF TypeOK, PositionTypeOK
      <4>2. CASE ModelLine \/ IgnoreLut
        BY <4>2 DEF ModelLine, IgnoreLut, TypeOK, PositionTypeOK
      <4>3. QED
        BY <1>1, <4>1, <4>2
    <3>2. lines' \in LineCounts
      <4>. DEFINE i == IF LastPass /\ TheLine.kind = "inputs" THEN lines.ilines + 1 ELSE lines.ilines
                  o == IF LastPass /\ TheLine.kind = "outputs" THEN lines.olines + 1 ELSE lines.olines
                  e == IF LastPass /\ TheLine.kind = "end" THEN lines.endlines + 1 ELSE lines.endlines
                  m == IF ExtraModel THEN lines.num_blif_models + 1 ELSE lines.num_blif_models
      <4>1. i \in Nat /\ o \in Nat /\ e \in Nat /\ m \in Nat
        <5>1. /\ lines.ilines \in Nat /\ lines.olines \in Nat /\ lines.endlines \in Nat
              /\ lines.num_blif_models \in Nat
          BY DEF TypeOK, PositionTypeOK, LineCounts
        <5>2. QED
          BY <5>1
      <4>2. CASE DumParse
        <5>1. lines' = [lines EXCEPT !.ilines = i, !.olines = o, !.endlines = e]
          BY <4>2 DEF DumParse
        <5>. HIDE DEF i, o, e, m
        <5>2. QED
          BY <4>1, <5>1 DEF TypeOK, PositionTypeOK, LineCounts
      <4>3. CASE ModelLine
        <5>1. lines' = [lines EXCEPT !.num_blif_models = m]
          BY <4>3 DEF ModelLine
        <5>. HIDE DEF i, o, e, m
        <5>2. QED
          BY <4>1, <5>1 DEF TypeOK, PositionTypeOK, LineCounts
      <4>4. CASE IgnoreLut
        BY <4>4 DEF IgnoreLut, TypeOK, PositionTypeOK
      <4>5. QED
        BY <1>1, <4>2, <4>3, <4>4
    <3>3. QED
      BY <3>1, <3>2, NextLineType
  <2>4. FlagsTypeOK'
    BY <1>1, FlagsUnchanged DEF DumParse, ModelLine, IgnoreLut
  <2>5. QED
    BY <2>1, <2>2, <2>3, <2>4 DEF TypeOK
<1>2. CASE TruthTableRow
  <2>1. BlocksTypeOK'
    <3>. DEFINE b == num_logical_blocks
                filled == [logical_block[b] EXCEPT !.truth_table = AddRow(@)]
    <3>1. ASSUME b \in DOMAIN logical_block PROVE filled \in Block
      <4>1. logical_block[b] \in Block
        BY <3>1 DEF TypeOK, BlocksTypeOK
      <4>2. AddRow(logical_block[b].truth_table) \in Seq(Nat)
        BY <4>1, ConcatProperties DEF Block, AddRow, TypeOK, PositionTypeOK
      <4>3. QED
        BY <4>1, <4>2 DEF Block
    <3>2. logical_block' \in Seq(Block)
      <4>1. logical_block' \in {logical_block, [logical_block EXCEPT ![b] = filled]}
        BY <1>2 DEF TruthTableRow
      <4>2. QED
        BY <3>1, <4>1, ExceptBlocks DEF TypeOK, BlocksTypeOK
    <3>3. QED
      BY <1>2, <3>2 DEF TruthTableRow, NextLine, TypeOK, BlocksTypeOK
  <2>2. NetsTypeOK'
    BY <1>2, NetsUnchanged DEF TruthTableRow
  <2>3. PositionTypeOK'
    <3>1. /\ model_lines' \in Nat /\ lines' = lines
          /\ NextLine /\ UNCHANGED input /\ pc = "line" /\ linenum \in DOMAIN file
      BY <1>2 DEF TruthTableRow, TypeOK, PositionTypeOK
    <3>2. QED
      BY <3>1, NextLineType DEF TypeOK, PositionTypeOK
  <2>4. FlagsTypeOK'
    BY <1>2, FlagsUnchanged DEF TruthTableRow, TypeOK, FlagsTypeOK
  <2>5. QED
    BY <2>1, <2>2, <2>3, <2>4 DEF TypeOK
<1>3. CASE IoLine \/ AddLut \/ AddLatch \/ AddSubckt
  <2>1. \A type \in Types : <<NewBlock(type)>> \in Seq(Block)
    BY NewBlockType
  <2>2. <<>> \in Seq(Block)
    BY EmptySeq
  <2>3. QED
    BY <1>3, <2>1, <2>2, StartPinsType DEF IoLine, AddLut, AddLatch, AddSubckt, Types
<1>4. CASE AddPin
  BY <1>4, AddPinType
<1>5. CASE EndPass \/ EndCounting
  <2>1. PositionTypeOK'
    <3>1. lines' \in LineCounts
      BY <1>5 DEF EndPass, EndCounting, NoLines, LineCounts, TypeOK, PositionTypeOK
    <3>2. /\ file' = file /\ act_file' = act_file /\ pc' = pc /\ pc = "line" /\ pin' = pin
          /\ linenum' = 1 /\ model_lines' = 0 /\ doall' \in {0, 1} /\ pass' \in 0 .. 4
      BY <1>5 DEF EndPass, EndCounting, AtEnd, Rewind, TypeOK, PositionTypeOK, input
    <3>3. QED
      BY <3>1, <3>2 DEF TypeOK, PositionTypeOK
  <2>2. BlocksTypeOK'
    BY <1>5 DEF EndPass, EndCounting, TypeOK, BlocksTypeOK
  <2>3. NetsTypeOK'
    BY <1>5, NetsUnchanged DEF EndPass, EndCounting, Rewind
  <2>4. FlagsTypeOK'
    BY <1>5, FlagsUnchanged DEF EndPass, EndCounting, Rewind
  <2>5. QED
    BY <2>1, <2>2, <2>3, <2>4 DEF TypeOK
<1>6. CASE CheckNet
  BY <1>6, CheckNetType
<1>7. CASE AddActivity
  <2>1. PositionTypeOK'
    BY <1>7 DEF AddActivity, TypeOK, PositionTypeOK, input
  <2>2. BlocksTypeOK'
    BY <1>7 DEF AddActivity, TypeOK, BlocksTypeOK
  <2>3. NetsTypeOK'
    BY <1>7 DEF AddActivity, TypeOK, NetsTypeOK, nets, Known
  <2>4. FlagsTypeOK'
    BY <1>7, FlagsUnchanged DEF AddActivity, TypeOK, FlagsTypeOK
  <2>5. QED
    BY <2>1, <2>2, <2>3, <2>4 DEF TypeOK
<1>8. ASSUME NEW how \in Final \cup {"check"}, Stop(how) PROVE TypeOK'
  <2>1. PositionTypeOK'
    BY <1>8 DEF Stop, TypeOK, PositionTypeOK, input, position
  <2>2. BlocksTypeOK'
    BY <1>8 DEF Stop, TypeOK, BlocksTypeOK, position
  <2>3. NetsTypeOK'
    BY <1>8, NetsUnchanged DEF Stop
  <2>4. FlagsTypeOK'
    BY <1>8, FlagsUnchanged DEF Stop, TypeOK, FlagsTypeOK
  <2>5. QED
    BY <2>1, <2>2, <2>3, <2>4 DEF TypeOK
<1>9. EndLoading => Stop("check")
  BY DEF EndLoading, Stop
<1>10. CASE UNCHANGED vars
  <2>1. PositionTypeOK'
    BY <1>10 DEF vars, TypeOK, PositionTypeOK, input, position, TheLine
  <2>2. BlocksTypeOK'
    BY <1>10 DEF vars, TypeOK, BlocksTypeOK, position
  <2>3. NetsTypeOK'
    BY <1>10, NetsUnchanged DEF vars
  <2>4. FlagsTypeOK'
    BY <1>10, FlagsUnchanged DEF vars, TypeOK, FlagsTypeOK
  <2>5. QED
    BY <2>1, <2>2, <2>3, <2>4 DEF TypeOK
<1>11. QED
  BY <1>1, <1>2, <1>3, <1>4, <1>5, <1>6, <1>7, <1>8, <1>9, <1>10
     DEF Next, BadLine, BadPin, CheckFails, EndActivity, Stopped

\* The reader keeps its types: every index it computes is an index of the lines, pins,
\* slots and nets that exist.
THEOREM TypeCorrect == Spec => []TypeOK
<1>1. Init => TypeOK
  BY InitType
<1>2. TypeOK /\ [Next]_vars => TypeOK'
  BY NextType
<1>3. QED
  BY <1>1, <1>2, PTL DEF Spec
-----------------------------------------------------------------------------
(* The pin lists *)

\* The pins that this round of passes has added.
Added(o) ==
  \/ PassOf(o[1]) < pass
  \/ PassOf(o[1]) = pass /\ (o[1] < linenum \/ (o[1] = linenum /\ PinNumber(o[2]) <= pin))
AddedPins(n) == {o \in PinsOf(n) : Added(o)}

Models(l) == {m \in 1 .. l - 1 : file[m].kind = "model"}

\* The reader is where the reference says it is: the line whose pins are being added is
\* one whose pins count, in the pass in which they count.
Tracks ==
  /\ pc \in {"line", "pins"} =>
       linenum <= Len(file) + 1 /\ model_lines = Cardinality(Models(linenum))
  /\ pc = "pins" => (BlockLine(linenum) \/ PadLine(linenum)) /\ PassOf(linenum) = pass

\* Counting: the count of a net is the number of its pins so far.
Counting ==
  pc \in {"line", "pins"} /\ doall = 0 => \A n \in Nets :
    /\ IsFiniteSet(AddedPins(n)) /\ hash[n] = Cardinality(AddedPins(n))
    /\ num_driver[n] = 0 /\ num_sinks[n] = 0 /\ DOMAIN node_block[n] = {}

\* Loading: the count is that of all the pins, and those loaded are those added.
Loading ==
  /\ pc \in {"line", "pins"} /\ doall = 1 => \A n \in Nets :
       /\ IsFiniteSet(PinsOf(n)) /\ hash[n] = Cardinality(PinsOf(n))
       /\ num_driver[n] + num_sinks[n] = Cardinality(AddedPins(n))
  /\ pc \in {"check", "activity"} => doall = 1
  /\ pc = "check" => \A n \in Nets : num_driver[n] + num_sinks[n] = hash[n]

\* What add_vpack_net keeps of the list of a net, whoever calls it.
Lists ==
  doall = 1 => \A n \in Nets :
    /\ DOMAIN node_block[n] = 1 .. num_sinks[n] \cup (IF num_driver[n] > 0 THEN {0} ELSE {})
    /\ num_driver[n] + num_sinks[n] <= hash[n]
    /\ num_sinks[n] > 0 => num_sinks[n] - num_driver[n] < hash[n]

PinListsInv == TypeOK /\ Tracks /\ Counting /\ Loading /\ Lists


\* The pins of the netlist are pins of lines that count.
LEMMA OccurrenceType ==
  ASSUME TypeOK, NEW o \in Occurrences
  PROVE  /\ o[1] \in 1 .. Len(file) /\ o[1] \in DOMAIN file
         /\ BlockLine(o[1]) \/ PadLine(o[1])
         /\ o[2] \in Nat \ {0} /\ o[2] \in DOMAIN file[o[1]].pins
         /\ o = <<o[1], o[2]>>
         /\ PinAt(o) \in Pin
         /\ PassOf(o[1]) \in 1 .. 3
<1>1. PICK l \in DOMAIN file : (BlockLine(l) \/ PadLine(l)) /\ o \in {l} \X DOMAIN file[l].pins
  BY DEF Occurrences
<1>2. file \in Seq(Line)
  BY DEF WellTyped, TypeOK, PositionTypeOK
<1>3. l \in 1 .. Len(file) /\ file[l].pins \in Seq(Pin)
  <2>1. l \in 1 .. Len(file) /\ file[l] \in Line
    BY <1>1, <1>2
  <2>2. QED
    BY <2>1 DEF Line
<1>4. o[1] = l /\ o[2] \in DOMAIN file[l].pins /\ o = <<o[1], o[2]>>
  BY <1>1
<1>5. o[2] \in Nat \ {0} /\ PinAt(o) \in Pin
  BY <1>3, <1>4 DEF PinAt
<1>6. PassOf(l) \in 1 .. 3
  BY DEF PassOf
<1>7. QED
  BY <1>1, <1>3, <1>4, <1>5, <1>6

\* The pins of a net are pins of the netlist.
LEMMA PinsOfType ==
  ASSUME TypeOK, NEW n, NEW o \in PinsOf(n)
  PROVE  /\ o \in Occurrences
         /\ o[1] \in 1 .. Len(file) /\ o[1] \in DOMAIN file
         /\ BlockLine(o[1]) \/ PadLine(o[1])
         /\ o[2] \in Nat \ {0} /\ o[2] \in DOMAIN file[o[1]].pins
         /\ o = <<o[1], o[2]>>
         /\ file[o[1]].pins[o[2]].net = n
         /\ PassOf(o[1]) \in 1 .. 3
  BY OccurrenceType DEF PinsOf, PinAt

\* Every pin of a line that counts is a pin of the netlist.
LEMMA OccurrenceIntro ==
  ASSUME NEW l \in DOMAIN file, NEW k \in DOMAIN file[l].pins, BlockLine(l) \/ PadLine(l)
  PROVE  <<l, k>> \in Occurrences
<1>1. <<l, k>> \in {l} \X DOMAIN file[l].pins
  OBVIOUS
<1>2. QED
  BY <1>1 DEF Occurrences

\* The reference depends on nothing but the file.
LEMMA FileUnchanged ==
  ASSUME file' = file
  PROVE  /\ Occurrences' = Occurrences
         /\ \A n : PinsOf(n)' = PinsOf(n)
         /\ \A l : PassOf(l)' = PassOf(l) /\ Models(l)' = Models(l)
         /\ \A l : BlockLine(l)' = BlockLine(l) /\ PadLine(l)' = PadLine(l)
<1>1. \A l : PassOf(l)' = PassOf(l) /\ Models(l)' = Models(l)
  BY DEF PassOf, Models
<1>2. \A l : BlockLine(l)' = BlockLine(l) /\ PadLine(l)' = PadLine(l)
  BY DEF BlockLine, PadLine, FirstModel
<1>3. Occurrences' = Occurrences
  BY <1>2 DEF Occurrences
<1>4. \A n : PinsOf(n)' = PinsOf(n)
  BY <1>3 DEF PinsOf, PinAt
<1>5. QED
  BY <1>1, <1>2, <1>3, <1>4

\* A line whose pins do not count in this pass adds none.
LEMMA LineAddsNone ==
  ASSUME TypeOK, pc = "line", linenum \in DOMAIN file, NextLine, file' = file,
         (BlockLine(linenum) \/ PadLine(linenum)) /\ PassOf(linenum) = pass
           => TheLine.pins = <<>>,
         NEW o \in Occurrences
  PROVE  Added(o)' = Added(o)
<1>1. /\ linenum \in Nat /\ linenum' = linenum + 1 /\ pass' = pass /\ pass \in 0 .. 4
      /\ pin = 0 /\ pin' = 0
  BY DEF NextLine, TypeOK, PositionTypeOK
<1>2. /\ o[1] \in Nat /\ o[2] \in Nat \ {0} /\ PassOf(o[1]) \in 1 .. 3
      /\ PassOf(o[1])' = PassOf(o[1])
      /\ o[2] \in DOMAIN file[o[1]].pins /\ (BlockLine(o[1]) \/ PadLine(o[1]))
  BY OccurrenceType, FileUnchanged
<1>3. PinNumber(o[2]) > 0 /\ PinNumber(o[2])' > 0
  BY <1>2 DEF PinNumber
<1>4. ~ (PassOf(o[1]) = pass /\ o[1] = linenum)
  BY <1>2, EmptySeq DEF TheLine
<1>5. PinNumber(o[2]) \in Int /\ PinNumber(o[2])' \in Int
  BY <1>2 DEF PinNumber
<1>6. QED
  BY <1>1, <1>2, <1>3, <1>4, <1>5 DEF Added

\* The pins of a net that are added follow from those that are.
LEMMA AddedPinsKept ==
  ASSUME file' = file, \A o \in Occurrences : Added(o)' = Added(o)
  PROVE  \A n : AddedPins(n)' = AddedPins(n)
<1>1. \A n : PinsOf(n)' = PinsOf(n)
  BY FileUnchanged
<1>2. \A n : PinsOf(n) \subseteq Occurrences
  BY DEF PinsOf
<1>3. QED
  BY <1>1, <1>2 DEF AddedPins

\* model_lines counts the .model lines read.
LEMMA ModelsStep ==
  ASSUME NEW l \in Nat \ {0}
  PROVE  /\ Cardinality(Models(l)) \in Nat
         /\ file[l].kind = "model" => Cardinality(Models(l + 1)) = Cardinality(Models(l)) + 1
         /\ file[l].kind # "model" => Cardinality(Models(l + 1)) = Cardinality(Models(l))
<1>1. IsFiniteSet(Models(l)) /\ Cardinality(Models(l)) \in Nat /\ l \notin Models(l)
  <2>1. IsFiniteSet(1 .. l - 1) /\ Models(l) \subseteq 1 .. l - 1
    BY FS_Interval DEF Models
  <2>2. QED
    BY <2>1, FS_Subset, FS_CardinalityType
<1>2. file[l].kind = "model" => Models(l + 1) = Models(l) \cup {l}
  BY DEF Models
<1>3. file[l].kind # "model" => Models(l + 1) = Models(l)
  BY DEF Models
<1>4. QED
  BY <1>1, <1>2, <1>3, FS_AddElement

\* A step inside the passes that touches no net and adds no pin.
LEMMA NetsKept ==
  ASSUME PinListsInv, TypeOK', Tracks', pc \in {"line", "pins"}, pc' \in {"line", "pins"},
         file' = file, doall' = doall, UNCHANGED <<hash, nets>>,
         \A n \in Nets : AddedPins(n)' = AddedPins(n)
  PROVE  PinListsInv'
<1>1. \A n \in Nets : PinsOf(n)' = PinsOf(n)
  BY FileUnchanged
<1>2. /\ hash' = hash /\ num_driver' = num_driver /\ num_sinks' = num_sinks
      /\ node_block' = node_block
  BY DEF nets
<1>3. Counting'
  BY <1>2 DEF PinListsInv, Counting
<1>4. Loading'
  BY <1>1, <1>2 DEF PinListsInv, Loading
<1>5. Lists'
  BY <1>2 DEF PinListsInv, Lists
<1>6. QED
  BY <1>3, <1>4, <1>5 DEF PinListsInv

\* A line none of whose pins is added in this pass leaves the pin lists right.
LEMMA SkipLine ==
  ASSUME PinListsInv, TypeOK', pc = "line", linenum \in DOMAIN file, NextLine,
         file' = file, UNCHANGED <<hash, nets>>,
         (BlockLine(linenum) \/ PadLine(linenum)) /\ PassOf(linenum) = pass
           => TheLine.pins = <<>>,
         model_lines' = IF TheLine.kind = "model" THEN model_lines + 1 ELSE model_lines
  PROVE  PinListsInv'
<1>1. linenum \in 1 .. Len(file) /\ Len(file) \in Nat
  BY LineType DEF PinListsInv
<1>2. Tracks'
  <2>1. linenum' = linenum + 1 /\ pc' = "line"
    BY DEF NextLine
  <2>3. model_lines = Cardinality(Models(linenum))
    BY DEF PinListsInv, Tracks
  <2>4. model_lines' = Cardinality(Models(linenum + 1))
    BY <1>1, <2>3, ModelsStep DEF TheLine
  <2>5. Models(linenum)' = Models(linenum + 1)
    BY <2>1 DEF Models
  <2>6. QED
    BY <1>1, <2>1, <2>4, <2>5 DEF Tracks
<1>3. \A n \in Nets : AddedPins(n)' = AddedPins(n)
  <2>1. \A o \in Occurrences : Added(o)' = Added(o)
    BY LineAddsNone DEF PinListsInv
  <2>2. QED
    BY <2>1, AddedPinsKept
<1>4. doall' = doall /\ pc' = pc
  BY DEF NextLine
<1>5. QED
  BY <1>2, <1>3, <1>4, NetsKept

\* The lines whose pins count are those that Adds selects, in the pass it selects.
LEMMA AddsCounts ==
  ASSUME PinListsInv, pc = "line", linenum \in DOMAIN file, ~ IgnoredLut(TheLine)
  PROVE  Adds(TheLine.kind) /\ TheLine.kind \notin {"nameless", "unpaired"}
           <=> (BlockLine(linenum) \/ PadLine(linenum)) /\ PassOf(linenum) = pass
<1>1. FirstModel(linenum) <=> model_lines = 1
  BY DEF PinListsInv, Tracks, FirstModel, Models
<1>2. CASE TheLine.kind = "inputs"
  BY <1>1, <1>2 DEF Adds, BlockLine, PadLine, PassOf, TheLine
<1>3. CASE TheLine.kind = "outputs"
  BY <1>1, <1>3 DEF Adds, BlockLine, PadLine, PassOf, TheLine
<1>4. CASE TheLine.kind \notin {"inputs", "outputs"}
  <2>1. PassOf(linenum) = 3
    BY <1>4 DEF PassOf, TheLine
  <2>2. QED
    BY <1>4, <2>1 DEF Adds, BlockLine, PadLine, TheLine
<1>5. QED
  BY <1>2, <1>3, <1>4

\* The lines that are passed over are lines whose pins do not count in this pass.
LEMMA SkippedLine ==
  ASSUME PinListsInv, DumParse \/ ModelLine \/ TruthTableRow \/ IgnoreLut
  PROVE  /\ pc = "line" /\ linenum \in DOMAIN file /\ NextLine /\ file' = file
         /\ UNCHANGED <<hash, nets>>
         /\ model_lines' = IF TheLine.kind = "model" THEN model_lines + 1 ELSE model_lines
         /\ ~ ((BlockLine(linenum) \/ PadLine(linenum)) /\ PassOf(linenum) = pass)
<1>1. /\ pc = "line" /\ linenum \in DOMAIN file /\ NextLine /\ file' = file
      /\ UNCHANGED <<hash, nets>>
      /\ model_lines' = IF TheLine.kind = "model" THEN model_lines + 1 ELSE model_lines
  BY DEF DumParse, ModelLine, TruthTableRow, IgnoreLut, AtLine, input
<1>2. CASE DumParse
  <2>1. ~ Adds(TheLine.kind)
    BY <1>2 DEF DumParse, AtLine
  <2>2. CASE IgnoredLut(TheLine)
    BY <1>1, <2>2 DEF IgnoredLut, BlockLine, PadLine, TheLine
  <2>3. QED
    BY <1>1, <2>1, <2>2, AddsCounts
<1>3. CASE ModelLine \/ TruthTableRow
  BY <1>1, <1>3 DEF ModelLine, TruthTableRow, AtLine, BlockLine, PadLine, TheLine
<1>4. CASE IgnoreLut
  BY <1>1, <1>4 DEF IgnoreLut, IgnoredLut, AtLine, BlockLine, PadLine, TheLine
<1>5. QED
  BY <1>1, <1>2, <1>3, <1>4

\* The lines whose pins are added are lines whose pins count in this pass.
LEMMA StartedLine ==
  ASSUME PinListsInv, IoLine \/ AddLut \/ AddLatch \/ AddSubckt
  PROVE  /\ pc = "line" /\ linenum \in DOMAIN file
         /\ ~ IgnoredLut(TheLine)
         /\ Adds(TheLine.kind) /\ TheLine.kind \notin {"nameless", "unpaired"}
         /\ \E newBlock \in Seq(Block) : StartPins(newBlock)
<1>1. \A type \in Types : <<NewBlock(type)>> \in Seq(Block)
  BY NewBlockType
<1>2. \E newBlock \in Seq(Block) : StartPins(newBlock)
  BY <1>1, EmptySeq DEF IoLine, AddLut, AddLatch, AddSubckt, Types
<1>3. QED
  BY <1>2 DEF IoLine, AddLut, AddLatch, AddSubckt, AtLine, IgnoredLut

\* Beginning a line of pins adds none of them.
LEMMA StartAddsNone ==
  ASSUME PinListsInv, pc = "line", linenum \in DOMAIN file, NEW newBlock,
         StartPins(newBlock), NEW o \in Occurrences
  PROVE  Added(o)' = Added(o)
<1>1. file' = file
  BY DEF StartPins, input
<1>2. CASE TheLine.pins = <<>>
  BY <1>1, <1>2, LineAddsNone DEF PinListsInv, StartPins
<1>3. CASE TheLine.pins # <<>>
  <2>1. pc' = "pins" /\ linenum' = linenum /\ pin' = pin /\ doall' = doall /\ pass' = pass
    BY <1>3 DEF StartPins
  <2>2. PassOf(o[1])' = PassOf(o[1]) /\ PinNumber(o[2])' = PinNumber(o[2])
    BY <1>1, <2>1, FileUnchanged DEF PinNumber, LoadsQFirst, TheLine
  <2>3. QED
    BY <2>1, <2>2 DEF Added
<1>4. QED
  BY <1>2, <1>3

\* The line of pins begins: none of them is added yet.
LEMMA StartPinsInv ==
  ASSUME PinListsInv, TypeOK', pc = "line", linenum \in DOMAIN file, NEW newBlock \in Seq(Block),
         StartPins(newBlock), ~ IgnoredLut(TheLine),
         Adds(TheLine.kind), TheLine.kind \notin {"nameless", "unpaired"}
  PROVE  PinListsInv'
<1>1. file' = file /\ UNCHANGED <<hash, nets>> /\ model_lines' = model_lines
  BY DEF StartPins, input
<1>2. CASE TheLine.pins = <<>>
  <2>1. NextLine
    BY <1>2 DEF StartPins
  <2>2. TheLine.kind # "model"
    BY DEF Adds
  <2>3. QED
    BY <1>1, <1>2, <2>1, <2>2, SkipLine
<1>3. CASE TheLine.pins # <<>>
  <2>1. pc' = "pins" /\ linenum' = linenum /\ pin' = pin /\ doall' = doall /\ pass' = pass
    BY <1>3 DEF StartPins
  <2>2. Tracks'
    <3>1. (BlockLine(linenum) \/ PadLine(linenum)) /\ PassOf(linenum) = pass
      BY AddsCounts
    <3>2. /\ BlockLine(linenum)' = BlockLine(linenum) /\ PadLine(linenum)' = PadLine(linenum)
          /\ PassOf(linenum)' = PassOf(linenum) /\ Models(linenum)' = Models(linenum)
      BY <1>1, <2>1 DEF BlockLine, PadLine, FirstModel, PassOf, Models
    <3>3. QED
      BY <1>1, <2>1, <3>1, <3>2 DEF PinListsInv, Tracks
  <2>3. \A n \in Nets : AddedPins(n)' = AddedPins(n)
    BY <1>1, StartAddsNone, AddedPinsKept
  <2>4. QED
    BY <1>1, <2>1, <2>2, <2>3, NetsKept
<1>4. QED
  BY <1>2, <1>3

\* The pin that is added next, as the reference names it.
TheOccurrence == <<linenum, PinNumber(pin + 1)>>

\* The pin added next is a pin of the netlist that is not added.
LEMMA ThePinPlaced ==
  ASSUME PinListsInv, pc = "pins"
  PROVE  /\ TheOccurrence \in Occurrences /\ PinAt(TheOccurrence) = ThePin
         /\ ~ Added(TheOccurrence)
<1>. DEFINE k == PinNumber(pin + 1)
<1>1. /\ linenum \in DOMAIN file /\ pin \in Nat /\ pin < Len(TheLine.pins)
      /\ linenum \in Nat /\ Len(TheLine.pins) \in Nat
      /\ DOMAIN TheLine.pins = 1 .. Len(TheLine.pins) /\ pass \in Nat
  BY LineType DEF PinListsInv, TypeOK, PositionTypeOK
<1>2. (BlockLine(linenum) \/ PadLine(linenum)) /\ PassOf(linenum) = pass
  BY <1>1 DEF PinListsInv, Tracks
<1>3. /\ pin + 1 \in DOMAIN TheLine.pins
      /\ k \in DOMAIN TheLine.pins /\ PinNumber(k) = pin + 1 /\ ThePin = TheLine.pins[k]
  BY <1>1, PinNumberType DEF PinListsInv, ThePin
<1>4. ~ Added(<<linenum, k>>)
  BY <1>1, <1>2, <1>3 DEF Added
<1>5. <<linenum, k>> \in Occurrences /\ PinAt(<<linenum, k>>) = ThePin
  BY <1>1, <1>2, <1>3, OccurrenceIntro DEF TheLine, PinAt
<1>6. QED
  BY <1>4, <1>5 DEF TheOccurrence

\* It is added now, and it is the only one.
LEMMA PinAddedNow ==
  ASSUME PinListsInv, AddPin
  PROVE  /\ TheOccurrence \in Occurrences /\ PinAt(TheOccurrence) = ThePin
         /\ ~ Added(TheOccurrence)
         /\ \A p \in Occurrences : Added(p)' <=> Added(p) \/ p = TheOccurrence
<1>. DEFINE k == PinNumber(pin + 1)
            o == <<linenum, k>>
<1>1. /\ pc = "pins" /\ linenum \in DOMAIN file /\ pin \in Nat /\ pin < Len(TheLine.pins)
      /\ linenum \in Nat /\ Len(TheLine.pins) \in Nat
      /\ DOMAIN TheLine.pins = 1 .. Len(TheLine.pins)
      /\ file' = file /\ pass' = pass /\ doall' = doall /\ pass \in Nat
  BY LineType DEF PinListsInv, AddPin, TypeOK, PositionTypeOK, input
<1>2. (BlockLine(linenum) \/ PadLine(linenum)) /\ PassOf(linenum) = pass
  BY <1>1 DEF PinListsInv, Tracks
<1>3. /\ pin + 1 \in DOMAIN TheLine.pins
      /\ k \in DOMAIN TheLine.pins /\ PinNumber(k) = pin + 1 /\ ThePin = TheLine.pins[k]
  BY <1>1, PinNumberType DEF PinListsInv, ThePin
<1>4. ASSUME NEW p \in Occurrences
      PROVE  Added(p)' <=> Added(p) \/ p = o
  <2>1. /\ p[1] \in Nat /\ p[2] \in Nat \ {0} /\ p = <<p[1], p[2]>>
        /\ p[2] \in DOMAIN file[p[1]].pins
        /\ PassOf(p[1]) \in Nat /\ PassOf(p[1])' = PassOf(p[1])
    BY <1>1, OccurrenceType, FileUnchanged DEF PinListsInv
  <2>2. CASE p[1] # linenum
    <3>1. PinNumber(p[2])' > 0 /\ PinNumber(p[2])' \in Int
      BY <2>1 DEF PinNumber
    <3>2. p # o
      BY <2>1, <2>2
    <3>3. CASE pin + 1 = Len(TheLine.pins)
      <4>1. linenum' = linenum + 1 /\ pin' = 0
        BY <3>3 DEF AddPin
      <4>2. QED
        BY <1>1, <2>1, <2>2, <3>1, <3>2, <4>1 DEF Added
    <3>4. CASE pin + 1 # Len(TheLine.pins)
      <4>1. linenum' = linenum
        BY <3>4 DEF AddPin
      <4>2. QED
        BY <1>1, <2>1, <2>2, <3>2, <4>1 DEF Added
    <3>5. QED
      BY <3>3, <3>4
  <2>3. CASE p[1] = linenum
    <3>1. /\ p[2] \in DOMAIN TheLine.pins
          /\ PinNumber(p[2]) \in DOMAIN TheLine.pins /\ PinNumber(PinNumber(p[2])) = p[2]
      BY <1>1, <2>1, <2>3, PinNumberType DEF PinListsInv, TheLine
    <3>2. p = o <=> PinNumber(p[2]) = pin + 1
      BY <1>3, <2>1, <2>3, <3>1
    <3>3. PassOf(p[1]) = pass
      BY <1>2, <2>3
    <3>4. Added(p) <=> PinNumber(p[2]) <= pin
      BY <1>1, <2>3, <3>3 DEF Added
    <3>5. CASE pin + 1 = Len(TheLine.pins)
      <4>1. linenum' = linenum + 1
        BY <3>5 DEF AddPin
      <4>2. Added(p)'
        BY <1>1, <2>1, <2>3, <3>3, <4>1 DEF Added
      <4>3. QED
        BY <1>1, <3>1, <3>2, <3>4, <3>5, <4>2
    <3>6. CASE pin + 1 # Len(TheLine.pins)
      <4>1. linenum' = linenum /\ pin' = pin + 1
        BY <3>6 DEF AddPin
      <4>2. PinNumber(p[2])' = PinNumber(p[2])
        BY <1>1, <4>1 DEF PinNumber, LoadsQFirst, TheLine
      <4>3. Added(p)' <=> PinNumber(p[2]) <= pin + 1
        BY <1>1, <2>1, <2>3, <3>3, <4>1, <4>2 DEF Added
      <4>4. QED
        BY <1>1, <3>1, <3>2, <3>4, <4>3
    <3>7. QED
      BY <3>5, <3>6
  <2>4. QED
    BY <2>2, <2>3
<1>5. o \in Occurrences /\ PinAt(o) = ThePin /\ ~ Added(o)
  BY <1>1, ThePinPlaced DEF TheOccurrence
<1>6. QED
  BY <1>4, <1>5 DEF TheOccurrence

\* The pins of its net, and of no other net, become one more.
LEMMA PinAdded ==
  ASSUME PinListsInv, AddPin, NEW n \in Nets
  PROVE  /\ ThePin.net = n => /\ TheOccurrence \in PinsOf(n) /\ TheOccurrence \notin AddedPins(n)
                              /\ AddedPins(n)' = AddedPins(n) \cup {TheOccurrence}
         /\ ThePin.net # n => AddedPins(n)' = AddedPins(n)
<1>1. PinsOf(n)' = PinsOf(n) /\ PinsOf(n) \subseteq Occurrences
  BY FileUnchanged DEF AddPin, input, PinsOf
<1>2. /\ TheOccurrence \in PinsOf(n) <=> ThePin.net = n
      /\ ~ Added(TheOccurrence)
      /\ \A p \in PinsOf(n) : Added(p)' <=> Added(p) \/ p = TheOccurrence
  BY <1>1, PinAddedNow DEF PinsOf
<1>3. QED
  BY <1>1, <1>2 DEF AddedPins

\* One call of add_vpack_net.
LEMMA AddPinInv ==
  ASSUME PinListsInv, TypeOK', AddPin
  PROVE  PinListsInv'
<1>1. /\ pc = "pins" /\ linenum \in DOMAIN file /\ linenum \in 1 .. Len(file)
      /\ Len(file) \in Nat /\ file' = file /\ doall' = doall /\ doall \in {0, 1}
      /\ pass' = pass /\ model_lines' = model_lines
      /\ pc' \in {"line", "pins"}
  BY LineType DEF PinListsInv, AddPin, TypeOK, PositionTypeOK, input
<1>2. \A n \in Nets : PinsOf(n)' = PinsOf(n)
  BY <1>1, FileUnchanged
<1>3. Tracks'
  <2>1. /\ BlockLine(linenum) \/ PadLine(linenum)
        /\ PassOf(linenum) = pass /\ model_lines = Cardinality(Models(linenum))
    BY <1>1 DEF PinListsInv, Tracks
  <2>2. CASE pin + 1 = Len(TheLine.pins)
    <3>1. linenum' = linenum + 1 /\ pc' = "line"
      BY <2>2 DEF AddPin
    <3>2. file[linenum].kind # "model"
      BY <2>1 DEF BlockLine, PadLine
    <3>3. Models(linenum)' = Models(linenum + 1)
      BY <1>1, <3>1 DEF Models
    <3>4. QED
      BY <1>1, <2>1, <3>1, <3>2, <3>3, ModelsStep DEF Tracks
  <2>3. CASE pin + 1 # Len(TheLine.pins)
    <3>1. linenum' = linenum /\ pc' = pc
      BY <2>3 DEF AddPin
    <3>2. /\ BlockLine(linenum)' = BlockLine(linenum) /\ PadLine(linenum)' = PadLine(linenum)
          /\ PassOf(linenum)' = PassOf(linenum) /\ Models(linenum)' = Models(linenum)
      BY <1>1, <3>1 DEF BlockLine, PadLine, FirstModel, PassOf, Models
    <3>3. QED
      BY <1>1, <2>1, <3>1, <3>2 DEF Tracks
  <2>4. QED
    BY <2>2, <2>3
<1>4. CASE doall = 0
  <2>1. CountNet(ThePin)
    BY <1>4 DEF AddPin
  <2>2. ASSUME NEW n \in Nets
        PROVE  /\ IsFiniteSet(AddedPins(n)') /\ hash'[n] = Cardinality(AddedPins(n)')
               /\ num_driver'[n] = 0 /\ num_sinks'[n] = 0 /\ DOMAIN node_block'[n] = {}
    <3>1. /\ IsFiniteSet(AddedPins(n)) /\ hash[n] = Cardinality(AddedPins(n))
          /\ num_driver[n] = 0 /\ num_sinks[n] = 0 /\ DOMAIN node_block[n] = {}
      BY <1>1, <1>4 DEF PinListsInv, Counting
    <3>2. num_driver' = num_driver /\ num_sinks' = num_sinks /\ node_block' = node_block
      BY <2>1 DEF CountNet, nets
    <3>3. hash \in [Nets -> Nat]
      BY DEF PinListsInv, TypeOK, NetsTypeOK
    <3>4. CASE ThePin.net = n
      <4>1. hash'[n] = hash[n] + 1
        BY <2>1, <3>3, <3>4 DEF CountNet
      <4>2. QED
        BY <3>1, <3>2, <3>4, <4>1, PinAdded, FS_AddElement
    <3>5. CASE ThePin.net # n
      <4>1. hash'[n] = hash[n]
        BY <2>1, <3>3, <3>5 DEF CountNet
      <4>2. QED
        BY <3>1, <3>2, <3>5, <4>1, PinAdded
    <3>6. QED
      BY <3>4, <3>5
  <2>3. Counting'
    BY <2>2 DEF Counting
  <2>4. Loading' /\ Lists'
    BY <1>1, <1>4 DEF Loading, Lists
  <2>5. QED
    BY <1>3, <2>3, <2>4 DEF PinListsInv
<1>5. CASE doall = 1
  <2>1. LoadNet(ThePin) /\ ~ Refused(ThePin) /\ hash' = hash
    BY <1>5 DEF AddPin, LoadNet
  <2>2. /\ hash \in [Nets -> Nat] /\ num_driver \in [Nets -> Nat] /\ num_sinks \in [Nets -> Nat]
    BY DEF PinListsInv, TypeOK, NetsTypeOK
  <2>3. ASSUME NEW n \in Nets
        PROVE  /\ IsFiniteSet(PinsOf(n)) /\ hash[n] = Cardinality(PinsOf(n))
               /\ num_driver'[n] + num_sinks'[n] = Cardinality(AddedPins(n)')
               /\ Cardinality(AddedPins(n)') <= hash[n]
               /\ num_driver'[n] \in Nat /\ num_sinks'[n] \in Nat /\ hash[n] \in Nat
    <3>1. /\ IsFiniteSet(PinsOf(n)) /\ hash[n] = Cardinality(PinsOf(n))
          /\ num_driver[n] + num_sinks[n] = Cardinality(AddedPins(n))
      BY <1>1, <1>5 DEF PinListsInv, Loading
    <3>2. IsFiniteSet(AddedPins(n))
      BY <3>1, FS_Subset DEF AddedPins
    <3>3. Cardinality(AddedPins(n)') <= Cardinality(PinsOf(n))
      <4>1. AddedPins(n)' \subseteq PinsOf(n)
        BY <1>2 DEF AddedPins
      <4>2. QED
        BY <3>1, <4>1, FS_Subset
    <3>4. CASE ThePin.net = n
      <4>1. /\ num_driver'[n] + num_sinks'[n] = num_driver[n] + num_sinks[n] + 1
            /\ num_driver'[n] \in Nat /\ num_sinks'[n] \in Nat
        BY <2>1, <2>2, <3>4 DEF LoadNet
      <4>2. Cardinality(AddedPins(n)') = Cardinality(AddedPins(n)) + 1
        BY <3>2, <3>4, PinAdded, FS_AddElement
      <4>3. QED
        BY <2>2, <3>1, <3>3, <4>1, <4>2
    <3>5. CASE ThePin.net # n
      <4>1. num_driver'[n] = num_driver[n] /\ num_sinks'[n] = num_sinks[n]
        BY <2>1, <2>2, <3>5 DEF LoadNet, nets
      <4>2. AddedPins(n)' = AddedPins(n)
        BY <3>5, PinAdded
      <4>3. QED
        BY <2>2, <3>1, <3>3, <4>1, <4>2
    <3>6. QED
      BY <3>4, <3>5
  <2>4. Loading'
    BY <1>1, <1>2, <2>1, <2>3 DEF Loading
  <2>5. Counting'
    BY <1>1, <1>5 DEF Counting
  <2>6. Lists'
    <3>1. SUFFICES ASSUME NEW n \in Nets
          PROVE  /\ DOMAIN node_block'[n]
                      = 1 .. num_sinks'[n] \cup (IF num_driver'[n] > 0 THEN {0} ELSE {})
                 /\ num_driver'[n] + num_sinks'[n] <= hash[n]
                 /\ num_sinks'[n] > 0 => num_sinks'[n] - num_driver'[n] < hash[n]
      BY <2>1 DEF Lists
    <3>2. /\ DOMAIN node_block[n]
               = 1 .. num_sinks[n] \cup (IF num_driver[n] > 0 THEN {0} ELSE {})
          /\ num_sinks[n] > 0 => num_sinks[n] - num_driver[n] < hash[n]
      BY <1>5 DEF PinListsInv, Lists
    <3>3. num_driver[n] \in Nat /\ num_sinks[n] \in Nat /\ hash[n] \in Nat
      BY <2>2
    <3>4. num_driver'[n] + num_sinks'[n] <= hash[n]
      BY <2>3
    <3>5. CASE ThePin.net = n
      <4>. DEFINE j == PinIndex(ThePin)
      <4>1. CASE n \in DOMAIN node_block
        <5>1. DOMAIN node_block'[n] = DOMAIN node_block[n] \cup {j}
          BY <2>1, <3>5, <4>1 DEF LoadNet
        <5>2. CASE ThePin.role = "out"
          <6>1. num_driver'[n] = num_driver[n] + 1 /\ num_sinks'[n] = num_sinks[n] /\ j = 0
            BY <2>1, <2>2, <3>5, <5>2 DEF LoadNet, PinIndex
          <6>2. QED
            BY <3>2, <3>3, <3>4, <5>1, <6>1
        <5>3. CASE ThePin.role # "out"
          <6>1. /\ num_driver'[n] = num_driver[n] /\ num_sinks'[n] = num_sinks[n] + 1
                /\ j = num_sinks[n] + 1
            BY <2>1, <2>2, <3>5, <5>3 DEF LoadNet, PinIndex
          <6>2. num_sinks[n] + 1 - num_driver[n] < hash[n]
            BY <1>5, <2>1, <3>3, <3>5, <5>3 DEF Refused, NetRefused, NoRoom
          <6>3. 1 .. num_sinks[n] + 1 = 1 .. num_sinks[n] \cup {num_sinks[n] + 1}
            BY <3>3
          <6>4. QED
            BY <3>2, <3>3, <3>4, <5>1, <6>1, <6>2, <6>3
        <5>4. QED
          BY <5>2, <5>3
      <4>2. n \in DOMAIN node_block
        BY DEF PinListsInv, TypeOK, NetsTypeOK
      <4>3. QED
        BY <4>1, <4>2
    <3>6. CASE ThePin.net # n
      <4>1. num_driver'[n] = num_driver[n] /\ num_sinks'[n] = num_sinks[n]
        BY <2>1, <2>2, <3>6 DEF LoadNet, nets
      <4>2. node_block'[n] = node_block[n]
        BY <2>1, <3>6 DEF LoadNet, nets, PinListsInv, TypeOK, NetsTypeOK
      <4>3. QED
        BY <3>2, <3>4, <4>1, <4>2
    <3>7. QED
      BY <3>5, <3>6
  <2>7. QED
    BY <1>3, <2>4, <2>5, <2>6 DEF PinListsInv
<1>6. QED
  BY <1>1, <1>4, <1>5

\* A pass begins at the first line.
LEMMA TracksAtStart ==
  ASSUME TypeOK', pc' = "line", linenum' = 1, model_lines' = 0
  PROVE  Tracks'
<1>1. Models(1)' = {}
  BY DEF Models
<1>2. Len(file)' \in Nat
  BY DEF WellTyped, TypeOK, PositionTypeOK
<1>3. Models(linenum)' = {}
  BY DEF Models
<1>4. QED
  BY <1>2, <1>3, FS_EmptySet DEF Tracks

\* At the end of a pass every pin of the pass is added.
LEMMA EndOfPass ==
  ASSUME PinListsInv, AtEnd, NEW o \in Occurrences
  PROVE  Added(o) <=> PassOf(o[1]) <= pass
<1>1. /\ o[1] \in 1 .. Len(file) /\ PassOf(o[1]) \in 1 .. 3
  BY OccurrenceType DEF PinListsInv
<1>2. linenum > Len(file) /\ linenum \in Nat /\ pass \in 0 .. 4
      /\ Len(file) \in Nat
  <2>1. file \in Seq(Line)
    BY DEF WellTyped, PinListsInv, TypeOK, PositionTypeOK
  <2>2. QED
    BY <2>1 DEF AtEnd, PinListsInv, TypeOK, PositionTypeOK
<1>3. QED
  BY <1>1, <1>2 DEF Added

\* At the beginning of a pass only those of earlier passes are.
LEMMA BeginOfPass ==
  ASSUME PinListsInv, TypeOK', Rewind, UNCHANGED pc, pc = "line",
         NEW o \in Occurrences
  PROVE  Added(o)' <=> PassOf(o[1]) < pass'
<1>1. /\ o[1] \in 1 .. Len(file) /\ PassOf(o[1]) \in 1 .. 3 /\ o[2] \in Nat \ {0}
      /\ PassOf(o[1])' = PassOf(o[1])
  BY OccurrenceType, FileUnchanged DEF PinListsInv, Rewind, input
<1>2. linenum' = 1 /\ pin' = 0 /\ pass' \in 0 .. 4
  BY DEF Rewind, PinListsInv, TypeOK, PositionTypeOK
<1>3. PinNumber(o[2])' > 0 /\ PinNumber(o[2])' \in Int
  BY <1>1 DEF PinNumber
<1>4. QED
  BY <1>1, <1>2, <1>3 DEF Added

\* Nothing of the lists changes once the file is read.
LEMMA Stops ==
  ASSUME PinListsInv, TypeOK', pc' \in Final, doall' = doall,
         UNCHANGED <<hash, num_driver, num_sinks>>,
         \A n \in Nets : DOMAIN node_block'[n] = DOMAIN node_block[n]
  PROVE  PinListsInv'
<1>1. Tracks' /\ Counting' /\ Loading'
  BY DEF Tracks, Counting, Loading
<1>2. Lists'
  BY DEF PinListsInv, Lists
<1>3. QED
  BY <1>1, <1>2 DEF PinListsInv

\* The counting round and the loading round see the same pins of every net: the
\* invariant from which the safety of the pin lists follows.
THEOREM PinListsCorrect == Spec => []PinListsInv
<1>1. Init => PinListsInv
  <2>. SUFFICES ASSUME Init PROVE PinListsInv
    OBVIOUS
  <2>1. TypeOK
    BY InitType
  <2>2. \A n \in Nets : AddedPins(n) = {}
    <3>1. ASSUME NEW n \in Nets, NEW o \in PinsOf(n) PROVE ~ Added(o)
      <4>1. /\ o[1] \in 1 .. Len(file) /\ PassOf(o[1]) \in 1 .. 3
        BY <2>1, <3>1, PinsOfType
      <4>2. pass = 0
        BY DEF Init
      <4>3. QED
        BY <4>1, <4>2 DEF Added
    <3>2. QED
      BY <3>1 DEF AddedPins
  <2>3. Tracks
    <3>1. Models(1) = {}
      BY DEF Models
    <3>2. Len(file) \in Nat
      BY <2>1 DEF WellTyped, TypeOK, PositionTypeOK
    <3>3. pc = "line" /\ linenum = 1 /\ model_lines = 0
      BY DEF Init
    <3>4. QED
      BY <3>1, <3>2, <3>3, FS_EmptySet DEF Tracks
  <2>4. Counting
    <3>1. ASSUME NEW n \in Nets
          PROVE  hash[n] = 0 /\ num_driver[n] = 0 /\ num_sinks[n] = 0 /\ node_block[n] = <<>>
      BY DEF Init
    <3>2. DOMAIN <<>> = {} /\ IsFiniteSet({}) /\ Cardinality({}) = 0
      BY FS_EmptySet
    <3>3. QED
      BY <2>2, <3>1, <3>2 DEF Counting
  <2>5. Loading /\ Lists
    BY DEF Init, Loading, Lists
  <2>6. QED
    BY <2>1, <2>3, <2>4, <2>5 DEF PinListsInv
<1>2. PinListsInv /\ [Next]_vars => PinListsInv'
  <2>. SUFFICES ASSUME PinListsInv, [Next]_vars PROVE PinListsInv'
    OBVIOUS
  <2>1. TypeOK /\ TypeOK'
    BY NextType DEF PinListsInv
  <2>2. CASE DumParse \/ ModelLine \/ TruthTableRow \/ IgnoreLut
    BY <2>1, <2>2, SkippedLine, SkipLine
  <2>3. CASE IoLine \/ AddLut \/ AddLatch \/ AddSubckt
    BY <2>1, <2>3, StartedLine, StartPinsInv
  <2>4. CASE AddPin
    BY <2>1, <2>4, AddPinInv
  <2>5. CASE EndPass
    <3>1. /\ file' = file /\ doall' = doall /\ pc = "line" /\ pc' = "line"
          /\ UNCHANGED <<hash, nets>> /\ linenum' = 1 /\ model_lines' = 0
          /\ pass' = pass + 1 /\ Rewind /\ AtEnd
      BY <2>5 DEF EndPass, Rewind, AtEnd, input
    <3>2. Tracks'
      BY <2>1, <3>1, TracksAtStart
    <3>3. ASSUME NEW n \in Nets PROVE AddedPins(n)' = AddedPins(n)
      <4>1. PinsOf(n)' = PinsOf(n)
        BY <3>1, FileUnchanged
      <4>2. ASSUME NEW o \in PinsOf(n) PROVE Added(o)' <=> Added(o)
        <5>1. Added(o) <=> PassOf(o[1]) <= pass
          BY <2>1, <3>1, PinsOfType, EndOfPass
        <5>2. Added(o)' <=> PassOf(o[1]) < pass + 1
          BY <2>1, <3>1, PinsOfType, BeginOfPass
        <5>3. PassOf(o[1]) \in Int /\ pass \in Int
          BY <2>1, PinsOfType DEF TypeOK, PositionTypeOK
        <5>4. QED
          BY <5>1, <5>2, <5>3
      <4>3. QED
        BY <4>1, <4>2 DEF AddedPins
    <3>4. QED
      BY <2>1, <3>1, <3>2, <3>3, NetsKept
  <2>6. CASE EndCounting
    <3>1. /\ file' = file /\ doall = 0 /\ doall' = 1 /\ pc = "line" /\ pc' = "line"
          /\ hash' = hash /\ linenum' = 1 /\ model_lines' = 0
          /\ num_driver' = num_driver /\ num_sinks' = num_sinks /\ node_block' = node_block
          /\ pass = 4 /\ pass' = 0 /\ Rewind /\ AtEnd
      BY <2>6 DEF EndCounting, Rewind, AtEnd, input, nets
    <3>2. Tracks'
      BY <2>1, <3>1, TracksAtStart
    <3>3. ASSUME NEW n \in Nets
          PROVE  AddedPins(n) = PinsOf(n) /\ PinsOf(n)' = PinsOf(n) /\ AddedPins(n)' = {}
      <4>1. PinsOf(n)' = PinsOf(n)
        BY <3>1, FileUnchanged
      <4>2. ASSUME NEW o \in PinsOf(n) PROVE Added(o) /\ ~ Added(o)'
        <5>1. Added(o) <=> PassOf(o[1]) <= 4
          BY <2>1, <3>1, PinsOfType, EndOfPass
        <5>2. Added(o)' <=> PassOf(o[1]) < 0
          BY <2>1, <3>1, PinsOfType, BeginOfPass
        <5>3. PassOf(o[1]) \in 1 .. 3
          BY <2>1, PinsOfType
        <5>4. QED
          BY <5>1, <5>2, <5>3
      <4>3. QED
        BY <4>1, <4>2 DEF AddedPins
    <3>4. ASSUME NEW n \in Nets
          PROVE  /\ IsFiniteSet(PinsOf(n)) /\ hash[n] = Cardinality(PinsOf(n))
                 /\ num_driver[n] = 0 /\ num_sinks[n] = 0 /\ DOMAIN node_block[n] = {}
                 /\ hash[n] \in Nat
      BY <3>1, <3>3 DEF PinListsInv, Counting, TypeOK, NetsTypeOK
    <3>5. Loading'
      BY <3>1, <3>3, <3>4, FS_EmptySet DEF Loading
    <3>6. Counting' /\ Lists'
      BY <3>1, <3>4 DEF Counting, Lists
    <3>7. QED
      BY <2>1, <3>2, <3>5, <3>6 DEF PinListsInv
  <2>7. CASE EndLoading
    <3>1. /\ AtEnd /\ pass = 4 /\ doall = 1 /\ doall' = doall /\ pc = "line" /\ pc' = "check"
          /\ hash' = hash /\ num_driver' = num_driver /\ num_sinks' = num_sinks
          /\ node_block' = node_block
      BY <2>7 DEF EndLoading, AtEnd, position, nets
    <3>2. ASSUME NEW n \in Nets PROVE num_driver[n] + num_sinks[n] = hash[n]
      <4>1. ASSUME NEW o \in PinsOf(n) PROVE Added(o)
        <5>1. Added(o) <=> PassOf(o[1]) <= 4
          BY <2>1, <3>1, PinsOfType, EndOfPass
        <5>2. PassOf(o[1]) \in 1 .. 3
          BY <2>1, PinsOfType
        <5>3. QED
          BY <5>1, <5>2
      <4>2. AddedPins(n) = PinsOf(n)
        BY <4>1 DEF AddedPins
      <4>3. QED
        BY <3>1, <4>2 DEF PinListsInv, Loading
    <3>3. Tracks' /\ Counting' /\ Loading' /\ Lists'
      BY <3>1, <3>2 DEF PinListsInv, Tracks, Counting, Loading, Lists
    <3>4. QED
      BY <2>1, <3>3 DEF PinListsInv
  <2>8. CASE CheckNet
    <3>1. /\ doall' = doall /\ pc = "check" /\ pc' = "activity"
          /\ hash' = hash /\ num_driver' = num_driver /\ num_sinks' = num_sinks
          /\ \A n \in Nets : DOMAIN node_block'[n] = DOMAIN node_block[n]
      BY <2>8 DEF CheckNet
    <3>2. Tracks' /\ Counting' /\ Loading' /\ Lists'
      BY <3>1 DEF PinListsInv, Tracks, Counting, Loading, Lists
    <3>3. QED
      BY <2>1, <3>2 DEF PinListsInv
  <2>9. CASE AddActivity
    <3>1. /\ doall' = doall /\ pc = "activity" /\ pc' = "activity"
          /\ hash' = hash /\ num_driver' = num_driver /\ num_sinks' = num_sinks
          /\ node_block' = node_block
      BY <2>9 DEF AddActivity, nets
    <3>2. Tracks' /\ Counting' /\ Loading' /\ Lists'
      BY <3>1 DEF PinListsInv, Tracks, Counting, Loading, Lists
    <3>3. QED
      BY <2>1, <3>2 DEF PinListsInv
  <2>10. ASSUME NEW how \in Final, Stop(how) PROVE PinListsInv'
    BY <2>1, <2>10, Stops DEF Stop, position, nets
  <2>11. CASE UNCHANGED vars
    <3>1. /\ file' = file /\ doall' = doall /\ pc' = pc /\ pass' = pass /\ pin' = pin
          /\ linenum' = linenum /\ model_lines' = model_lines
          /\ hash' = hash /\ num_driver' = num_driver /\ num_sinks' = num_sinks
          /\ node_block' = node_block
      BY <2>11 DEF vars, input, position, nets
    <3>2. \A n \in Nets : PinsOf(n)' = PinsOf(n) /\ AddedPins(n)' = AddedPins(n)
      <4>1. \A n : PinsOf(n)' = PinsOf(n)
        BY <3>1, FileUnchanged
      <4>2. \A o : Added(o)' = Added(o)
        BY <3>1, FileUnchanged DEF Added, PinNumber, LoadsQFirst, TheLine
      <4>3. QED
        BY <4>1, <4>2 DEF AddedPins
    <3>3. Tracks'
      BY <3>1 DEF PinListsInv, Tracks, BlockLine, PadLine, FirstModel, PassOf, Models
    <3>4. Counting' /\ Loading' /\ Lists'
      BY <3>1, <3>2 DEF PinListsInv, Counting, Loading, Lists
    <3>5. QED
      BY <2>1, <3>3, <3>4 DEF PinListsInv
  <2>12. QED
    BY <2>2, <2>3, <2>4, <2>5, <2>6, <2>7, <2>8, <2>9, <2>10, <2>11
       DEF Next, BadLine, BadPin, CheckFails, EndActivity, Stopped
<1>3. QED
  BY <1>1, <1>2, PTL DEF Spec

\* The pin lists are never written beyond the entries that were allocated for them,
\* whatever the file says: what the test of add_vpack_net before the write is for.
THEOREM PinListsSafe == Spec => []PinListInBounds
<1>1. PinListsInv => PinListInBounds
  <2>. SUFFICES ASSUME PinListsInv, doall = 1, NEW n \in Nets
                PROVE  DOMAIN node_block[n] \subseteq 0 .. hash[n] - 1
    BY DEF PinListInBounds
  <2>1. /\ DOMAIN node_block[n] = 1 .. num_sinks[n] \cup (IF num_driver[n] > 0 THEN {0} ELSE {})
        /\ num_driver[n] + num_sinks[n] <= hash[n]
        /\ num_sinks[n] > 0 => num_sinks[n] - num_driver[n] < hash[n]
    BY DEF PinListsInv, Lists
  <2>2. num_driver[n] \in Nat /\ num_sinks[n] \in Nat /\ hash[n] \in Nat
    BY DEF PinListsInv, TypeOK, NetsTypeOK
  <2>3. QED
    BY <2>1, <2>2
<1>2. QED
  BY <1>1, PinListsCorrect, PTL

\* When check_net walks the pin list of a net, driver first, every entry was written.
THEOREM PinListsWritten == Spec => []PinListInitialised
<1>1. PinListsInv => PinListInitialised
  <2>. SUFFICES ASSUME PinListsInv, pc = "check", NEW n \in Known
                PROVE  DOMAIN node_block[n] = 0 .. num_sinks[n]
    BY DEF PinListInitialised
  <2>1. n \in Nets /\ hash[n] > 0 /\ doall = 1 /\ num_driver[n] + num_sinks[n] = hash[n]
    BY DEF PinListsInv, Loading, Known
  <2>2. /\ DOMAIN node_block[n] = 1 .. num_sinks[n] \cup (IF num_driver[n] > 0 THEN {0} ELSE {})
        /\ num_sinks[n] > 0 => num_sinks[n] - num_driver[n] < hash[n]
    BY <2>1 DEF PinListsInv, Lists
  <2>3. num_driver[n] \in Nat /\ num_sinks[n] \in Nat /\ hash[n] \in Nat
    BY <2>1 DEF PinListsInv, TypeOK, NetsTypeOK
  <2>4. num_driver[n] > 0
    BY <2>1, <2>2, <2>3
  <2>5. QED
    BY <2>2, <2>3, <2>4
<1>2. QED
  BY <1>1, PinListsCorrect, PTL
-----------------------------------------------------------------------------
(* The blocks, numbered *)

\* The pads and the lines whose block this round of passes has made.
AddedPads == {o \in PadPins : Added(o)}
BlockLines == {l \in DOMAIN file : BlockLine(l)}
BegunLines ==
  {l \in BlockLines : \/ pass > 3
                      \/ pass = 3 /\ (l < linenum \/ (l = linenum /\ pc = "pins"))}
AllBlocks == Cardinality(PadPins) + Cardinality(BlockLines)

\* Every pad and every line has made its block, in both rounds.
Numbering ==
  /\ pc \in {"line", "pins"} => num_logical_blocks = Cardinality(AddedPads) + Cardinality(BegunLines)
  /\ doall = 0 => logical_block = <<>>
  /\ doall = 1 => /\ alloc_blocks = AllBlocks
                  /\ Len(logical_block) = num_logical_blocks /\ num_logical_blocks <= AllBlocks
  /\ pc = "check" => num_logical_blocks = AllBlocks

-----------------------------------------------------------------------------
(* The pins, placed *)

AddedSinks(n) == {o \in AddedPins(n) : PinAt(o).role # "out"}
AddedDrivers(n) == {o \in AddedPins(n) : PinAt(o).role = "out"}

\* The entries of a list that name the place e.
EntriesAt(n, e) == {j \in 1 .. num_sinks[n] : node_block[n][j] = e}
SinksAt(n, e) == {o \in AddedSinks(n) : Place(o) = e}

\* The pins of the net added are those loaded, each at its place, the last driver at 0.
PlacedNet(n) ==
  /\ num_driver[n] = Cardinality(AddedDrivers(n)) /\ num_sinks[n] = Cardinality(AddedSinks(n))
  /\ AddedDrivers(n) # {} => Driver(n) = Place(Latest(AddedDrivers(n)))
  /\ \A o \in SinksOf(n) :
       Cardinality(SinksAt(n, Place(o))) = Cardinality(EntriesAt(n, Place(o)))

Placing ==
  /\ pc \in {"line", "pins"} /\ doall = 1 => \A n \in Nets : PlacedNet(n)
  /\ LoadedNetlistIsFile

-----------------------------------------------------------------------------
(* The blocks, filled *)

\* A block has a type from its line; an output pad drives nothing, an input pad drives the
\* net of its only pin, and a net on an output pin was loaded with a driver.
FilledBlock(b) ==
  /\ logical_block[b].type # "EMPTY"
  /\ logical_block[b].type = "OUTPAD" => \A s \in Slots : logical_block[b].outs[s] = OPEN
  /\ logical_block[b].type = "INPAD" =>
       \E s \in Slots : /\ \A t \in Slots \ {s} : logical_block[b].outs[t] = OPEN
                        /\ logical_block[b].nout = IF logical_block[b].outs[s] = OPEN THEN 0 ELSE 1
  /\ \A s \in Slots : LET n == logical_block[b].outs[s] IN n # OPEN => num_driver[n] > 0

\* The driver entry of a net names a pin; when that pin is of a pad it is the pin of the net.
DrivenBy(n) ==
  num_driver[n] > 0 => \E b \in BlockIds, s \in Slots :
    /\ Driver(n) = <<b, s>>
    /\ logical_block[b].type = "INPAD" => logical_block[b].outs[s] = n

Filling ==
  doall = 1 /\ pc \in {"line", "pins", "check"} =>
    /\ \A b \in BlockIds : FilledBlock(b)
    /\ \A n \in Nets : DrivenBy(n)
    /\ pc = "pins" /\ ~ IsPad => logical_block[num_logical_blocks].type \notin {"INPAD", "OUTPAD"}

-----------------------------------------------------------------------------
(* The rows *)

\* The line is the .names whose block the next row goes to: only rows were read after it.
TakesRows(l) ==
  pass = 3 /\ IF pc = "pins" THEN l = linenum ELSE \A m \in l + 1 .. linenum - 1 : file[m].kind = "row"

\* The rows read after a .names are on its block.
HasRows(l) ==
  /\ \A r \in RowsOf(l) : (pass > 3 \/ r < linenum) => r \in RowsLoaded(BlockOfLine(l))
  /\ TakesRows(l) => add_truth_table = TRUE /\ num_logical_blocks = BlockOfLine(l)

RowsInv ==
  /\ doall = 1 /\ pc \in {"line", "pins"} =>
       \A l \in BegunLines : file[l].kind = "names" => HasRows(l)
  /\ TruthTableComplete

-----------------------------------------------------------------------------
(* The reference *)

\* There are finitely many pins and lines.
LEMMA FinitePins ==
  ASSUME TypeOK
  PROVE  /\ IsFiniteSet(Occurrences) /\ IsFiniteSet(PadPins) /\ IsFiniteSet(BlockLines)
         /\ Cardinality(PadPins) \in Nat /\ Cardinality(BlockLines) \in Nat
<1>1. file \in Seq(Line) /\ DOMAIN file = 1 .. Len(file) /\ Len(file) \in Nat
  BY DEF WellTyped, TypeOK, PositionTypeOK
<1>2. IsFiniteSet(DOMAIN file)
  BY <1>1, FS_Interval
<1>. DEFINE L == {m \in DOMAIN file : BlockLine(m) \/ PadLine(m)}
            S == {{l} \X DOMAIN file[l].pins : l \in L}
            f == [l \in L |-> {l} \X DOMAIN file[l].pins]
<1>3. IsFiniteSet(L) /\ IsFiniteSet(BlockLines)
  BY <1>2, FS_Subset DEF BlockLines
<1>4. IsFiniteSet(S)
  <2>1. f \in Surjection(L, S)
    BY DEF Surjection
  <2>. HIDE DEF f, L, S
  <2>2. QED
    BY <1>3, <2>1, FS_Surjection
<1>5. ASSUME NEW l \in L PROVE IsFiniteSet({l} \X DOMAIN file[l].pins)
  <2>1. file[l] \in Line
    BY <1>1
  <2>2. file[l].pins \in Seq(Pin)
    BY <2>1 DEF Line
  <2>3. DOMAIN file[l].pins = 1 .. Len(file[l].pins) /\ Len(file[l].pins) \in Nat
    BY <2>2, LenProperties
  <2>4. IsFiniteSet(DOMAIN file[l].pins)
    BY <2>3, FS_Interval
  <2>5. IsFiniteSet({l})
    BY FS_Singleton
  <2>6. QED
    BY <2>4, <2>5, FS_Product
<1>6. IsFiniteSet(Occurrences)
  <2>1. \A T \in S : IsFiniteSet(T)
    BY <1>5
  <2>2. Occurrences = UNION S
    BY DEF Occurrences
  <2>. HIDE DEF S
  <2>3. QED
    BY <1>4, <2>1, <2>2, FS_UNION
<1>7. IsFiniteSet(PadPins)
  BY <1>6, FS_Subset DEF PadPins
<1>8. QED
  BY <1>3, <1>6, <1>7, FS_CardinalityType

\* The pads are read in the passes before that of the blocks.
LEMMA PassOfLine ==
  ASSUME NEW l
  PROVE  /\ BlockLine(l) => PassOf(l) = 3 /\ ~ PadLine(l) /\ file[l].kind \notin {"inputs", "outputs"}
         /\ PadLine(l) => PassOf(l) \in {1, 2} /\ ~ BlockLine(l) /\ file[l].kind \in {"inputs", "outputs"}
  BY DEF BlockLine, PadLine, PassOf

\* The sets the reference is made of depend on nothing but the file.
LEMMA ReferenceUnchanged ==
  ASSUME file' = file
  PROVE  /\ PadPins' = PadPins /\ BlockLines' = BlockLines /\ AllBlocks' = AllBlocks
         /\ Occurrences' = Occurrences
<1>1. Occurrences' = Occurrences /\ \A l : BlockLine(l)' = BlockLine(l) /\ PadLine(l)' = PadLine(l)
  BY FileUnchanged
<1>2. PadPins' = PadPins /\ BlockLines' = BlockLines
  BY <1>1 DEF PadPins, BlockLines
<1>3. QED
  BY <1>1, <1>2 DEF AllBlocks

-----------------------------------------------------------------------------
(* The blocks are numbered *)

\* There are no more blocks than pads and lines.
LEMMA NoMoreBlocks ==
  ASSUME TypeOK, NEW P, NEW L, P \subseteq PadPins, L \subseteq BlockLines
  PROVE  Cardinality(P) + Cardinality(L) <= AllBlocks
<1>1. /\ Cardinality(P) \in Nat /\ Cardinality(L) \in Nat
      /\ Cardinality(P) <= Cardinality(PadPins) /\ Cardinality(L) <= Cardinality(BlockLines)
  BY FinitePins, FS_Subset, FS_CardinalityType
<1>2. QED
  BY <1>1, FinitePins DEF AllBlocks

\* Those of this round are some of them.
LEMMA BlocksSoFar ==
  ASSUME TypeOK
  PROVE  /\ AddedPads \subseteq PadPins /\ BegunLines \subseteq BlockLines
         /\ IsFiniteSet(AddedPads) /\ IsFiniteSet(BegunLines)
         /\ Cardinality(AddedPads) \in Nat /\ Cardinality(BegunLines) \in Nat
         /\ AllBlocks \in Nat
         /\ Cardinality(AddedPads) + Cardinality(BegunLines) <= AllBlocks
<1>1. AddedPads \subseteq PadPins /\ BegunLines \subseteq BlockLines
  BY DEF AddedPads, BegunLines
<1>2. IsFiniteSet(AddedPads) /\ IsFiniteSet(BegunLines)
  BY <1>1, FinitePins, FS_Subset
<1>3. /\ Cardinality(AddedPads) <= Cardinality(PadPins)
      /\ Cardinality(BegunLines) <= Cardinality(BlockLines)
  BY <1>1, FinitePins, FS_Subset
<1>4. Cardinality(AddedPads) \in Nat /\ Cardinality(BegunLines) \in Nat
  BY <1>2, FS_CardinalityType
<1>5. QED
  BY <1>1, <1>2, <1>3, <1>4, FinitePins DEF AllBlocks

\* A line that is passed over makes no block.
LEMMA SkipBegins ==
  ASSUME PinListsInv, pc = "line", linenum \in DOMAIN file, NextLine, file' = file,
         ~ (BlockLine(linenum) /\ PassOf(linenum) = pass)
  PROVE  BegunLines' = BegunLines
<1>1. linenum' = linenum + 1 /\ pc' = "line" /\ pass' = pass /\ linenum \in Nat /\ pass \in Nat
  BY DEF NextLine, PinListsInv, TypeOK, PositionTypeOK
<1>2. DOMAIN file \subseteq Nat
  BY DEF WellTyped, PinListsInv, TypeOK, PositionTypeOK
<1>3. BlockLine(linenum) => pass # 3
  BY PassOfLine
<1>4. ASSUME NEW l \in BlockLines, pass = 3
      PROVE  l < linenum + 1 <=> l < linenum
  BY <1>1, <1>2, <1>3, <1>4 DEF BlockLines
<1>5. BlockLines' = BlockLines
  BY ReferenceUnchanged
<1>6. QED
  BY <1>1, <1>4, <1>5 DEF BegunLines

\* A line that starts makes its block, unless it is one of pads.
LEMMA StartBegins ==
  ASSUME PinListsInv, pc = "line", linenum \in DOMAIN file, NEW newBlock, StartPins(newBlock),
         (BlockLine(linenum) \/ PadLine(linenum)) /\ PassOf(linenum) = pass
  PROVE  /\ BlockLine(linenum) => BegunLines' = BegunLines \cup {linenum} /\ linenum \notin BegunLines
         /\ PadLine(linenum) => BegunLines' = BegunLines
<1>1. /\ linenum \in Nat /\ pass \in Nat /\ pass' = pass /\ file' = file
      /\ \/ pc' = "pins" /\ linenum' = linenum
         \/ pc' = "line" /\ linenum' = linenum + 1
  BY DEF StartPins, NextLine, input, PinListsInv, TypeOK, PositionTypeOK
<1>2. DOMAIN file \subseteq Nat
  BY DEF WellTyped, PinListsInv, TypeOK, PositionTypeOK
<1>3. BlockLines' = BlockLines
  BY <1>1, ReferenceUnchanged
<1>4. CASE BlockLine(linenum)
  <2>1. pass = 3 /\ ~ PadLine(linenum) /\ linenum \in BlockLines
    BY <1>4, PassOfLine DEF BlockLines
  <2>2. BegunLines' = {l \in BlockLines : l < linenum \/ l = linenum}
    BY <1>1, <1>2, <1>3, <2>1 DEF BegunLines, BlockLines
  <2>3. BegunLines = {l \in BlockLines : l < linenum}
    BY <2>1 DEF BegunLines
  <2>4. QED
    BY <1>1, <2>1, <2>2, <2>3
<1>5. CASE PadLine(linenum)
  <2>1. pass \in {1, 2} /\ ~ BlockLine(linenum)
    BY <1>5, PassOfLine
  <2>2. QED
    BY <1>1, <1>3, <2>1 DEF BegunLines
<1>6. QED
  BY <1>4, <1>5

\* Pins are added to a block that is made, and each pad makes one of its own.
LEMMA AddBegins ==
  ASSUME PinListsInv, AddPin
  PROVE  /\ BegunLines' = BegunLines
         /\ IsPad => /\ PadLine(linenum) /\ AddedPads' = AddedPads \cup {TheOccurrence}
                     /\ TheOccurrence \notin AddedPads /\ TheOccurrence \in PadPins
                     /\ BegunLines = {}
         /\ ~ IsPad => /\ BlockLine(linenum) /\ AddedPads' = AddedPads /\ linenum \in BegunLines
                       /\ AddedPads = PadPins /\ pass = 3
                       /\ BegunLines = {l \in BlockLines : l <= linenum}
<1>1. /\ linenum \in Nat /\ pass \in Nat /\ pass' = pass /\ file' = file /\ linenum \in DOMAIN file
      /\ pc = "pins"
      /\ \/ pc' = "pins" /\ linenum' = linenum
         \/ pc' = "line" /\ linenum' = linenum + 1
  BY DEF AddPin, input, PinListsInv, TypeOK, PositionTypeOK
<1>2. (BlockLine(linenum) \/ PadLine(linenum)) /\ PassOf(linenum) = pass
  BY <1>1 DEF PinListsInv, Tracks
<1>3. DOMAIN file \subseteq Nat
  BY DEF WellTyped, PinListsInv, TypeOK, PositionTypeOK
<1>4. PadPins' = PadPins /\ BlockLines' = BlockLines
  BY <1>1, ReferenceUnchanged
<1>5. BegunLines' = BegunLines
  <2>1. ASSUME NEW l \in BlockLines
        PROVE  (l < linenum' \/ (l = linenum' /\ pc' = "pins")) <=> (l < linenum \/ l = linenum)
    BY <1>1, <1>3 DEF BlockLines
  <2>2. QED
    BY <1>1, <1>4, <2>1 DEF BegunLines
<1>6. /\ TheOccurrence \in Occurrences /\ ~ Added(TheOccurrence)
      /\ \A p \in Occurrences : Added(p)' <=> Added(p) \/ p = TheOccurrence
  BY PinAddedNow
<1>7. TheOccurrence[1] = linenum
  BY DEF TheOccurrence
<1>8. CASE IsPad
  <2>1. PadLine(linenum) /\ pass \in {1, 2}
    BY <1>2, <1>8, PassOfLine DEF IsPad, TheLine
  <2>2. TheOccurrence \in PadPins
    BY <1>6, <1>7, <2>1 DEF PadPins
  <2>3. AddedPads' = AddedPads \cup {TheOccurrence} /\ TheOccurrence \notin AddedPads
    BY <1>4, <1>6, <2>2 DEF AddedPads, PadPins
  <2>4. BegunLines = {}
    BY <2>1 DEF BegunLines
  <2>5. QED
    BY <1>5, <1>8, <2>1, <2>2, <2>3, <2>4
<1>9. CASE ~ IsPad
  <2>1. BlockLine(linenum) /\ ~ PadLine(linenum) /\ pass = 3
    BY <1>2, <1>9, PassOfLine DEF IsPad, TheLine
  <2>2. TheOccurrence \notin PadPins
    BY <1>7, <2>1 DEF PadPins
  <2>3. AddedPads' = AddedPads
    BY <1>4, <1>6, <2>2 DEF AddedPads, PadPins
  <2>4. linenum \in BegunLines /\ BegunLines = {l \in BlockLines : l <= linenum}
    BY <1>1, <1>3, <2>1 DEF BegunLines, BlockLines
  <2>5. AddedPads = PadPins
    BY <2>1, PassOfLine DEF AddedPads, PadPins, Added
  <2>6. QED
    BY <1>5, <1>9, <2>1, <2>3, <2>4, <2>5
<1>10. QED
  BY <1>8, <1>9

\* The step keeps what the numbering is about.
LEMMA NumberingKept ==
  ASSUME Numbering, pc' \in {"activity"} \cup Final, file' = file,
         UNCHANGED <<doall, alloc_blocks, num_logical_blocks, logical_block>>
  PROVE  Numbering'
<1>1. AllBlocks' = AllBlocks
  BY ReferenceUnchanged
<1>2. QED
  BY <1>1 DEF Numbering

\* A line of pins begins with a block, unless each of its pins makes one.
LEMMA StartedBlock ==
  ASSUME PinListsInv, IoLine \/ AddLut \/ AddLatch \/ AddSubckt
  PROVE  /\ pc = "line" /\ linenum \in DOMAIN file
         /\ (BlockLine(linenum) \/ PadLine(linenum)) /\ PassOf(linenum) = pass
         /\ TheLine.kind # "row" /\ (TheLine.kind = "names" => TheLine.pins # <<>>)
         /\ \/ ~ BlockLine(linenum) /\ StartPins(<<>>)
            \/ BlockLine(linenum) /\ \E type \in {"LUT", "LATCH", "SUBCKT"} : StartPins(<<NewBlock(type)>>)
<1>1. /\ pc = "line" /\ linenum \in DOMAIN file
      /\ (BlockLine(linenum) \/ PadLine(linenum)) /\ PassOf(linenum) = pass
  BY StartedLine, AddsCounts
<1>2. CASE IoLine
  <2>1. StartPins(<<>>) /\ TheLine.kind \in {"inputs", "outputs"}
    BY <1>2 DEF IoLine, AtLine
  <2>2. ~ BlockLine(linenum)
    BY <2>1, PassOfLine DEF TheLine
  <2>3. QED
    BY <1>1, <2>1, <2>2
<1>3. CASE AddLut \/ AddLatch \/ AddSubckt
  <2>1. \E type \in {"LUT", "LATCH", "SUBCKT"} : StartPins(<<NewBlock(type)>>)
    BY <1>3 DEF AddLut, AddLatch, AddSubckt
  <2>2. TheLine.kind \in {"names", "latch", "subckt"}
    BY <1>3 DEF AddLut, AddLatch, AddSubckt, AtLine
  <2>3. BlockLine(linenum)
    BY <1>1, <2>2, PassOfLine DEF TheLine
  <2>4. ASSUME TheLine.kind = "names" PROVE TheLine.pins # <<>>
    <3>1. ~ TooWide(TheLine)
      BY <1>3, <2>4 DEF AddLut, AddLatch, AddSubckt, AtLine
    <3>2. QED
      BY <3>1, EmptySeq DEF TooWide
  <2>5. QED
    BY <1>1, <2>1, <2>2, <2>3, <2>4
<1>4. QED
  BY <1>2, <1>3

\* Every step of the reader keeps the numbering.
LEMMA NumberingNext ==
  ASSUME PinListsInv, PinListsInv', Numbering, [Next]_vars
  PROVE  Numbering'
<1>1. TypeOK /\ TypeOK' /\ doall \in {0, 1} /\ num_logical_blocks \in Nat
      /\ logical_block \in Seq(Block) /\ logical_block' \in Seq(Block)
  BY DEF PinListsInv, TypeOK, PositionTypeOK, BlocksTypeOK
<1>2. CASE DumParse \/ ModelLine \/ TruthTableRow \/ IgnoreLut
  <2>1. /\ pc = "line" /\ pc' = "line" /\ linenum \in DOMAIN file /\ NextLine /\ file' = file
        /\ ~ ((BlockLine(linenum) \/ PadLine(linenum)) /\ PassOf(linenum) = pass)
        /\ doall' = doall /\ alloc_blocks' = alloc_blocks
    BY <1>2, SkippedLine DEF NextLine
  <2>2. num_logical_blocks' = num_logical_blocks
    BY <1>2 DEF DumParse, ModelLine, TruthTableRow, IgnoreLut
  <2>3. BegunLines' = BegunLines
    BY <2>1, SkipBegins
  <2>4. AddedPads' = AddedPads
    BY <1>1, <2>1, LineAddsNone, ReferenceUnchanged DEF AddedPads, PadPins
  <2>5. Len(logical_block') = Len(logical_block) /\ (logical_block = <<>> => logical_block' = <<>>)
    <3>1. CASE TruthTableRow
      <4>1. \/ logical_block' = logical_block
            \/ \E b \in Nat : \E f : logical_block' = [logical_block EXCEPT ![b] = f]
        BY <1>1, <3>1 DEF TruthTableRow
      <4>2. DOMAIN logical_block' = DOMAIN logical_block
        BY <4>1
      <4>3. QED
        BY <1>1, <4>2, LenProperties, EmptySeq
    <3>2. QED
      BY <1>2, <3>1 DEF DumParse, ModelLine, IgnoreLut
  <2>6. QED
    BY <2>1, <2>2, <2>3, <2>4, <2>5, ReferenceUnchanged DEF Numbering
<1>3. CASE IoLine \/ AddLut \/ AddLatch \/ AddSubckt
  <2>1. PICK newBlock \in Seq(Block) :
          /\ StartPins(newBlock) /\ pc = "line" /\ linenum \in DOMAIN file
          /\ (BlockLine(linenum) \/ PadLine(linenum)) /\ PassOf(linenum) = pass
          /\ Len(newBlock) = IF BlockLine(linenum) THEN 1 ELSE 0
    <3>1. \A type \in Types : <<NewBlock(type)>> \in Seq(Block) /\ Len(<<NewBlock(type)>>) = 1
      BY NewBlockType
    <3>2. QED
      BY <1>3, <3>1, StartedBlock, EmptySeq DEF Types
  <2>2. /\ file' = file /\ doall' = doall /\ alloc_blocks' = alloc_blocks
        /\ num_logical_blocks' = num_logical_blocks + Len(newBlock)
        /\ logical_block' = IF doall = 1 THEN logical_block \o newBlock ELSE logical_block
        /\ pc' \in {"line", "pins"}
    BY <2>1 DEF StartPins, NextLine, input
  <2>3. AddedPads' = AddedPads
    BY <2>1, <2>2, StartAddsNone, ReferenceUnchanged DEF AddedPads, PadPins
  <2>4. Cardinality(BegunLines') = Cardinality(BegunLines) + Len(newBlock)
    <3>1. CASE BlockLine(linenum)
      BY <1>1, <2>1, <3>1, StartBegins, BlocksSoFar, FS_AddElement
    <3>2. CASE ~ BlockLine(linenum)
      BY <1>1, <2>1, <3>2, StartBegins, BlocksSoFar
    <3>3. QED
      BY <3>1, <3>2
  <2>5. num_logical_blocks' = Cardinality(AddedPads') + Cardinality(BegunLines')
    BY <1>1, <2>1, <2>2, <2>3, <2>4, BlocksSoFar DEF Numbering
  <2>6. num_logical_blocks' <= AllBlocks' /\ AllBlocks' = AllBlocks
    <3>1. AddedPads' \subseteq PadPins /\ BegunLines' \subseteq BlockLines
      BY <2>2, ReferenceUnchanged DEF AddedPads, BegunLines
    <3>2. QED
      BY <1>1, <2>2, <2>5, <3>1, NoMoreBlocks, ReferenceUnchanged
  <2>7. Len(logical_block \o newBlock) = Len(logical_block) + Len(newBlock)
    BY <1>1, <2>1, ConcatProperties
  <2>8. QED
    BY <1>1, <2>1, <2>2, <2>5, <2>6, <2>7 DEF Numbering
<1>4. CASE AddPin
  <2>1. /\ file' = file /\ doall' = doall /\ alloc_blocks' = alloc_blocks
        /\ num_logical_blocks' = PinBlock /\ pc = "pins" /\ pc' \in {"line", "pins"}
    BY <1>4 DEF AddPin, input
  <2>2. BegunLines' = BegunLines
    BY <1>4, AddBegins
  <2>3. Cardinality(AddedPads') = Cardinality(AddedPads) + (IF IsPad THEN 1 ELSE 0)
    <3>1. CASE IsPad
      BY <1>1, <1>4, <3>1, AddBegins, BlocksSoFar, FS_AddElement
    <3>2. CASE ~ IsPad
      BY <1>1, <1>4, <3>2, AddBegins, BlocksSoFar
    <3>3. QED
      BY <3>1, <3>2
  <2>4. num_logical_blocks' = Cardinality(AddedPads') + Cardinality(BegunLines')
    BY <1>1, <2>1, <2>2, <2>3, BlocksSoFar DEF Numbering, PinBlock
  <2>5. num_logical_blocks' <= AllBlocks' /\ AllBlocks' = AllBlocks
    <3>1. AddedPads' \subseteq PadPins /\ BegunLines' \subseteq BlockLines
      BY <2>1, ReferenceUnchanged DEF AddedPads, BegunLines
    <3>2. QED
      BY <1>1, <2>1, <2>4, <3>1, NoMoreBlocks, ReferenceUnchanged
  <2>6. doall = 1 => Len(logical_block') = num_logical_blocks'
    <3>. SUFFICES ASSUME doall = 1 PROVE Len(logical_block') = num_logical_blocks'
      OBVIOUS
    <3>. DEFINE blocks == IF IsPad /\ doall = 1
                         THEN Append(logical_block, NewBlock(PadType)) ELSE logical_block
    <3>1. \E f : logical_block' = [blocks EXCEPT ![PinBlock] = f]
      BY <1>4 DEF AddPin
    <3>2. NewBlock(PadType) \in Block
      BY NewBlockType DEF PadType, Types
    <3>3. blocks \in Seq(Block) /\ Len(blocks) = PinBlock
      BY <1>1, <2>1, <3>2, AppendProperties DEF Numbering, PinBlock
    <3>. HIDE DEF blocks
    <3>4. DOMAIN logical_block' = DOMAIN blocks
      BY <3>1
    <3>5. QED
      BY <1>1, <2>1, <3>3, <3>4, LenProperties
  <2>7. doall = 0 => logical_block' = <<>>
    <3>. SUFFICES ASSUME doall = 0 PROVE logical_block' = <<>>
      OBVIOUS
    <3>1. logical_block' = logical_block
      BY <1>4 DEF AddPin
    <3>2. QED
      BY <3>1 DEF Numbering
  <2>8. QED
    BY <1>1, <2>1, <2>4, <2>5, <2>6, <2>7 DEF Numbering
<1>5. CASE EndPass
  <2>1. /\ file' = file /\ doall' = doall /\ pc = "line" /\ pc' = "line" /\ linenum' = 1
        /\ pass' = pass + 1 /\ pass \in 0 .. 3 /\ Rewind /\ AtEnd
        /\ UNCHANGED <<alloc_blocks, num_logical_blocks, logical_block>>
    BY <1>1, <1>5 DEF EndPass, Rewind, AtEnd, input, TypeOK, PositionTypeOK
  <2>2. AddedPads' = AddedPads
    <3>1. ASSUME NEW o \in PadPins PROVE Added(o)' <=> Added(o)
      <4>1. o \in Occurrences
        BY DEF PadPins
      <4>2. Added(o) <=> PassOf(o[1]) <= pass
        BY <2>1, <4>1, EndOfPass
      <4>3. Added(o)' <=> PassOf(o[1]) < pass + 1
        BY <1>1, <2>1, <4>1, BeginOfPass
      <4>4. PassOf(o[1]) \in Int
        BY <1>1, <4>1, OccurrenceType
      <4>5. QED
        BY <2>1, <4>2, <4>3, <4>4
    <3>2. QED
      BY <2>1, <3>1, ReferenceUnchanged DEF AddedPads
  <2>3. BegunLines' = BegunLines
    <3>1. \A l \in BlockLines : l < linenum /\ ~ (l < 1)
      BY <1>1, <2>1 DEF BlockLines, AtEnd, WellTyped, TypeOK, PositionTypeOK
    <3>2. BlockLines' = BlockLines
      BY <2>1, ReferenceUnchanged
    <3>3. QED
      BY <2>1, <3>1, <3>2 DEF BegunLines
  <2>4. QED
    BY <2>1, <2>2, <2>3, ReferenceUnchanged DEF Numbering
<1>6. ASSUME AtEnd, pass = 4 PROVE num_logical_blocks = AllBlocks
  <2>1. AddedPads = PadPins
    <3>1. ASSUME NEW o \in PadPins PROVE Added(o)
      <4>1. o \in Occurrences
        BY DEF PadPins
      <4>2. PassOf(o[1]) \in 1 .. 3
        BY <1>1, <4>1, OccurrenceType
      <4>3. QED
        BY <1>6, <4>1, <4>2, EndOfPass
    <3>2. QED
      BY <3>1 DEF AddedPads
  <2>2. BegunLines = BlockLines
    BY <1>6 DEF BegunLines
  <2>3. QED
    BY <1>6, <2>1, <2>2 DEF Numbering, AllBlocks, AtEnd
<1>7. CASE EndCounting
  <2>1. /\ file' = file /\ doall = 0 /\ doall' = 1 /\ pc = "line" /\ pc' = "line" /\ linenum' = 1
        /\ pass = 4 /\ pass' = 0 /\ Rewind /\ AtEnd
        /\ alloc_blocks' = num_logical_blocks /\ num_logical_blocks' = 0
        /\ logical_block' = logical_block
    BY <1>7 DEF EndCounting, Rewind, AtEnd, input
  <2>2. AddedPads' = {}
    <3>1. ASSUME NEW o \in PadPins PROVE ~ Added(o)'
      <4>1. o \in Occurrences
        BY DEF PadPins
      <4>2. Added(o)' <=> PassOf(o[1]) < 0
        BY <1>1, <2>1, <4>1, BeginOfPass
      <4>3. PassOf(o[1]) \in 1 .. 3
        BY <1>1, <4>1, OccurrenceType
      <4>4. QED
        BY <4>2, <4>3
    <3>2. QED
      BY <2>1, <3>1, ReferenceUnchanged DEF AddedPads
  <2>3. BegunLines' = {}
    BY <2>1 DEF BegunLines
  <2>4. num_logical_blocks = AllBlocks /\ AllBlocks' = AllBlocks /\ AllBlocks \in Nat
    BY <1>1, <1>6, <2>1, BlocksSoFar, ReferenceUnchanged
  <2>5. logical_block = <<>>
    BY <2>1 DEF Numbering
  <2>6. QED
    BY <2>1, <2>2, <2>3, <2>4, <2>5, FS_EmptySet, EmptySeq DEF Numbering
<1>8. CASE EndLoading
  <2>1. /\ file' = file /\ doall' = doall /\ pc' = "check" /\ pass = 4 /\ doall = 1 /\ AtEnd
        /\ UNCHANGED <<alloc_blocks, num_logical_blocks, logical_block>>
    BY <1>8 DEF EndLoading, input, position
  <2>2. num_logical_blocks = AllBlocks /\ AllBlocks' = AllBlocks
    BY <1>6, <2>1, ReferenceUnchanged
  <2>3. QED
    BY <2>1, <2>2 DEF Numbering
<1>9. CASE CheckNet
  <2>1. /\ file' = file /\ doall' = doall /\ pc = "check" /\ pc' = "activity"
        /\ alloc_blocks' = alloc_blocks /\ num_logical_blocks' = num_logical_blocks
        /\ DOMAIN logical_block' = DOMAIN logical_block
    BY <1>9 DEF CheckNet, input, BlockIds
  <2>2. Len(logical_block') = Len(logical_block)
    BY <1>1, <2>1, LenProperties
  <2>3. doall = 1
    BY <2>1 DEF PinListsInv, Loading
  <2>4. QED
    BY <2>1, <2>2, <2>3, ReferenceUnchanged DEF Numbering
<1>10. CASE AddActivity
  BY <1>10, NumberingKept DEF AddActivity, input
<1>11. ASSUME NEW how \in Final, Stop(how) PROVE Numbering'
  BY <1>11, NumberingKept DEF Stop, input, position
<1>12. CASE UNCHANGED vars
  <2>1. /\ file' = file /\ pc' = pc /\ doall' = doall /\ pass' = pass /\ pin' = pin /\ linenum' = linenum
        /\ UNCHANGED <<alloc_blocks, num_logical_blocks, logical_block>>
    BY <1>12 DEF vars, input, position
  <2>2. \A o : Added(o)' = Added(o)
    BY <2>1, FileUnchanged DEF Added, PinNumber, LoadsQFirst, TheLine
  <2>3. AddedPads' = AddedPads /\ BegunLines' = BegunLines
    BY <2>1, <2>2, ReferenceUnchanged DEF AddedPads, BegunLines
  <2>4. QED
    BY <2>1, <2>3, ReferenceUnchanged DEF Numbering
<1>13. QED
  BY <1>2, <1>3, <1>4, <1>5, <1>7, <1>8, <1>9, <1>10, <1>11, <1>12
     DEF Next, BadLine, BadPin, CheckFails, EndActivity, Stopped

\* The blocks are numbered by their pads and lines in every state of the reader.
LEMMA BlocksNumbered == Spec => []Numbering
<1>1. Init => Numbering
  <2>. SUFFICES ASSUME Init PROVE Numbering
    OBVIOUS
  <2>1. TypeOK
    BY InitType
  <2>2. /\ pc = "line" /\ doall = 0 /\ logical_block = <<>> /\ num_logical_blocks = 0
        /\ pass = 0 /\ linenum = 1
    BY DEF Init
  <2>3. AddedPads = {}
    <3>1. ASSUME NEW o \in PadPins PROVE ~ Added(o)
      <4>1. PassOf(o[1]) \in 1 .. 3
        BY <2>1, OccurrenceType DEF PadPins
      <4>2. QED
        BY <2>2, <4>1 DEF Added
    <3>2. QED
      BY <3>1 DEF AddedPads
  <2>4. BegunLines = {}
    BY <2>2 DEF BegunLines
  <2>5. QED
    BY <2>2, <2>3, <2>4, FS_EmptySet DEF Numbering
<1>2. PinListsInv /\ PinListsInv' /\ Numbering /\ [Next]_vars => Numbering'
  BY NumberingNext
<1>3. QED
  BY <1>1, <1>2, PinListsCorrect, PTL DEF Spec

\* The array of blocks is sized by the counting passes, filled by the loading passes, and
\* never written beyond its end, whatever the file says.
THEOREM BlocksSafe == Spec => []BlocksInBounds
<1>1. PinListsInv /\ Numbering => BlocksInBounds
  <2>. SUFFICES ASSUME PinListsInv, Numbering PROVE BlocksInBounds
    OBVIOUS
  <2>1. doall = 1 => num_logical_blocks <= alloc_blocks /\ Len(logical_block) = num_logical_blocks
    BY DEF Numbering
  <2>2. pc = "check" => num_logical_blocks = alloc_blocks
    BY DEF Numbering, PinListsInv, Loading
  <2>3. QED
    BY <2>1, <2>2 DEF BlocksInBounds
<1>2. QED
  BY <1>1, BlocksNumbered, PinListsCorrect, PTL

-----------------------------------------------------------------------------
(* The pins are placed *)

\* Where a pin belongs depends on nothing but the file.
LEMMA PlaceUnchanged ==
  ASSUME file' = file
  PROVE  /\ \A o : Place(o)' = Place(o) /\ PinAt(o)' = PinAt(o)
         /\ \A S : Latest(S)' = Latest(S)
         /\ \A n : SinksOf(n)' = SinksOf(n) /\ DriversOf(n)' = DriversOf(n)
<1>1. \A o, p : NotAfter(o, p)' = NotAfter(o, p)
  BY FileUnchanged DEF NotAfter
<1>2. \A o : PinAt(o)' = PinAt(o)
  BY DEF PinAt
<1>3. \A S : Latest(S)' = Latest(S)
  BY <1>1 DEF Latest
<1>4. \A n : SinksOf(n)' = SinksOf(n)
  BY <1>2, FileUnchanged DEF SinksOf
<1>5. \A n : DriversOf(n)' = DriversOf(n)
  BY <1>4, FileUnchanged DEF DriversOf
<1>6. \A o : Place(o)' = Place(o)
  <2>1. \A l : BlockOfLine(l)' = BlockOfLine(l)
    BY FileUnchanged, ReferenceUnchanged DEF BlockOfLine
  <2>2. \A o : {p \in PadPins : NotAfter(p, o)}' = {p \in PadPins : NotAfter(p, o)}
    BY <1>1, ReferenceUnchanged
  <2>3. QED
    BY <1>2, <2>1, <2>2, FileUnchanged DEF Place
<1>7. QED
  BY <1>2, <1>3, <1>4, <1>5, <1>6

\* The block of a line is the last one begun when its pins are added.
LEMMA BlockOfBegun ==
  ASSUME TypeOK, NEW l \in DOMAIN file
  PROVE  BlockOfLine(l) = Cardinality(PadPins) + Cardinality({m \in BlockLines : m <= l})
<1>1. DOMAIN file = 1 .. Len(file) /\ Len(file) \in Nat
  BY DEF TypeOK, PositionTypeOK, WellTyped
<1>2. {m \in 1 .. l : BlockLine(m)} = {m \in BlockLines : m <= l}
  BY <1>1 DEF BlockLines
<1>3. QED
  BY <1>2 DEF BlockOfLine

\* Of the pins of the same role, those added before the pin come before it.
LEMMA AddedBefore ==
  ASSUME PinListsInv, AddPin, NEW p \in Occurrences, Added(p),
         IsPad \/ PinAt(p).role = PinAt(TheOccurrence).role
  PROVE  NotAfter(p, TheOccurrence)
<1>1. /\ pc = "pins" /\ linenum \in DOMAIN file /\ pin \in Nat /\ pass \in Nat /\ TypeOK
      /\ linenum \in Nat
  BY DEF AddPin, PinListsInv, TypeOK, PositionTypeOK, WellTyped
<1>2. TheOccurrence[1] = linenum /\ TheOccurrence[2] = PinNumber(pin + 1) /\ PassOf(linenum) = pass
  BY <1>1 DEF TheOccurrence, PinListsInv, Tracks
<1>3. /\ p[1] \in Nat /\ p[2] \in Nat \ {0} /\ p[2] \in DOMAIN file[p[1]].pins
      /\ PassOf(p[1]) \in Nat
  BY <1>1, OccurrenceType
<1>4. CASE p[1] # linenum \/ PassOf(p[1]) < pass
  BY <1>1, <1>2, <1>3, <1>4 DEF Added, NotAfter
<1>5. CASE p[1] = linenum
  <2>1. PinNumber(p[2]) <= pin
    BY <1>1, <1>2, <1>5 DEF Added
  <2>2. CASE LoadsQFirst
    <3>1. TheLine.kind = "latch" /\ ~ IsPad
      BY <2>2 DEF LoadsQFirst, IsPad
    <3>2. /\ p[2] \in {1, 2, 3} /\ TheOccurrence[2] \in {1, 2, 3}
          /\ DOMAIN TheLine.pins = {1, 2, 3}
      BY <1>1, <1>2, <1>3, <1>5, <3>1, LineType, ThePinType DEF TheLine
    <3>3. \A k \in {1, 2, 3} : TheLine.pins[k].role = <<"in", "out", "clk">>[k]
      BY <1>1, <3>1, <3>2 DEF TheLine, TypeOK, PositionTypeOK, WellTyped
    <3>4. p[2] = TheOccurrence[2]
      BY <1>2, <1>5, <3>1, <3>2, <3>3 DEF PinAt, TheLine
    <3>5. QED
      BY <1>2, <1>3, <1>5, <3>4 DEF NotAfter
  <2>3. CASE ~ LoadsQFirst
    BY <1>1, <1>2, <1>3, <1>5, <2>1, <2>3 DEF PinNumber, NotAfter
  <2>4. QED
    BY <2>2, <2>3
<1>6. QED
  BY <1>4, <1>5

\* A pin is not after those that are not added yet.
LEMMA NotAddedAfter ==
  ASSUME PinListsInv, AddPin, IsPad, NEW p \in Occurrences, ~ Added(p), NotAfter(p, TheOccurrence)
  PROVE  p = TheOccurrence
<1>1. /\ pc = "pins" /\ linenum \in DOMAIN file /\ pin \in Nat /\ pass \in Nat /\ TypeOK
      /\ linenum \in Nat
  BY DEF AddPin, PinListsInv, TypeOK, PositionTypeOK, WellTyped
<1>2. ~ LoadsQFirst
  BY DEF IsPad, LoadsQFirst
<1>3. /\ TheOccurrence = <<linenum, pin + 1>> /\ TheOccurrence[1] = linenum
      /\ TheOccurrence[2] = pin + 1 /\ PassOf(linenum) = pass
  BY <1>1, <1>2 DEF TheOccurrence, PinListsInv, Tracks, PinNumber
<1>4. /\ p[1] \in Nat /\ p[2] \in Nat /\ p = <<p[1], p[2]>> /\ PassOf(p[1]) \in Nat
      /\ PinNumber(p[2]) = p[2]
  BY <1>1, <1>2, OccurrenceType DEF PinNumber
<1>5. p[1] = linenum /\ p[2] = pin + 1
  BY <1>1, <1>3, <1>4 DEF Added, NotAfter
<1>6. QED
  BY <1>3, <1>4, <1>5

\* The pin is written on the block and the slot where the file has it.
LEMMA EntryIsPlace ==
  ASSUME PinListsInv, Numbering, AddPin
  PROVE  PinEntry(ThePin) = Place(TheOccurrence)
<1>1. /\ TypeOK /\ pc = "pins" /\ linenum \in DOMAIN file /\ TheOccurrence[1] = linenum
      /\ num_logical_blocks = Cardinality(AddedPads) + Cardinality(BegunLines)
  BY DEF AddPin, PinListsInv, TypeOK, PositionTypeOK, TheOccurrence, Numbering
<1>2. TheOccurrence \in Occurrences /\ ~ Added(TheOccurrence) /\ PinAt(TheOccurrence) = ThePin
  BY PinAddedNow
<1>3. CASE IsPad
  <2>1. {p \in PadPins : NotAfter(p, TheOccurrence)} = AddedPads \cup {TheOccurrence}
    <3>1. ASSUME NEW p \in PadPins PROVE Added(p) => NotAfter(p, TheOccurrence)
      BY <1>3, AddedBefore DEF PadPins
    <3>2. ASSUME NEW p \in PadPins, NotAfter(p, TheOccurrence) PROVE Added(p) \/ p = TheOccurrence
      BY <1>3, <3>2, NotAddedAfter DEF PadPins
    <3>3. NotAfter(TheOccurrence, TheOccurrence)
      <4>1. TheOccurrence[1] \in Nat /\ TheOccurrence[2] \in Nat
        BY <1>1, <1>2, OccurrenceType
      <4>2. QED
        BY <4>1 DEF NotAfter
    <3>4. TheOccurrence \in PadPins
      BY <1>3, AddBegins
    <3>5. QED
      BY <3>1, <3>2, <3>3, <3>4 DEF AddedPads
  <2>2. Cardinality(AddedPads \cup {TheOccurrence}) = Cardinality(AddedPads) + 1
    BY <1>1, <1>3, AddBegins, BlocksSoFar, FS_AddElement
  <2>3. PinBlock = Cardinality(AddedPads) + 1 /\ PadLine(linenum)
    BY <1>1, <1>3, AddBegins, BlocksSoFar, FS_EmptySet DEF PinBlock
  <2>4. QED
    BY <1>1, <1>2, <2>1, <2>2, <2>3 DEF PinEntry, Place
<1>4. CASE ~ IsPad
  <2>1. PinBlock = Cardinality(PadPins) + Cardinality({l \in BlockLines : l <= linenum})
    BY <1>1, <1>4, AddBegins DEF PinBlock
  <2>2. PinBlock = BlockOfLine(linenum) /\ ~ PadLine(linenum)
    BY <1>1, <1>4, <2>1, AddBegins, BlockOfBegun, PassOfLine
  <2>3. QED
    BY <1>1, <1>2, <2>2 DEF PinEntry, Place
<1>5. QED
  BY <1>3, <1>4

\* The last of some pins is the one that none of them is after.
LEMMA LatestIs ==
  ASSUME TypeOK, NEW S, S \subseteq Occurrences, NEW o \in S, \A p \in S : NotAfter(p, o)
  PROVE  Latest(S) = o
<1>1. Latest(S) \in S /\ \A p \in S : NotAfter(p, Latest(S))
  BY DEF Latest
<1>2. NotAfter(o, Latest(S)) /\ NotAfter(Latest(S), o)
  BY <1>1
<1>. DEFINE q == Latest(S)
<1>3. /\ o = <<o[1], o[2]>> /\ o[1] \in Nat /\ o[2] \in Nat /\ PassOf(o[1]) \in Nat
      /\ q = <<q[1], q[2]>> /\ q[1] \in Nat /\ q[2] \in Nat /\ PassOf(q[1]) \in Nat
  BY <1>1, OccurrenceType
<1>. HIDE DEF q
<1>4. NotAfter(o, q) /\ NotAfter(q, o)
  BY <1>2 DEF q
<1>5. q[1] = o[1] /\ q[2] = o[2]
  BY <1>3, <1>4 DEF NotAfter
<1>6. q = o
  BY <1>3, <1>5
<1>7. QED
  BY <1>6 DEF q

\* The pins of a net are finitely many, and so are those added, of either role.
LEMMA FiniteAdded ==
  ASSUME TypeOK, NEW n
  PROVE  /\ AddedDrivers(n) \subseteq AddedPins(n) /\ AddedSinks(n) \subseteq AddedPins(n)
         /\ AddedPins(n) \subseteq PinsOf(n) /\ PinsOf(n) \subseteq Occurrences
         /\ IsFiniteSet(AddedDrivers(n)) /\ IsFiniteSet(AddedSinks(n))
         /\ \A e : IsFiniteSet(SinksAt(n, e))
<1>1. /\ AddedDrivers(n) \subseteq AddedPins(n) /\ AddedSinks(n) \subseteq AddedPins(n)
      /\ AddedPins(n) \subseteq PinsOf(n) /\ PinsOf(n) \subseteq Occurrences
  BY DEF AddedDrivers, AddedSinks, AddedPins, PinsOf
<1>2. IsFiniteSet(AddedDrivers(n)) /\ IsFiniteSet(AddedSinks(n))
  BY <1>1, FinitePins, FS_Subset
<1>3. ASSUME NEW e PROVE IsFiniteSet(SinksAt(n, e))
  BY <1>2, FS_Subset DEF SinksAt
<1>4. QED
  BY <1>1, <1>2, <1>3

\* A net that the step does not touch stays placed.
LEMMA NetPlacedKept ==
  ASSUME NEW n \in Nets, PlacedNet(n), file' = file, AddedPins(n)' = AddedPins(n),
         num_driver'[n] = num_driver[n], num_sinks'[n] = num_sinks[n],
         node_block'[n] = node_block[n]
  PROVE  PlacedNet(n)'
<1>1. AddedDrivers(n)' = AddedDrivers(n) /\ AddedSinks(n)' = AddedSinks(n)
  BY PlaceUnchanged DEF AddedDrivers, AddedSinks
<1>2. \A e : SinksAt(n, e)' = SinksAt(n, e) /\ EntriesAt(n, e)' = EntriesAt(n, e)
  BY <1>1, PlaceUnchanged DEF SinksAt, EntriesAt
<1>3. SinksOf(n)' = SinksOf(n) /\ Driver(n)' = Driver(n) /\ Latest(AddedDrivers(n))' = Latest(AddedDrivers(n))
  BY <1>1, PlaceUnchanged DEF Driver
<1>4. \A o : Place(o)' = Place(o)
  BY PlaceUnchanged
<1>5. Place(Latest(AddedDrivers(n)))' = Place(Latest(AddedDrivers(n)))
  BY <1>1, <1>3, <1>4 DEF Latest
<1>6. QED
  BY <1>1, <1>2, <1>3, <1>4, <1>5 DEF PlacedNet

\* The net of the pin that is loaded is placed with that pin.
LEMMA NetPlacedNow ==
  ASSUME PinListsInv, Numbering, AddPin, doall = 1, NEW n \in Nets, PlacedNet(n), ThePin.net = n
  PROVE  PlacedNet(n)'
<1>. DEFINE t == TheOccurrence
            j == PinIndex(ThePin)
<1>1. /\ TypeOK /\ file' = file /\ LoadNet(ThePin) /\ num_sinks[n] \in Nat /\ num_driver[n] \in Nat
      /\ num_driver \in [Nets -> Nat] /\ num_sinks \in [Nets -> Nat] /\ DOMAIN node_block = Nets
      /\ DOMAIN node_block[n] = 1 .. num_sinks[n] \cup (IF num_driver[n] > 0 THEN {0} ELSE {})
  BY DEF AddPin, input, PinListsInv, TypeOK, NetsTypeOK, Lists
<1>2. /\ t \in PinsOf(n) /\ t \notin AddedPins(n) /\ AddedPins(n)' = AddedPins(n) \cup {t}
      /\ PinAt(t) = ThePin /\ t \in Occurrences
  BY PinAdded, PinAddedNow
<1>3. /\ node_block'[n] = [i \in DOMAIN node_block[n] \cup {j} |->
                             IF i = j THEN Place(t) ELSE node_block[n][i]]
  BY <1>1, EntryIsPlace DEF LoadNet
<1>. HIDE DEF t
<1>4. /\ num_driver'[n] = IF ThePin.role = "out" THEN num_driver[n] + 1 ELSE num_driver[n]
      /\ num_sinks'[n] = IF ThePin.role = "out" THEN num_sinks[n] ELSE num_sinks[n] + 1
  BY <1>1 DEF LoadNet
<1>5. /\ \A o : Place(o)' = Place(o) /\ PinAt(o)' = PinAt(o)
      /\ \A S : Latest(S)' = Latest(S)
      /\ SinksOf(n)' = SinksOf(n)
  BY <1>1, PlaceUnchanged
<1>6. /\ num_driver[n] = Cardinality(AddedDrivers(n)) /\ num_sinks[n] = Cardinality(AddedSinks(n))
      /\ AddedDrivers(n) # {} => Driver(n) = Place(Latest(AddedDrivers(n)))
      /\ \A o \in SinksOf(n) :
           Cardinality(SinksAt(n, Place(o))) = Cardinality(EntriesAt(n, Place(o)))
  BY DEF PlacedNet
<1>7. /\ AddedDrivers(n) \subseteq PinsOf(n) /\ PinsOf(n) \subseteq Occurrences
      /\ IsFiniteSet(AddedDrivers(n)) /\ IsFiniteSet(AddedSinks(n))
      /\ \A e : IsFiniteSet(SinksAt(n, e))
      /\ t \notin AddedDrivers(n) /\ t \notin AddedSinks(n) /\ \A e : t \notin SinksAt(n, e)
  BY <1>1, <1>2, FiniteAdded DEF SinksAt
<1>8. CASE ThePin.role = "out"
  <2>1. AddedDrivers(n)' = AddedDrivers(n) \cup {t} /\ AddedSinks(n)' = AddedSinks(n)
    BY <1>2, <1>5, <1>8 DEF AddedDrivers, AddedSinks
  <2>2. num_driver'[n] = Cardinality(AddedDrivers(n)')
    <3>1. IsFiniteSet(AddedDrivers(n)) /\ t \notin AddedDrivers(n)
      BY <1>7
    <3>2. Cardinality(AddedDrivers(n) \cup {t}) = Cardinality(AddedDrivers(n)) + 1
      BY <3>1, FS_AddElement
    <3>3. QED
      BY <1>4, <1>6, <1>8, <2>1, <3>2
  <2>3. num_sinks'[n] = Cardinality(AddedSinks(n)')
    BY <1>4, <1>6, <1>8, <2>1
  <2>4. Driver(n)' = Place(t)
    BY <1>3, <1>8 DEF Driver, PinIndex
  <2>5. Latest(AddedDrivers(n)') = t
    <3>1. \A p \in AddedDrivers(n) : p \in Occurrences /\ Added(p) /\ PinAt(p).role = PinAt(t).role
      BY <1>2, <1>7, <1>8 DEF AddedDrivers, AddedPins
    <3>2. \A p \in AddedDrivers(n) : NotAfter(p, t)
      BY <3>1, AddedBefore DEF t
    <3>3. NotAfter(t, t)
      BY <1>1, <1>2, OccurrenceType DEF NotAfter
    <3>4. AddedDrivers(n)' \subseteq Occurrences /\ t \in AddedDrivers(n)'
          /\ \A p \in AddedDrivers(n)' : NotAfter(p, t)
      BY <1>2, <1>7, <2>1, <3>2, <3>3
    <3>5. QED
      BY <1>1, <3>4, LatestIs
  <2>6. Driver(n)' = Place(Latest(AddedDrivers(n)))'
    <3>1. Latest(AddedDrivers(n))' = t
      BY <1>5, <2>5
    <3>2. QED
      BY <1>5, <2>4, <3>1
  <2>7. \A e : SinksAt(n, e)' = SinksAt(n, e)
    BY <1>5, <2>1 DEF SinksAt
  <2>8. \A e : EntriesAt(n, e)' = EntriesAt(n, e)
    <3>1. num_sinks'[n] = num_sinks[n] /\ j = 0
      BY <1>4, <1>8 DEF PinIndex
    <3>. HIDE DEF j
    <3>2. \A i \in 1 .. num_sinks[n] : node_block'[n][i] = node_block[n][i]
      BY <1>1, <1>3, <3>1
    <3>3. QED
      BY <3>1, <3>2 DEF EntriesAt
  <2>9. QED
    BY <1>5, <1>6, <2>2, <2>3, <2>6, <2>7, <2>8 DEF PlacedNet
<1>9. CASE ThePin.role # "out"
  <2>1. AddedDrivers(n)' = AddedDrivers(n) /\ AddedSinks(n)' = AddedSinks(n) \cup {t}
    BY <1>2, <1>5, <1>9 DEF AddedDrivers, AddedSinks
  <2>2. num_driver'[n] = Cardinality(AddedDrivers(n)')
    BY <1>4, <1>6, <1>9, <2>1
  <2>3. num_sinks'[n] = Cardinality(AddedSinks(n)') /\ num_sinks'[n] = num_sinks[n] + 1
    <3>1. IsFiniteSet(AddedSinks(n)) /\ t \notin AddedSinks(n)
      BY <1>7
    <3>2. Cardinality(AddedSinks(n) \cup {t}) = Cardinality(AddedSinks(n)) + 1
      BY <3>1, FS_AddElement
    <3>3. QED
      BY <1>4, <1>6, <1>9, <2>1, <3>2
  <2>4. j = num_sinks[n] + 1
    BY <1>9 DEF PinIndex
  <2>. HIDE DEF j
  <2>5. /\ \A i \in 1 .. num_sinks[n] : node_block'[n][i] = node_block[n][i]
        /\ node_block'[n][num_sinks[n] + 1] = Place(t)
    BY <1>1, <1>3, <2>4
  <2>6. AddedDrivers(n)' # {} => Driver(n)' = Place(Latest(AddedDrivers(n)))'
    <3>. SUFFICES ASSUME AddedDrivers(n) # {} PROVE Driver(n)' = Place(Latest(AddedDrivers(n)))'
      BY <2>1
    <3>1. 0 \in DOMAIN node_block[n]
      BY <1>1, <1>6, <1>7, FS_EmptySet, FS_CardinalityType
    <3>2. Driver(n)' = Driver(n)
      BY <1>1, <1>3, <2>4, <3>1 DEF Driver
    <3>3. Latest(AddedDrivers(n))' = Latest(AddedDrivers(n))
      BY <1>5, <2>1
    <3>4. QED
      BY <1>5, <1>6, <3>2, <3>3
  <2>7. ASSUME NEW e
        PROVE  Cardinality(SinksAt(n, e)) = Cardinality(EntriesAt(n, e))
                 => Cardinality(SinksAt(n, e)') = Cardinality(EntriesAt(n, e)')
    <3>1. IsFiniteSet(EntriesAt(n, e)) /\ num_sinks[n] + 1 \notin EntriesAt(n, e)
      <4>1. EntriesAt(n, e) \subseteq 1 .. num_sinks[n]
        BY DEF EntriesAt
      <4>2. IsFiniteSet(1 .. num_sinks[n])
        BY <1>1, FS_Interval
      <4>3. QED
        BY <1>1, <4>1, <4>2, FS_Subset
    <3>2. CASE Place(t) = e
      <4>1. SinksAt(n, e)' = SinksAt(n, e) \cup {t}
        BY <1>5, <2>1, <3>2 DEF SinksAt
      <4>2. EntriesAt(n, e)' = EntriesAt(n, e) \cup {num_sinks[n] + 1}
        BY <1>1, <2>3, <2>5, <3>2 DEF EntriesAt
      <4>3. IsFiniteSet(SinksAt(n, e)) /\ t \notin SinksAt(n, e)
        BY <1>7
      <4>4. Cardinality(SinksAt(n, e) \cup {t}) = Cardinality(SinksAt(n, e)) + 1
        BY <4>3, FS_AddElement
      <4>5. Cardinality(EntriesAt(n, e) \cup {num_sinks[n] + 1}) = Cardinality(EntriesAt(n, e)) + 1
        BY <3>1, FS_AddElement
      <4>6. QED
        BY <4>1, <4>2, <4>4, <4>5
    <3>3. CASE Place(t) # e
      <4>1. SinksAt(n, e)' = SinksAt(n, e)
        BY <1>5, <2>1, <3>3 DEF SinksAt
      <4>2. EntriesAt(n, e)' = EntriesAt(n, e)
        BY <1>1, <2>3, <2>5, <3>3 DEF EntriesAt
      <4>3. QED
        BY <4>1, <4>2
    <3>4. QED
      BY <3>2, <3>3
  <2>8. QED
    BY <1>5, <1>6, <2>2, <2>3, <2>6, <2>7 DEF PlacedNet
<1>10. QED
  BY <1>8, <1>9

\* Every step of the reader keeps the pins placed.
LEMMA PlacingNext ==
  ASSUME PinListsInv, PinListsInv', Numbering, Placing, [Next]_vars
  PROVE  Placing'
<1>1. TypeOK /\ TypeOK' /\ doall \in {0, 1}
  BY DEF PinListsInv, TypeOK, PositionTypeOK
<1>2. ASSUME file' = file, doall' = doall, UNCHANGED <<num_driver, num_sinks, node_block>>,
             pc \in {"line", "pins"}, pc' \in {"line", "pins"},
             \A o \in Occurrences : Added(o)' = Added(o)
      PROVE  Placing'
  <2>1. \A n \in Nets : AddedPins(n)' = AddedPins(n)
    BY <1>2, AddedPinsKept
  <2>2. doall = 1 => \A n \in Nets : PlacedNet(n)'
    BY <1>2, <2>1, NetPlacedKept DEF Placing
  <2>3. QED
    BY <1>2, <2>2 DEF Placing, LoadedNetlistIsFile
<1>3. CASE DumParse \/ ModelLine \/ TruthTableRow \/ IgnoreLut
  <2>1. /\ pc = "line" /\ pc' = "line" /\ linenum \in DOMAIN file /\ NextLine /\ file' = file
        /\ ~ ((BlockLine(linenum) \/ PadLine(linenum)) /\ PassOf(linenum) = pass)
        /\ doall' = doall /\ UNCHANGED <<num_driver, num_sinks, node_block>>
    <3>1. pc = "line" /\ linenum \in DOMAIN file /\ NextLine /\ file' = file /\ UNCHANGED nets
          /\ ~ ((BlockLine(linenum) \/ PadLine(linenum)) /\ PassOf(linenum) = pass)
      BY <1>3, SkippedLine
    <3>2. QED
      BY <3>1 DEF NextLine, nets
  <2>2. \A o \in Occurrences : Added(o)' = Added(o)
    BY <1>1, <2>1, LineAddsNone
  <2>3. QED
    BY <1>2, <2>1, <2>2
<1>4. CASE IoLine \/ AddLut \/ AddLatch \/ AddSubckt
  <2>1. PICK newBlock : StartPins(newBlock) /\ pc = "line" /\ linenum \in DOMAIN file
    BY <1>4, StartedLine
  <2>2. \A o \in Occurrences : Added(o)' = Added(o)
    BY <2>1, StartAddsNone
  <2>3. /\ file' = file /\ doall' = doall /\ pc' \in {"line", "pins"}
        /\ UNCHANGED <<num_driver, num_sinks, node_block>>
    BY <2>1 DEF StartPins, NextLine, input, nets
  <2>4. QED
    BY <1>2, <2>1, <2>2, <2>3
<1>5. CASE AddPin
  <2>1. pc = "pins" /\ pc' \in {"line", "pins"} /\ file' = file /\ doall' = doall
    BY <1>5 DEF AddPin, input
  <2>2. ASSUME doall = 1, NEW n \in Nets PROVE PlacedNet(n)'
    <3>1. PlacedNet(n)
      BY <2>1, <2>2 DEF Placing
    <3>2. CASE ThePin.net = n
      BY <1>5, <2>2, <3>1, <3>2, NetPlacedNow
    <3>3. CASE ThePin.net # n
      <4>1. AddedPins(n)' = AddedPins(n)
        BY <1>5, <3>3, PinAdded
      <4>2. LoadNet(ThePin)
        BY <1>5, <2>2 DEF AddPin
      <4>3. num_driver'[n] = num_driver[n] /\ num_sinks'[n] = num_sinks[n]
            /\ node_block'[n] = node_block[n]
        BY <1>1, <3>3, <4>2 DEF LoadNet, nets, TypeOK, NetsTypeOK
      <4>4. QED
        BY <2>1, <3>1, <4>1, <4>3, NetPlacedKept
    <3>4. QED
      BY <3>2, <3>3
  <2>3. QED
    BY <1>1, <2>1, <2>2 DEF Placing, LoadedNetlistIsFile
<1>6. CASE EndPass
  <2>1. /\ file' = file /\ doall' = doall /\ pc = "line" /\ pc' = "line" /\ pass' = pass + 1
        /\ Rewind /\ AtEnd /\ pass \in 0 .. 3
        /\ UNCHANGED <<num_driver, num_sinks, node_block>>
    BY <1>1, <1>6 DEF EndPass, Rewind, AtEnd, input, nets, TypeOK, PositionTypeOK
  <2>2. ASSUME NEW o \in Occurrences PROVE Added(o)' <=> Added(o)
    <3>1. (Added(o) <=> PassOf(o[1]) <= pass) /\ (Added(o)' <=> PassOf(o[1]) < pass + 1)
      BY <1>1, <2>1, EndOfPass, BeginOfPass
    <3>2. PassOf(o[1]) \in Int
      BY <1>1, OccurrenceType
    <3>3. QED
      BY <2>1, <3>1, <3>2
  <2>3. \A n \in Nets : AddedPins(n)' = AddedPins(n)
    <3>1. \A n : PinsOf(n)' = PinsOf(n) /\ PinsOf(n) \subseteq Occurrences
      BY <2>1, FileUnchanged DEF PinsOf
    <3>2. QED
      BY <2>2, <3>1 DEF AddedPins
  <2>4. doall = 1 => \A n \in Nets : PlacedNet(n)'
    BY <2>1, <2>3, NetPlacedKept DEF Placing
  <2>5. QED
    BY <2>1, <2>4 DEF Placing, LoadedNetlistIsFile
<1>7. CASE EndCounting
  <2>1. /\ file' = file /\ doall = 0 /\ pc = "line" /\ pc' = "line" /\ pass' = 0
        /\ Rewind /\ UNCHANGED <<num_driver, num_sinks, node_block>>
    BY <1>7 DEF EndCounting, Rewind, AtEnd, input, nets
  <2>2. ASSUME NEW o \in Occurrences PROVE ~ Added(o)'
    <3>1. Added(o)' <=> PassOf(o[1]) < 0
      BY <1>1, <2>1, BeginOfPass
    <3>2. PassOf(o[1]) \in 1 .. 3
      BY <1>1, OccurrenceType
    <3>3. QED
      BY <3>1, <3>2
  <2>3. ASSUME NEW n \in Nets PROVE PlacedNet(n)'
    <3>1. AddedPins(n)' = {}
      <4>1. PinsOf(n)' \subseteq Occurrences
        BY <2>1, FileUnchanged DEF PinsOf
      <4>2. QED
        BY <2>2, <4>1 DEF AddedPins
    <3>2. AddedDrivers(n)' = {} /\ AddedSinks(n)' = {} /\ \A e : SinksAt(n, e)' = {}
      BY <3>1 DEF AddedDrivers, AddedSinks, SinksAt
    <3>3. num_driver'[n] = 0 /\ num_sinks'[n] = 0
      BY <2>1 DEF PinListsInv, Counting
    <3>4. \A e : EntriesAt(n, e)' = {}
      BY <3>3 DEF EntriesAt
    <3>5. QED
      BY <3>2, <3>3, <3>4, FS_EmptySet DEF PlacedNet
  <2>4. QED
    BY <2>1, <2>3 DEF Placing, LoadedNetlistIsFile
<1>8. CASE EndLoading
  <2>1. /\ file' = file /\ doall' = doall /\ pc = "line" /\ pc' = "check" /\ pass = 4 /\ doall = 1
        /\ AtEnd /\ UNCHANGED <<hash, num_driver, num_sinks, node_block>>
    BY <1>8 DEF EndLoading, AtEnd, input, position, nets
  <2>2. ASSUME NEW o \in Occurrences PROVE Added(o)
    <3>1. Added(o) <=> PassOf(o[1]) <= 4
      BY <1>1, <2>1, EndOfPass
    <3>2. PassOf(o[1]) \in 1 .. 3
      BY <1>1, OccurrenceType
    <3>3. QED
      BY <3>1, <3>2
  <2>3. ASSUME NEW n \in Nets
        PROVE  /\ hash[n] = Cardinality(PinsOf(n))
               /\ num_driver[n] = Cardinality(DriversOf(n)) /\ num_sinks[n] = Cardinality(SinksOf(n))
               /\ DriversOf(n) # {} => Driver(n) = Place(Latest(DriversOf(n)))
               /\ \A o \in SinksOf(n) :
                    Cardinality({p \in SinksOf(n) : Place(p) = Place(o)})
                      = Cardinality({j \in 1 .. num_sinks[n] : node_block[n][j] = Place(o)})
    <3>1. AddedPins(n) = PinsOf(n)
      BY <2>2 DEF AddedPins, PinsOf
    <3>2. AddedDrivers(n) = DriversOf(n) /\ AddedSinks(n) = SinksOf(n)
      BY <3>1 DEF AddedDrivers, AddedSinks, DriversOf, SinksOf
    <3>3. hash[n] = Cardinality(PinsOf(n))
      BY <2>1 DEF PinListsInv, Loading
    <3>4. PlacedNet(n)
      BY <2>1 DEF Placing
    <3>5. QED
      BY <3>2, <3>3, <3>4 DEF PlacedNet, SinksAt, EntriesAt
  <2>4. LoadedNetlistIsFile'
    <3>1. /\ \A o : Place(o)' = Place(o)
          /\ \A S : Latest(S)' = Latest(S)
          /\ \A n : SinksOf(n)' = SinksOf(n) /\ DriversOf(n)' = DriversOf(n) /\ PinsOf(n)' = PinsOf(n)
          /\ \A n : Driver(n)' = Driver(n)
      BY <2>1, PlaceUnchanged, FileUnchanged DEF Driver
    <3>2. QED
      BY <2>1, <2>3, <3>1 DEF LoadedNetlistIsFile
  <2>5. QED
    BY <2>1, <2>4 DEF Placing
<1>9. CASE CheckNet \/ AddActivity
  <2>1. pc' = "activity"
    BY <1>9 DEF CheckNet, AddActivity
  <2>2. QED
    BY <2>1 DEF Placing, LoadedNetlistIsFile
<1>10. ASSUME NEW how \in Final, Stop(how) PROVE Placing'
  BY <1>10 DEF Stop, Placing, LoadedNetlistIsFile
<1>11. CASE UNCHANGED vars
  <2>1. /\ file' = file /\ pc' = pc /\ doall' = doall /\ pass' = pass /\ pin' = pin /\ linenum' = linenum
        /\ UNCHANGED <<hash, num_driver, num_sinks, node_block>>
    BY <1>11 DEF vars, input, position, nets
  <2>2. \A o : Added(o)' = Added(o)
    BY <2>1, FileUnchanged DEF Added, PinNumber, LoadsQFirst, TheLine
  <2>3. \A n : AddedPins(n)' = AddedPins(n)
    BY <2>1, <2>2, FileUnchanged DEF AddedPins
  <2>4. pc \in {"line", "pins"} /\ doall = 1 => \A n \in Nets : PlacedNet(n)'
    BY <2>1, <2>3, NetPlacedKept DEF Placing
  <2>5. LoadedNetlistIsFile'
    <3>1. /\ \A o : Place(o)' = Place(o)
          /\ \A S : Latest(S)' = Latest(S)
          /\ \A n : SinksOf(n)' = SinksOf(n) /\ DriversOf(n)' = DriversOf(n) /\ PinsOf(n)' = PinsOf(n)
          /\ \A n : Driver(n)' = Driver(n)
      BY <2>1, PlaceUnchanged, FileUnchanged DEF Driver
    <3>2. QED
      BY <2>1, <3>1 DEF LoadedNetlistIsFile, Placing
  <2>6. QED
    BY <2>1, <2>4, <2>5 DEF Placing
<1>12. QED
  BY <1>3, <1>4, <1>5, <1>6, <1>7, <1>8, <1>9, <1>10, <1>11
     DEF Next, BadLine, BadPin, CheckFails, EndActivity, Stopped

\* The pins are placed in every state of the loading passes.
LEMMA PinsPlaced == Spec => []Placing
<1>1. Init => Placing
  BY DEF Init, Placing, LoadedNetlistIsFile
<1>2. PinListsInv /\ PinListsInv' /\ Numbering /\ Placing /\ [Next]_vars => Placing'
  BY PlacingNext
<1>3. QED
  BY <1>1, <1>2, PinListsCorrect, BlocksNumbered, PTL DEF Spec

\* After the ten passes the pin lists are those of the file: every pin of every net is
\* counted once and loaded once, on the block and the slot the file puts it on, and the
\* driver entry is the last driver the file names.
THEOREM LoadedIsFile == Spec => []LoadedNetlistIsFile
<1>1. Placing => LoadedNetlistIsFile
  BY DEF Placing
<1>2. QED
  BY <1>1, PinsPlaced, PTL

-----------------------------------------------------------------------------
(* The rows are kept *)

\* A line that has begun has a block, the last one when its pins are being added.
LEMMA BegunBlock ==
  ASSUME PinListsInv, Numbering, pc \in {"line", "pins"}, NEW l \in BegunLines
  PROVE  /\ l \in DOMAIN file /\ l \in Nat /\ BlockLine(l) /\ pass \in {3, 4}
         /\ pass = 3 /\ pc = "line" => l < linenum
         /\ pass = 3 /\ pc = "pins" => l <= linenum
         /\ BlockOfLine(l) \in 1 .. num_logical_blocks
         /\ doall = 1 => BlockOfLine(l) \in DOMAIN logical_block
<1>1. /\ TypeOK /\ DOMAIN file = 1 .. Len(file) /\ Len(file) \in Nat /\ linenum \in Nat
      /\ pass \in 0 .. 4 /\ logical_block \in Seq(Block) /\ num_logical_blocks \in Nat
  BY DEF PinListsInv, TypeOK, PositionTypeOK, BlocksTypeOK, WellTyped
<1>2. l \in BlockLines /\ l \in DOMAIN file /\ BlockLine(l) /\ l \in Nat /\ pass \in {3, 4}
  BY <1>1 DEF BegunLines, BlockLines
<1>3. /\ pass = 3 /\ pc = "line" => l < linenum
      /\ pass = 3 /\ pc = "pins" => l <= linenum
  BY <1>1, <1>2 DEF BegunLines
<1>. DEFINE M == {m \in BlockLines : m <= l}
<1>4. M \subseteq BegunLines
  BY <1>1, <1>2 DEF BegunLines, BlockLines
<1>5. AddedPads = PadPins
  <2>1. ASSUME NEW o \in PadPins PROVE Added(o)
    <3>1. PassOf(o[1]) \in {1, 2}
      BY PassOfLine DEF PadPins
    <3>2. QED
      BY <1>2, <3>1 DEF Added
  <2>2. QED
    BY <2>1 DEF AddedPads
<1>6. BlockOfLine(l) = Cardinality(PadPins) + Cardinality(M)
  BY <1>1, <1>2, BlockOfBegun
<1>7. l \in M
  BY <1>2
<1>. HIDE DEF M
<1>8. IsFiniteSet(M) /\ Cardinality(M) <= Cardinality(BegunLines)
  BY <1>1, <1>4, BlocksSoFar, FS_Subset
<1>9. Cardinality(M) \in Nat /\ Cardinality(M) # 0
  BY <1>7, <1>8, FS_CardinalityType, FS_EmptySet
<1>10. Cardinality(PadPins) \in Nat /\ Cardinality(BegunLines) \in Nat
       /\ num_logical_blocks = Cardinality(PadPins) + Cardinality(BegunLines)
  BY <1>1, <1>5, FinitePins, BlocksSoFar DEF Numbering
<1>11. BlockOfLine(l) \in 1 .. num_logical_blocks
  BY <1>6, <1>8, <1>9, <1>10
<1>12. doall = 1 => BlockOfLine(l) \in DOMAIN logical_block
  BY <1>1, <1>11, LenProperties DEF Numbering
<1>13. QED
  BY <1>1, <1>2, <1>3, <1>11, <1>12

\* The rows of a line depend on nothing but the file, and those loaded on its block.
LEMMA RowsUnchanged ==
  ASSUME file' = file, NEW l
  PROVE  /\ RowsOf(l)' = RowsOf(l) /\ BlockOfLine(l)' = BlockOfLine(l)
         /\ \A b \in DOMAIN logical_block :
              logical_block'[b].truth_table = logical_block[b].truth_table
                => RowsLoaded(b)' = RowsLoaded(b)
<1>1. BlockOfLine(l)' = BlockOfLine(l)
  BY FileUnchanged, ReferenceUnchanged DEF BlockOfLine
<1>2. RowsOf(l)' = RowsOf(l)
  BY DEF RowsOf
<1>3. \A b : logical_block'[b].truth_table = logical_block[b].truth_table
               => RowsLoaded(b)' = RowsLoaded(b)
  BY DEF RowsLoaded
<1>4. QED
  BY <1>1, <1>2, <1>3

\* A row that a line has is a row, below it.
LEMMA RowsOfType ==
  ASSUME TypeOK, NEW l \in DOMAIN file, NEW r \in RowsOf(l)
  PROVE  /\ r \in Nat /\ l < r /\ r <= Len(file) /\ r \in DOMAIN file /\ file[r].kind = "row"
         /\ \A m \in l + 1 .. r : file[m].kind = "row"
<1>1. DOMAIN file = 1 .. Len(file) /\ Len(file) \in Nat
  BY DEF TypeOK, PositionTypeOK, WellTyped
<1>2. QED
  BY <1>1 DEF RowsOf

\* A line that is no row ends the rows of the line before it.
LEMMA NoRowPassed ==
  ASSUME PinListsInv, pass = 3, NEW l \in DOMAIN file, l < linenum, HasRows(l),
         linenum \in DOMAIN file, TheLine.kind # "row",
         file' = file, pass' = pass, pc' = "line", linenum' = linenum + 1,
         RowsLoaded(BlockOfLine(l))' = RowsLoaded(BlockOfLine(l))
  PROVE  HasRows(l)'
<1>1. TypeOK /\ linenum \in Nat /\ l \in Nat /\ RowsOf(l)' = RowsOf(l)
  BY RowsUnchanged DEF PinListsInv, TypeOK, PositionTypeOK, WellTyped
<1>2. ~ TakesRows(l)'
  BY <1>1 DEF TakesRows, TheLine
<1>3. ASSUME NEW r \in RowsOf(l), r < linenum + 1 PROVE r < linenum
  <2>1. r \in Nat /\ file[r].kind = "row"
    BY <1>1, RowsOfType
  <2>2. r # linenum
    BY <2>1 DEF TheLine
  <2>3. QED
    BY <1>1, <1>3, <2>1, <2>2
<1>4. QED
  BY <1>1, <1>2, <1>3 DEF HasRows

\* Once the pass is over, only the rows loaded matter.
LEMMA RowsAfter ==
  ASSUME NEW l, pass > 3, pass' > 3, pass' # 3, file' = file, HasRows(l),
         RowsLoaded(BlockOfLine(l)) \subseteq RowsLoaded(BlockOfLine(l))'
  PROVE  HasRows(l)'
<1>1. RowsOf(l)' = RowsOf(l)
  BY RowsUnchanged
<1>2. ~ TakesRows(l)'
  BY DEF TakesRows
<1>3. QED
  BY <1>1, <1>2 DEF HasRows

\* The row goes to the block of the last .names, and no other block loses a row.
LEMMA RowAdded ==
  ASSUME PinListsInv, Numbering, TruthTableRow, doall = 1, NEW l \in BegunLines, HasRows(l)
  PROVE  HasRows(l)'
<1>9. PICK b : b = BlockOfLine(l)
  OBVIOUS
<1>1. /\ TypeOK /\ pc = "line" /\ linenum \in DOMAIN file /\ linenum \in Nat /\ TheLine.kind = "row"
      /\ file' = file /\ pass' = pass /\ pc' = "line" /\ linenum' = linenum + 1
      /\ num_logical_blocks' = num_logical_blocks /\ add_truth_table' = add_truth_table
      /\ logical_block \in Seq(Block)
  BY DEF TruthTableRow, AtLine, NextLine, input, PinListsInv, TypeOK, PositionTypeOK, BlocksTypeOK
<1>2. /\ b \in DOMAIN logical_block /\ pass \in {3, 4} /\ (pass = 3 => l < linenum)
      /\ l \in Nat /\ l \in DOMAIN file
  BY <1>1, <1>9, BegunBlock
<1>3. RowsOf(l)' = RowsOf(l) /\ BlockOfLine(l)' = b
  BY <1>1, <1>9, RowsUnchanged
<1>4. b \in Nat
  BY <1>1, <1>2, LenProperties
<1>5. /\ RowsLoaded(b) \subseteq RowsLoaded(b)'
      /\ add_truth_table = TRUE /\ num_logical_blocks = b => linenum \in RowsLoaded(b)'
  <2>. DEFINE old == logical_block[b].truth_table
  <2>1. logical_block[b] \in Block
    BY <1>1, <1>2
  <2>5. old \in Seq(Nat)
    BY <2>1 DEF Block
  <2>2. CASE add_truth_table = TRUE /\ num_logical_blocks = b
    <3>1. logical_block'[b].truth_table = AddRow(old)
      <4>1. logical_block' = [logical_block EXCEPT ![b].truth_table = AddRow(@)]
        BY <2>2 DEF TruthTableRow
      <4>2. logical_block'[b] = [logical_block[b] EXCEPT !.truth_table = AddRow(@)]
        BY <1>2, <4>1
      <4>3. QED
        BY <2>1, <4>2 DEF Block
    <3>. HIDE DEF old
    <3>2. AddRow(old) = <<linenum>> \o old /\ Len(<<linenum>>) = 1 /\ <<linenum>> \in Seq(Nat)
      BY <1>1 DEF AddRow
    <3>3. /\ Len(AddRow(old)) = 1 + Len(old) /\ AddRow(old)[1] = linenum
          /\ \A i \in 1 .. Len(old) : AddRow(old)[i + 1] = old[i]
          /\ DOMAIN AddRow(old) = 1 .. 1 + Len(old) /\ DOMAIN old = 1 .. Len(old) /\ Len(old) \in Nat
      BY <2>5, <3>2, ConcatProperties, LenProperties
    <3>4. RowsLoaded(b)' = {AddRow(old)[i] : i \in DOMAIN AddRow(old)}
      BY <3>1 DEF RowsLoaded
    <3>5. RowsLoaded(b) = {old[i] : i \in DOMAIN old}
      BY DEF RowsLoaded, old
    <3>6. QED
      BY <3>3, <3>4, <3>5
  <2>3. CASE ~ (add_truth_table = TRUE /\ num_logical_blocks = b)
    <3>1. logical_block'[b].truth_table = logical_block[b].truth_table
      BY <1>1, <1>2, <2>3 DEF TruthTableRow, PinListsInv, TypeOK, FlagsTypeOK
    <3>2. RowsLoaded(b)' = RowsLoaded(b)
      BY <3>1 DEF RowsLoaded
    <3>3. QED
      BY <2>3, <3>2
  <2>4. QED
    BY <2>2, <2>3
<1>6. CASE pass = 4
  BY <1>1, <1>3, <1>5, <1>6, <1>9, RowsAfter
<1>7. CASE pass = 3
  <2>1. ASSUME TakesRows(l)' PROVE TakesRows(l)
    BY <1>1, <1>2, <1>7, <2>1 DEF TakesRows
  <2>2. TakesRows(l)' => add_truth_table' = TRUE /\ num_logical_blocks' = BlockOfLine(l)'
    BY <1>1, <1>3, <1>9, <2>1 DEF HasRows
  <2>3. ASSUME NEW r \in RowsOf(l), r < linenum + 1 PROVE r \in RowsLoaded(b)'
    <3>1. r \in Nat /\ \A m \in l + 1 .. r : file[m].kind = "row"
      BY <1>1, <1>2, RowsOfType
    <3>2. CASE r < linenum
      BY <1>5, <1>9, <3>2 DEF HasRows
    <3>3. CASE r = linenum
      <4>1. TakesRows(l)
        BY <1>1, <1>2, <1>7, <3>1, <3>3 DEF TakesRows
      <4>2. QED
        BY <1>5, <1>9, <3>3, <4>1 DEF HasRows
    <3>4. QED
      BY <1>1, <2>3, <3>1, <3>2, <3>3
  <2>4. RowsLoaded(BlockOfLine(l))' = RowsLoaded(b)'
    BY <1>3 DEF RowsLoaded
  <2>5. QED
    BY <1>1, <1>3, <1>7, <2>2, <2>3, <2>4 DEF HasRows
<1>8. QED
  BY <1>2, <1>6, <1>7

\* A line begins: the rows that follow a .names are for its block, those of others are read.
LEMMA RowsStarted ==
  ASSUME PinListsInv, Numbering, doall = 1, IoLine \/ AddLut \/ AddLatch \/ AddSubckt,
         \A l \in BegunLines : file[l].kind = "names" => HasRows(l),
         NEW l \in BegunLines', file[l].kind = "names"
  PROVE  HasRows(l)'
<1>1. /\ TypeOK /\ pc = "line" /\ linenum \in DOMAIN file /\ linenum \in Nat
      /\ (BlockLine(linenum) \/ PadLine(linenum)) /\ PassOf(linenum) = pass
      /\ TheLine.kind # "row" /\ (TheLine.kind = "names" => TheLine.pins # <<>>)
      /\ logical_block \in Seq(Block) /\ num_logical_blocks \in Nat
  BY StartedBlock DEF PinListsInv, TypeOK, PositionTypeOK, BlocksTypeOK
<1>2. CASE ~ BlockLine(linenum)
  <2>1. PadLine(linenum) /\ pass \in {1, 2} /\ StartPins(<<>>)
    BY <1>1, <1>2, StartedBlock, PassOfLine
  <2>2. BegunLines' = BegunLines /\ BegunLines = {}
    BY <1>1, <2>1, StartBegins DEF BegunLines
  <2>3. QED
    BY <2>2
<1>3. CASE BlockLine(linenum)
  <2>1. PICK type \in {"LUT", "LATCH", "SUBCKT"} : StartPins(<<NewBlock(type)>>)
    BY <1>1, <1>3, StartedBlock
  <2>. DEFINE new == <<NewBlock(type)>>
  <2>2. /\ file' = file /\ pass' = pass /\ num_logical_blocks' = num_logical_blocks + 1
        /\ logical_block' = logical_block \o new
        /\ add_truth_table' = (TheLine.kind = "names")
        /\ new \in Seq(Block) /\ Len(new) = 1
        /\ IF TheLine.pins = <<>> THEN pc' = "line" /\ linenum' = linenum + 1
           ELSE pc' = "pins" /\ linenum' = linenum
    BY <1>1, <2>1, NewBlockType DEF StartPins, NextLine, input, Types
  <2>. HIDE DEF new
  <2>3. pass = 3 /\ BegunLines' = BegunLines \cup {linenum} /\ linenum \notin BegunLines
    BY <1>1, <1>3, <2>1, StartBegins, PassOfLine
  <2>4. RowsOf(l)' = RowsOf(l) /\ BlockOfLine(l)' = BlockOfLine(l)
    BY <2>2, RowsUnchanged
  <2>5. CASE l = linenum
    <3>1. TheLine.pins # <<>>
      BY <1>1, <2>5 DEF TheLine
    <3>2. pc' = "pins" /\ linenum' = linenum /\ add_truth_table' = TRUE
      BY <2>2, <2>5, <3>1 DEF TheLine
    <3>3. \A r \in RowsOf(l) : ~ (r < linenum)
      BY <1>1, <2>5, RowsOfType
    <3>4. num_logical_blocks' = BlockOfLine(l)
      <4>1. {m \in BlockLines : m <= l} = BegunLines \cup {linenum}
        BY <1>1, <1>3, <2>3, <2>5 DEF BegunLines, BlockLines, WellTyped, TypeOK, PositionTypeOK
      <4>2. Cardinality(BegunLines \cup {linenum}) = Cardinality(BegunLines) + 1
        BY <1>1, <2>3, BlocksSoFar, FS_AddElement
      <4>3. AddedPads = PadPins
        BY <2>3, PassOfLine DEF AddedPads, PadPins, Added
      <4>4. num_logical_blocks = Cardinality(PadPins) + Cardinality(BegunLines)
        BY <1>1, <4>3 DEF Numbering
      <4>5. BlockOfLine(l) = Cardinality(PadPins) + (Cardinality(BegunLines) + 1)
        BY <1>1, <2>5, <4>1, <4>2, BlockOfBegun
      <4>6. Cardinality(PadPins) \in Nat /\ Cardinality(BegunLines) \in Nat
        BY <1>1, FinitePins, BlocksSoFar
      <4>7. QED
        BY <2>2, <4>4, <4>5, <4>6
    <3>5. QED
      BY <2>2, <2>3, <2>4, <3>2, <3>3, <3>4 DEF HasRows
  <2>6. CASE l # linenum
    <3>1. l \in BegunLines /\ HasRows(l)
      BY <2>3, <2>6
    <3>2. /\ BlockOfLine(l) \in 1 .. Len(logical_block) /\ l < linenum /\ l \in DOMAIN file
          /\ BlockOfLine(l) \in DOMAIN logical_block
      BY <1>1, <2>3, <3>1, BegunBlock DEF Numbering
    <3>3. logical_block'[BlockOfLine(l)] = logical_block[BlockOfLine(l)]
      BY <1>1, <2>2, <3>2, ConcatProperties
    <3>4. RowsLoaded(BlockOfLine(l))' = RowsLoaded(BlockOfLine(l))
      BY <2>4, <3>3 DEF RowsLoaded
    <3>5. CASE TheLine.pins = <<>>
      BY <1>1, <2>2, <2>3, <3>1, <3>2, <3>4, <3>5, NoRowPassed
    <3>6. CASE TheLine.pins # <<>>
      <4>1. ~ TakesRows(l)' /\ linenum' = linenum
        BY <2>2, <2>6, <3>6 DEF TakesRows
      <4>2. QED
        BY <2>2, <2>3, <2>4, <3>1, <3>4, <4>1 DEF HasRows
    <3>7. QED
      BY <3>5, <3>6
  <2>7. QED
    BY <2>5, <2>6
<1>4. QED
  BY <1>2, <1>3

\* Adding a pin changes no row, and the line it ends is the one that takes the next rows.
LEMMA RowsOfPin ==
  ASSUME PinListsInv, Numbering, doall = 1, AddPin, NEW l \in BegunLines, HasRows(l)
  PROVE  HasRows(l)'
<1>1. /\ TypeOK /\ pc = "pins" /\ linenum \in DOMAIN file /\ linenum \in Nat /\ pass \in 0 .. 4
      /\ file' = file /\ pass' = pass /\ add_truth_table' = add_truth_table
      /\ num_logical_blocks' = PinBlock
      /\ logical_block \in Seq(Block) /\ num_logical_blocks \in Nat
      /\ \/ pc' = "line" /\ linenum' = linenum + 1
         \/ pc' = "pins" /\ linenum' = linenum
  BY DEF AddPin, input, PinListsInv, TypeOK, PositionTypeOK, BlocksTypeOK
<1>2. BegunLines # {}
  OBVIOUS
<1>3. ~ IsPad /\ BlockLine(linenum) /\ pass = 3 /\ num_logical_blocks' = num_logical_blocks
  BY <1>1, <1>2, AddBegins DEF PinBlock
<1>4. /\ BlockOfLine(l) \in DOMAIN logical_block /\ l <= linenum /\ l \in DOMAIN file /\ l \in Nat
  BY <1>1, <1>3, BegunBlock
<1>5. RowsOf(l)' = RowsOf(l) /\ BlockOfLine(l)' = BlockOfLine(l)
  BY <1>1, RowsUnchanged
<1>6. logical_block'[BlockOfLine(l)].truth_table = logical_block[BlockOfLine(l)].truth_table
  <2>1. logical_block' = [logical_block EXCEPT ![PinBlock] = Connected(@, ThePin)]
    BY <1>3 DEF AddPin
  <2>2. ASSUME NEW block \in Block PROVE Connected(block, ThePin).truth_table = block.truth_table
    BY DEF Connected, Block
  <2>3. QED
    BY <1>1, <1>4, <2>1, <2>2
<1>7. RowsLoaded(BlockOfLine(l))' = RowsLoaded(BlockOfLine(l))
  BY <1>5, <1>6 DEF RowsLoaded
<1>8. file[linenum].kind # "row"
  BY <1>3 DEF BlockLine
<1>9. ASSUME TakesRows(l)' PROVE TakesRows(l)
  BY <1>1, <1>3, <1>4, <1>8, <1>9 DEF TakesRows
<1>10. ASSUME NEW r \in RowsOf(l), r < linenum' PROVE r < linenum
  <2>1. r \in Nat /\ file[r].kind = "row"
    BY <1>1, <1>4, RowsOfType
  <2>2. QED
    BY <1>1, <1>8, <1>10, <2>1
<1>11. QED
  BY <1>1, <1>3, <1>5, <1>7, <1>9, <1>10 DEF HasRows

\* Every step of the reader keeps the rows.
LEMMA RowsNext ==
  ASSUME PinListsInv, Numbering, RowsInv, [Next]_vars
  PROVE  RowsInv'
<1>1. TypeOK /\ doall \in {0, 1} /\ pass \in 0 .. 4 /\ linenum \in Nat
      /\ DOMAIN file = 1 .. Len(file) /\ Len(file) \in Nat
  BY DEF PinListsInv, TypeOK, PositionTypeOK, WellTyped
<1>2. ASSUME file' = file, doall' = doall, pc \in {"line", "pins"}, pc' \in {"line", "pins"},
             doall = 1 => \A l \in BegunLines' : file[l].kind = "names" => HasRows(l)'
      PROVE  RowsInv'
  BY <1>2 DEF RowsInv, TruthTableComplete
<1>3. CASE DumParse \/ ModelLine \/ IgnoreLut
  <2>1. /\ pc = "line" /\ pc' = "line" /\ linenum \in DOMAIN file /\ NextLine /\ file' = file
        /\ ~ ((BlockLine(linenum) \/ PadLine(linenum)) /\ PassOf(linenum) = pass)
        /\ doall' = doall /\ pass' = pass /\ linenum' = linenum + 1
    BY <1>3, SkippedLine DEF NextLine
  <2>2. BegunLines' = BegunLines
    BY <2>1, SkipBegins
  <2>3. logical_block' = logical_block /\ TheLine.kind # "row"
    BY <1>3 DEF DumParse, ModelLine, IgnoreLut, AtLine
  <2>4. ASSUME doall = 1, NEW l \in BegunLines, file[l].kind = "names" PROVE HasRows(l)'
    <3>1. /\ HasRows(l) /\ l \in DOMAIN file /\ pass \in {3, 4} /\ (pass = 3 => l < linenum)
      BY <2>1, <2>4, BegunBlock DEF RowsInv
    <3>2. RowsLoaded(BlockOfLine(l))' = RowsLoaded(BlockOfLine(l))
      BY <2>1, <2>3, RowsUnchanged DEF RowsLoaded
    <3>3. QED
      BY <2>1, <2>3, <3>1, <3>2, NoRowPassed, RowsAfter
  <2>5. QED
    BY <1>2, <2>1, <2>2, <2>4
<1>4. CASE TruthTableRow
  <2>1. /\ pc = "line" /\ pc' = "line" /\ linenum \in DOMAIN file /\ NextLine /\ file' = file
        /\ ~ ((BlockLine(linenum) \/ PadLine(linenum)) /\ PassOf(linenum) = pass)
        /\ doall' = doall
    BY <1>4, SkippedLine DEF NextLine
  <2>2. BegunLines' = BegunLines
    BY <2>1, SkipBegins
  <2>3. ASSUME doall = 1, NEW l \in BegunLines, file[l].kind = "names" PROVE HasRows(l)'
    BY <1>4, <2>1, <2>3, RowAdded DEF RowsInv
  <2>4. QED
    BY <1>2, <2>1, <2>2, <2>3
<1>5. CASE IoLine \/ AddLut \/ AddLatch \/ AddSubckt
  <2>1. PICK newBlock : StartPins(newBlock) /\ pc = "line"
    BY <1>5, StartedLine
  <2>2. file' = file /\ doall' = doall /\ pc' \in {"line", "pins"}
    BY <2>1 DEF StartPins, NextLine, input
  <2>3. doall = 1 => \A l \in BegunLines' : file[l].kind = "names" => HasRows(l)'
    BY <1>5, <2>1, RowsStarted DEF RowsInv
  <2>4. QED
    BY <1>2, <2>1, <2>2, <2>3
<1>6. CASE AddPin
  <2>1. file' = file /\ doall' = doall /\ pc = "pins" /\ pc' \in {"line", "pins"}
    BY <1>6 DEF AddPin, input
  <2>2. BegunLines' = BegunLines
    BY <1>6, AddBegins
  <2>3. doall = 1 => \A l \in BegunLines' : file[l].kind = "names" => HasRows(l)'
    BY <1>6, <2>1, <2>2, RowsOfPin DEF RowsInv
  <2>4. QED
    BY <1>2, <2>1, <2>3
<1>7. CASE EndPass
  <2>1. /\ file' = file /\ doall' = doall /\ pc = "line" /\ pc' = "line" /\ linenum' = 1
        /\ pass' = pass + 1 /\ pass \in 0 .. 3 /\ linenum > Len(file)
        /\ logical_block' = logical_block
    BY <1>1, <1>7 DEF EndPass, Rewind, AtEnd, input
  <2>2. ASSUME doall = 1, NEW l \in BegunLines', file[l].kind = "names" PROVE HasRows(l)'
    <3>1. BlockLines' = BlockLines
      BY <2>1, ReferenceUnchanged
    <3>2. pass = 3 /\ l \in BegunLines
      BY <1>1, <2>1, <3>1 DEF BegunLines, BlockLines
    <3>3. HasRows(l) /\ l \in DOMAIN file
      BY <2>1, <2>2, <3>2, BegunBlock DEF RowsInv
    <3>4. RowsLoaded(BlockOfLine(l))' = RowsLoaded(BlockOfLine(l))
      BY <2>1, RowsUnchanged DEF RowsLoaded
    <3>5. RowsOf(l)' = RowsOf(l)
      BY <2>1, RowsUnchanged
    <3>6. \A r \in RowsOf(l) : r < linenum
      BY <1>1, <2>1, <3>3, RowsOfType
    <3>7. ~ TakesRows(l)'
      BY <2>1, <3>2 DEF TakesRows
    <3>8. QED
      BY <3>3, <3>4, <3>5, <3>6, <3>7 DEF HasRows
  <2>3. QED
    BY <1>2, <2>1, <2>2
<1>8. CASE EndCounting
  <2>1. file' = file /\ pc' = "line" /\ pass' = 0
    BY <1>8 DEF EndCounting, AtEnd, Rewind, input
  <2>2. BegunLines' = {}
    BY <2>1 DEF BegunLines
  <2>3. QED
    BY <2>1, <2>2 DEF RowsInv, TruthTableComplete
<1>9. CASE EndLoading
  <2>1. /\ file' = file /\ pc = "line" /\ pc' = "check" /\ pass = 4 /\ doall = 1
        /\ logical_block' = logical_block
    BY <1>9 DEF EndLoading, AtEnd, input, position
  <2>2. ASSUME NEW l \in DOMAIN file, file[l].kind = "names", BlockLine(l)
        PROVE  RowsOf(l) \subseteq RowsLoaded(BlockOfLine(l))
    <3>1. l \in BegunLines
      BY <2>1, <2>2 DEF BegunLines, BlockLines
    <3>2. QED
      BY <2>1, <2>2, <3>1 DEF RowsInv, HasRows
  <2>3. \A l : /\ RowsOf(l)' = RowsOf(l) /\ BlockLine(l)' = BlockLine(l)
               /\ RowsLoaded(BlockOfLine(l))' = RowsLoaded(BlockOfLine(l))
    BY <2>1, RowsUnchanged, FileUnchanged DEF RowsLoaded
  <2>4. TruthTableComplete'
    BY <2>1, <2>2, <2>3 DEF TruthTableComplete
  <2>5. QED
    BY <2>1, <2>4 DEF RowsInv
<1>10. CASE CheckNet \/ AddActivity
  <2>1. pc' = "activity"
    BY <1>10 DEF CheckNet, AddActivity
  <2>2. QED
    BY <2>1 DEF RowsInv, TruthTableComplete
<1>11. ASSUME NEW how \in Final, Stop(how) PROVE RowsInv'
  BY <1>11 DEF Stop, RowsInv, TruthTableComplete
<1>12. CASE UNCHANGED vars
  <2>1. /\ file' = file /\ pc' = pc /\ doall' = doall /\ pass' = pass /\ linenum' = linenum
        /\ add_truth_table' = add_truth_table /\ num_logical_blocks' = num_logical_blocks
        /\ logical_block' = logical_block
    BY <1>12 DEF vars, input, position
  <2>2. BegunLines' = BegunLines
    BY <2>1, ReferenceUnchanged DEF BegunLines
  <2>3. \A l : /\ RowsOf(l)' = RowsOf(l) /\ BlockOfLine(l)' = BlockOfLine(l)
               /\ BlockLine(l)' = BlockLine(l) /\ TakesRows(l)' = TakesRows(l)
               /\ RowsLoaded(BlockOfLine(l))' = RowsLoaded(BlockOfLine(l))
    BY <2>1, RowsUnchanged, FileUnchanged DEF RowsLoaded, TakesRows
  <2>4. \A l : HasRows(l)' = HasRows(l)
    BY <2>1, <2>3 DEF HasRows
  <2>5. TruthTableComplete'
    BY <2>1, <2>3 DEF RowsInv, TruthTableComplete
  <2>6. QED
    BY <2>1, <2>2, <2>4, <2>5 DEF RowsInv
<1>13. QED
  BY <1>3, <1>4, <1>5, <1>6, <1>7, <1>8, <1>9, <1>10, <1>11, <1>12
     DEF Next, BadLine, BadPin, CheckFails, EndActivity, Stopped

\* No row of a truth table is lost: every row that follows a .names is on the block made
\* for that .names when the ten passes end.
THEOREM RowsComplete == Spec => []TruthTableComplete
<1>1. Init => RowsInv
  BY DEF Init, RowsInv, TruthTableComplete
<1>2. PinListsInv /\ Numbering /\ RowsInv /\ [Next]_vars => RowsInv'
  BY RowsNext
<1>3. RowsInv => TruthTableComplete
  BY DEF RowsInv
<1>4. QED
  BY <1>1, <1>2, <1>3, PinListsCorrect, BlocksNumbered, PTL DEF Spec

-----------------------------------------------------------------------------
(* The blocks are filled *)

\* The caller of add_vpack_net writes an output pin only for a pin that drives.
LEMMA ConnectedFields ==
  ASSUME NEW block \in Block, NEW p \in Pin
  PROVE  /\ Connected(block, p).type = block.type
         /\ p.role # "out" => /\ Connected(block, p).outs = block.outs
                              /\ Connected(block, p).nout = block.nout
         /\ p.role = "out" =>
              /\ Connected(block, p).outs = [block.outs EXCEPT ![p.slot] = NetIndex(p)]
              /\ Connected(block, p).nout = block.nout + (IF p.net \in Nets THEN 1 ELSE 0)
  BY DEF Connected, Block

\* A block whose type and outputs stay is filled as it was, when no net loses a driver.
LEMMA FilledKept ==
  ASSUME NEW b \in BlockIds, FilledBlock(b), TypeOK, TypeOK',
         logical_block'[b].type = logical_block[b].type,
         logical_block'[b].outs = logical_block[b].outs,
         logical_block'[b].nout = logical_block[b].nout,
         \A n \in Nets : num_driver'[n] >= num_driver[n]
  PROVE  FilledBlock(b)'
<1>1. logical_block[b] \in Block
  BY DEF BlockIds, TypeOK, BlocksTypeOK
<1>2. ASSUME NEW s \in Slots, logical_block[b].outs[s] # OPEN
      PROVE  num_driver'[logical_block[b].outs[s]] > 0
  <2>1. logical_block[b].outs[s] \in Nets
    BY <1>1, <1>2 DEF Block, NetOrOpen
  <2>2. num_driver[logical_block[b].outs[s]] > 0
    BY <1>2 DEF FilledBlock
  <2>3. num_driver \in [Nets -> Nat] /\ num_driver' \in [Nets -> Nat]
    BY DEF TypeOK, NetsTypeOK
  <2>4. QED
    BY <2>1, <2>2, <2>3
<1>3. QED
  BY <1>2 DEF FilledBlock

\* So is the driver of a net, when its entry and the block it names stay.
LEMMA DrivenKept ==
  ASSUME NEW n \in Nets, DrivenBy(n), num_driver'[n] = num_driver[n],
         num_driver[n] > 0 => Driver(n)' = Driver(n), BlockIds \subseteq BlockIds',
         \A b \in BlockIds : /\ logical_block'[b].type = logical_block[b].type
                             /\ logical_block[b].type = "INPAD"
                                  => logical_block'[b].outs = logical_block[b].outs
  PROVE  DrivenBy(n)'
<1>. SUFFICES ASSUME num_driver[n] > 0
              PROVE  \E b \in BlockIds', s \in Slots :
                       /\ Driver(n)' = <<b, s>>
                       /\ logical_block'[b].type = "INPAD" => logical_block'[b].outs[s] = n
  BY DEF DrivenBy
<1>1. PICK b \in BlockIds, s \in Slots :
        /\ Driver(n) = <<b, s>>
        /\ logical_block[b].type = "INPAD" => logical_block[b].outs[s] = n
  BY DEF DrivenBy
<1>2. QED
  BY <1>1

\* A pin of a line is on its block, a pin of a pad on a block of its own.
LEMMA FillingPin ==
  ASSUME PinListsInv, TypeOK', Numbering, Filling, AddPin, doall = 1
  PROVE  Filling'
<1>. DEFINE p == ThePin
            n == p.net
            new == NewBlock(PadType)
            blocks == IF IsPad THEN Append(logical_block, new) ELSE logical_block
<1>1. /\ TypeOK /\ pc = "pins" /\ linenum \in DOMAIN file /\ linenum \in Nat
      /\ file' = file /\ doall' = doall /\ num_logical_blocks' = PinBlock
      /\ logical_block \in Seq(Block) /\ num_logical_blocks \in Nat
      /\ Len(logical_block) = num_logical_blocks
      /\ num_driver \in [Nets -> Nat] /\ DOMAIN node_block = Nets
      /\ pc' # "line" => pc' = "pins" /\ linenum' = linenum
  <2>1. /\ pc = "pins" /\ file' = file /\ doall' = doall /\ num_logical_blocks' = PinBlock
        /\ pc' # "line" => pc' = "pins" /\ linenum' = linenum
    BY DEF AddPin, input
  <2>2. QED
    BY <2>1 DEF PinListsInv, TypeOK, PositionTypeOK, BlocksTypeOK, NetsTypeOK, Numbering
<1>17. LoadNet(p)
  BY DEF AddPin
<1>18. PICK pb : pb = PinBlock
  OBVIOUS
<1>2. p \in Pin /\ p.slot \in Slots
  BY <1>1, ThePinType DEF Pin
<1>3. /\ new \in Block /\ new.type = PadType /\ new.nout = 0 /\ \A s \in Slots : new.outs[s] = OPEN
      /\ PadType \in {"INPAD", "OUTPAD"} /\ (PadType = "INPAD" <=> TheLine.kind = "inputs")
  BY NewBlockType DEF PadType, NewBlock, Types
<1>4. ASSUME IsPad PROVE p.role = (IF PadType = "INPAD" THEN "out" ELSE "in")
  <2>1. PinNumber(pin + 1) \in DOMAIN TheLine.pins
    BY <1>1, ThePinType
  <2>2. QED
    BY <1>1, <1>4, <2>1 DEF IsPad, PadType, ThePin, TheLine, TypeOK, PositionTypeOK, WellTyped
<1>. HIDE DEF new
<1>5. /\ blocks \in Seq(Block) /\ Len(blocks) = PinBlock /\ PinBlock \in DOMAIN blocks
      /\ \A b \in BlockIds : b \in DOMAIN blocks /\ blocks[b] = logical_block[b]
      /\ IsPad => blocks[PinBlock] = new /\ PinBlock \notin BlockIds
      /\ ~ IsPad => blocks = logical_block /\ PinBlock \in BlockIds
      /\ \A b \in DOMAIN blocks : b \in BlockIds \/ (IsPad /\ b = PinBlock)
  <2>1. CASE IsPad
    <3>1. /\ blocks = Append(logical_block, new) /\ PinBlock = Len(logical_block) + 1
          /\ BlockIds = 1 .. Len(logical_block) /\ Len(logical_block) \in Nat
      BY <1>1, <2>1, LenProperties DEF PinBlock, BlockIds
    <3>2. /\ blocks \in Seq(Block) /\ Len(blocks) = Len(logical_block) + 1
          /\ blocks[Len(logical_block) + 1] = new
          /\ \A b \in 1 .. Len(logical_block) : blocks[b] = logical_block[b]
      BY <1>1, <1>3, <3>1, AppendProperties
    <3>. HIDE DEF blocks
    <3>3. DOMAIN blocks = 1 .. Len(logical_block) + 1
      BY <3>2, LenProperties
    <3>4. QED
      BY <2>1, <3>1, <3>2, <3>3
  <2>2. CASE ~ IsPad
    <3>1. BegunLines # {}
      BY <2>2, AddBegins
    <3>2. num_logical_blocks > 0
      BY <1>1, <2>2, AddBegins, BegunBlock
    <3>3. QED
      BY <1>1, <2>2, <3>2, LenProperties DEF PinBlock, BlockIds
  <2>3. QED
    BY <2>1, <2>2
<1>6. logical_block' = [blocks EXCEPT ![PinBlock] = Connected(@, p)]
  BY DEF AddPin, new
<1>. HIDE DEF blocks, n, p
<1>7. /\ DOMAIN logical_block' = DOMAIN blocks
      /\ logical_block'[pb] = Connected(blocks[pb], p)
      /\ \A b \in BlockIds : b # pb => logical_block'[b] = logical_block[b]
      /\ blocks[pb] \in Block
  BY <1>5, <1>18, <1>6, <1>18
<1>8. /\ \A m \in Nets : num_driver'[m] = IF m = n /\ p.role = "out" THEN num_driver[m] + 1
                                           ELSE num_driver[m]
      /\ \A m \in Nets : num_driver'[m] >= num_driver[m] /\ num_driver[m] \in Nat
  <2>1. num_driver \in [Nets -> Nat]
    BY <1>1
  <2>2. n \notin Nets => num_driver' = num_driver
    BY <1>17 DEF LoadNet, nets, n
  <2>3. n \in Nets => num_driver' = [num_driver EXCEPT ![n] = IF p.role = "out" THEN @ + 1 ELSE @]
    BY <1>17 DEF LoadNet, n
  <2>4. ASSUME NEW m \in Nets
        PROVE  num_driver'[m] = IF m = n /\ p.role = "out" THEN num_driver[m] + 1 ELSE num_driver[m]
    BY <2>1, <2>2, <2>3
  <2>5. QED
    BY <2>1, <2>4
<1>9. ~ IsPad => logical_block[pb].type \notin {"INPAD", "OUTPAD"} /\ pb = num_logical_blocks
  BY <1>1, <1>18 DEF Filling, PinBlock
<1>10. ASSUME NEW b \in BlockIds', b # pb PROVE FilledBlock(b)'
  <2>1. b \in BlockIds /\ logical_block'[b] = logical_block[b]
    BY <1>5, <1>18, <1>7, <1>10 DEF BlockIds
  <2>2. FilledBlock(b)
    BY <1>1, <2>1 DEF Filling
  <2>3. QED
    BY <1>1, <1>8, <2>1, <2>2, FilledKept
<1>. DEFINE old == blocks[pb]
            c == Connected(old, p)
<1>11. /\ c.type = old.type
       /\ p.role # "out" => c.outs = old.outs /\ c.nout = old.nout
       /\ p.role = "out" => /\ c.outs = [old.outs EXCEPT ![p.slot] = NetIndex(p)]
                            /\ c.nout = old.nout + (IF p.net \in Nets THEN 1 ELSE 0)
       /\ old.outs \in [Slots -> NetOrOpen]
  <2>1. old \in Block
    BY <1>7
  <2>2. QED
    BY <1>2, <2>1, ConnectedFields DEF Block
<1>12. NetIndex(p) = (IF p.net \in Nets THEN p.net ELSE OPEN) /\ OPEN \notin Nets
  BY NetsAssumption DEF NetIndex
<1>. HIDE DEF c
<1>13. FilledBlock(pb)'
  <2>. DEFINE Filled(d) ==
         /\ d.type # "EMPTY"
         /\ d.type = "OUTPAD" => \A s \in Slots : d.outs[s] = OPEN
         /\ d.type = "INPAD" =>
              \E s \in Slots : /\ \A t \in Slots \ {s} : d.outs[t] = OPEN
                               /\ d.nout = IF d.outs[s] = OPEN THEN 0 ELSE 1
         /\ \A s \in Slots : d.outs[s] # OPEN => num_driver'[d.outs[s]] > 0
  <2>1. /\ old.type # "EMPTY" /\ (~ IsPad => old.type \notin {"INPAD", "OUTPAD"})
        /\ \A s \in Slots : old.outs[s] # OPEN => num_driver'[old.outs[s]] > 0
    <3>1. CASE IsPad
      BY <1>3, <1>5, <1>18, <3>1
    <3>2. CASE ~ IsPad
      <4>1. pb \in BlockIds /\ old = logical_block[pb]
        BY <1>5, <1>18, <3>2
      <4>2. FilledBlock(pb)
        BY <1>1, <4>1 DEF Filling
      <4>3. \A s \in Slots : old.outs[s] # OPEN => num_driver[old.outs[s]] > 0
        BY <4>1, <4>2 DEF FilledBlock
      <4>4. \A s \in Slots : old.outs[s] # OPEN => old.outs[s] \in Nets
        BY <1>11 DEF NetOrOpen
      <4>5. QED
        BY <1>8, <1>9, <3>2, <4>1, <4>2, <4>3, <4>4 DEF FilledBlock
    <3>3. QED
      BY <3>1, <3>2
  <2>2. IsPad => old = new
    BY <1>5, <1>18
  <2>. HIDE DEF old
  <2>3. \A s \in Slots : c.outs[s] # OPEN => num_driver'[c.outs[s]] > 0
    BY <1>2, <1>8, <1>11, <1>12, <2>1 DEF n
  <2>4. c.type # "EMPTY" /\ (c.type = "OUTPAD" => \A s \in Slots : c.outs[s] = OPEN)
    BY <1>3, <1>4, <1>11, <2>1, <2>2
  <2>5. ASSUME c.type = "INPAD"
        PROVE  /\ \A t \in Slots \ {p.slot} : c.outs[t] = OPEN
               /\ c.nout = IF c.outs[p.slot] = OPEN THEN 0 ELSE 1
    <3>1. old = new /\ p.role = "out"
      BY <1>3, <1>4, <1>11, <2>1, <2>2, <2>5
    <3>2. QED
      BY <1>2, <1>3, <1>11, <1>12, <3>1
  <2>6. Filled(c)
    BY <1>2, <2>3, <2>4, <2>5
  <2>7. logical_block'[pb] = c
    BY <1>7 DEF c, old
  <2>8. QED
    BY <2>6, <2>7 DEF FilledBlock
<1>14. ASSUME NEW m \in Nets PROVE DrivenBy(m)'
  <2>1. BlockIds \subseteq BlockIds' /\ pb \in BlockIds'
    BY <1>5, <1>18, <1>7 DEF BlockIds
  <2>2. CASE m = n /\ p.role = "out"
    <3>1. Driver(m)' = <<pb, p.slot>>
      BY <1>1, <1>17, <1>18, <2>2 DEF LoadNet, PinIndex, PinEntry, Driver, n
    <3>2. c.outs[p.slot] = m
      BY <1>2, <1>11, <1>12, <2>2 DEF n
    <3>3. logical_block'[pb] = c
      BY <1>7 DEF c
    <3>4. QED
      BY <1>2, <2>1, <3>1, <3>2, <3>3 DEF DrivenBy
  <2>3. CASE ~ (m = n /\ p.role = "out")
    <3>1. num_driver'[m] = num_driver[m]
      BY <1>8, <2>3
    <3>2. ASSUME num_driver[m] > 0 PROVE Driver(m)' = Driver(m)
      <4>1. 0 \in DOMAIN node_block[m] /\ num_sinks[m] \in Nat
        BY <1>1, <3>2 DEF PinListsInv, Lists, TypeOK, NetsTypeOK
      <4>2. CASE m # n
        BY <1>1, <1>17, <4>2 DEF LoadNet, nets, Driver, n
      <4>3. CASE m = n
        <5>1. PinIndex(p) # 0
          BY <2>3, <4>1, <4>3 DEF PinIndex, n
        <5>2. node_block'[m] = [i \in DOMAIN node_block[m] \cup {PinIndex(p)} |->
                                  IF i = PinIndex(p) THEN PinEntry(p) ELSE node_block[m][i]]
          BY <1>1, <1>17, <4>3 DEF LoadNet, n
        <5>3. QED
          BY <4>1, <5>1, <5>2 DEF Driver
      <4>4. QED
        BY <4>2, <4>3
    <3>3. ASSUME NEW b \in BlockIds
          PROVE  /\ logical_block'[b].type = logical_block[b].type
                 /\ logical_block[b].type = "INPAD" => logical_block'[b].outs = logical_block[b].outs
      <4>1. CASE b = pb
        <5>1. ~ IsPad /\ logical_block'[b].type = logical_block[b].type
          BY <1>5, <1>18, <1>7, <1>11, <4>1 DEF c
        <5>2. QED
          BY <1>9, <4>1, <5>1
      <4>2. CASE b # pb
        BY <1>7, <4>2
      <4>3. QED
        BY <4>1, <4>2
    <3>4. DrivenBy(m)
      BY <1>1 DEF Filling
    <3>5. QED
      BY <2>1, <3>1, <3>2, <3>3, <3>4, DrivenKept
  <2>4. QED
    BY <2>2, <2>3
<1>15. ASSUME pc' = "pins", ~ IsPad'
       PROVE  logical_block'[num_logical_blocks'].type \notin {"INPAD", "OUTPAD"}
  <2>1. ~ IsPad
    BY <1>1, <1>15 DEF IsPad, TheLine
  <2>2. QED
    BY <1>1, <1>5, <1>18, <1>7, <1>9, <1>11, <2>1 DEF c
<1>16. \A b \in BlockIds' : FilledBlock(b)'
  BY <1>10, <1>13
<1>20. QED
  BY <1>14, <1>15, <1>16 DEF Filling

\* A step that leaves the blocks and the drivers alone leaves them filled.
LEMMA FillingKept ==
  ASSUME Filling, TypeOK, pc \in {"line", "pins", "check"}, doall' = doall, pc' # "pins",
         UNCHANGED <<logical_block, num_driver, node_block>>
  PROVE  Filling'
<1>1. \A b : FilledBlock(b)' = FilledBlock(b)
  BY DEF FilledBlock
<1>2. \A n : DrivenBy(n)' = DrivenBy(n)
  BY DEF DrivenBy, BlockIds, Driver
<1>3. BlockIds' = BlockIds
  BY DEF BlockIds
<1>4. QED
  BY <1>1, <1>2, <1>3 DEF Filling

\* A line of pins begins with an empty block that is no pad.
LEMMA FillingStarted ==
  ASSUME PinListsInv, TypeOK', Numbering, Filling, doall = 1,
         IoLine \/ AddLut \/ AddLatch \/ AddSubckt
  PROVE  Filling'
<1>1. /\ TypeOK /\ pc = "line" /\ linenum \in DOMAIN file
      /\ BlockLine(linenum) \/ PadLine(linenum)
      /\ logical_block \in Seq(Block) /\ num_logical_blocks \in Nat
      /\ Len(logical_block) = num_logical_blocks
  BY StartedBlock DEF PinListsInv, TypeOK, BlocksTypeOK, Numbering
<1>2. PICK new \in Seq(Block) :
        /\ StartPins(new)
        /\ \/ new = <<>> /\ IsPad
           \/ \E type \in {"LUT", "LATCH", "SUBCKT"} : new = <<NewBlock(type)>>
  <2>1. ~ BlockLine(linenum) => IsPad
    BY <1>1, PassOfLine DEF IsPad, TheLine
  <2>2. \A type \in {"LUT", "LATCH", "SUBCKT"} : <<NewBlock(type)>> \in Seq(Block)
    BY NewBlockType DEF Types
  <2>3. QED
    BY <2>1, <2>2, StartedBlock, EmptySeq
<1>3. /\ file' = file /\ doall' = doall /\ logical_block' = logical_block \o new
      /\ num_driver' = num_driver /\ node_block' = node_block
      /\ num_logical_blocks' = num_logical_blocks + Len(new)
      /\ pc' = "pins" => linenum' = linenum
  BY <1>1, <1>2 DEF StartPins, NextLine, input, nets
<1>4. /\ \A b \in BlockIds : b \in BlockIds' /\ logical_block'[b] = logical_block[b]
      /\ \A b \in BlockIds' : b \in BlockIds \/ (b = num_logical_blocks' /\ Len(new) = 1 /\ logical_block'[b] = new[1])
      /\ Len(new) = 1 => logical_block'[num_logical_blocks'] = new[1]
  <2>1. Len(new) \in {0, 1}
    BY <1>2, EmptySeq
  <2>2. /\ BlockIds = 1 .. num_logical_blocks /\ BlockIds' = 1 .. num_logical_blocks + Len(new)
    BY <1>1, <1>2, <1>3, <2>1, ConcatProperties, LenProperties DEF BlockIds
  <2>3. /\ \A b \in 1 .. num_logical_blocks : logical_block'[b] = logical_block[b]
        /\ Len(new) = 1 => logical_block'[num_logical_blocks + 1] = new[1]
    BY <1>1, <1>2, <1>3, ConcatProperties
  <2>4. QED
    BY <1>1, <1>3, <2>1, <2>2, <2>3
<1>5. Len(new) = 1 => /\ new[1].type \in {"LUT", "LATCH", "SUBCKT"}
                      /\ \A s \in Slots : new[1].outs[s] = OPEN
  BY <1>2, EmptySeq DEF NewBlock
<1>6. \A n \in Nets : num_driver'[n] >= num_driver[n]
  BY <1>1, <1>3 DEF TypeOK, NetsTypeOK
<1>7. ASSUME NEW b \in BlockIds' PROVE FilledBlock(b)'
  <2>1. CASE b \in BlockIds
    <3>1. FilledBlock(b) /\ logical_block'[b] = logical_block[b]
      BY <1>1, <1>4, <2>1 DEF Filling
    <3>2. QED
      BY <1>1, <1>3, <1>6, <2>1, <3>1, FilledKept
  <2>2. CASE b \notin BlockIds
    <3>1. /\ logical_block'[b].type \in {"LUT", "LATCH", "SUBCKT"}
          /\ \A s \in Slots : logical_block'[b].outs[s] = OPEN
      BY <1>4, <1>5, <2>2
    <3>2. QED
      BY <3>1 DEF FilledBlock
  <2>3. QED
    BY <2>1, <2>2
<1>8. ASSUME NEW n \in Nets PROVE DrivenBy(n)'
  <2>1. DrivenBy(n) /\ Driver(n)' = Driver(n)
    BY <1>1, <1>3 DEF Filling, Driver
  <2>2. QED
    BY <1>3, <1>4, <2>1, DrivenKept
<1>9. ASSUME pc' = "pins", ~ IsPad'
      PROVE  logical_block'[num_logical_blocks'].type \notin {"INPAD", "OUTPAD"}
  <2>1. ~ IsPad
    BY <1>3, <1>9 DEF IsPad, TheLine
  <2>2. Len(new) = 1
    BY <1>2, <2>1
  <2>3. QED
    BY <1>4, <1>5, <2>2
<1>10. QED
  BY <1>7, <1>8, <1>9 DEF Filling

\* A row fills only the table of a block.
LEMMA FillingRow ==
  ASSUME PinListsInv, TypeOK', Filling, doall = 1, TruthTableRow
  PROVE  Filling'
<1>1. /\ TypeOK /\ pc = "line" /\ pc' = "line" /\ doall' = doall
      /\ num_driver' = num_driver /\ node_block' = node_block /\ num_driver \in [Nets -> Nat]
      /\ logical_block \in Seq(Block)
  BY DEF TruthTableRow, AtLine, NextLine, nets, PinListsInv, TypeOK, NetsTypeOK, BlocksTypeOK
<1>2. BlockIds' = BlockIds
  BY DEF TruthTableRow, BlockIds
<1>3. ASSUME NEW b \in BlockIds
      PROVE  /\ logical_block'[b].type = logical_block[b].type
             /\ logical_block'[b].outs = logical_block[b].outs
             /\ logical_block'[b].nout = logical_block[b].nout
  <2>1. logical_block[b] \in Block
    BY <1>1 DEF BlockIds
  <2>2. logical_block'[b] = logical_block[b]
        \/ \E rows : logical_block'[b] = [logical_block[b] EXCEPT !.truth_table = rows]
    <3>1. CASE add_truth_table /\ b = num_logical_blocks
      <4>1. logical_block' = [logical_block EXCEPT ![b].truth_table = AddRow(@)]
        BY <3>1 DEF TruthTableRow
      <4>2. logical_block'[b] = [logical_block[b] EXCEPT !.truth_table = AddRow(@)]
        BY <4>1 DEF BlockIds
      <4>3. QED
        BY <4>2
    <3>2. CASE ~ (add_truth_table /\ b = num_logical_blocks)
      BY <3>2 DEF TruthTableRow, BlockIds
    <3>3. QED
      BY <3>1, <3>2
  <2>3. QED
    BY <2>1, <2>2 DEF Block
<1>4. ASSUME NEW b \in BlockIds PROVE FilledBlock(b)'
  <2>1. FilledBlock(b)
    BY <1>1 DEF Filling
  <2>2. QED
    BY <1>1, <1>3, <2>1, FilledKept
<1>5. ASSUME NEW n \in Nets PROVE DrivenBy(n)'
  <2>1. DrivenBy(n) /\ Driver(n)' = Driver(n)
    BY <1>1 DEF Filling, Driver
  <2>2. QED
    BY <1>1, <1>2, <1>3, <2>1, DrivenKept
<1>6. QED
  BY <1>1, <1>2, <1>4, <1>5 DEF Filling

\* Every step of the reader keeps the blocks filled.
LEMMA FillingNext ==
  ASSUME PinListsInv, PinListsInv', Numbering, Filling, [Next]_vars
  PROVE  Filling'
<1>1. TypeOK /\ TypeOK' /\ doall \in {0, 1}
  BY DEF PinListsInv, TypeOK, PositionTypeOK
<1>2. ASSUME doall' = 0 PROVE Filling'
  BY <1>2 DEF Filling
<1>3. CASE DumParse \/ ModelLine \/ IgnoreLut
  <2>1. pc = "line" /\ pc' = "line" /\ doall' = doall
        /\ UNCHANGED <<logical_block, num_driver, node_block>>
    BY <1>3 DEF DumParse, ModelLine, IgnoreLut, NextLine, AtLine, nets
  <2>2. QED
    BY <1>1, <2>1, FillingKept
<1>4. CASE TruthTableRow
  <2>1. doall' = doall
    BY <1>4 DEF TruthTableRow, NextLine
  <2>2. QED
    BY <1>1, <1>2, <1>4, <2>1, FillingRow
<1>5. CASE IoLine \/ AddLut \/ AddLatch \/ AddSubckt
  <2>1. PICK newBlock : StartPins(newBlock)
    BY <1>5, StartedLine
  <2>2. doall' = doall
    BY <2>1 DEF StartPins, NextLine
  <2>3. QED
    BY <1>1, <1>2, <1>5, <2>2, FillingStarted
<1>6. CASE AddPin
  <2>1. doall' = doall
    BY <1>6 DEF AddPin
  <2>2. QED
    BY <1>1, <1>2, <1>6, <2>1, FillingPin
<1>7. CASE EndPass \/ EndLoading
  <2>1. pc = "line" /\ pc' # "pins" /\ doall' = doall
        /\ UNCHANGED <<logical_block, num_driver, node_block>>
    BY <1>7 DEF EndPass, EndLoading, AtEnd, Rewind, nets, position
  <2>2. QED
    BY <1>1, <2>1, FillingKept
<1>8. CASE EndCounting
  <2>1. /\ logical_block = <<>> /\ \A n \in Nets : num_driver[n] = 0
        /\ pc' = "line" /\ logical_block' = logical_block /\ num_driver' = num_driver
    BY <1>8 DEF EndCounting, AtEnd, Rewind, nets, Numbering, PinListsInv, Counting
  <2>2. BlockIds' = {} /\ \A n \in Nets : ~ (num_driver'[n] > 0)
    BY <2>1 DEF BlockIds
  <2>3. QED
    BY <2>1, <2>2 DEF Filling, DrivenBy
<1>9. CASE CheckNet \/ AddActivity
  BY <1>9 DEF CheckNet, AddActivity, Filling
<1>10. ASSUME NEW how \in Final, Stop(how) PROVE Filling'
  BY <1>10 DEF Stop, Filling
<1>11. CASE UNCHANGED vars
  <2>1. /\ file' = file /\ pc' = pc /\ doall' = doall /\ linenum' = linenum
        /\ num_logical_blocks' = num_logical_blocks
        /\ UNCHANGED <<logical_block, num_driver, node_block>>
    BY <1>11 DEF vars, input, position, nets
  <2>2. /\ \A b : FilledBlock(b)' = FilledBlock(b)
        /\ \A n : DrivenBy(n)' = DrivenBy(n)
        /\ BlockIds' = BlockIds /\ IsPad' = IsPad
    BY <2>1 DEF FilledBlock, DrivenBy, BlockIds, Driver, IsPad, TheLine
  <2>3. QED
    BY <2>1, <2>2 DEF Filling
<1>12. QED
  BY <1>3, <1>4, <1>5, <1>6, <1>7, <1>8, <1>9, <1>10, <1>11
     DEF Next, BadLine, BadPin, CheckFails, EndActivity, Stopped

\* The blocks are filled in every state of the loading passes.
LEMMA BlocksFilled == Spec => []Filling
<1>1. Init => Filling
  BY DEF Init, Filling
<1>2. PinListsInv /\ PinListsInv' /\ Numbering /\ Filling /\ [Next]_vars => Filling'
  BY FillingNext
<1>3. QED
  BY <1>1, <1>2, PinListsCorrect, BlocksNumbered, PTL DEF Spec

-----------------------------------------------------------------------------
(* The netlist is swept *)

\* The sweep takes a net from the output pin that the driver entry of the net names.
LEMMA SweptFields ==
  ASSUME TypeOK, NEW b \in BlockIds
  PROVE  /\ SweptBlocks[b].type = logical_block[b].type
         /\ SweptBlocks[b].nout
              = logical_block[b].nout - Cardinality({n \in Swept : Driver(n)[1] = b})
         /\ \A s \in Slots : SweptBlocks[b].outs[s]
              = IF SweptAt(b, s) # {} THEN OPEN ELSE logical_block[b].outs[s]
         /\ logical_block[b] \in Block
         /\ IsFiniteSet({n \in Swept : Driver(n)[1] = b})
         /\ Cardinality({n \in Swept : Driver(n)[1] = b}) \in Nat
<1>1. logical_block[b] \in Block
  BY DEF TypeOK, BlocksTypeOK, BlockIds
<1>2. IsFiniteSet({n \in Swept : Driver(n)[1] = b})
  BY NetsAssumption, FS_Subset DEF Swept, Known
<1>3. SweptBlocks[b] = [logical_block[b] EXCEPT
        !.outs = [s \in Slots |-> IF SweptAt(b, s) # {} THEN OPEN ELSE @[s]],
        !.nout = @ - Cardinality({n \in Swept : Driver(n)[1] = b})]
  BY DEF SweptBlocks
<1>4. QED
  BY <1>1, <1>2, <1>3, FS_CardinalityType DEF Block

\* An input pad is removed only when it drives nothing.
LEMMA UnusedDrivesNothing ==
  ASSUME PinListsInv, Filling, pc = "check", NEW b \in BlockIds, UnusedInpad(b),
         NEW s \in Slots
  PROVE  SweptBlocks[b].outs[s] = OPEN
<1>. DEFINE D == {n \in Swept : Driver(n)[1] = b}
<1>1. TypeOK /\ FilledBlock(b) /\ \A n \in Nets : DrivenBy(n)
  BY DEF PinListsInv, Filling, Loading
<1>2. /\ logical_block[b].type = "INPAD" /\ logical_block[b] \in Block
      /\ logical_block[b].nout - Cardinality(D) = 0
      /\ SweptBlocks[b].outs[s] = IF SweptAt(b, s) # {} THEN OPEN ELSE logical_block[b].outs[s]
      /\ Cardinality(D) \in Nat
  BY <1>1, SweptFields DEF UnusedInpad
<1>3. PICK t \in Slots : /\ \A u \in Slots \ {t} : logical_block[b].outs[u] = OPEN
                         /\ logical_block[b].nout = IF logical_block[b].outs[t] = OPEN THEN 0 ELSE 1
  BY <1>1, <1>2 DEF FilledBlock
<1>4. CASE s # t \/ logical_block[b].outs[t] = OPEN
  BY <1>2, <1>3, <1>4
<1>5. CASE s = t /\ logical_block[b].outs[t] # OPEN
  <2>1. Cardinality(D) # 0
    BY <1>2, <1>3, <1>5
  <2>2. D # {}
    BY <2>1, FS_EmptySet
  <2>3. PICK n \in Swept : Driver(n)[1] = b
    BY <2>2
  <2>4. n \in Nets /\ num_driver[n] > 0
    <3>1. n \in Nets /\ num_sinks[n] = 0 /\ hash[n] > 0 /\ num_driver[n] + num_sinks[n] = hash[n]
      BY DEF Swept, Known, PinListsInv, Loading
    <3>2. num_driver[n] \in Nat
      BY <1>1, <3>1 DEF TypeOK, NetsTypeOK
    <3>3. QED
      BY <3>1, <3>2
  <2>5. PICK c \in BlockIds, u \in Slots :
          Driver(n) = <<c, u>> /\ (logical_block[c].type = "INPAD" => logical_block[c].outs[u] = n)
    BY <1>1, <2>4 DEF DrivenBy
  <2>6. c = b /\ logical_block[b].outs[u] = n /\ n # OPEN
    BY <1>2, <2>3, <2>4, <2>5, NetsAssumption
  <2>7. u = s
    BY <1>3, <1>5, <2>6
  <2>8. n \in SweptAt(b, s)
    BY <2>3, <2>5, <2>6, <2>7 DEF SweptAt
  <2>9. QED
    BY <1>2, <2>8
<1>6. QED
  BY <1>4, <1>5

\* check_net leaves a swept netlist when it accepts one.
LEMMA CheckSweeps ==
  ASSUME PinListsInv, Filling, CheckNet
  PROVE  SweptNetlist'
<1>1. /\ TypeOK /\ pc = "check" /\ doall = 1 /\ num_sinks' = num_sinks /\ AssertsHold /\ BlockErrors = {}
      /\ \A b \in BlockIds : FilledBlock(b)
  BY DEF CheckNet, PinListsInv, Loading, Filling
<1>2. /\ BlockIds' = BlockIds
      /\ \A b \in BlockIds : logical_block'[b] =
           [SweptBlocks[b] EXCEPT !.type = IF UnusedInpad(b) THEN "EMPTY" ELSE @]
  BY DEF CheckNet, BlockIds
<1>3. \A n \in Nets \ Swept : node_block'[n][0] = Driver(n)
  BY DEF CheckNet, Driver
<1>4. ASSUME NEW b \in BlockIds
      PROVE  /\ \A s \in Slots : logical_block'[b].outs[s] = SweptBlocks[b].outs[s]
             /\ logical_block'[b].type = IF UnusedInpad(b) THEN "EMPTY" ELSE logical_block[b].type
             /\ SweptBlocks[b] \in Block /\ SweptBlocks[b].type = logical_block[b].type
  <2>1. SweptBlocks[b] \in Block
    BY <1>1, SweptBlocksType
  <2>2. SweptBlocks[b].type = logical_block[b].type
    BY <1>1, SweptFields
  <2>3. QED
    BY <1>2, <2>1, <2>2 DEF Block
<1>5. ASSUME NEW b \in BlockIds, NEW s \in Slots, SweptBlocks[b].outs[s] # OPEN
      PROVE  /\ num_sinks[SweptBlocks[b].outs[s]] > 0
             /\ node_block'[SweptBlocks[b].outs[s]][0] = <<b, s>>
  <2>. DEFINE n == SweptBlocks[b].outs[s]
  <2>1. ~ UnusedInpad(b)
    BY <1>1, <1>5, UnusedDrivesNothing
  <2>2. s \in UsedOuts(b)
    BY <1>5, <2>1 DEF UsedOuts, Kept
  <2>3. Driver(n) = <<b, s>>
    BY <1>1, <2>1, <2>2 DEF AssertsHold
  <2>4. SweptAt(b, s) = {} /\ n = logical_block[b].outs[s] /\ n \in Nets
    <3>1. n = IF SweptAt(b, s) # {} THEN OPEN ELSE logical_block[b].outs[s]
      BY <1>1, SweptFields
    <3>2. logical_block[b].outs[s] \in NetOrOpen
      BY <1>1, SweptFields DEF Block
    <3>3. QED
      BY <1>5, <3>1, <3>2 DEF NetOrOpen
  <2>5. n \notin Swept
    BY <2>3, <2>4 DEF SweptAt
  <2>6. n \in Known
    <3>1. num_driver[n] > 0
      BY <1>1, <1>5, <2>4 DEF FilledBlock
    <3>2. num_driver[n] + num_sinks[n] = hash[n]
      BY <1>1, <2>4 DEF PinListsInv, Loading
    <3>3. num_driver[n] \in Nat /\ num_sinks[n] \in Nat
      BY <1>1, <2>4 DEF TypeOK, NetsTypeOK
    <3>4. QED
      BY <2>4, <3>1, <3>2, <3>3 DEF Known
  <2>7. logical_block[b].type # "OUTPAD"
    BY <1>1, <1>5, <2>4 DEF FilledBlock
  <2>8. num_sinks[n] > 0
    <3>1. num_sinks[n] # 0
      BY <2>3, <2>5, <2>6, <2>7 DEF Swept
    <3>2. num_sinks[n] \in Nat
      BY <1>1, <2>4 DEF TypeOK, NetsTypeOK
    <3>3. QED
      BY <3>1, <3>2
  <2>9. QED
    BY <1>3, <2>3, <2>4, <2>5, <2>8
<1>6. ASSUME NEW b \in BlockIds
      PROVE  /\ logical_block'[b].type = "INPAD" => \E s \in Slots : SweptBlocks[b].outs[s] # OPEN
             /\ logical_block'[b].type \in {"EMPTY", "OUTPAD"}
                  <=> \A s \in Slots : SweptBlocks[b].outs[s] = OPEN
  <2>1. logical_block[b].type \in Types \ {"EMPTY"}
    BY <1>1, SweptFields DEF FilledBlock, Block
  <2>2. CASE UnusedInpad(b)
    BY <1>1, <1>4, <2>2, UnusedDrivesNothing
  <2>3. CASE ~ UnusedInpad(b)
    <3>1. Cardinality(UsedOuts(b)) = SweptBlocks[b].nout
      BY <1>1, <2>3 DEF AssertsHold
    <3>2. UsedOuts(b) = {s \in Slots : SweptBlocks[b].outs[s] # OPEN}
      BY <2>3 DEF UsedOuts, Kept
    <3>3. (\A s \in Slots : SweptBlocks[b].outs[s] = OPEN) => SweptBlocks[b].nout = 0
      BY <3>1, <3>2, FS_EmptySet
    <3>4. CASE logical_block[b].type = "OUTPAD"
      <4>1. \A s \in Slots : SweptBlocks[b].outs[s] = OPEN
        <5>1. \A s \in Slots : logical_block[b].outs[s] = OPEN
          BY <1>1, <3>4 DEF FilledBlock
        <5>2. QED
          BY <1>1, <5>1, SweptFields
      <4>2. QED
        BY <1>4, <2>3, <3>4, <4>1
    <3>5. CASE logical_block[b].type # "OUTPAD"
      <4>1. SweptBlocks[b].nout # 0
        BY <1>1, <1>4, <2>1, <2>3, <3>5 DEF BlockErrors, UnusedInpad, Types
      <4>2. QED
        BY <1>4, <2>1, <2>3, <3>3, <3>5, <4>1
    <3>6. QED
      BY <3>4, <3>5
  <2>4. QED
    BY <2>2, <2>3
<1>7. ASSUME NEW b \in BlockIds'
      PROVE  /\ \A s \in Slots : \A n : n = logical_block'[b].outs[s] =>
                  (n # OPEN => num_sinks'[n] > 0 /\ node_block'[n][0] = <<b, s>>)
             /\ logical_block'[b].type = "INPAD" => \E s \in Slots : logical_block'[b].outs[s] # OPEN
             /\ logical_block'[b].type \in {"EMPTY", "OUTPAD"}
                  <=> \A s \in Slots : logical_block'[b].outs[s] = OPEN
  <2>1. b \in BlockIds
    BY <1>2
  <2>2. \A s \in Slots : logical_block'[b].outs[s] = SweptBlocks[b].outs[s]
    BY <1>4, <2>1
  <2>3. QED
    BY <1>1, <1>5, <1>6, <2>1, <2>2
<1>8. QED
  BY <1>7 DEF SweptNetlist, Driver

\* The netlist that build_blif returns is swept: no output pin drives a net without sinks,
\* the driver entry of a net is the pin that names it, and an input pad without a net is EMPTY.
THEOREM NetlistSwept == Spec => []SweptNetlist
<1>1. Init => SweptNetlist
  BY DEF Init, SweptNetlist
<1>2. PinListsInv /\ Filling /\ SweptNetlist /\ [Next]_vars => SweptNetlist'
  <2>. SUFFICES ASSUME PinListsInv, Filling, SweptNetlist, [Next]_vars PROVE SweptNetlist'
    OBVIOUS
  <2>1. CASE DumParse \/ ModelLine \/ TruthTableRow \/ IgnoreLut
    BY <2>1 DEF DumParse, ModelLine, TruthTableRow, IgnoreLut, NextLine, AtLine, SweptNetlist
  <2>2. CASE IoLine \/ AddLut \/ AddLatch \/ AddSubckt
    <3>1. \E newBlock : StartPins(newBlock) /\ pc = "line"
      BY <2>2, StartedLine
    <3>2. pc' \in {"line", "pins"}
      BY <3>1 DEF StartPins, NextLine
    <3>3. QED
      BY <3>2 DEF SweptNetlist
  <2>3. CASE AddPin
    <3>1. pc' \in {"line", "pins"}
      BY <2>3 DEF AddPin
    <3>2. QED
      BY <3>1 DEF SweptNetlist
  <2>4. CASE EndPass \/ EndCounting \/ EndLoading
    BY <2>4 DEF EndPass, EndCounting, EndLoading, AtEnd, SweptNetlist
  <2>5. CASE CheckNet
    BY <2>5, CheckSweeps
  <2>6. ASSUME pc' \in {"exit", "abort", "corrupt"} PROVE SweptNetlist'
    BY <2>6 DEF SweptNetlist
  <2>7. ASSUME pc \in {"activity", "done"}, UNCHANGED <<logical_block, num_sinks, node_block>>
        PROVE  SweptNetlist'
    BY <2>7 DEF SweptNetlist, BlockIds, Driver
  <2>8. CASE BadLine \/ BadPin \/ CheckFails
    BY <2>6, <2>8 DEF BadLine, BadPin, CheckFails, Stop
  <2>9. CASE AddActivity \/ EndActivity
    BY <2>7, <2>9 DEF AddActivity, EndActivity, Stop, nets
  <2>10. CASE UNCHANGED vars
    BY <2>10 DEF vars, nets, SweptNetlist, BlockIds, Driver
  <2>11. QED
    BY <2>1, <2>2, <2>3, <2>4, <2>5, <2>8, <2>9, <2>10 DEF Next, Stopped
<1>3. QED
  BY <1>1, <1>2, PinListsCorrect, BlocksFilled, PTL DEF Spec

-----------------------------------------------------------------------------
(* The netlist under construction *)

\* The pins added to block b in a role, those of one slot, and those that name a net.
PinsIn(b, role) == {o \in Occurrences : Added(o) /\ Place(o)[1] = b /\ PinAt(o).role = role}
AtSlot(b, role, s) == {o \in PinsIn(b, role) : PinAt(o).slot = s}
Used(S) == {o \in S : PinAt(o).net \in Nets}

\* The pin added last is the one that is held.
Last(S, o) == o \in S /\ \A p \in S : NotAfter(p, o)
Holds(S, net) ==
  \/ S = {} /\ net = OPEN
  \/ \E o \in S : Last(S, o) /\ net = NetIndex(PinAt(o))

\* A block holds the pins added to it, and counts those that name a net.
InsHeld(b, s) == Holds(AtSlot(b, "in", s), logical_block[b].ins[s])
OutsHeld(b, s) == Holds(AtSlot(b, "out", s), logical_block[b].outs[s])
ClkHeld(b) == Holds(PinsIn(b, "clk"), logical_block[b].clk)
HeldBlock(b) ==
  /\ \A s \in Slots : InsHeld(b, s) /\ OutsHeld(b, s)
  /\ ClkHeld(b)
  /\ logical_block[b].nin = Cardinality(Used(PinsIn(b, "in")))
  /\ logical_block[b].nout = Cardinality(Used(PinsIn(b, "out")))

\* The type of a block is that of its line or pad.
TypeOfLine(l) == CASE file[l].kind = "names" -> "LUT"
                   [] file[l].kind = "latch" -> "LATCH"
                   [] OTHER -> "SUBCKT"
TypeOfPad(o) == IF file[o[1]].kind = "inputs" THEN "INPAD" ELSE "OUTPAD"
TypedBlock(b) ==
  \/ \E l \in BegunLines : b = BlockOfLine(l) /\ logical_block[b].type = TypeOfLine(l)
  \/ \E o \in AddedPads : b = Place(o)[1] /\ logical_block[b].type = TypeOfPad(o)

\* A net is global when the last of its pins is a clock; its sinks' entries are its sinks.
FlaggedNet(n) ==
  \/ AddedPins(n) = {}
  \/ \E o \in AddedPins(n) : Last(AddedPins(n), o) /\ (is_global[n] <=> PinAt(o).role = "clk")
ListedNet(n) ==
  \A j \in 1 .. num_sinks[n] : \E o \in AddedSinks(n) : node_block[n][j] = Place(o)

\* What add_vpack_net asks of a pin, and the asserts on the clock of a subckt.
AcceptedPin(o) ==
  /\ PinAt(o).net # "open" /\ PinAt(o).role \notin {"none", "beyond"}
  /\ PinAt(o).role = "clk" /\ file[o[1]].kind = "subckt" =>
       /\ PinAt(o).slot = 0
       /\ \A p \in Occurrences :
            p[1] = o[1] /\ p[2] < o[2] /\ PinAt(p).role = "clk" => PinAt(p).net \notin Nets

\* The netlist is under construction, or just built.
IsLoading == doall = 1 /\ pc \in {"line", "pins", "check"}

\* The pins added are on the blocks and the nets, and were accepted.
Contents ==
  IsLoading =>
    /\ \A b \in BlockIds : HeldBlock(b)
    /\ \A b \in BlockIds : TypedBlock(b)
    /\ \A n \in Nets : FlaggedNet(n) /\ ListedNet(n)
    /\ \A o \in Occurrences : Added(o) => AcceptedPin(o)

\* Rows are expected exactly after a .names and the rows that follow it.
FollowsNames(l) ==
  \E k \in 1 .. l - 1 : file[k].kind = "names" /\ \A m \in k + 1 .. l - 1 : file[m].kind = "row"

\* The lines that pass 3 has begun, and what it asks of them.
PassedThird(l) ==
  \/ pass > 3
  \/ pass = 3 /\ (l < linenum \/ (l = linenum /\ pc = "pins"))
AcceptedLine(l) ==
  /\ file[l].kind \notin {"nameless", "unpaired"}
  /\ file[l].kind = "row" /\ FollowsNames(l) => file[l].known
  /\ file[l].kind = "names" => ~ TooWide(file[l])
  /\ file[l].kind \in {"latch", "subckt"} => file[l].known
AcceptedModel(l) ==
  file[l].kind = "model" => file[l].known \/ \A m \in 1 .. l - 1 : file[m].kind # "model"
HasBlock(l) == PadPins # {} \/ \E m \in 1 .. l : BlockLine(m)

\* The lines read so far were accepted, and the rows among them had a block to go to.
LinesAccepted ==
  IsLoading =>
    /\ \A l \in DOMAIN file : PassedThird(l) => AcceptedLine(l)
    /\ \A l \in DOMAIN file : (pass > 0 \/ l < linenum) => AcceptedModel(l)
    /\ \A l \in DOMAIN file : /\ file[l].kind = "names"
                              /\ l + 1 \in DOMAIN file /\ file[l + 1].kind = "row"
                              /\ pass > 3 \/ (pass = 3 /\ l + 1 < linenum)
                              => HasBlock(l)

\* The flag of the rows says whether one is expected.
RowsExpected ==
  /\ pc = "line" => (add_truth_table = TRUE <=> doall = 1 /\ pass = 3 /\ FollowsNames(linenum))
  /\ pc = "pins" => (add_truth_table = TRUE <=> TheLine.kind = "names" /\ doall = 1)

\* The counters of lines are those of the lines before line l, in the passes that count them.
KindBefore(kind, l) == {m \in 1 .. l - 1 : file[m].kind = kind}
Before(kind, l) == Cardinality(KindBefore(kind, l))
LinesCounted ==
  doall = 1 /\ pc \in {"line", "pins", "check"} =>
    /\ model_lines = Before("model", linenum)
    /\ lines.ilines = IF pass = 4 THEN Before("inputs", linenum) ELSE 0
    /\ lines.olines = IF pass = 4 THEN Before("outputs", linenum) ELSE 0
    /\ lines.endlines = IF pass = 4 THEN Before("end", linenum) ELSE 0
    /\ LET models == IF pass = 0 THEN Before("model", linenum) ELSE LinesOf("model")
       IN lines.num_blif_models = IF models = 0 THEN 0 ELSE models - 1
    /\ pc = "check" => linenum = Len(file) + 1 /\ pass = 4

\* The inductive invariant of the loading passes, beside the pin lists and the numbering.
LoadInv == Contents /\ LinesAccepted /\ RowsExpected /\ LinesCounted

\* Every step but the last ones leaves the files as they are.
LEMMA FilesKept ==
  ASSUME [Next]_vars
  PROVE  file' = file
BY DEF Next, vars, input, DumParse, ModelLine, TruthTableRow, IoLine, AddLut, IgnoreLut, AddLatch,
       AddSubckt, StartPins, BadLine, AddPin, BadPin, EndPass, EndCounting, EndLoading, Rewind,
       CheckNet, CheckFails, AddActivity, EndActivity, Stopped, Stop

\* A row is expected on the next line after a .names, and after a row that was expected.
LEMMA FollowsNext ==
  ASSUME NEW l \in Nat \ {0}
  PROVE  /\ FollowsNames(l + 1) <=> file[l].kind = "names" \/ (file[l].kind = "row" /\ FollowsNames(l))
         /\ ~ FollowsNames(1)
<1>1. ASSUME FollowsNames(l + 1), file[l].kind # "names" PROVE file[l].kind = "row" /\ FollowsNames(l)
  <2>1. PICK k \in 1 .. l : file[k].kind = "names" /\ \A m \in k + 1 .. l : file[m].kind = "row"
    BY <1>1 DEF FollowsNames
  <2>2. k # l
    BY <1>1, <2>1
  <2>3. k \in 1 .. l - 1 /\ l \in k + 1 .. l
    BY <2>2
  <2>4. QED
    BY <2>1, <2>3 DEF FollowsNames
<1>2. ASSUME file[l].kind = "names" PROVE FollowsNames(l + 1)
  BY <1>2 DEF FollowsNames
<1>3. ASSUME file[l].kind = "row", FollowsNames(l) PROVE FollowsNames(l + 1)
  <2>1. PICK k \in 1 .. l - 1 : file[k].kind = "names" /\ \A m \in k + 1 .. l - 1 : file[m].kind = "row"
    BY <1>3 DEF FollowsNames
  <2>2. \A m \in k + 1 .. l : m = l \/ m \in k + 1 .. l - 1
    OBVIOUS
  <2>3. QED
    BY <1>3, <2>1, <2>2 DEF FollowsNames
<1>4. ~ FollowsNames(1)
  BY DEF FollowsNames
<1>5. QED
  BY <1>1, <1>2, <1>3, <1>4

\* Every step keeps the flag of the rows right.
LEMMA RowsExpectedNext ==
  ASSUME PinListsInv, PinListsInv', RowsExpected, [Next]_vars
  PROVE  RowsExpected'
<1>1. TypeOK /\ TypeOK' /\ file' = file /\ FlagsTypeOK /\ linenum \in Nat \ {0}
  BY FilesKept DEF PinListsInv, TypeOK, PositionTypeOK
<1>0. /\ linenum' = linenum + 1 =>
           (FollowsNames(linenum)' <=>
              TheLine.kind = "names" \/ (TheLine.kind = "row" /\ FollowsNames(linenum)))
      /\ linenum' = 1 => ~ FollowsNames(linenum)'
  <2>1. \A l : FollowsNames(l)' <=> FollowsNames(l)
    BY <1>1 DEF FollowsNames
  <2>2. FollowsNames(linenum)' <=> FollowsNames(linenum')
    BY <1>1 DEF FollowsNames
  <2>3. QED
    BY <1>1, <2>2, FollowsNext DEF TheLine
<1>2. CASE DumParse
  <2>1. /\ pc' = "line" /\ pc = "line" /\ add_truth_table' = FALSE /\ linenum' = linenum + 1
        /\ pass' = pass /\ doall' = doall
        /\ ~ (pass = 3 /\ TheLine.kind = "names") /\ TheLine.kind # "row"
    BY <1>2 DEF DumParse, NextLine, AtLine, Adds
  <2>2. QED
    BY <1>0, <2>1 DEF RowsExpected
<1>3. CASE ModelLine
  <2>1. /\ pc' = "line" /\ add_truth_table' = FALSE /\ linenum' = linenum + 1
        /\ TheLine.kind \notin {"names", "row"}
    BY <1>3 DEF ModelLine, NextLine, AtLine
  <2>2. QED
    BY <1>0, <2>1 DEF RowsExpected
<1>4. CASE TruthTableRow
  <2>1. /\ pc' = "line" /\ pc = "line" /\ add_truth_table' = add_truth_table /\ linenum' = linenum + 1
        /\ TheLine.kind = "row" /\ pass' = pass /\ doall' = doall
    BY <1>4 DEF TruthTableRow, NextLine, AtLine
  <2>2. QED
    BY <1>0, <2>1 DEF RowsExpected
<1>5. CASE IgnoreLut
  <2>1. /\ pc' = "line" /\ pc = "line" /\ add_truth_table' = (doall = 1) /\ linenum' = linenum + 1
        /\ TheLine.kind = "names" /\ pass' = pass /\ doall' = doall /\ pass = 3
    BY <1>5 DEF IgnoreLut, NextLine, AtLine, Adds
  <2>2. QED
    BY <1>0, <2>1 DEF RowsExpected
<1>6. CASE IoLine \/ AddLut \/ AddLatch \/ AddSubckt
  <2>1. /\ pc = "line" /\ linenum \in DOMAIN file
        /\ TheLine.kind = "names" => TheLine.pins # <<>>
        /\ TheLine.kind # "row"
        /\ \E newBlock : StartPins(newBlock)
    BY <1>6, StartedBlock DEF PassOf, BlockLine, PadLine, TheLine
  <2>2. /\ add_truth_table' = TRUE <=> TheLine.kind = "names" /\ doall = 1
        /\ IF TheLine.pins = <<>> THEN pc' = "line" /\ linenum' = linenum + 1 /\ doall' = doall
           ELSE pc' = "pins" /\ linenum' = linenum /\ doall' = doall
    BY <2>1 DEF StartPins, NextLine
  <2>3. CASE TheLine.pins = <<>>
    BY <1>0, <2>1, <2>2, <2>3 DEF RowsExpected
  <2>4. CASE TheLine.pins # <<>>
    BY <1>1, <2>2, <2>4 DEF RowsExpected, TheLine
  <2>5. QED
    BY <2>3, <2>4
<1>7. CASE AddPin
  <2>1. /\ pc = "pins" /\ add_truth_table' = add_truth_table /\ doall' = doall /\ pass' = pass
        /\ \/ pc' = "line" /\ linenum' = linenum + 1
           \/ pc' = "pins" /\ linenum' = linenum
    BY <1>7 DEF AddPin
  <2>3. CASE pc' = "pins"
    BY <1>1, <2>1, <2>3 DEF RowsExpected, TheLine
  <2>4. CASE pc' = "line"
    <3>1. linenum' = linenum + 1
      BY <2>1, <2>4
    <3>2. (TheLine.kind = "names" => pass = 3) /\ TheLine.kind # "row"
      BY <2>1 DEF PinListsInv, Tracks, PassOf, BlockLine, PadLine, TheLine
    <3>3. QED
      BY <1>0, <2>1, <2>4, <3>1, <3>2 DEF RowsExpected
  <2>5. QED
    BY <2>1, <2>3, <2>4
<1>8. CASE EndPass \/ EndCounting
  BY <1>0, <1>8 DEF EndPass, EndCounting, Rewind, AtEnd, RowsExpected
<1>9. ASSUME pc' \notin {"line", "pins"} PROVE RowsExpected'
  BY <1>9 DEF RowsExpected
<1>10. CASE EndLoading \/ BadLine \/ BadPin \/ CheckNet \/ CheckFails \/ EndActivity
  BY <1>9, <1>10 DEF EndLoading, BadLine, BadPin, CheckNet, CheckFails, EndActivity, Stop
<1>11. CASE AddActivity
  BY <1>9, <1>11 DEF AddActivity
<1>12. CASE UNCHANGED vars
  BY <1>12 DEF vars, input, position, RowsExpected, TheLine, FollowsNames
<1>13. QED
  BY <1>2, <1>3, <1>4, <1>5, <1>6, <1>7, <1>8, <1>10, <1>11, <1>12 DEF Next, Stopped

\* One line further, one more line of its own kind is behind.
LEMMA BeforeStep ==
  ASSUME NEW l \in Nat \ {0}, NEW kind
  PROVE  /\ Before(kind, l) \in Nat
         /\ file[l].kind = kind => Before(kind, l + 1) = Before(kind, l) + 1
         /\ file[l].kind # kind => Before(kind, l + 1) = Before(kind, l)
<1>1. IsFiniteSet(KindBefore(kind, l))
  <2>1. IsFiniteSet(1 .. l - 1) /\ KindBefore(kind, l) \subseteq 1 .. l - 1
    BY FS_Interval DEF KindBefore
  <2>2. QED
    BY <2>1, FS_Subset
<1>2. file[l].kind = kind => KindBefore(kind, l + 1) = KindBefore(kind, l) \cup {l} /\ l \notin KindBefore(kind, l)
  BY DEF KindBefore
<1>3. file[l].kind # kind => KindBefore(kind, l + 1) = KindBefore(kind, l)
  BY DEF KindBefore
<1>4. QED
  BY <1>1, <1>2, <1>3, FS_AddElement, FS_CardinalityType DEF Before

\* The lines of the file are those before its end.
LEMMA BeforeEnds ==
  ASSUME TypeOK, NEW kind
  PROVE  /\ Before(kind, 1) = 0
         /\ Before(kind, Len(file) + 1) = LinesOf(kind)
         /\ LinesOf(kind) \in Nat
<1>1. DOMAIN file = 1 .. Len(file) /\ Len(file) \in Nat
  BY DEF TypeOK, PositionTypeOK, WellTyped
<1>2. KindBefore(kind, 1) = {} /\ KindBefore(kind, Len(file) + 1) = {l \in DOMAIN file : file[l].kind = kind}
  BY <1>1 DEF KindBefore
<1>3. IsFiniteSet({l \in DOMAIN file : file[l].kind = kind})
  <2>1. IsFiniteSet(DOMAIN file) /\ {l \in DOMAIN file : file[l].kind = kind} \subseteq DOMAIN file
    BY <1>1, FS_Interval
  <2>2. QED
    BY <2>1, FS_Subset
<1>4. QED
  BY <1>2, <1>3, FS_EmptySet, FS_CardinalityType DEF Before, LinesOf

\* What a step past a line counts.
Counted(field, field2, counted) == field2 = IF counted THEN field + 1 ELSE field
LineIsCounted ==
  /\ Counted(lines.ilines, lines'.ilines, pass = 4 /\ TheLine.kind = "inputs")
  /\ Counted(lines.olines, lines'.olines, pass = 4 /\ TheLine.kind = "outputs")
  /\ Counted(lines.endlines, lines'.endlines, pass = 4 /\ TheLine.kind = "end")
  /\ Counted(lines.num_blif_models, lines'.num_blif_models,
             pass = 0 /\ TheLine.kind = "model" /\ model_lines > 0)

\* A step past a line that counts it right keeps the counters right.
LEMMA LineCounted ==
  ASSUME PinListsInv, PinListsInv', LinesCounted, file' = file, pass' = pass, doall' = doall,
         linenum' = linenum + 1, pc \in {"line", "pins"}, pc' \in {"line", "pins"},
         doall = 1 => LineIsCounted
  PROVE  LinesCounted'
<1>. SUFFICES ASSUME doall = 1 PROVE LinesCounted'
  BY DEF LinesCounted
<1>. DEFINE seen(kind) == Before(kind, linenum)
<1>1. /\ TypeOK /\ linenum \in Nat \ {0} /\ pass \in 0 .. 4 /\ lines \in LineCounts
  BY DEF PinListsInv, TypeOK, PositionTypeOK
<1>2. \A kind : /\ seen(kind) \in Nat /\ LinesOf(kind) \in Nat /\ LinesOf(kind)' = LinesOf(kind)
                /\ Before(kind, linenum)' = IF TheLine.kind = kind THEN seen(kind) + 1 ELSE seen(kind)
  <2>. TAKE kind
  <2>1. Before(kind, linenum)' = Before(kind, linenum + 1) /\ LinesOf(kind)' = LinesOf(kind)
    BY DEF Before, KindBefore, LinesOf
  <2>2. QED
    BY <1>1, <2>1, BeforeStep, BeforeEnds DEF TheLine
<1>3. model_lines' = Before("model", linenum)' /\ model_lines = seen("model")
  BY DEF PinListsInv, Tracks, Models, Before, KindBefore
<1>. HIDE DEF seen
<1>4. /\ lines.ilines = IF pass = 4 THEN seen("inputs") ELSE 0
      /\ lines.olines = IF pass = 4 THEN seen("outputs") ELSE 0
      /\ lines.endlines = IF pass = 4 THEN seen("end") ELSE 0
      /\ pass = 0 => lines.num_blif_models = IF seen("model") = 0 THEN 0 ELSE seen("model") - 1
      /\ pass # 0 => lines.num_blif_models = IF LinesOf("model") = 0 THEN 0 ELSE LinesOf("model") - 1
  BY DEF LinesCounted, seen
<1>5. /\ lines'.ilines = IF pass = 4 THEN Before("inputs", linenum)' ELSE 0
      /\ lines'.olines = IF pass = 4 THEN Before("outputs", linenum)' ELSE 0
      /\ lines'.endlines = IF pass = 4 THEN Before("end", linenum)' ELSE 0
  BY <1>2, <1>4 DEF LineIsCounted, Counted
<1>6. pass = 0 => lines'.num_blif_models = IF Before("model", linenum)' = 0 THEN 0 ELSE Before("model", linenum)' - 1
  BY <1>2, <1>3, <1>4 DEF LineIsCounted, Counted
<1>7. pass # 0 => lines'.num_blif_models = IF LinesOf("model") = 0 THEN 0 ELSE LinesOf("model") - 1
  BY <1>4 DEF LineIsCounted, Counted
<1>8. QED
  BY <1>2, <1>3, <1>5, <1>6, <1>7 DEF LinesCounted

\* Every step keeps the counters right.
LEMMA LinesCountedNext ==
  ASSUME PinListsInv, PinListsInv', LinesCounted, [Next]_vars
  PROVE  LinesCounted'
<1>1. /\ TypeOK /\ TypeOK' /\ file' = file /\ linenum \in Nat \ {0} /\ pass \in 0 .. 4
      /\ lines \in LineCounts /\ doall \in {0, 1}
      /\ Len(file) \in Nat /\ DOMAIN file = 1 .. Len(file)
      /\ \A kind : Before(kind, 1)' = 0
      /\ \A kind : LinesOf(kind)' = LinesOf(kind) /\ LinesOf(kind) = Before(kind, Len(file) + 1)
      /\ \A kind, l : Before(kind, l)' = Before(kind, l)
  <2>1. TypeOK /\ TypeOK' /\ file' = file
    BY FilesKept DEF PinListsInv
  <2>2. \A kind, l : Before(kind, l)' = Before(kind, l) /\ LinesOf(kind)' = LinesOf(kind)
    BY <2>1 DEF Before, KindBefore, LinesOf
  <2>3. linenum \in Nat \ {0} /\ lines \in LineCounts /\ pass \in 0 .. 4 /\ Len(file) \in Nat
        /\ DOMAIN file = 1 .. Len(file) /\ doall \in {0, 1}
    BY <2>1 DEF TypeOK, PositionTypeOK, WellTyped
  <2>4. QED
    BY <2>1, <2>2, <2>3, BeforeEnds
<1>2. CASE DumParse
  BY <1>1, <1>2, LineCounted
     DEF DumParse, NextLine, AtLine, LineIsCounted, Counted, LastPass, LineCounts
<1>3. CASE ModelLine
  BY <1>1, <1>3, LineCounted
     DEF ModelLine, NextLine, AtLine, LineIsCounted, Counted, ExtraModel, LineCounts
<1>4. CASE TruthTableRow \/ IgnoreLut
  BY <1>1, <1>4, LineCounted DEF TruthTableRow, IgnoreLut, NextLine, AtLine, LineIsCounted, Counted
<1>5. ASSUME UNCHANGED <<file, doall, pass, lines, model_lines, linenum>>, pc' \in {"line", "pins"},
             pc \in {"line", "pins"}
      PROVE  LinesCounted'
  BY <1>1, <1>5 DEF LinesCounted
<1>6. CASE IoLine \/ AddLut \/ AddLatch \/ AddSubckt
  <2>1. /\ pc = "line" /\ PassOf(linenum) = pass /\ (BlockLine(linenum) \/ PadLine(linenum))
        /\ \E newBlock : StartPins(newBlock)
    BY <1>6, StartedBlock
  <2>2. /\ UNCHANGED <<pass, doall, lines, model_lines>> /\ pc' \in {"line", "pins"}
        /\ linenum' = linenum + 1 \/ linenum' = linenum
    BY <2>1 DEF StartPins, NextLine
  <2>3. pass \notin {0, 4} /\ TheLine.kind # "model"
    BY <2>1, PassOfLine DEF PassOf, BlockLine, PadLine, TheLine
  <2>4. QED
    BY <1>1, <1>5, <2>1, <2>2, <2>3, LineCounted DEF LineIsCounted, Counted
<1>7. CASE AddPin
  <2>1. /\ pc = "pins" /\ UNCHANGED <<pass, doall, lines, model_lines>> /\ pc' \in {"line", "pins"}
        /\ linenum' = linenum + 1 \/ linenum' = linenum
    BY <1>7 DEF AddPin
  <2>2. pass \notin {0, 4}
    BY <2>1, PassOfLine DEF PinListsInv, Tracks
  <2>3. QED
    BY <1>1, <1>5, <2>1, <2>2, LineCounted DEF LineIsCounted, Counted
<1>8. CASE EndPass
  <2>1. linenum = Len(file) + 1
    BY <1>1, <1>8 DEF PinListsInv, Tracks, EndPass, AtEnd
  <2>2. QED
    BY <1>1, <1>8, <2>1 DEF EndPass, AtEnd, Rewind, LinesCounted
<1>9. CASE EndCounting
  BY <1>1, <1>9 DEF EndCounting, Rewind, AtEnd, LinesCounted, NoLines
<1>10. CASE EndLoading
  <2>1. linenum = Len(file) + 1
    BY <1>1, <1>10 DEF PinListsInv, Tracks, EndLoading, AtEnd
  <2>2. QED
    BY <1>1, <1>10, <2>1 DEF EndLoading, AtEnd, LinesCounted, position
<1>11. ASSUME pc' \notin {"line", "pins", "check"} PROVE LinesCounted'
  BY <1>11 DEF LinesCounted
<1>12. CASE BadLine \/ BadPin \/ CheckNet \/ CheckFails \/ EndActivity
  BY <1>11, <1>12 DEF BadLine, BadPin, CheckNet, CheckFails, EndActivity, Stop
<1>13. CASE AddActivity
  BY <1>11, <1>13 DEF AddActivity
<1>14. CASE UNCHANGED vars
  BY <1>1, <1>14 DEF vars, input, position, LinesCounted
<1>15. QED
  BY <1>2, <1>3, <1>4, <1>6, <1>7, <1>8, <1>9, <1>10, <1>12, <1>13, <1>14 DEF Next, Stopped

\* The models before a line are finitely many.
LEMMA FiniteModels ==
  ASSUME NEW l \in Nat \ {0}
  PROVE  IsFiniteSet(Models(l))
<1>1. IsFiniteSet(1 .. l - 1) /\ Models(l) \subseteq 1 .. l - 1
  BY FS_Interval DEF Models
<1>2. QED
  BY <1>1, FS_Subset

\* What the line accepted by this step says is kept in every later state.
LEMMA AcceptedUnchanged ==
  ASSUME file' = file
  PROVE  /\ \A l : AcceptedLine(l)' = AcceptedLine(l) /\ AcceptedModel(l)' = AcceptedModel(l)
         /\ \A l : HasBlock(l)' = HasBlock(l)
<1>1. PadPins' = PadPins /\ \A l : BlockLine(l)' = BlockLine(l)
  BY ReferenceUnchanged DEF BlockLine
<1>2. QED
  BY <1>1 DEF AcceptedLine, AcceptedModel, HasBlock, FollowsNames

\* A step past a line that accepts it keeps the lines accepted.
LEMMA LineAccepted ==
  ASSUME PinListsInv, PinListsInv', LinesAccepted, file' = file, pass' = pass, doall' = doall,
         linenum' = linenum + 1, pc \in {"line", "pins"}, pc' = "line", linenum \in DOMAIN file,
         doall = 1 /\ pass = 3 /\ pc = "line" => AcceptedLine(linenum),
         doall = 1 /\ pass = 0 => AcceptedModel(linenum),
         doall = 1 /\ pass = 3 /\ TheLine.kind = "row" =>
           \A l \in DOMAIN file : l + 1 = linenum /\ file[l].kind = "names" => HasBlock(l)
  PROVE  LinesAccepted'
<1>. SUFFICES ASSUME doall = 1 PROVE LinesAccepted'
  BY DEF LinesAccepted, IsLoading
<1>1. /\ linenum \in Nat \ {0} /\ DOMAIN file \subseteq Nat /\ pass \in 0 .. 4
      /\ IsLoading
  BY DEF PinListsInv, TypeOK, PositionTypeOK, WellTyped, IsLoading
<1>2. ASSUME NEW l \in DOMAIN file, PassedThird(l)' PROVE AcceptedLine(l)'
  <2>1. PassedThird(l) \/ (l = linenum /\ pc = "line" /\ pass = 3)
    BY <1>1, <1>2 DEF PassedThird
  <2>2. AcceptedLine(l)
    BY <1>1, <2>1 DEF LinesAccepted
  <2>3. QED
    BY <2>2, AcceptedUnchanged
<1>3. ASSUME NEW l \in DOMAIN file, pass' > 0 \/ l < linenum' PROVE AcceptedModel(l)'
  <2>1. pass > 0 \/ l < linenum \/ (l = linenum /\ pass = 0)
    BY <1>1, <1>3
  <2>2. AcceptedModel(l)
    BY <1>1, <2>1 DEF LinesAccepted
  <2>3. QED
    BY <2>2, AcceptedUnchanged
<1>4. ASSUME NEW l \in DOMAIN file, file[l].kind = "names", l + 1 \in DOMAIN file,
             file[l + 1].kind = "row", pass > 3 \/ (pass = 3 /\ l + 1 < linenum + 1)
      PROVE  HasBlock(l)'
  <2>1. \/ pass > 3 \/ (pass = 3 /\ l + 1 < linenum)
        \/ pass = 3 /\ l + 1 = linenum
    BY <1>1, <1>4
  <2>2. HasBlock(l)
    BY <1>1, <1>4, <2>1 DEF LinesAccepted, TheLine
  <2>3. QED
    BY <2>2, AcceptedUnchanged
<1>5. QED
  BY <1>2, <1>3, <1>4 DEF LinesAccepted

\* A row that is expected has a block to go to: a pad, or a block of an earlier line.
LEMMA RowHasBlock ==
  ASSUME PinListsInv, Numbering, RowsExpected, TruthTableRow, doall = 1, pass = 3,
         NEW l \in DOMAIN file, l + 1 = linenum, file[l].kind = "names"
  PROVE  HasBlock(l)
<1>1. /\ TypeOK /\ pc = "line" /\ TheLine.kind = "row" /\ linenum \in DOMAIN file /\ l \in Nat \ {0}
      /\ linenum \in Nat /\ linenum - 1 = l
      /\ add_truth_table = TRUE => num_logical_blocks > 0
  BY DEF PinListsInv, TypeOK, PositionTypeOK, WellTyped, TruthTableRow, AtLine
<1>2. add_truth_table = TRUE
  BY <1>1, FollowsNext DEF RowsExpected
<1>3. AddedPads # {} \/ BegunLines # {}
  <2>1. num_logical_blocks > 0 /\ num_logical_blocks = Cardinality(AddedPads) + Cardinality(BegunLines)
    BY <1>1, <1>2 DEF Numbering
  <2>2. Cardinality({}) = 0
    BY FS_EmptySet
  <2>3. AddedPads = {} /\ BegunLines = {} => num_logical_blocks = 0 + 0
    BY <2>1, <2>2
  <2>4. QED
    BY <2>1, <2>3
<1>4. ASSUME NEW m \in BegunLines PROVE m \in 1 .. l /\ BlockLine(m)
  <2>1. m \in DOMAIN file /\ m \in Nat /\ BlockLine(m) /\ m < linenum
    BY <1>1 DEF BegunLines, BlockLines, PinListsInv, TypeOK, PositionTypeOK, WellTyped
  <2>2. m \in Nat \ {0}
    BY <1>1, <2>1 DEF TypeOK, PositionTypeOK, WellTyped
  <2>3. QED
    BY <1>1, <2>1, <2>2
<1>5. QED
  BY <1>3, <1>4 DEF HasBlock, AddedPads

\* Every step keeps the lines accepted: a line that is not stops the reader.
LEMMA LinesAcceptedNext ==
  ASSUME PinListsInv, PinListsInv', Numbering, RowsExpected, LinesAccepted, [Next]_vars
  PROVE  LinesAccepted'
<1>1. /\ TypeOK /\ TypeOK' /\ file' = file /\ linenum \in Nat \ {0} /\ pass \in 0 .. 4
      /\ Len(file) \in Nat /\ DOMAIN file = 1 .. Len(file) /\ doall \in {0, 1}
  BY FilesKept DEF PinListsInv, TypeOK, PositionTypeOK, WellTyped
<1>2. CASE DumParse
  BY <1>1, <1>2, LineAccepted
     DEF DumParse, NextLine, AtLine, AcceptedLine, AcceptedModel, TheLine, Adds
<1>3. CASE ModelLine
  <2>1. /\ pc = "line" /\ pc' = "line" /\ linenum \in DOMAIN file /\ TheLine.kind = "model" /\ ~ UnknownModel
        /\ linenum' = linenum + 1 /\ pass' = pass /\ doall' = doall
    BY <1>1, <1>3 DEF ModelLine, NextLine, AtLine
  <2>2. doall = 1 /\ pass = 0 /\ ~ TheLine.known => Models(linenum) = {}
    <3>1. model_lines = Cardinality(Models(linenum))
      BY <2>1 DEF PinListsInv, Tracks
    <3>2. IsFiniteSet(Models(linenum))
      BY <1>1, FiniteModels
    <3>3. model_lines \in Nat
      BY <1>1 DEF TypeOK, PositionTypeOK
    <3>4. QED
      BY <2>1, <3>1, <3>2, <3>3, FS_EmptySet DEF UnknownModel, ExtraModel
  <2>3. doall = 1 /\ pass = 0 => AcceptedModel(linenum)
    BY <2>2 DEF AcceptedModel, Models, TheLine
  <2>4. AcceptedLine(linenum)
    BY <2>1 DEF AcceptedLine, TheLine
  <2>5. QED
    BY <1>1, <2>1, <2>3, <2>4, LineAccepted
<1>4. CASE TruthTableRow
  <2>1. doall = 1 /\ pass = 3 => AcceptedLine(linenum)
    BY <1>4 DEF TruthTableRow, AtLine, AcceptedLine, RowsExpected, TheLine
  <2>2. AcceptedModel(linenum)
    BY <1>4 DEF TruthTableRow, AtLine, AcceptedModel, TheLine
  <2>3. QED
    BY <1>1, <1>4, <2>1, <2>2, LineAccepted, RowHasBlock DEF TruthTableRow, NextLine, AtLine
<1>5. CASE IgnoreLut
  BY <1>1, <1>5, LineAccepted DEF IgnoreLut, NextLine, AtLine, AcceptedLine, AcceptedModel, TheLine
<1>6. CASE IoLine \/ AddLut \/ AddLatch \/ AddSubckt
  <2>1. /\ pc = "line" /\ linenum \in DOMAIN file /\ TheLine.kind \notin {"row", "model"}
        /\ \E newBlock : StartPins(newBlock)
    BY <1>6, StartedBlock DEF PassOf, BlockLine, PadLine, TheLine
  <2>2. doall = 1 => AcceptedLine(linenum)
    BY <1>6 DEF IoLine, AddLut, AddLatch, AddSubckt, UnknownSubckt, AtLine, AcceptedLine, TheLine
  <2>3. /\ pass' = pass /\ doall' = doall
        /\ \/ pc' = "line" /\ linenum' = linenum + 1
           \/ pc' = "pins" /\ linenum' = linenum
    BY <2>1 DEF StartPins, NextLine
  <2>4. CASE pc' = "line"
    BY <1>1, <2>1, <2>2, <2>3, <2>4, LineAccepted DEF AcceptedModel, TheLine
  <2>5. CASE pc' = "pins"
    <3>1. linenum' = linenum
      BY <2>3, <2>5
    <3>2. \A l \in DOMAIN file : PassedThird(l)' => PassedThird(l) \/ l = linenum
      BY <1>1, <2>1, <2>3, <3>1 DEF PassedThird
    <3>3. QED
      BY <1>1, <2>1, <2>2, <2>3, <3>1, <3>2, AcceptedUnchanged DEF LinesAccepted, IsLoading
  <2>6. QED
    BY <2>3, <2>4, <2>5
<1>7. CASE AddPin
  <2>1. /\ pc = "pins" /\ UNCHANGED <<pass, doall>> /\ pc' \in {"line", "pins"}
        /\ \/ pc' = "line" /\ linenum' = linenum + 1
           \/ pc' = "pins" /\ linenum' = linenum
    BY <1>7 DEF AddPin
  <2>2. linenum \in DOMAIN file /\ TheLine.kind \notin {"row", "model"}
    BY <1>1, <2>1 DEF PinListsInv, Tracks, BlockLine, PadLine, TypeOK, PositionTypeOK, TheLine
  <2>3. CASE pc' = "line"
    BY <1>1, <2>1, <2>2, <2>3, LineAccepted DEF AcceptedModel, TheLine
  <2>4. CASE pc' = "pins"
    <3>1. \A l \in DOMAIN file : PassedThird(l)' = PassedThird(l)
      BY <2>1, <2>4 DEF PassedThird
    <3>2. QED
      BY <1>1, <2>1, <2>4, <3>1, AcceptedUnchanged DEF LinesAccepted, IsLoading
  <2>5. QED
    BY <2>1, <2>3, <2>4
<1>8. CASE EndPass \/ EndLoading
  <2>1. /\ pc = "line" /\ linenum > Len(file) /\ doall' = doall
        /\ \/ pass' = pass + 1 /\ linenum' = 1
           \/ pass' = pass /\ pass = 4
    BY <1>8 DEF EndPass, EndLoading, AtEnd, Rewind, position
  <2>2. \A l \in DOMAIN file : /\ l \in Nat /\ l + 1 \in Nat /\ l < linenum /\ ~ (l < 1)
                               /\ l + 1 \in DOMAIN file => l + 1 < linenum /\ ~ (l + 1 < 1)
    BY <1>1, <2>1
  <2>3. \A l \in DOMAIN file : PassedThird(l)' => PassedThird(l)
    BY <1>1, <2>1, <2>2, <1>8 DEF PassedThird, EndPass, EndLoading, position
  <2>4. \A l \in DOMAIN file : l + 1 \in DOMAIN file /\ (pass' > 3 \/ (pass' = 3 /\ l + 1 < linenum')) =>
          pass > 3 \/ (pass = 3 /\ l + 1 < linenum)
    BY <1>1, <2>1, <2>2
  <2>5. doall = 1 => IsLoading
    BY <2>1 DEF IsLoading
  <2>6. QED
    BY <1>1, <2>1, <2>2, <2>3, <2>4, <2>5, AcceptedUnchanged DEF LinesAccepted, IsLoading
<1>9. CASE EndCounting
  <2>1. pass' = 0 /\ linenum' = 1 /\ doall' = 1
    BY <1>9 DEF EndCounting, Rewind
  <2>2. \A l \in DOMAIN file : ~ (l < 1)
    BY <1>1
  <2>3. QED
    BY <1>1, <2>1, <2>2 DEF LinesAccepted, PassedThird
<1>10. ASSUME pc' \notin {"line", "pins", "check"} PROVE LinesAccepted'
  BY <1>10 DEF LinesAccepted, IsLoading
<1>11. CASE BadLine \/ BadPin \/ CheckNet \/ CheckFails \/ EndActivity
  BY <1>10, <1>11 DEF BadLine, BadPin, CheckNet, CheckFails, EndActivity, Stop
<1>12. CASE AddActivity
  BY <1>10, <1>12 DEF AddActivity
<1>13. CASE UNCHANGED vars
  <2>1. UNCHANGED <<file, doall, pass, linenum, pc>>
    BY <1>13 DEF vars, input, position
  <2>2. \A l \in DOMAIN file : PassedThird(l)' = PassedThird(l)
    BY <2>1 DEF PassedThird
  <2>3. QED
    BY <1>1, <2>1, <2>2, AcceptedUnchanged DEF LinesAccepted, IsLoading
<1>14. QED
  BY <1>2, <1>3, <1>4, <1>5, <1>6, <1>7, <1>8, <1>9, <1>11, <1>12, <1>13 DEF Next, Stopped

-----------------------------------------------------------------------------
(* Every block is the block of one line, or of one pad *)

\* The order of loading is a total order of the pins.
LEMMA PinOrder ==
  ASSUME TypeOK, NEW o \in Occurrences, NEW p \in Occurrences
  PROVE  /\ NotAfter(o, o)
         /\ NotAfter(o, p) \/ NotAfter(p, o)
         /\ NotAfter(o, p) /\ NotAfter(p, o) => o = p
         /\ \A q \in Occurrences : NotAfter(q, o) /\ NotAfter(o, p) => NotAfter(q, p)
<1>1. \A q \in Occurrences : /\ q[1] \in Nat /\ q[2] \in Nat /\ q = <<q[1], q[2]>> /\ PassOf(q[1]) \in Nat
  BY OccurrenceType
<1>2. NotAfter(o, o) /\ (NotAfter(o, p) \/ NotAfter(p, o))
  BY <1>1 DEF NotAfter
<1>3. NotAfter(o, p) /\ NotAfter(p, o) => o[1] = p[1] /\ o[2] = p[2]
  BY <1>1 DEF NotAfter
<1>4. ASSUME NEW q \in Occurrences, NotAfter(q, o), NotAfter(o, p) PROVE NotAfter(q, p)
  BY <1>1, <1>4 DEF NotAfter
<1>5. QED
  BY <1>1, <1>2, <1>3, <1>4

\* The block of a pad is its number among the pads.
LEMMA PadPlaces ==
  ASSUME TypeOK, NEW o \in PadPins
  PROVE  /\ Place(o)[1] \in 1 .. Cardinality(PadPins)
         /\ Place(o)[1] = Cardinality({p \in PadPins : NotAfter(p, o)})
         /\ \A p \in PadPins : Place(p)[1] = Place(o)[1] => p = o
<1>. DEFINE Preds(q) == {p \in PadPins : NotAfter(p, q)}
<1>1. \A q \in PadPins : q \in Occurrences /\ Place(q)[1] = Cardinality(Preds(q))
  BY DEF PadPins, Place
<1>2. \A q : IsFiniteSet(Preds(q)) /\ Cardinality(Preds(q)) <= Cardinality(PadPins) /\ Cardinality(Preds(q)) \in Nat
  BY FinitePins, FS_Subset, FS_CardinalityType
<1>3. \A q \in PadPins : q \in Preds(q)
  BY <1>1, PinOrder
<1>4. ASSUME NEW q \in PadPins, NEW p \in PadPins, NotAfter(p, q), Cardinality(Preds(p)) = Cardinality(Preds(q))
      PROVE  p = q
  <2>1. Preds(p) \subseteq Preds(q)
    BY <1>1, <1>4, PinOrder
  <2>2. Preds(p) = Preds(q)
    BY <1>2, <1>4, <2>1, FS_Subset
  <2>3. q \in Preds(p)
    BY <1>3, <2>2
  <2>4. QED
    BY <1>1, <1>4, <2>3, PinOrder
<1>5. Cardinality(Preds(o)) # 0
  BY <1>2, <1>3, FS_EmptySet
<1>6. Place(o)[1] \in 1 .. Cardinality(PadPins)
  BY <1>1, <1>2, <1>5, FinitePins
<1>. HIDE DEF Preds
<1>7. ASSUME NEW p \in PadPins, Place(p)[1] = Place(o)[1] PROVE p = o
  BY <1>1, <1>4, <1>7, PinOrder
<1>8. QED
  BY <1>1, <1>6, <1>7 DEF Preds

\* The block of a line is after the pads, and after the blocks of the lines before it.
LEMMA LinePlaces ==
  ASSUME TypeOK, NEW l \in BlockLines
  PROVE  /\ BlockOfLine(l) \in Nat /\ BlockOfLine(l) > Cardinality(PadPins)
         /\ \A m \in BlockLines : BlockOfLine(m) = BlockOfLine(l) => m = l
<1>. DEFINE Upto(m) == {k \in BlockLines : k <= m}
<1>1. \A m \in BlockLines : m \in DOMAIN file /\ m \in Nat /\ BlockOfLine(m) = Cardinality(PadPins) + Cardinality(Upto(m))
  BY BlockOfBegun DEF BlockLines, TypeOK, PositionTypeOK, WellTyped
<1>0. \A m \in BlockLines : m \in Nat
  BY <1>1
<1>2. \A m : IsFiniteSet(Upto(m)) /\ Cardinality(Upto(m)) \in Nat
  BY FinitePins, FS_Subset, FS_CardinalityType
<1>3. \A m \in BlockLines : m \in Upto(m)
  BY <1>0
<1>4. ASSUME NEW m \in BlockLines, NEW k \in BlockLines, m <= k, Cardinality(Upto(m)) = Cardinality(Upto(k))
      PROVE  m = k
  <2>1. Upto(m) \subseteq Upto(k)
    BY <1>0, <1>4
  <2>2. Upto(m) = Upto(k)
    BY <1>2, <1>4, <2>1, FS_Subset
  <2>3. k \in Upto(m)
    BY <1>3, <2>2
  <2>4. QED
    BY <1>0, <1>4, <2>3
<1>5. Cardinality(Upto(l)) # 0 /\ Cardinality(PadPins) \in Nat
  BY <1>2, <1>3, FS_EmptySet, FinitePins
<1>. HIDE DEF Upto
<1>6. ASSUME NEW m \in BlockLines, BlockOfLine(m) = BlockOfLine(l) PROVE m = l
  <2>1. Cardinality(Upto(m)) = Cardinality(Upto(l))
    BY <1>1, <1>2, <1>5, <1>6
  <2>2. m <= l \/ l <= m
    BY <1>1
  <2>3. QED
    BY <1>4, <2>1, <2>2
<1>7. BlockOfLine(l) \in Nat /\ BlockOfLine(l) > Cardinality(PadPins)
  BY <1>1, <1>2, <1>5
<1>8. QED
  BY <1>6, <1>7

\* The block of a pin: the pins of a line are on one block, and a pad is alone on its own.
LEMMA PinPlaces ==
  ASSUME TypeOK, NEW o \in Occurrences
  PROVE  /\ PadLine(o[1]) => o \in PadPins /\ ~ BlockLine(o[1])
         /\ ~ PadLine(o[1]) => o[1] \in BlockLines /\ BlockLine(o[1]) /\ Place(o)[1] = BlockOfLine(o[1])
         /\ Place(o)[2] = PinAt(o).slot
         /\ Place(o) = <<Place(o)[1], Place(o)[2]>>
<1>1. o[1] \in DOMAIN file /\ (BlockLine(o[1]) \/ PadLine(o[1]))
  BY OccurrenceType
<1>2. QED
  BY <1>1, PassOfLine DEF PadPins, BlockLines, Place

\* Two pins are on one block when they are one pin of a pad, or on one line.
LEMMA SameBlock ==
  ASSUME TypeOK, NEW o \in Occurrences, NEW p \in Occurrences
  PROVE  Place(o)[1] = Place(p)[1] <=> o = p \/ (BlockLine(o[1]) /\ o[1] = p[1])
<1>1. CASE PadLine(o[1]) /\ PadLine(p[1])
  BY <1>1, PinPlaces, PadPlaces
<1>2. CASE ~ PadLine(o[1]) /\ ~ PadLine(p[1])
  BY <1>2, PinPlaces, LinePlaces
<1>3. ASSUME NEW x \in Occurrences, NEW y \in Occurrences, PadLine(x[1]), ~ PadLine(y[1])
      PROVE  Place(x)[1] # Place(y)[1] /\ x # y /\ x[1] # y[1]
  <2>1. x \in PadPins /\ y[1] \in BlockLines /\ Place(y)[1] = BlockOfLine(y[1])
    BY <1>3, PinPlaces
  <2>2. Place(x)[1] \in 1 .. Cardinality(PadPins) /\ Cardinality(PadPins) \in Nat
    BY <2>1, PadPlaces, FinitePins
  <2>3. BlockOfLine(y[1]) \in Nat /\ BlockOfLine(y[1]) > Cardinality(PadPins)
    BY <2>1, LinePlaces
  <2>4. QED
    BY <1>3, <2>1, <2>2, <2>3
<1>4. QED
  BY <1>1, <1>2, <1>3

\* A pin that has been added is on a block that exists.
LEMMA AddedPlace ==
  ASSUME PinListsInv, Numbering, pc \in {"line", "pins"}, NEW o \in Occurrences, Added(o)
  PROVE  Place(o)[1] \in 1 .. num_logical_blocks
<1>1. /\ TypeOK /\ pass \in Nat /\ linenum \in Nat
      /\ num_logical_blocks = Cardinality(AddedPads) + Cardinality(BegunLines)
  BY DEF PinListsInv, TypeOK, PositionTypeOK, Numbering
<1>2. CASE PadLine(o[1])
  <2>1. o \in PadPins
    BY <1>1, <1>2, PinPlaces
  <2>. DEFINE B == {p \in PadPins : NotAfter(p, o)}
  <2>2. B \subseteq AddedPads
    <3>. SUFFICES ASSUME NEW p \in PadPins, NotAfter(p, o) PROVE Added(p)
      BY DEF AddedPads
    <3>1. /\ p[1] \in Nat /\ p[2] \in Nat /\ PassOf(p[1]) \in Nat /\ PadLine(p[1])
          /\ o[1] \in Nat /\ o[2] \in Nat /\ PassOf(o[1]) \in Nat
      BY <1>1, OccurrenceType DEF PadPins
    <3>2. o[1] = linenum => PinNumber(o[2]) = o[2] /\ PinNumber(p[2]) = p[2]
      BY <1>2 DEF PinNumber, LoadsQFirst, TheLine, PadLine
    <3>3. pin \in Nat
      BY <1>1 DEF TypeOK, PositionTypeOK
    <3>4. QED
      BY <1>1, <3>1, <3>2, <3>3 DEF Added, NotAfter
  <2>3. Place(o)[1] = Cardinality(B) /\ Place(o)[1] \in 1 .. Cardinality(PadPins)
    BY <1>1, <2>1, PadPlaces
  <2>. HIDE DEF B
  <2>4. Cardinality(B) <= Cardinality(AddedPads) /\ Cardinality(AddedPads) \in Nat /\ Cardinality(BegunLines) \in Nat
    BY <1>1, <2>2, BlocksSoFar, FS_Subset
  <2>5. QED
    BY <1>1, <2>3, <2>4, FinitePins
<1>3. CASE ~ PadLine(o[1])
  <2>1. o[1] \in BlockLines /\ Place(o)[1] = BlockOfLine(o[1]) /\ BlockLine(o[1])
    BY <1>1, <1>3, PinPlaces
  <2>2. PassOf(o[1]) = 3 /\ o[1] \in Nat /\ o[2] \in Nat \ {0} /\ o[2] \in DOMAIN file[o[1]].pins
    BY <1>1, <2>1, OccurrenceType, PassOfLine
  <2>3. o[1] \in BegunLines
    <3>1. CASE pass > 3 \/ o[1] < linenum
      BY <1>1, <2>1, <2>2, <3>1 DEF Added, BegunLines
    <3>2. CASE pass = 3 /\ o[1] = linenum /\ PinNumber(o[2]) <= pin
      <4>1. PinNumber(o[2]) \in Nat \ {0}
        BY <2>2, <3>2 DEF PinNumber
      <4>2. pin # 0 /\ pin \in Nat /\ (pc = "line" => pin = 0)
        BY <1>1, <3>2, <4>1 DEF TypeOK, PositionTypeOK
      <4>3. QED
        BY <2>1, <3>2, <4>2 DEF BegunLines
    <3>3. QED
      BY <1>1, <2>2, <3>1, <3>2 DEF Added
  <2>4. QED
    BY <2>1, <2>3, BegunBlock
<1>4. QED
  BY <1>2, <1>3

-----------------------------------------------------------------------------
(* The blocks and the flags hold what was added *)

\* The order and the places of the pins are the file's.
LEMMA FileOrder ==
  ASSUME file' = file
  PROVE  /\ Occurrences' = Occurrences /\ PadPins' = PadPins /\ BlockLines' = BlockLines
         /\ \A o : Place(o)' = Place(o) /\ PinAt(o)' = PinAt(o) /\ TypeOfPad(o)' = TypeOfPad(o)
         /\ \A o, p : NotAfter(o, p)' = NotAfter(o, p)
         /\ \A l : BlockOfLine(l)' = BlockOfLine(l) /\ TypeOfLine(l)' = TypeOfLine(l)
         /\ \A o : AcceptedPin(o)' = AcceptedPin(o)
<1>1. /\ Occurrences' = Occurrences /\ PadPins' = PadPins /\ BlockLines' = BlockLines
      /\ \A l : BlockLine(l)' = BlockLine(l)
  BY ReferenceUnchanged, FileUnchanged
<1>2. /\ \A o : Place(o)' = Place(o) /\ PinAt(o)' = PinAt(o)
      /\ \A l : PassOf(l)' = PassOf(l)
  BY PlaceUnchanged, FileUnchanged
<1>3. \A o, p : NotAfter(o, p)' = NotAfter(o, p)
  BY <1>2 DEF NotAfter
<1>4. \A l : BlockOfLine(l)' = BlockOfLine(l)
  BY <1>1 DEF BlockOfLine
<1>5. \A o : AcceptedPin(o)' = AcceptedPin(o)
  BY <1>1, <1>2 DEF AcceptedPin
<1>6. QED
  BY <1>1, <1>2, <1>3, <1>4, <1>5 DEF TypeOfPad, TypeOfLine

\* A block that the step does not touch holds what it held.
LEMMA BlockHeldKept ==
  ASSUME file' = file, NEW b, HeldBlock(b),
         \A role : PinsIn(b, role)' = PinsIn(b, role),
         logical_block'[b].ins = logical_block[b].ins,
         logical_block'[b].outs = logical_block[b].outs,
         logical_block'[b].clk = logical_block[b].clk,
         logical_block'[b].nin = logical_block[b].nin,
         logical_block'[b].nout = logical_block[b].nout
  PROVE  HeldBlock(b)'
<1>1. \A role, s : AtSlot(b, role, s)' = AtSlot(b, role, s)
  BY FileOrder DEF AtSlot
<1>2. \A role : Used(PinsIn(b, role))' = Used(PinsIn(b, role))
  BY FileOrder DEF Used
<1>3. \A s \in Slots : InsHeld(b, s)' = InsHeld(b, s) /\ OutsHeld(b, s)' = OutsHeld(b, s)
  BY <1>1, FileOrder DEF InsHeld, OutsHeld, Holds, Last
<1>4. ClkHeld(b)' = ClkHeld(b)
  BY FileOrder DEF ClkHeld, Holds, Last
<1>5. QED
  BY <1>2, <1>3, <1>4 DEF HeldBlock

\* A net whose pins are as they were keeps its flag and its entries.
LEMMA NetHeldKept ==
  ASSUME file' = file, NEW n, FlaggedNet(n), ListedNet(n), AddedPins(n)' = AddedPins(n),
         is_global'[n] = is_global[n], num_sinks'[n] = num_sinks[n], node_block'[n] = node_block[n]
  PROVE  FlaggedNet(n)' /\ ListedNet(n)'
<1>1. AddedSinks(n)' = AddedSinks(n)
  BY FileOrder DEF AddedSinks
<1>2. ListedNet(n)'
  BY <1>1, FileOrder DEF ListedNet
<1>3. FlaggedNet(n)'
  BY FileOrder DEF FlaggedNet, Last
<1>4. QED
  BY <1>2, <1>3

\* The pins of the blocks are as they were when no pin is added.
LEMMA PinsInKept ==
  ASSUME file' = file, \A o \in Occurrences : Added(o)' = Added(o)
  PROVE  /\ \A b, role : PinsIn(b, role)' = PinsIn(b, role)
         /\ \A n : AddedPins(n)' = AddedPins(n)
         /\ AddedPads' = AddedPads
<1>1. \A b, role : PinsIn(b, role)' = PinsIn(b, role)
  BY FileOrder DEF PinsIn
<1>2. \A n : AddedPins(n)' = AddedPins(n)
  BY AddedPinsKept
<1>3. AddedPads' = AddedPads
  BY FileOrder DEF AddedPads, PadPins
<1>4. QED
  BY <1>1, <1>2, <1>3

\* Steps that add no pin and no block.
LEMMA ContentsKept ==
  ASSUME Contents, IsLoading, file' = file, \A o \in Occurrences : Added(o)' = Added(o),
         BegunLines \subseteq BegunLines', BlockIds' = BlockIds,
         UNCHANGED <<is_global, num_sinks, node_block>>,
         \A b \in BlockIds : /\ logical_block'[b].ins = logical_block[b].ins
                             /\ logical_block'[b].outs = logical_block[b].outs
                             /\ logical_block'[b].clk = logical_block[b].clk
                             /\ logical_block'[b].nin = logical_block[b].nin
                             /\ logical_block'[b].nout = logical_block[b].nout
                             /\ logical_block'[b].type = logical_block[b].type
  PROVE  Contents'
<1>1. ASSUME NEW b \in BlockIds' PROVE HeldBlock(b)'
  BY PinsInKept, BlockHeldKept DEF Contents
<1>2. ASSUME NEW b \in BlockIds' PROVE TypedBlock(b)'
  <2>1. TypedBlock(b) /\ logical_block'[b].type = logical_block[b].type
    BY DEF Contents
  <2>2. QED
    BY <2>1, PinsInKept, FileOrder DEF TypedBlock
<1>3. ASSUME NEW n \in Nets PROVE FlaggedNet(n)' /\ ListedNet(n)'
  BY PinsInKept, NetHeldKept DEF Contents
<1>4. \A o \in Occurrences' : Added(o)' => AcceptedPin(o)'
  BY FileOrder DEF Contents
<1>5. QED
  BY <1>1, <1>2, <1>3, <1>4 DEF Contents

\* A pin that is not added yet, or whose block does not exist, is on no block so far.
LEMMA NewBlockEmpty ==
  ASSUME PinListsInv, Numbering, pc \in {"line", "pins"}, NEW b, b = num_logical_blocks + 1
  PROVE  \A role : PinsIn(b, role) = {}
<1>1. num_logical_blocks \in Nat
  BY DEF PinListsInv, TypeOK, BlocksTypeOK
<1>2. \A o \in Occurrences : Added(o) => Place(o)[1] # b
  BY <1>1, AddedPlace
<1>3. QED
  BY <1>2 DEF PinsIn

\* The block that a line begins is the one of the line.
LEMMA StartedNumber ==
  ASSUME PinListsInv, Numbering, pc = "line", linenum \in DOMAIN file, BlockLine(linenum),
         PassOf(linenum) = pass, NEW new, StartPins(new), Len(new) = 1
  PROVE  /\ num_logical_blocks' = num_logical_blocks + 1
         /\ num_logical_blocks' = BlockOfLine(linenum)
         /\ BegunLines' = BegunLines \cup {linenum}
<1>1. /\ TypeOK /\ DOMAIN file = 1 .. Len(file) /\ Len(file) \in Nat /\ pass = 3
      /\ BegunLines' = BegunLines \cup {linenum} /\ linenum \notin BegunLines
      /\ num_logical_blocks' = num_logical_blocks + 1
  <2>1. TypeOK /\ DOMAIN file = 1 .. Len(file) /\ Len(file) \in Nat
    BY DEF PinListsInv, TypeOK, PositionTypeOK, WellTyped
  <2>2. pass = 3 /\ BegunLines' = BegunLines \cup {linenum} /\ linenum \notin BegunLines
    BY StartBegins, PassOfLine
  <2>3. num_logical_blocks' = num_logical_blocks + 1
    BY DEF StartPins
  <2>4. QED
    BY <2>1, <2>2, <2>3
<1>2. {m \in BlockLines : m <= linenum} = BegunLines \cup {linenum}
  BY <1>1 DEF BegunLines, BlockLines
<1>3. Cardinality(BegunLines \cup {linenum}) = Cardinality(BegunLines) + 1
  BY <1>1, BlocksSoFar, FS_AddElement
<1>4. AddedPads = PadPins
  BY <1>1, PassOfLine DEF AddedPads, PadPins, Added
<1>5. num_logical_blocks = Cardinality(PadPins) + Cardinality(BegunLines)
  BY <1>4 DEF Numbering
<1>6. BlockOfLine(linenum) = Cardinality(PadPins) + (Cardinality(BegunLines) + 1)
  BY <1>1, <1>2, <1>3, BlockOfBegun
<1>7. Cardinality(PadPins) \in Nat /\ Cardinality(BegunLines) \in Nat
  BY <1>1, FinitePins, BlocksSoFar
<1>8. QED
  BY <1>1, <1>5, <1>6, <1>7

\* A line begins: its block is empty, and of its type.
LEMMA ContentsStarted ==
  ASSUME PinListsInv, PinListsInv', Numbering, Contents, doall = 1,
         IoLine \/ AddLut \/ AddLatch \/ AddSubckt
  PROVE  Contents'
<1>1. /\ TypeOK /\ pc = "line" /\ linenum \in DOMAIN file
      /\ (BlockLine(linenum) \/ PadLine(linenum)) /\ PassOf(linenum) = pass
      /\ logical_block \in Seq(Block) /\ num_logical_blocks \in Nat
      /\ Len(logical_block) = num_logical_blocks /\ IsLoading
  BY StartedBlock DEF PinListsInv, TypeOK, BlocksTypeOK, Numbering, IsLoading
<1>2. \/ ~ BlockLine(linenum) /\ StartPins(<<>>)
      \/ BlockLine(linenum) /\ StartPins(<<NewBlock(TypeOfLine(linenum))>>)
  <2>1. CASE IoLine
    <3>1. ~ BlockLine(linenum) /\ StartPins(<<>>)
      BY <2>1 DEF IoLine, AtLine, BlockLine, TheLine
    <3>2. QED
      BY <3>1
  <2>2. CASE AddLut
    <3>1. TypeOfLine(linenum) = "LUT" /\ BlockLine(linenum)
      BY <2>2 DEF AddLut, AtLine, BlockLine, TheLine, TypeOfLine
    <3>2. QED
      BY <2>2, <3>1 DEF AddLut
  <2>3. CASE AddLatch
    <3>1. TypeOfLine(linenum) = "LATCH" /\ BlockLine(linenum)
      BY <2>3 DEF AddLatch, AtLine, BlockLine, TheLine, TypeOfLine
    <3>2. QED
      BY <2>3, <3>1 DEF AddLatch
  <2>4. CASE AddSubckt
    <3>1. TypeOfLine(linenum) = "SUBCKT" /\ BlockLine(linenum)
      BY <2>4 DEF AddSubckt, AtLine, BlockLine, TheLine, TypeOfLine
    <3>2. QED
      BY <2>4, <3>1 DEF AddSubckt
  <2>5. QED
    BY <2>1, <2>2, <2>3, <2>4
<1>3. CASE ~ BlockLine(linenum)
  <2>1. StartPins(<<>>) /\ PadLine(linenum)
    BY <1>1, <1>2, <1>3
  <2>2. /\ file' = file /\ logical_block' = logical_block /\ UNCHANGED <<is_global, num_sinks, node_block>>
    BY <1>1, <2>1, ConcatEmptySeq DEF StartPins, input, nets
  <2>3. \A o \in Occurrences : Added(o)' = Added(o)
    BY <1>1, <2>1, StartAddsNone
  <2>4. BegunLines' = BegunLines
    BY <1>1, <2>1, StartBegins
  <2>5. QED
    BY <1>1, <2>2, <2>3, <2>4, ContentsKept DEF BlockIds
<1>4. CASE BlockLine(linenum)
  <2>. DEFINE type == TypeOfLine(linenum)
              new == <<NewBlock(type)>>
  <2>1. StartPins(new)
    BY <1>2, <1>4
  <2>2. type \in Types
    BY DEF TypeOfLine, Types
  <2>3. new \in Seq(Block) /\ Len(new) = 1 /\ new[1] = NewBlock(type)
    BY <2>2, NewBlockType
  <2>. HIDE DEF type
  <2>4. /\ file' = file /\ logical_block' = logical_block \o new
        /\ UNCHANGED <<is_global, num_sinks, node_block>>
    BY <1>1, <2>1 DEF StartPins, input, nets
  <2>5. /\ num_logical_blocks' = num_logical_blocks + 1
        /\ num_logical_blocks' = BlockOfLine(linenum)
        /\ BegunLines' = BegunLines \cup {linenum}
    BY <1>1, <1>4, <2>1, <2>3, StartedNumber
  <2>6. \A o \in Occurrences : Added(o)' = Added(o)
    BY <1>1, <2>1, StartAddsNone
  <2>. DEFINE n == num_logical_blocks + 1
  <2>7. /\ BlockIds = 1 .. num_logical_blocks /\ BlockIds' = BlockIds \cup {n}
        /\ \A b \in BlockIds : logical_block'[b] = logical_block[b]
        /\ logical_block'[n] = NewBlock(type)
    <3>1. /\ DOMAIN logical_block = 1 .. num_logical_blocks
          /\ DOMAIN (logical_block \o new) = 1 .. num_logical_blocks + 1
          /\ \A b \in 1 .. num_logical_blocks : (logical_block \o new)[b] = logical_block[b]
          /\ (logical_block \o new)[num_logical_blocks + 1] = new[1]
      BY <1>1, <2>3, ConcatProperties, LenProperties
    <3>. HIDE DEF new
    <3>2. QED
      BY <1>1, <2>3, <2>4, <3>1 DEF BlockIds
  <2>. HIDE DEF new
  <2>9. ASSUME NEW b \in BlockIds' PROVE HeldBlock(b)'
    <3>1. CASE b \in BlockIds
      BY <1>1, <2>4, <2>6, <2>7, <3>1, PinsInKept, BlockHeldKept DEF Contents
    <3>2. CASE b = n
      <4>0. \A role : PinsIn(b, role) = {}
        BY <1>1, <3>2, NewBlockEmpty
      <4>1. \A role : PinsIn(b, role)' = {}
        BY <2>4, <2>6, <4>0, PinsInKept
      <4>2. \A role, s : AtSlot(b, role, s)' = {}
        BY <4>1 DEF AtSlot
      <4>3. \A role : Used(PinsIn(b, role))' = {}
        BY <4>1 DEF Used
      <4>4. /\ \A s \in Slots : logical_block'[b].ins[s] = OPEN /\ logical_block'[b].outs[s] = OPEN
            /\ logical_block'[b].clk = OPEN /\ logical_block'[b].nin = 0 /\ logical_block'[b].nout = 0
        BY <2>7, <3>2 DEF NewBlock
      <4>5. \A s \in Slots : InsHeld(b, s)' /\ OutsHeld(b, s)'
        BY <4>2, <4>4 DEF InsHeld, OutsHeld, Holds
      <4>6. QED
        BY <4>1, <4>3, <4>4, <4>5, FS_EmptySet DEF HeldBlock, ClkHeld, Holds
    <3>3. QED
      BY <2>7, <3>1, <3>2
  <2>10. ASSUME NEW b \in BlockIds' PROVE TypedBlock(b)'
    <3>1. CASE b \in BlockIds
      <4>1. TypedBlock(b) /\ logical_block'[b].type = logical_block[b].type
        BY <1>1, <2>7, <3>1 DEF Contents
      <4>2. QED
        BY <2>4, <2>5, <2>6, <4>1, PinsInKept, FileOrder DEF TypedBlock
    <3>2. CASE b = n
      <4>1. /\ linenum \in BegunLines' /\ b = BlockOfLine(linenum) /\ logical_block'[b].type = type
        BY <2>5, <2>7, <3>2 DEF NewBlock
      <4>2. \A l : BlockOfLine(l)' = BlockOfLine(l) /\ TypeOfLine(l)' = TypeOfLine(l)
        BY <2>4, FileOrder
      <4>3. \E l \in BegunLines' : b = BlockOfLine(l) /\ logical_block'[b].type = TypeOfLine(l)
        BY <4>1 DEF type
      <4>4. QED
        BY <4>2, <4>3 DEF TypedBlock
    <3>3. QED
      BY <2>7, <3>1, <3>2
  <2>11. ASSUME NEW m \in Nets PROVE FlaggedNet(m)' /\ ListedNet(m)'
    BY <1>1, <2>4, <2>6, PinsInKept, NetHeldKept DEF Contents
  <2>12. \A o \in Occurrences' : Added(o)' => AcceptedPin(o)'
    BY <1>1, <2>4, <2>6, FileOrder DEF Contents
  <2>13. QED
    BY <2>9, <2>10, <2>11, <2>12 DEF Contents
<1>5. QED
  BY <1>3, <1>4

\* The pin is connected to the block of its line, or to a new block, its pad.
LEMMA PinConnected ==
  ASSUME PinListsInv, Numbering, AddPin, doall = 1, NEW b, b = PinBlock
  PROVE  \E block \in Block :
           /\ IF IsPad THEN /\ b = num_logical_blocks + 1 /\ b \notin BlockIds
                            /\ block = NewBlock(PadType) /\ BlockIds' = BlockIds \cup {b}
                       ELSE b \in BlockIds /\ block = logical_block[b] /\ BlockIds' = BlockIds
           /\ logical_block'[b] = Connected(block, ThePin)
           /\ \A c \in BlockIds \ {b} : logical_block'[c] = logical_block[c]
<1>. DEFINE p == ThePin
            new == NewBlock(PadType)
            blocks == IF IsPad THEN Append(logical_block, new) ELSE logical_block
<1>1. /\ TypeOK /\ pc = "pins" /\ logical_block \in Seq(Block) /\ num_logical_blocks \in Nat
      /\ Len(logical_block) = num_logical_blocks
      /\ BlockIds = 1 .. num_logical_blocks
  <2>1. /\ TypeOK /\ pc = "pins" /\ logical_block \in Seq(Block) /\ num_logical_blocks \in Nat
        /\ Len(logical_block) = num_logical_blocks
    BY DEF AddPin, PinListsInv, TypeOK, BlocksTypeOK, Numbering
  <2>2. QED
    BY <2>1, LenProperties DEF BlockIds
<1>2. new \in Block
  BY NewBlockType DEF PadType, Types
<1>3. logical_block' = [blocks EXCEPT ![b] = Connected(@, p)]
  BY DEF AddPin
<1>. HIDE DEF new, p
<1>4. CASE IsPad
  <2>1. b = num_logical_blocks + 1 /\ blocks = Append(logical_block, new)
    BY <1>4 DEF PinBlock
  <2>2. /\ DOMAIN Append(logical_block, new) = 1 .. num_logical_blocks + 1
        /\ Append(logical_block, new)[num_logical_blocks + 1] = new
        /\ \A c \in 1 .. num_logical_blocks : Append(logical_block, new)[c] = logical_block[c]
    BY <1>1, <1>2, AppendProperties, LenProperties
  <2>. HIDE DEF blocks
  <2>3. /\ BlockIds' = 1 .. num_logical_blocks + 1
        /\ logical_block'[b] = Connected(new, p)
        /\ \A c \in BlockIds : c # b => logical_block'[c] = logical_block[c]
    <3>1. DOMAIN blocks = 1 .. num_logical_blocks + 1 /\ b \in DOMAIN blocks /\ blocks[b] = new
      BY <1>1, <2>1, <2>2
    <3>2. /\ DOMAIN logical_block' = DOMAIN blocks
          /\ logical_block'[b] = Connected(blocks[b], p)
          /\ \A c \in DOMAIN blocks : c # b => logical_block'[c] = blocks[c]
      BY <1>3, <3>1
    <3>3. \A c \in BlockIds : c \in DOMAIN blocks /\ blocks[c] = logical_block[c]
      BY <1>1, <2>1, <2>2, <3>1
    <3>4. QED
      BY <3>1, <3>2, <3>3 DEF BlockIds
  <2>4. b \notin BlockIds /\ BlockIds' = BlockIds \cup {b}
    BY <1>1, <2>1, <2>3
  <2>5. QED
    BY <1>2, <1>4, <2>1, <2>3, <2>4 DEF new, p
<1>5. CASE ~ IsPad
  <2>1. BegunLines # {}
    BY <1>5, AddBegins
  <2>2. b \in BlockIds
    BY <1>1, <1>5, <2>1, BegunBlock DEF PinBlock
  <2>3. /\ BlockIds' = BlockIds
        /\ logical_block'[b] = Connected(logical_block[b], p)
        /\ \A c \in BlockIds : c # b => logical_block'[c] = logical_block[c]
    BY <1>1, <1>3, <1>5, <2>2 DEF BlockIds
  <2>4. logical_block[b] \in Block
    BY <1>1, <2>2 DEF BlockIds
  <2>5. QED
    BY <1>5, <2>2, <2>3, <2>4 DEF p
<1>6. QED
  BY <1>4, <1>5

\* The pin is one more of the pins of its block and role, and the last of them.
LEMMA PinLanded ==
  ASSUME PinListsInv, Numbering, AddPin, doall = 1, NEW b, b = PinBlock, NEW t, t = TheOccurrence
  PROVE  /\ t \in Occurrences /\ PinAt(t) = ThePin /\ Place(t) = <<b, ThePin.slot>>
         /\ ThePin \in Pin /\ ThePin.role \in {"in", "out", "clk"} /\ file' = file
         /\ t[1] = linenum /\ ~ Added(t)
         /\ \A o \in Occurrences : Added(o)' <=> Added(o) \/ o = t
         /\ \A c, role : PinsIn(c, role)' =
              IF c = b /\ role = ThePin.role THEN PinsIn(c, role) \cup {t} ELSE PinsIn(c, role)
         /\ \A o \in PinsIn(b, ThePin.role) : NotAfter(o, t)
         /\ \A role : t \notin PinsIn(b, role)
         /\ IsPad => \A role : PinsIn(b, role) = {}
<1>1. /\ t \in Occurrences /\ PinAt(t) = ThePin /\ ~ Added(t)
      /\ \A o \in Occurrences : Added(o)' <=> Added(o) \/ o = t
  BY PinAddedNow
<1>2. Place(t) = <<b, ThePin.slot>>
  BY EntryIsPlace DEF PinEntry
<1>3. file' = file /\ pc = "pins" /\ TypeOK /\ t[1] = linenum
  BY DEF AddPin, input, PinListsInv, TheOccurrence
<1>4. ThePin \in Pin
  BY <1>3, ThePinType
<1>5. ThePin.role \in {"in", "out", "clk"}
  BY <1>4 DEF AddPin, Refused, Pin, Roles
<1>6. \A c, role : PinsIn(c, role)' =
              IF c = b /\ role = ThePin.role THEN PinsIn(c, role) \cup {t} ELSE PinsIn(c, role)
  <2>. TAKE c, role
  <2>1. PinsIn(c, role)' = {o \in Occurrences : (Added(o) \/ o = t) /\ Place(o)[1] = c /\ PinAt(o).role = role}
    BY <1>1, <1>3, FileOrder DEF PinsIn
  <2>2. Place(t)[1] = b
    BY <1>2
  <2>3. QED
    BY <1>1, <2>1, <2>2 DEF PinsIn
<1>7. \A o \in PinsIn(b, ThePin.role) : NotAfter(o, t)
  BY <1>1, AddedBefore DEF PinsIn
<1>8. \A role : t \notin PinsIn(b, role)
  BY <1>1 DEF PinsIn
<1>9. ASSUME IsPad PROVE \A role : PinsIn(b, role) = {}
  <2>1. b = num_logical_blocks + 1
    BY <1>9 DEF PinBlock
  <2>2. QED
    BY <1>3, <2>1, NewBlockEmpty
<1>10. QED
  BY <1>1, <1>2, <1>3, <1>4, <1>5, <1>6, <1>7, <1>8, <1>9

\* What a connected pin changes in the block.
LEMMA ConnectedPin ==
  ASSUME NEW block \in Block, NEW p \in Pin, p.role \in {"in", "out", "clk"}
  PROVE  /\ Connected(block, p).type = block.type
         /\ Connected(block, p).ins =
              IF p.role = "in" THEN [block.ins EXCEPT ![p.slot] = NetIndex(p)] ELSE block.ins
         /\ Connected(block, p).outs =
              IF p.role = "out" THEN [block.outs EXCEPT ![p.slot] = NetIndex(p)] ELSE block.outs
         /\ Connected(block, p).clk = IF p.role = "clk" THEN NetIndex(p) ELSE block.clk
         /\ Connected(block, p).nin =
              IF p.role = "in" /\ p.net \in Nets THEN block.nin + 1 ELSE block.nin
         /\ Connected(block, p).nout =
              IF p.role = "out" /\ p.net \in Nets THEN block.nout + 1 ELSE block.nout
BY DEF Connected, Block

\* What a block holds after a step, in terms of the file as it was.
LEMMA HeldAfter ==
  ASSUME file' = file, NEW b
  PROVE  /\ \A role, s : AtSlot(b, role, s)' = {o \in PinsIn(b, role)' : PinAt(o).slot = s}
         /\ \A role : Used(PinsIn(b, role))' = {o \in PinsIn(b, role)' : PinAt(o).net \in Nets}
         /\ \A s : InsHeld(b, s)' <=> Holds(AtSlot(b, "in", s)', logical_block'[b].ins[s])
         /\ \A s : OutsHeld(b, s)' <=> Holds(AtSlot(b, "out", s)', logical_block'[b].outs[s])
         /\ ClkHeld(b)' <=> Holds(PinsIn(b, "clk")', logical_block'[b].clk)
<1>1. \A role, s : AtSlot(b, role, s)' = {o \in PinsIn(b, role)' : PinAt(o).slot = s}
  BY FileOrder DEF AtSlot
<1>2. \A role : Used(PinsIn(b, role))' = {o \in PinsIn(b, role)' : PinAt(o).net \in Nets}
  BY FileOrder DEF Used
<1>3. \A s : InsHeld(b, s)' <=> Holds(AtSlot(b, "in", s)', logical_block'[b].ins[s])
  BY FileOrder DEF InsHeld, Holds, Last
<1>4. \A s : OutsHeld(b, s)' <=> Holds(AtSlot(b, "out", s)', logical_block'[b].outs[s])
  BY FileOrder DEF OutsHeld, Holds, Last
<1>5. ClkHeld(b)' <=> Holds(PinsIn(b, "clk")', logical_block'[b].clk)
  BY FileOrder DEF ClkHeld, Holds, Last
<1>6. QED
  BY <1>1, <1>2, <1>3, <1>4, <1>5

\* The pin added last is the one held.
LEMMA HeldNow ==
  ASSUME TypeOK, NEW S, NEW t \in Occurrences, \A o \in S : NotAfter(o, t)
  PROVE  Holds(S \cup {t}, NetIndex(PinAt(t)))
<1>1. NotAfter(t, t)
  BY PinOrder
<1>2. QED
  BY <1>1 DEF Holds, Last

\* There are finitely many pins on a block.
LEMMA FinitePinsIn ==
  ASSUME TypeOK, NEW b, NEW role
  PROVE  /\ IsFiniteSet(PinsIn(b, role)) /\ IsFiniteSet(Used(PinsIn(b, role)))
         /\ \A s : IsFiniteSet(AtSlot(b, role, s))
         /\ PinsIn(b, role) \subseteq Occurrences /\ Used(PinsIn(b, role)) \subseteq Occurrences
         /\ Cardinality(Used(PinsIn(b, role))) \in Nat
<1>1. /\ PinsIn(b, role) \subseteq Occurrences /\ Used(PinsIn(b, role)) \subseteq Occurrences
      /\ \A s : AtSlot(b, role, s) \subseteq Occurrences
  BY DEF PinsIn, Used, AtSlot
<1>2. IsFiniteSet(Occurrences)
  BY FinitePins
<1>3. QED
  BY <1>1, <1>2, FS_Subset, FS_CardinalityType

\* The block of the pin holds it.
LEMMA BlockHeldNow ==
  ASSUME PinListsInv, Numbering, AddPin, doall = 1, Contents, NEW b, b = PinBlock,
         NEW t, t = TheOccurrence
  PROVE  HeldBlock(b)'
<1>. DEFINE p == ThePin
<1>1. /\ TypeOK /\ pc = "pins" /\ IsLoading
  BY DEF PinListsInv, AddPin, IsLoading
<1>2. PICK block \in Block :
           /\ IF IsPad THEN /\ b = num_logical_blocks + 1 /\ b \notin BlockIds
                            /\ block = NewBlock(PadType) /\ BlockIds' = BlockIds \cup {b}
                       ELSE b \in BlockIds /\ block = logical_block[b] /\ BlockIds' = BlockIds
           /\ logical_block'[b] = Connected(block, ThePin)
  BY PinConnected
<1>3. /\ t \in Occurrences /\ PinAt(t) = p /\ p \in Pin /\ p.role \in {"in", "out", "clk"} /\ file' = file
      /\ \A role : PinsIn(b, role)' = IF role = p.role THEN PinsIn(b, role) \cup {t} ELSE PinsIn(b, role)
      /\ \A o \in PinsIn(b, p.role) : NotAfter(o, t)
      /\ \A role : t \notin PinsIn(b, role)
      /\ IsPad => \A role : PinsIn(b, role) = {}
  BY PinLanded
<1>4. /\ \A s \in Slots : Holds(AtSlot(b, "in", s), block.ins[s]) /\ Holds(AtSlot(b, "out", s), block.outs[s])
      /\ Holds(PinsIn(b, "clk"), block.clk)
      /\ block.nin = Cardinality(Used(PinsIn(b, "in")))
      /\ block.nout = Cardinality(Used(PinsIn(b, "out")))
  <2>1. CASE IsPad
    <3>1. \A role : PinsIn(b, role) = {} /\ Used(PinsIn(b, role)) = {} /\ \A s : AtSlot(b, role, s) = {}
      BY <1>3, <2>1 DEF Used, AtSlot
    <3>2. /\ \A s \in Slots : block.ins[s] = OPEN /\ block.outs[s] = OPEN
          /\ block.clk = OPEN /\ block.nin = 0 /\ block.nout = 0
      BY <1>2, <2>1 DEF NewBlock
    <3>3. QED
      BY <3>1, <3>2, FS_EmptySet DEF Holds
  <2>2. CASE ~ IsPad
    <3>1. HeldBlock(b) /\ block = logical_block[b]
      BY <1>1, <1>2, <2>2 DEF Contents
    <3>2. QED
      BY <3>1 DEF HeldBlock, InsHeld, OutsHeld, ClkHeld
  <2>3. QED
    BY <2>1, <2>2
<1>5. /\ \A role, s : AtSlot(b, role, s)' = IF role = p.role /\ s = p.slot THEN AtSlot(b, role, s) \cup {t}
                                           ELSE AtSlot(b, role, s)
      /\ \A role : Used(PinsIn(b, role))' = IF role = p.role /\ p.net \in Nets THEN Used(PinsIn(b, role)) \cup {t}
                                           ELSE Used(PinsIn(b, role))
  <2>1. ASSUME NEW role, NEW s
        PROVE  AtSlot(b, role, s)' = IF role = p.role /\ s = p.slot THEN AtSlot(b, role, s) \cup {t}
                                     ELSE AtSlot(b, role, s)
    <3>1. AtSlot(b, role, s)' = {o \in PinsIn(b, role)' : PinAt(o).slot = s}
      BY <1>3, HeldAfter
    <3>2. PinsIn(b, role)' = IF role = p.role THEN PinsIn(b, role) \cup {t} ELSE PinsIn(b, role)
      BY <1>3
    <3>3. AtSlot(b, role, s) = {o \in PinsIn(b, role) : PinAt(o).slot = s} /\ PinAt(t) = p
      BY <1>3 DEF AtSlot
    <3>. HIDE DEF p
    <3>4. QED
      BY <3>1, <3>2, <3>3
  <2>2. ASSUME NEW role
        PROVE  Used(PinsIn(b, role))' = IF role = p.role /\ p.net \in Nets THEN Used(PinsIn(b, role)) \cup {t}
                                        ELSE Used(PinsIn(b, role))
    <3>1. Used(PinsIn(b, role))' = {o \in PinsIn(b, role)' : PinAt(o).net \in Nets}
      BY <1>3, HeldAfter
    <3>2. PinsIn(b, role)' = IF role = p.role THEN PinsIn(b, role) \cup {t} ELSE PinsIn(b, role)
      BY <1>3
    <3>3. Used(PinsIn(b, role)) = {o \in PinsIn(b, role) : PinAt(o).net \in Nets} /\ PinAt(t) = p
      BY <1>3 DEF Used
    <3>. HIDE DEF p
    <3>4. QED
      BY <3>1, <3>2, <3>3
  <2>3. QED
    BY <2>1, <2>2
<1>6. /\ logical_block'[b].ins =
              IF p.role = "in" THEN [block.ins EXCEPT ![p.slot] = NetIndex(p)] ELSE block.ins
      /\ logical_block'[b].outs =
              IF p.role = "out" THEN [block.outs EXCEPT ![p.slot] = NetIndex(p)] ELSE block.outs
      /\ logical_block'[b].clk = IF p.role = "clk" THEN NetIndex(p) ELSE block.clk
      /\ logical_block'[b].nin = IF p.role = "in" /\ p.net \in Nets THEN block.nin + 1 ELSE block.nin
      /\ logical_block'[b].nout = IF p.role = "out" /\ p.net \in Nets THEN block.nout + 1 ELSE block.nout
  BY <1>2, <1>3, ConnectedPin
<1>7. /\ block.ins \in [Slots -> NetOrOpen] /\ block.outs \in [Slots -> NetOrOpen] /\ p.slot \in Slots
  BY <1>3 DEF Block, Pin
<1>8. /\ \A s : \A o \in AtSlot(b, p.role, s) : NotAfter(o, t)
      /\ \A role : Cardinality(Used(PinsIn(b, role)) \cup {t}) = Cardinality(Used(PinsIn(b, role))) + 1
  <2>1. \A role : t \notin Used(PinsIn(b, role)) /\ IsFiniteSet(Used(PinsIn(b, role)))
    BY <1>1, <1>3, FinitePinsIn DEF Used
  <2>2. QED
    BY <1>3, <2>1, FS_AddElement DEF AtSlot
<1>. HIDE DEF p
<1>9. ASSUME NEW s \in Slots PROVE InsHeld(b, s)'
  <2>1. CASE p.role = "in" /\ s = p.slot
    <3>1. Holds(AtSlot(b, "in", s) \cup {t}, NetIndex(PinAt(t)))
      BY <1>1, <1>3, <1>8, <2>1, HeldNow
    <3>2. logical_block'[b].ins[s] = NetIndex(PinAt(t)) /\ AtSlot(b, "in", s)' = AtSlot(b, "in", s) \cup {t}
      BY <1>3, <1>5, <1>6, <1>7, <2>1
    <3>3. QED
      BY <1>3, <3>1, <3>2, HeldAfter
  <2>2. CASE ~ (p.role = "in" /\ s = p.slot)
    <3>1. logical_block'[b].ins[s] = block.ins[s] /\ AtSlot(b, "in", s)' = AtSlot(b, "in", s)
      BY <1>5, <1>6, <1>7, <2>2
    <3>2. QED
      BY <1>3, <1>4, <3>1, HeldAfter
  <2>3. QED
    BY <2>1, <2>2
<1>10. ASSUME NEW s \in Slots PROVE OutsHeld(b, s)'
  <2>1. CASE p.role = "out" /\ s = p.slot
    <3>1. Holds(AtSlot(b, "out", s) \cup {t}, NetIndex(PinAt(t)))
      BY <1>1, <1>3, <1>8, <2>1, HeldNow
    <3>2. logical_block'[b].outs[s] = NetIndex(PinAt(t)) /\ AtSlot(b, "out", s)' = AtSlot(b, "out", s) \cup {t}
      BY <1>3, <1>5, <1>6, <1>7, <2>1
    <3>3. QED
      BY <1>3, <3>1, <3>2, HeldAfter
  <2>2. CASE ~ (p.role = "out" /\ s = p.slot)
    <3>1. logical_block'[b].outs[s] = block.outs[s] /\ AtSlot(b, "out", s)' = AtSlot(b, "out", s)
      BY <1>5, <1>6, <1>7, <2>2
    <3>2. QED
      BY <1>3, <1>4, <3>1, HeldAfter
  <2>3. QED
    BY <2>1, <2>2
<1>11. ClkHeld(b)'
  <2>1. CASE p.role = "clk"
    <3>1. Holds(PinsIn(b, "clk") \cup {t}, NetIndex(PinAt(t)))
      BY <1>1, <1>3, <2>1, HeldNow
    <3>2. logical_block'[b].clk = NetIndex(PinAt(t)) /\ PinsIn(b, "clk")' = PinsIn(b, "clk") \cup {t}
      BY <1>3, <1>6, <2>1
    <3>3. QED
      BY <1>3, <3>1, <3>2, HeldAfter
  <2>2. CASE p.role # "clk"
    <3>1. logical_block'[b].clk = block.clk /\ PinsIn(b, "clk")' = PinsIn(b, "clk")
      BY <1>3, <1>6, <2>2
    <3>2. QED
      BY <1>3, <1>4, <3>1, HeldAfter
  <2>3. QED
    BY <2>1, <2>2
<1>12. /\ logical_block'[b].nin = Cardinality(Used(PinsIn(b, "in")))'
       /\ logical_block'[b].nout = Cardinality(Used(PinsIn(b, "out")))'
  BY <1>4, <1>5, <1>6, <1>8
<1>13. QED
  BY <1>9, <1>10, <1>11, <1>12 DEF HeldBlock

\* Only the output of a latch is loaded before a pin that the file names first.
LEMMA LaterAdded ==
  ASSUME PinListsInv, AddPin, doall = 1, NEW t, t = TheOccurrence,
         NEW q \in Occurrences, Added(q), ~ NotAfter(q, t)
  PROVE  PinAt(q).role = "out" /\ PinAt(t).role = "in"
<1>1. /\ pc = "pins" /\ linenum \in DOMAIN file /\ pin \in Nat /\ pass \in Nat /\ TypeOK
      /\ linenum \in Nat
  BY DEF AddPin, PinListsInv, TypeOK, PositionTypeOK, WellTyped
<1>2. t[1] = linenum /\ t[2] = PinNumber(pin + 1) /\ PassOf(linenum) = pass
  BY <1>1 DEF TheOccurrence, PinListsInv, Tracks
<1>3. /\ q[1] \in Nat /\ q[2] \in Nat \ {0} /\ q[2] \in DOMAIN file[q[1]].pins
      /\ PassOf(q[1]) \in Nat
  BY <1>1, OccurrenceType
<1>4. q[1] = linenum /\ PinNumber(q[2]) <= pin
  BY <1>1, <1>2, <1>3 DEF Added, NotAfter
<1>5. ~ (q[2] <= t[2])
  BY <1>2, <1>4 DEF NotAfter
<1>6. LoadsQFirst
  BY <1>1, <1>2, <1>3, <1>4, <1>5 DEF PinNumber
<1>7. /\ q[2] \in {1, 2, 3} /\ t[2] \in {1, 2, 3} /\ pin + 1 \in {1, 2, 3}
      /\ DOMAIN TheLine.pins = {1, 2, 3} /\ TheLine.kind = "latch"
  BY <1>1, <1>2, <1>3, <1>4, <1>6, LineType, ThePinType DEF TheLine, LoadsQFirst
<1>8. \A k \in {1, 2, 3} : TheLine.pins[k].role = <<"in", "out", "clk">>[k]
  BY <1>1, <1>7 DEF TheLine, TypeOK, PositionTypeOK, WellTyped
<1>9. q[2] = 2 /\ t[2] = 1
  BY <1>1, <1>2, <1>4, <1>5, <1>6, <1>7 DEF PinNumber
<1>10. QED
  BY <1>2, <1>4, <1>8, <1>9 DEF PinAt, TheLine

\* The flag and the entries of the net of the pin.
LEMMA NetHeldNow ==
  ASSUME PinListsInv, Numbering, AddPin, doall = 1, NEW n \in Nets, ThePin.net = n,
         FlaggedNet(n), ListedNet(n), NEW t, t = TheOccurrence
  PROVE  FlaggedNet(n)' /\ ListedNet(n)'
<1>. DEFINE j == PinIndex(ThePin)
<1>1. /\ TypeOK /\ file' = file /\ LoadNet(ThePin) /\ num_sinks[n] \in Nat
      /\ num_sinks \in [Nets -> Nat] /\ DOMAIN node_block = Nets /\ is_global \in [Nets -> BOOLEAN]
      /\ DOMAIN node_block[n] = 1 .. num_sinks[n] \cup (IF num_driver[n] > 0 THEN {0} ELSE {})
  BY DEF AddPin, input, PinListsInv, TypeOK, NetsTypeOK, FlagsTypeOK, Lists
<1>2. /\ t \notin AddedPins(n) /\ AddedPins(n)' = AddedPins(n) \cup {t}
      /\ PinAt(t) = ThePin /\ t \in Occurrences
  BY PinAdded, PinAddedNow
<1>3. /\ node_block'[n] = [i \in DOMAIN node_block[n] \cup {j} |->
                             IF i = j THEN Place(t) ELSE node_block[n][i]]
  BY <1>1, EntryIsPlace DEF LoadNet
<1>4. /\ num_sinks'[n] = IF ThePin.role = "out" THEN num_sinks[n] ELSE num_sinks[n] + 1
      /\ is_global'[n] = (ThePin.role = "clk")
  BY <1>1 DEF LoadNet, GlobalAfter
<1>5. AddedPins(n) \subseteq Occurrences /\ \A q \in AddedPins(n) : Added(q)
  BY <1>1, FiniteAdded DEF AddedPins
<1>6. /\ \A o : Place(o)' = Place(o) /\ PinAt(o)' = PinAt(o)
      /\ \A o, p : NotAfter(o, p)' = NotAfter(o, p)
  BY <1>1, FileOrder
<1>7. FlaggedNet(n)'
  <2>1. CASE \A q \in AddedPins(n) : NotAfter(q, t)
    <3>1. NotAfter(t, t)
      BY <1>1, <1>2, PinOrder
    <3>2. \A q \in AddedPins(n)' : NotAfter(q, t)
      BY <1>2, <2>1, <3>1
    <3>3. QED
      BY <1>2, <1>4, <1>6, <3>2 DEF FlaggedNet, Last
  <2>2. CASE \E q \in AddedPins(n) : ~ NotAfter(q, t)
    <3>1. PICK q \in AddedPins(n) : ~ NotAfter(q, t)
      BY <2>2
    <3>2. PICK o \in AddedPins(n) : Last(AddedPins(n), o)
      BY <3>1 DEF FlaggedNet
    <3>3. NotAfter(q, o)
      BY <3>1, <3>2 DEF Last
    <3>4. ~ NotAfter(o, t) /\ NotAfter(t, o)
      BY <1>1, <1>2, <1>5, <3>1, <3>3, PinOrder
    <3>5. PinAt(o).role = "out" /\ ThePin.role = "in"
      BY <1>2, <1>5, <3>4, LaterAdded
    <3>6. \A p \in AddedPins(n)' : NotAfter(p, o)
      BY <1>2, <3>2, <3>4 DEF Last
    <3>7. ~ is_global'[n]
      BY <1>4, <3>5
    <3>8. QED
      BY <1>2, <1>6, <3>5, <3>6, <3>7 DEF FlaggedNet, Last
  <2>3. QED
    BY <2>1, <2>2
<1>8. ListedNet(n)'
  <2>1. ASSUME NEW i \in 1 .. num_sinks'[n]
        PROVE  \E o \in AddedSinks(n)' : node_block'[n][i] = Place(o)
    <3>1. AddedSinks(n)' = {o \in AddedPins(n)' : PinAt(o).role # "out"}
      BY <1>6 DEF AddedSinks
    <3>2. AddedSinks(n) \subseteq AddedSinks(n)'
      BY <1>2, <3>1 DEF AddedSinks
    <3>3. CASE i = j
      <4>1. ThePin.role # "out"
        BY <3>3 DEF PinIndex
      <4>2. t \in AddedSinks(n)' /\ node_block'[n][i] = Place(t)
        BY <1>2, <1>3, <3>1, <3>3, <4>1
      <4>3. QED
        BY <4>2
    <3>4. CASE i # j
      <4>1. i \in 1 .. num_sinks[n]
        BY <1>1, <1>2, <1>4, <2>1, <3>4 DEF PinIndex
      <4>. HIDE DEF j
      <4>2. node_block'[n][i] = node_block[n][i]
        BY <1>1, <1>3, <3>4, <4>1
      <4>3. QED
        BY <3>2, <4>1, <4>2 DEF ListedNet
    <3>5. QED
      BY <3>3, <3>4
  <2>2. QED
    BY <1>6, <2>1 DEF ListedNet
<1>9. QED
  BY <1>7, <1>8

\* The asserts on the clock of a subckt see the pins of its line that came before.
LEMMA PinAccepted ==
  ASSUME PinListsInv, Numbering, AddPin, doall = 1, Contents, NEW t, t = TheOccurrence
  PROVE  AcceptedPin(t)
<1>1. /\ TypeOK /\ pc = "pins" /\ IsLoading /\ linenum \in Nat /\ pin \in Nat /\ pass \in Nat
      /\ ~ Refused(ThePin) /\ ~ BadClock(ThePin)
  BY DEF PinListsInv, AddPin, IsLoading, TypeOK, PositionTypeOK
<1>2. t \in Occurrences /\ PinAt(t) = ThePin /\ t = <<linenum, PinNumber(pin + 1)>>
  BY PinAddedNow DEF TheOccurrence
<1>3. ThePin.net # "open" /\ ThePin.role \notin {"none", "beyond"}
  BY <1>1 DEF Refused, NetRefused
<1>4. ASSUME ThePin.role = "clk", TheLine.kind = "subckt",
             NEW p \in Occurrences, p[1] = linenum, p[2] < t[2], PinAt(p).role = "clk"
      PROVE  PinAt(p).net \notin Nets
  <2>. DEFINE b == num_logical_blocks
  <2>1. ~ LoadsQFirst /\ ~ IsPad
    BY <1>4 DEF LoadsQFirst, IsPad
  <2>2. p[2] \in Nat /\ PassOf(p[1]) = pass
    BY <1>1, <1>4, OccurrenceType DEF PinListsInv, Tracks
  <2>3. Added(p)
    BY <1>1, <1>2, <1>4, <2>1, <2>2 DEF Added, PinNumber
  <2>4. Place(t)[1] = b
    BY <2>1, EntryIsPlace DEF PinEntry, PinBlock
  <2>5. BlockLine(t[1])
    BY <1>2, <2>1, AddBegins
  <2>6. p \in PinsIn(b, "clk")
    BY <1>1, <1>2, <1>4, <2>3, <2>4, <2>5, SameBlock DEF PinsIn
  <2>7. logical_block[b].clk = OPEN
    BY <1>1, <1>4 DEF BadClock
  <2>8. b \in BlockIds
    <3>1. PICK block \in Block :
            IF IsPad THEN PinBlock = num_logical_blocks + 1 ELSE PinBlock \in BlockIds
      BY PinConnected
    <3>2. QED
      BY <2>1, <3>1 DEF PinBlock
  <2>9. ClkHeld(b)
    BY <1>1, <2>8 DEF Contents, HeldBlock
  <2>10. PICK o \in PinsIn(b, "clk") : NotAfter(p, o) /\ NetIndex(PinAt(o)) = OPEN
    BY <2>6, <2>7, <2>9 DEF ClkHeld, Holds, Last
  <2>11. PinAt(o).net \notin Nets
    BY <2>10, NetsAssumption DEF NetIndex
  <2>12. o \in Occurrences /\ Added(o) /\ PinAt(o).role = "clk" /\ Place(o)[1] = b
    BY <2>10 DEF PinsIn
  <2>13. o = p \/ (o[1] = p[1] /\ p[2] <= o[2] /\ p = <<p[1], p[2]>> /\ o = <<o[1], o[2]>>
                   /\ p[2] \in Nat /\ o[2] \in Nat)
    <3>1. o[1] = p[1]
      BY <1>1, <1>2, <1>4, <2>4, <2>12, SameBlock
    <3>2. p[1] \in Nat /\ p[2] \in Nat /\ o[2] \in Nat /\ p = <<p[1], p[2]>> /\ o = <<o[1], o[2]>>
          /\ PassOf(p[1]) \in Nat
      BY <1>1, <2>12, OccurrenceType
    <3>3. QED
      BY <2>10, <3>1, <3>2 DEF NotAfter
  <2>14. AcceptedPin(o)
    BY <1>1, <2>12 DEF Contents
  <2>15. CASE o = p
    BY <2>11, <2>15
  <2>16. CASE o # p
    <3>1. o[1] = p[1] /\ p[2] < o[2] /\ file[o[1]].kind = "subckt"
      BY <1>4, <2>13, <2>16 DEF TheLine
    <3>2. QED
      BY <1>4, <2>12, <2>14, <3>1 DEF AcceptedPin
  <2>17. QED
    BY <2>15, <2>16
<1>5. ThePin.role = "clk" /\ TheLine.kind = "subckt" => ThePin.slot = 0
  BY <1>1 DEF BadClock
<1>6. QED
  BY <1>2, <1>3, <1>4, <1>5 DEF AcceptedPin, TheLine

\* Adding a pin keeps the contents.
LEMMA ContentsPin ==
  ASSUME PinListsInv, Numbering, AddPin, doall = 1, Contents
  PROVE  Contents'
<1>1. PICK b : b = PinBlock
  OBVIOUS
<1>2. PICK t : t = TheOccurrence
  OBVIOUS
<1>3. /\ TypeOK /\ pc = "pins" /\ IsLoading
  BY DEF PinListsInv, AddPin, IsLoading
<1>4. PICK block \in Block :
           /\ IF IsPad THEN /\ b = num_logical_blocks + 1 /\ b \notin BlockIds
                            /\ block = NewBlock(PadType) /\ BlockIds' = BlockIds \cup {b}
                       ELSE b \in BlockIds /\ block = logical_block[b] /\ BlockIds' = BlockIds
           /\ logical_block'[b] = Connected(block, ThePin)
           /\ \A c \in BlockIds \ {b} : logical_block'[c] = logical_block[c]
  BY <1>1, PinConnected
<1>5. /\ t \in Occurrences /\ PinAt(t) = ThePin /\ Place(t) = <<b, ThePin.slot>> /\ file' = file
      /\ ThePin \in Pin /\ ThePin.role \in {"in", "out", "clk"} /\ t[1] = linenum
      /\ \A o \in Occurrences : Added(o)' <=> Added(o) \/ o = t
      /\ \A c, role : PinsIn(c, role)' =
              IF c = b /\ role = ThePin.role THEN PinsIn(c, role) \cup {t} ELSE PinsIn(c, role)
  BY <1>1, <1>2, PinLanded
<1>6. logical_block'[b].type = block.type
  <2>1. logical_block'[b] = Connected(block, ThePin) /\ ThePin \in Pin
    BY <1>4, <1>5
  <2>2. Connected(block, ThePin).type = block.type
    BY <2>1, ConnectedFields
  <2>3. QED
    BY <2>1, <2>2
<1>7. ASSUME NEW c \in BlockIds' PROVE HeldBlock(c)'
  <2>1. CASE c = b
    BY <1>1, <1>2, <2>1, BlockHeldNow
  <2>2. CASE c # b
    <3>1. c \in BlockIds /\ logical_block'[c] = logical_block[c] /\ \A role : PinsIn(c, role)' = PinsIn(c, role)
      BY <1>4, <1>5, <2>2
    <3>2. HeldBlock(c)
      BY <1>3, <3>1 DEF Contents
    <3>3. QED
      BY <1>5, <3>1, <3>2, BlockHeldKept
  <2>3. QED
    BY <2>1, <2>2
<1>8. ASSUME NEW c \in BlockIds' PROVE TypedBlock(c)'
  <2>1. BegunLines' = BegunLines /\ (IsPad => AddedPads' = AddedPads \cup {t})
        /\ (~ IsPad => AddedPads' = AddedPads)
    BY <1>2, AddBegins
  <2>2. CASE c \in BlockIds
    <3>1. logical_block'[c].type = logical_block[c].type
      <4>1. CASE c = b
        BY <1>4, <1>6, <2>2, <4>1
      <4>2. CASE c # b
        BY <1>4, <2>2, <4>2
      <4>3. QED
        BY <4>1, <4>2
    <3>2. TypedBlock(c)
      BY <1>3, <2>2 DEF Contents
    <3>3. QED
      BY <1>5, <2>1, <3>1, <3>2, FileOrder DEF TypedBlock
  <2>3. CASE c \notin BlockIds
    <3>1. IsPad /\ c = b /\ logical_block'[c].type = PadType
      BY <1>4, <1>6, <2>3 DEF NewBlock
    <3>2. t \in AddedPads' /\ Place(t)[1] = c /\ TypeOfPad(t) = PadType
      BY <1>5, <2>1, <3>1 DEF TypeOfPad, PadType, TheLine
    <3>3. QED
      BY <1>5, <3>1, <3>2, FileOrder DEF TypedBlock
  <2>4. QED
    BY <2>2, <2>3
<1>9. ASSUME NEW n \in Nets PROVE FlaggedNet(n)' /\ ListedNet(n)'
  <2>1. FlaggedNet(n) /\ ListedNet(n)
    BY <1>3 DEF Contents
  <2>2. CASE ThePin.net = n
    BY <1>2, <2>1, <2>2, NetHeldNow
  <2>3. CASE ThePin.net # n
    <3>1. AddedPins(n)' = AddedPins(n)
      BY <2>3, PinAdded
    <3>2. is_global'[n] = is_global[n] /\ num_sinks'[n] = num_sinks[n] /\ node_block'[n] = node_block[n]
      <4>1. LoadNet(ThePin)
        BY <1>3 DEF AddPin
      <4>2. /\ DOMAIN num_sinks = Nets /\ DOMAIN node_block = Nets /\ DOMAIN is_global = Nets
        BY <1>3 DEF TypeOK, NetsTypeOK, FlagsTypeOK
      <4>3. QED
        BY <2>3, <4>1, <4>2 DEF LoadNet, nets
    <3>3. QED
      BY <1>5, <2>1, <3>1, <3>2, NetHeldKept
  <2>4. QED
    BY <2>2, <2>3
<1>10. ASSUME NEW o \in Occurrences', Added(o)' PROVE AcceptedPin(o)'
  <2>1. o \in Occurrences /\ (Added(o) \/ o = t)
    BY <1>5, <1>10, FileOrder
  <2>2. AcceptedPin(o)
    BY <1>2, <1>3, <2>1, PinAccepted DEF Contents
  <2>3. QED
    BY <1>5, <2>2, FileOrder
<1>11. QED
  BY <1>7, <1>8, <1>9, <1>10 DEF Contents

\* A line that is passed over, or a row of a table, adds no pin and begins no block.
LEMMA ContentsSkipped ==
  ASSUME PinListsInv, Numbering, Contents, doall = 1, DumParse \/ ModelLine \/ TruthTableRow \/ IgnoreLut
  PROVE  Contents'
<1>1. /\ pc = "line" /\ linenum \in DOMAIN file /\ NextLine /\ file' = file /\ UNCHANGED nets
      /\ ~ ((BlockLine(linenum) \/ PadLine(linenum)) /\ PassOf(linenum) = pass)
      /\ TypeOK /\ IsLoading /\ logical_block \in Seq(Block)
  BY SkippedLine DEF PinListsInv, TypeOK, BlocksTypeOK, IsLoading
<1>2. \A o \in Occurrences : Added(o)' = Added(o)
  BY <1>1, LineAddsNone
<1>3. BegunLines' = BegunLines
  BY <1>1, SkipBegins
<1>4. /\ BlockIds' = BlockIds
      /\ \A b \in BlockIds : /\ logical_block'[b].ins = logical_block[b].ins
                             /\ logical_block'[b].outs = logical_block[b].outs
                             /\ logical_block'[b].clk = logical_block[b].clk
                             /\ logical_block'[b].nin = logical_block[b].nin
                             /\ logical_block'[b].nout = logical_block[b].nout
                             /\ logical_block'[b].type = logical_block[b].type
  <2>1. CASE DumParse \/ ModelLine \/ IgnoreLut
    <3>1. logical_block' = logical_block
      BY <2>1 DEF DumParse, ModelLine, IgnoreLut
    <3>2. QED
      BY <3>1 DEF BlockIds
  <2>2. CASE TruthTableRow
    <3>1. \/ logical_block' = logical_block
          \/ logical_block' = [logical_block EXCEPT ![num_logical_blocks].truth_table = AddRow(@)]
      BY <2>2 DEF TruthTableRow
    <3>2. \A b \in BlockIds : logical_block[b] \in Block
      BY <1>1 DEF BlockIds
    <3>3. BlockIds' = BlockIds
      BY <3>1 DEF BlockIds
    <3>4. CASE logical_block' = [logical_block EXCEPT ![num_logical_blocks].truth_table = AddRow(@)]
      BY <3>2, <3>3, <3>4 DEF BlockIds, Block
    <3>5. QED
      BY <3>1, <3>3, <3>4
  <2>3. QED
    BY <2>1, <2>2
<1>5. QED
  BY <1>1, <1>2, <1>3, <1>4, ContentsKept DEF nets

\* So does the end of a pass.
LEMMA ContentsPassed ==
  ASSUME PinListsInv, PinListsInv', Contents, doall = 1, EndPass \/ EndLoading
  PROVE  Contents'
<1>1. /\ TypeOK /\ TypeOK' /\ AtEnd /\ pc = "line" /\ IsLoading /\ file' = file
      /\ UNCHANGED <<is_global, num_sinks, node_block, logical_block>> /\ pass \in 0 .. 4
  BY DEF PinListsInv, EndPass, EndLoading, AtEnd, IsLoading, Rewind, input, nets, TypeOK, PositionTypeOK
<1>2. /\ BlockIds' = BlockIds
      /\ \A b \in BlockIds : logical_block'[b] = logical_block[b]
  BY <1>1 DEF BlockIds
<1>3. CASE EndLoading
  <2>1. UNCHANGED <<pass, linenum, pin, doall>> /\ pass = 4
    BY <1>3 DEF EndLoading, position
  <2>2. \A o \in Occurrences : Added(o)' = Added(o)
    BY <1>1, <2>1, FileUnchanged DEF Added, PinNumber, LoadsQFirst, TheLine
  <2>3. BegunLines \subseteq BegunLines'
    BY <1>1, <2>1, ReferenceUnchanged DEF BegunLines
  <2>4. QED
    BY <1>1, <1>2, <2>2, <2>3, ContentsKept
<1>4. CASE EndPass
  <2>1. /\ pass' = pass + 1 /\ Rewind /\ pc' = "line" /\ linenum' = 1
    BY <1>1, <1>4 DEF EndPass, Rewind
  <2>2. ASSUME NEW o \in Occurrences PROVE Added(o)' = Added(o)
    <3>1. (Added(o) <=> PassOf(o[1]) <= pass) /\ (Added(o)' <=> PassOf(o[1]) < pass + 1)
      BY <1>1, <2>1, EndOfPass, BeginOfPass
    <3>2. PassOf(o[1]) \in Int
      BY <1>1, OccurrenceType
    <3>3. QED
      BY <1>1, <3>1, <3>2 DEF Added
  <2>3. BegunLines \subseteq BegunLines'
    <3>1. ASSUME NEW l \in BegunLines PROVE l \in BegunLines'
      <4>1. pass \in {3, 4} /\ l \in BlockLines
        BY <1>1 DEF BegunLines
      <4>2. pass' > 3 /\ l \in BlockLines'
        BY <1>1, <2>1, <4>1, ReferenceUnchanged
      <4>3. QED
        BY <4>2 DEF BegunLines
    <3>2. QED
      BY <3>1
  <2>4. QED
    BY <1>1, <1>2, <2>2, <2>3, ContentsKept
<1>5. QED
  BY <1>3, <1>4

\* The loading passes begin with nothing loaded.
LEMMA ContentsEmpty ==
  ASSUME PinListsInv, PinListsInv', Numbering, EndCounting
  PROVE  Contents'
<1>1. /\ TypeOK /\ TypeOK' /\ file' = file /\ doall = 0 /\ pc = "line" /\ pc' = "line" /\ pass' = 0
      /\ Rewind /\ UNCHANGED <<num_driver, num_sinks, node_block, logical_block>>
      /\ logical_block = <<>> /\ \A n \in Nets : num_sinks[n] = 0
  BY DEF EndCounting, Rewind, AtEnd, input, nets, PinListsInv, Numbering, Counting
<1>2. ASSUME NEW o \in Occurrences PROVE ~ Added(o)'
  <2>1. Added(o)' <=> PassOf(o[1]) < 0
    BY <1>1, BeginOfPass
  <2>2. PassOf(o[1]) \in 1 .. 3
    BY <1>1, OccurrenceType
  <2>3. QED
    BY <2>1, <2>2
<1>3. BlockIds' = {}
  BY <1>1 DEF BlockIds
<1>4. ASSUME NEW n \in Nets PROVE FlaggedNet(n)' /\ ListedNet(n)'
  <2>1. AddedPins(n)' = {}
    <3>1. PinsOf(n)' \subseteq Occurrences
      BY <1>1, FileUnchanged DEF PinsOf
    <3>2. QED
      BY <1>2, <3>1 DEF AddedPins
  <2>2. num_sinks'[n] = 0
    BY <1>1
  <2>3. QED
    BY <2>1, <2>2 DEF FlaggedNet, ListedNet
<1>5. Occurrences' = Occurrences
  BY <1>1, FileOrder
<1>6. QED
  BY <1>2, <1>3, <1>4, <1>5 DEF Contents

\* Every step of the reader keeps the contents.
LEMMA ContentsNext ==
  ASSUME PinListsInv, PinListsInv', Numbering, Contents, [Next]_vars
  PROVE  Contents'
<1>1. TypeOK /\ TypeOK' /\ doall \in {0, 1} /\ file' = file
  BY FilesKept DEF PinListsInv, TypeOK, PositionTypeOK
<1>2. ASSUME doall' # 1 \/ pc' \notin {"line", "pins", "check"} PROVE Contents'
  BY <1>2 DEF Contents, IsLoading
<1>3. CASE DumParse \/ ModelLine \/ TruthTableRow \/ IgnoreLut
  <2>1. doall' = doall
    BY <1>3 DEF DumParse, ModelLine, TruthTableRow, IgnoreLut, NextLine
  <2>2. QED
    BY <1>1, <1>2, <1>3, <2>1, ContentsSkipped
<1>4. CASE IoLine \/ AddLut \/ AddLatch \/ AddSubckt
  <2>1. PICK newBlock : StartPins(newBlock)
    BY <1>4, StartedLine
  <2>2. doall' = doall
    BY <2>1 DEF StartPins, NextLine
  <2>3. QED
    BY <1>1, <1>2, <1>4, <2>2, ContentsStarted
<1>5. CASE AddPin
  <2>1. doall' = doall
    BY <1>5 DEF AddPin
  <2>2. QED
    BY <1>1, <1>2, <1>5, <2>1, ContentsPin
<1>6. CASE EndPass \/ EndLoading
  <2>1. doall' = doall
    BY <1>6 DEF EndPass, EndLoading, position
  <2>2. QED
    BY <1>1, <1>2, <1>6, <2>1, ContentsPassed
<1>7. CASE EndCounting
  BY <1>7, ContentsEmpty
<1>8. CASE CheckNet \/ AddActivity
  BY <1>2, <1>8 DEF CheckNet, AddActivity
<1>9. ASSUME NEW how \in Final, Stop(how) PROVE Contents'
  BY <1>2, <1>9 DEF Stop, Final
<1>10. CASE UNCHANGED vars
  <2>1. /\ UNCHANGED <<pc, doall, pass, linenum, pin, is_global, num_sinks, node_block, logical_block>>
    BY <1>10 DEF vars, position, nets
  <2>2. CASE ~ IsLoading
    BY <1>2, <2>1, <2>2 DEF IsLoading
  <2>3. CASE IsLoading
    <3>1. \A o \in Occurrences : Added(o)' = Added(o)
      BY <1>1, <2>1, FileUnchanged DEF Added, PinNumber, LoadsQFirst, TheLine
    <3>2. BegunLines \subseteq BegunLines'
      BY <1>1, <2>1, ReferenceUnchanged DEF BegunLines
    <3>3. BlockIds' = BlockIds /\ \A b \in BlockIds : logical_block'[b] = logical_block[b]
      BY <2>1 DEF BlockIds
    <3>4. QED
      BY <1>1, <2>1, <2>3, <3>1, <3>2, <3>3, ContentsKept
  <2>4. QED
    BY <2>2, <2>3
<1>11. QED
  BY <1>3, <1>4, <1>5, <1>6, <1>7, <1>8, <1>9, <1>10
     DEF Next, BadLine, BadPin, CheckFails, EndActivity, Stopped, Final

\* Every step keeps the whole of it.
LEMMA LoadInvNext ==
  ASSUME PinListsInv, PinListsInv', Numbering, LoadInv, [Next]_vars
  PROVE  LoadInv'
<1>1. Contents' /\ LinesAccepted' /\ RowsExpected' /\ LinesCounted'
  BY ContentsNext, LinesAcceptedNext, RowsExpectedNext, LinesCountedNext DEF LoadInv
<1>2. QED
  BY <1>1 DEF LoadInv

\* The netlist under construction is that of the lines read so far.
LEMMA Loaded == Spec => []LoadInv
<1>1. Init => LoadInv
  BY DEF Init, LoadInv, Contents, LinesAccepted, RowsExpected, LinesCounted, IsLoading
<1>2. PinListsInv /\ PinListsInv' /\ Numbering /\ LoadInv /\ [Next]_vars => LoadInv'
  BY LoadInvNext
<1>3. QED
  BY <1>1, <1>2, PinListsCorrect, BlocksNumbered, PTL DEF Spec

-----------------------------------------------------------------------------
(* What check_net finds *)

\* The whole file was read, ten times, and check_net has not begun.
ReadWhole == PinListsInv /\ Numbering /\ Placing /\ Filling /\ LoadInv /\ pc = "check"

\* Every pin is on its block then, and every block is made.
LEMMA AllRead ==
  ASSUME ReadWhole
  PROVE  /\ TypeOK /\ doall = 1 /\ pass = 4 /\ linenum = Len(file) + 1
         /\ \A o \in Occurrences : Added(o)
         /\ BegunLines = BlockLines /\ AddedPads = PadPins
         /\ \A n : AddedPins(n) = PinsOf(n) /\ AddedSinks(n) = SinksOf(n) /\ AddedDrivers(n) = DriversOf(n)
         /\ \A b, role : PinsIn(b, role) = {o \in Occurrences : Place(o)[1] = b /\ PinAt(o).role = role}
         /\ BlockIds = 1 .. AllBlocks /\ AllBlocks \in Nat
<1>1. TypeOK /\ doall = 1 /\ pass = 4 /\ linenum = Len(file) + 1
  BY DEF ReadWhole, PinListsInv, Loading, LoadInv, LinesCounted
<1>2. ASSUME NEW o \in Occurrences PROVE Added(o)
  <2>1. PassOf(o[1]) \in 1 .. 3
    BY <1>1, OccurrenceType
  <2>2. QED
    BY <1>1, <2>1 DEF Added
<1>3. BegunLines = BlockLines /\ AddedPads = PadPins
  BY <1>1, <1>2 DEF BegunLines, AddedPads, PadPins
<1>4. \A n : AddedPins(n) = PinsOf(n)
  BY <1>2 DEF AddedPins, PinsOf
<1>5. \A n : AddedSinks(n) = SinksOf(n) /\ AddedDrivers(n) = DriversOf(n)
  BY <1>4 DEF AddedSinks, AddedDrivers, SinksOf, DriversOf
<1>6. \A b, role : PinsIn(b, role) = {o \in Occurrences : Place(o)[1] = b /\ PinAt(o).role = role}
  BY <1>2 DEF PinsIn
<1>7. BlockIds = 1 .. AllBlocks /\ AllBlocks \in Nat
  <2>1. logical_block \in Seq(Block) /\ Len(logical_block) = AllBlocks
    BY <1>1 DEF ReadWhole, Numbering, TypeOK, BlocksTypeOK
  <2>2. QED
    BY <2>1, LenProperties DEF BlockIds
<1>8. QED
  BY <1>1, <1>2, <1>3, <1>4, <1>5, <1>6, <1>7

\* The block of a line.
LEMMA BlockOfTheLine ==
  ASSUME ReadWhole, NEW l \in BlockLines
  PROVE  /\ BlockOfLine(l) \in BlockIds
         /\ logical_block[BlockOfLine(l)].type = TypeOfLine(l)
         /\ \A role : PinsIn(BlockOfLine(l), role) = {o \in Occurrences : o[1] = l /\ PinAt(o).role = role}
<1>. DEFINE b == BlockOfLine(l)
<1>1. TypeOK /\ l \in DOMAIN file /\ BlockLine(l)
  BY AllRead DEF BlockLines
<1>2. b \in Nat /\ b > Cardinality(PadPins) /\ \A m \in BlockLines : BlockOfLine(m) = b => m = l
  BY <1>1, LinePlaces
<1>3. b \in BlockIds
  <2>1. b = Cardinality(PadPins) + Cardinality({m \in BlockLines : m <= l})
    BY <1>1, BlockOfBegun
  <2>2. {m \in BlockLines : m <= l} \subseteq BlockLines /\ PadPins \subseteq PadPins
    OBVIOUS
  <2>3. b <= AllBlocks
    BY <1>1, <2>1, <2>2, NoMoreBlocks
  <2>4. b \in 1 .. AllBlocks
    BY <1>1, <1>2, <2>3, AllRead, FinitePins
  <2>5. QED
    BY <2>4, AllRead
<1>. HIDE DEF b
<1>4. logical_block[b].type = TypeOfLine(l)
  <2>1. TypedBlock(b)
    BY <1>3, AllRead DEF ReadWhole, LoadInv, Contents, IsLoading
  <2>2. ASSUME NEW o \in AddedPads, b = Place(o)[1] PROVE FALSE
    <3>1. b \in 1 .. Cardinality(PadPins) /\ Cardinality(PadPins) \in Nat
      BY <1>1, <2>2, AllRead, PadPlaces, FinitePins
    <3>2. QED
      BY <1>2, <3>1
  <2>3. QED
    BY <1>2, <2>1, <2>2, AllRead DEF TypedBlock
<1>5. ASSUME NEW o \in Occurrences PROVE Place(o)[1] = b <=> o[1] = l
  <2>1. CASE PadLine(o[1])
    <3>1. o \in PadPins /\ ~ BlockLine(o[1])
      BY <1>1, <2>1, PinPlaces
    <3>2. Place(o)[1] \in 1 .. Cardinality(PadPins) /\ Cardinality(PadPins) \in Nat
      BY <1>1, <3>1, PadPlaces, FinitePins
    <3>3. QED
      BY <1>1, <1>2, <3>1, <3>2
  <2>2. CASE ~ PadLine(o[1])
    <3>1. o[1] \in BlockLines /\ Place(o)[1] = BlockOfLine(o[1])
      BY <1>1, <2>2, PinPlaces
    <3>2. QED
      BY <1>2, <3>1 DEF b
  <2>3. QED
    BY <2>1, <2>2
<1>6. \A role : PinsIn(b, role) = {o \in Occurrences : o[1] = l /\ PinAt(o).role = role}
  BY <1>5, AllRead
<1>7. QED
  BY <1>3, <1>4, <1>6 DEF b

\* The block of a pad has one pin.
LEMMA BlockOfThePad ==
  ASSUME ReadWhole, NEW o \in PadPins
  PROVE  /\ Place(o)[1] \in BlockIds
         /\ logical_block[Place(o)[1]].type = TypeOfPad(o)
         /\ \A role : PinsIn(Place(o)[1], role) = IF role = PinAt(o).role THEN {o} ELSE {}
         /\ PinAt(o).role = IF TypeOfPad(o) = "INPAD" THEN "out" ELSE "in"
<1>. DEFINE b == Place(o)[1]
<1>1. TypeOK /\ o \in Occurrences /\ PadLine(o[1])
  BY AllRead DEF PadPins
<1>2. b \in 1 .. Cardinality(PadPins) /\ \A p \in PadPins : Place(p)[1] = b => p = o
  BY <1>1, PadPlaces
<1>3. b \in BlockIds
  BY <1>1, <1>2, AllRead, FinitePins DEF AllBlocks
<1>4. ASSUME NEW p \in Occurrences PROVE Place(p)[1] = b <=> p = o
  <2>1. ~ BlockLine(o[1])
    BY <1>1, PinPlaces
  <2>2. QED
    BY <1>1, <2>1, SameBlock
<1>. HIDE DEF b
<1>5. logical_block[b].type = TypeOfPad(o)
  <2>1. TypedBlock(b)
    BY <1>3, AllRead DEF ReadWhole, LoadInv, Contents, IsLoading
  <2>2. ASSUME NEW l \in BegunLines, b = BlockOfLine(l) PROVE FALSE
    <3>1. BlockOfLine(l) \in Nat /\ BlockOfLine(l) > Cardinality(PadPins)
      BY <1>1, AllRead, LinePlaces
    <3>2. QED
      BY <1>1, <1>2, <2>2, <3>1, FinitePins
  <2>3. PICK p \in AddedPads : b = Place(p)[1] /\ logical_block[b].type = TypeOfPad(p)
    BY <2>1, <2>2 DEF TypedBlock
  <2>4. QED
    BY <1>2, <2>3, AllRead
<1>6. \A role : PinsIn(b, role) = IF role = PinAt(o).role THEN {o} ELSE {}
  BY <1>1, <1>4, AllRead
<1>7. PinAt(o).role = IF TypeOfPad(o) = "INPAD" THEN "out" ELSE "in"
  <2>1. o[1] \in DOMAIN file /\ o[2] \in DOMAIN file[o[1]].pins /\ file[o[1]].kind \in {"inputs", "outputs"}
    BY <1>1, OccurrenceType DEF PadLine
  <2>2. WellTyped(file)
    BY <1>1 DEF TypeOK, PositionTypeOK
  <2>3. QED
    BY <2>1, <2>2 DEF WellTyped, TypeOfPad, PinAt
<1>8. QED
  BY <1>3, <1>5, <1>6, <1>7 DEF b

\* There are no other blocks.
LEMMA EveryBlock ==
  ASSUME ReadWhole, NEW b \in BlockIds
  PROVE  \/ \E l \in BlockLines : b = BlockOfLine(l)
         \/ \E o \in PadPins : b = Place(o)[1]
<1>1. TypedBlock(b)
  BY AllRead DEF ReadWhole, LoadInv, Contents, IsLoading
<1>2. QED
  BY <1>1, AllRead DEF TypedBlock

\* The lines counted in the last pass are those that error checking compares.
LEMMA LinesCompared ==
  ASSUME ReadWhole
  PROVE  ~ LineErrors <=> CompleteModels
<1>. DEFINE models == LinesOf("model")
            inputs == LinesOf("inputs")
            outputs == LinesOf("outputs")
            ends == LinesOf("end")
<1>1. \A kind : Before(kind, linenum) = LinesOf(kind) /\ LinesOf(kind) \in Nat
  BY AllRead, BeforeEnds
<1>2. /\ model_lines = models /\ lines.ilines = inputs /\ lines.olines = outputs /\ lines.endlines = ends
      /\ lines.num_blif_models = IF models = 0 THEN 0 ELSE models - 1
  BY <1>1, AllRead DEF ReadWhole, LoadInv, LinesCounted
<1>3. LineErrors <=> {inputs, outputs, ends, models} # {IF models = 0 THEN 1 ELSE models}
  <2>1. lines.num_blif_models + 1 = IF models = 0 THEN 1 ELSE models
    BY <1>1, <1>2
  <2>. HIDE DEF models, inputs, outputs, ends
  <2>2. QED
    BY <1>2, <2>1 DEF LineErrors
<1>4. CompleteModels <=> models > 0 /\ {inputs, outputs, ends} = {models}
  BY DEF CompleteModels
<1>5. models \in Nat
  BY <1>1
<1>. HIDE DEF models, inputs, outputs, ends
<1>6. {inputs, outputs, ends} = {models} <=> inputs = models /\ outputs = models /\ ends = models
  OBVIOUS
<1>7. CASE models = 0
  <2>1. models \in {inputs, outputs, ends, models} /\ models \notin {1}
    BY <1>7
  <2>2. LineErrors
    BY <1>3, <1>7, <2>1
  <2>3. QED
    BY <1>4, <1>7, <2>2
<1>8. CASE models # 0
  BY <1>3, <1>4, <1>5, <1>6, <1>8
<1>9. QED
  BY <1>7, <1>8

\* The counts of a net are those of its pins.
LEMMA NetCounts ==
  ASSUME ReadWhole, NEW n \in Nets
  PROVE  /\ n \in Known <=> PinsOf(n) # {}
         /\ num_driver[n] = Cardinality(DriversOf(n))
         /\ num_sinks[n] = Cardinality(SinksOf(n)) /\ num_sinks[n] \in Nat
         /\ num_sinks[n] = 0 <=> SinksOf(n) = {}
         /\ PinsOf(n) = DriversOf(n) \cup SinksOf(n)
         /\ IsFiniteSet(DriversOf(n)) /\ IsFiniteSet(SinksOf(n))
<1>1. TypeOK /\ PinsOf(n) \subseteq Occurrences /\ IsFiniteSet(Occurrences)
  BY AllRead, FinitePins DEF PinsOf
<1>2. IsFiniteSet(PinsOf(n))
  BY <1>1, FS_Subset
<1>3. DriversOf(n) \subseteq PinsOf(n) /\ SinksOf(n) \subseteq PinsOf(n) /\ PinsOf(n) = DriversOf(n) \cup SinksOf(n)
  BY DEF DriversOf, SinksOf
<1>4. IsFiniteSet(DriversOf(n)) /\ IsFiniteSet(SinksOf(n))
  BY <1>2, <1>3, FS_Subset
<1>5. /\ hash[n] = Cardinality(PinsOf(n)) /\ num_driver[n] = Cardinality(DriversOf(n))
      /\ num_sinks[n] = Cardinality(SinksOf(n))
  BY DEF ReadWhole, Placing, LoadedNetlistIsFile
<1>6. Cardinality(PinsOf(n)) \in Nat /\ (Cardinality(PinsOf(n)) = 0 <=> PinsOf(n) = {})
  BY <1>2, FS_EmptySet, FS_CardinalityType
<1>7. Cardinality(SinksOf(n)) \in Nat /\ (Cardinality(SinksOf(n)) = 0 <=> SinksOf(n) = {})
  BY <1>4, FS_EmptySet, FS_CardinalityType
<1>8. QED
  BY <1>3, <1>4, <1>5, <1>6, <1>7 DEF Known

\* check_net counts the drivers of the nets that are known.
LEMMA DriversCompared ==
  ASSUME ReadWhole
  PROVE  (\A n \in Known : num_driver[n] = 1) <=> OneDriverEach
<1>1. Known \subseteq Nets
  BY DEF Known
<1>2. QED
  BY <1>1, NetCounts DEF OneDriverEach

\* The driver entry of a net with one driver is the place of that pin.
LEMMA TheDriver ==
  ASSUME ReadWhole, OneDriverEach, NEW n \in Nets, PinsOf(n) # {}
  PROVE  \E d \in Occurrences :
           /\ DriversOf(n) = {d} /\ Driver(n) = Place(d) /\ PinAt(d).net = n /\ PinAt(d).role = "out"
<1>1. TypeOK /\ IsFiniteSet(DriversOf(n)) /\ Cardinality(DriversOf(n)) = 1
  BY AllRead, NetCounts DEF OneDriverEach
<1>2. PICK d : DriversOf(n) = {d}
  BY <1>1, FS_Singleton
<1>3. d \in Occurrences /\ PinAt(d).net = n /\ PinAt(d).role = "out"
  BY <1>2 DEF DriversOf, SinksOf, PinsOf
<1>4. Driver(n) = Place(Latest(DriversOf(n)))
  BY <1>2 DEF ReadWhole, Placing, LoadedNetlistIsFile
<1>5. Latest({d}) = d
  BY <1>1, <1>3, PinOrder, LatestIs
<1>6. QED
  BY <1>2, <1>3, <1>4, <1>5

\* The nets that are swept are those without sinks.
LEMMA SweptNets ==
  ASSUME ReadWhole, OneDriverEach
  PROVE  Swept = {n \in Nets : PinsOf(n) # {} /\ SinksOf(n) = {}}
<1>1. TypeOK
  BY AllRead
<1>2. ASSUME NEW n \in Nets, PinsOf(n) # {} PROVE logical_block[Driver(n)[1]].type # "OUTPAD"
  <2>1. PICK d \in Occurrences : Driver(n) = Place(d) /\ PinAt(d).role = "out"
    BY <1>2, TheDriver
  <2>2. CASE PadLine(d[1])
    <3>1. d \in PadPins
      BY <1>1, <2>2, PinPlaces
    <3>2. TypeOfPad(d) = "INPAD"
      BY <2>1, <3>1, BlockOfThePad
    <3>3. QED
      BY <2>1, <3>1, <3>2, BlockOfThePad
  <2>3. CASE ~ PadLine(d[1])
    <3>1. d[1] \in BlockLines /\ Place(d)[1] = BlockOfLine(d[1])
      BY <1>1, <2>3, PinPlaces
    <3>2. QED
      BY <2>1, <3>1, BlockOfTheLine DEF TypeOfLine
  <2>4. QED
    BY <2>2, <2>3
<1>3. Known = {n \in Nets : PinsOf(n) # {}}
  BY NetCounts DEF Known
<1>4. QED
  BY <1>2, <1>3, NetCounts DEF Swept

\* The output pins of a block whose net was swept, and those whose net was not.
Dead(b) == {o \in PinsIn(b, "out") : PinAt(o).net \in Nets /\ SinksOf(PinAt(o).net) = {}}
Live(b) == {o \in PinsIn(b, "out") : PinAt(o).net \in Nets /\ SinksOf(PinAt(o).net) # {}}

\* An output pin is the driver of the net it names.
LEMMA PinDrives ==
  ASSUME ReadWhole, OneDriverEach, NEW o \in Occurrences, PinAt(o).role = "out", PinAt(o).net \in Nets
  PROVE  PinsOf(PinAt(o).net) # {} /\ DriversOf(PinAt(o).net) = {o} /\ Driver(PinAt(o).net) = Place(o)
<1>. DEFINE n == PinAt(o).net
<1>1. o \in PinsOf(n) /\ o \in DriversOf(n)
  BY DEF PinsOf, DriversOf, SinksOf
<1>2. PICK d \in Occurrences : DriversOf(n) = {d} /\ Driver(n) = Place(d)
  BY <1>1, TheDriver
<1>3. d = o
  BY <1>1, <1>2
<1>4. QED
  BY <1>1, <1>2, <1>3

\* A net is swept from the pins that name it and no sink does.
LEMMA SweptPins ==
  ASSUME ReadWhole, OneDriverEach, NEW b \in BlockIds
  PROVE  /\ \A s : SweptAt(b, s) # {} <=> \E o \in Dead(b) : PinAt(o).slot = s
         /\ Cardinality({n \in Swept : Driver(n)[1] = b}) = Cardinality(Dead(b))
<1>. DEFINE T == {n \in Swept : Driver(n)[1] = b}
            S == Dead(b)
            f == [o \in S |-> PinAt(o).net]
<1>1. /\ TypeOK /\ Swept = {n \in Nets : PinsOf(n) # {} /\ SinksOf(n) = {}}
      /\ PinsIn(b, "out") = {o \in Occurrences : Place(o)[1] = b /\ PinAt(o).role = "out"}
  BY AllRead, SweptNets
<1>2. ASSUME NEW o \in S
      PROVE  /\ o \in Occurrences /\ PinAt(o).net \in Swept /\ Driver(PinAt(o).net) = Place(o)
             /\ DriversOf(PinAt(o).net) = {o} /\ Place(o)[1] = b /\ Place(o) = <<b, PinAt(o).slot>>
  <2>1. o \in Occurrences /\ Place(o)[1] = b /\ PinAt(o).role = "out" /\ PinAt(o).net \in Nets
        /\ SinksOf(PinAt(o).net) = {}
    BY <1>1 DEF Dead
  <2>2. PinsOf(PinAt(o).net) # {} /\ DriversOf(PinAt(o).net) = {o} /\ Driver(PinAt(o).net) = Place(o)
    BY <2>1, PinDrives
  <2>3. Place(o) = <<Place(o)[1], PinAt(o).slot>>
    BY <1>1, <2>1, PinPlaces
  <2>4. QED
    BY <1>1, <2>1, <2>2, <2>3
<1>3. ASSUME NEW n \in Swept, Driver(n)[1] = b
      PROVE  \E o \in S : PinAt(o).net = n /\ Driver(n) = Place(o)
  <2>1. n \in Nets /\ PinsOf(n) # {} /\ SinksOf(n) = {}
    BY <1>1
  <2>2. PICK d \in Occurrences : Driver(n) = Place(d) /\ PinAt(d).net = n /\ PinAt(d).role = "out"
    BY <2>1, TheDriver
  <2>3. d \in S
    BY <1>1, <1>3, <2>1, <2>2 DEF Dead
  <2>4. QED
    BY <2>2, <2>3
<1>4. ASSUME NEW s PROVE SweptAt(b, s) # {} <=> \E o \in Dead(b) : PinAt(o).slot = s
  <2>1. ASSUME NEW n \in SweptAt(b, s) PROVE \E o \in Dead(b) : PinAt(o).slot = s
    <3>1. n \in Swept /\ Driver(n) = <<b, s>>
      BY DEF SweptAt
    <3>2. PICK o \in S : Driver(n) = Place(o)
      BY <1>3, <3>1
    <3>3. PinAt(o).slot = s
      BY <1>2, <3>1, <3>2
    <3>4. QED
      BY <3>3
  <2>2. ASSUME NEW o \in Dead(b), PinAt(o).slot = s PROVE SweptAt(b, s) # {}
    <3>1. PinAt(o).net \in Swept /\ Driver(PinAt(o).net) = <<b, s>>
      BY <1>2, <2>2
    <3>2. QED
      BY <3>1 DEF SweptAt
  <2>3. QED
    BY <2>1, <2>2
<1>5. Cardinality(T) = Cardinality(S)
  <2>1. IsFiniteSet(S)
    <3>1. IsFiniteSet(PinsIn(b, "out")) /\ S \subseteq PinsIn(b, "out")
      BY <1>1, FinitePinsIn DEF Dead
    <3>2. QED
      BY <3>1, FS_Subset
  <2>2. f \in [S -> T]
    BY <1>2
  <2>3. \A n \in T : \E o \in S : f[o] = n
    BY <1>3
  <2>4. \A o, p \in S : f[o] = f[p] => o = p
    <3>1. \A o, p \in S : PinAt(o).net = PinAt(p).net => {o} = {p}
      BY <1>2
    <3>2. QED
      BY <3>1
  <2>. HIDE DEF S, T
  <2>5. f \in Bijection(S, T)
    <3>. HIDE DEF f
    <3>1. QED
      BY <2>2, <2>3, <2>4 DEF Bijection, Injection, Surjection, IsInjective
  <2>6. QED
    BY <2>1, <2>5, FS_Bijection DEF ExistsBijection
<1>6. QED
  BY <1>4, <1>5

\* Pins fill as many slots as they are when each is on a slot of its own.
LEMMA SlotEach ==
  ASSUME NEW U, IsFiniteSet(U), NEW V, \A s \in V : \E o \in U : PinAt(o).slot = s
  PROVE  Cardinality(V) = Cardinality(U)
           <=> /\ \A o \in U : PinAt(o).slot \in V
               /\ \A o, p \in U : PinAt(o).slot = PinAt(p).slot => o = p
<1>. DEFINE f == [o \in U |-> PinAt(o).slot]
            W == {PinAt(o).slot : o \in U}
<1>1. f \in Surjection(U, W)
  BY DEF Surjection
<1>2. f \in Injection(U, W) <=> \A o, p \in U : PinAt(o).slot = PinAt(p).slot => o = p
  BY DEF Injection, IsInjective
<1>3. V \subseteq W
  OBVIOUS
<1>4. W \subseteq V <=> \A o \in U : PinAt(o).slot \in V
  OBVIOUS
<1>. HIDE DEF f, W
<1>5. /\ IsFiniteSet(W) /\ Cardinality(W) <= Cardinality(U)
      /\ Cardinality(W) = Cardinality(U) <=> f \in Injection(U, W)
  BY <1>1, FS_Surjection
<1>6. /\ IsFiniteSet(V) /\ Cardinality(V) <= Cardinality(W)
      /\ Cardinality(W) = Cardinality(V) => W = V
  BY <1>3, <1>5, FS_Subset
<1>7. Cardinality(V) \in Nat /\ Cardinality(W) \in Nat /\ Cardinality(U) \in Nat
  BY <1>5, <1>6, FS_CardinalityType
<1>8. CASE Cardinality(V) = Cardinality(U)
  <2>1. Cardinality(W) = Cardinality(U) /\ Cardinality(W) = Cardinality(V)
    BY <1>5, <1>6, <1>7, <1>8
  <2>2. W = V /\ f \in Injection(U, W)
    BY <1>5, <1>6, <2>1
  <2>3. QED
    BY <1>2, <1>4, <1>8, <2>2
<1>9. CASE Cardinality(V) # Cardinality(U)
  <2>1. ~ (W \subseteq V) \/ f \notin Injection(U, W)
    <3>1. W \subseteq V => Cardinality(V) = Cardinality(W)
      BY <1>3
    <3>2. QED
      BY <1>5, <1>9, <3>1
  <2>2. QED
    BY <1>2, <1>4, <1>9, <2>1
<1>10. QED
  BY <1>8, <1>9

\* The contents of a block, once the file is read.
LEMMA BlockContents ==
  ASSUME ReadWhole, NEW b \in BlockIds
  PROVE  /\ logical_block[b] \in Block
         /\ \A s \in Slots : Holds(AtSlot(b, "in", s), logical_block[b].ins[s])
         /\ \A s \in Slots : Holds(AtSlot(b, "out", s), logical_block[b].outs[s])
         /\ Holds(PinsIn(b, "clk"), logical_block[b].clk)
         /\ logical_block[b].nin = Cardinality(Used(PinsIn(b, "in")))
         /\ logical_block[b].nout = Cardinality(Used(PinsIn(b, "out")))
<1>1. HeldBlock(b)
  BY AllRead DEF ReadWhole, LoadInv, Contents, IsLoading
<1>2. logical_block[b] \in Block
  BY AllRead DEF TypeOK, BlocksTypeOK, BlockIds
<1>3. QED
  BY <1>1, <1>2 DEF HeldBlock, InsHeld, OutsHeld, ClkHeld

\* A net is held where a pin that names it came last.
LEMMA HeldNet ==
  ASSUME TypeOK, NEW S, S \subseteq Occurrences, NEW net, Holds(S, net)
  PROVE  /\ net # OPEN => \E o \in S : Last(S, o) /\ PinAt(o).net = net /\ net \in Nets
         /\ \A o \in S : Last(S, o) /\ PinAt(o).net \in Nets => net = PinAt(o).net /\ net # OPEN
         /\ S # {} => \E o \in S : Last(S, o)
<1>1. OPEN \notin Nets
  BY NetsAssumption
<1>2. S # {} => \E o \in S : Last(S, o) /\ net = NetIndex(PinAt(o))
  BY DEF Holds
<1>3. net # OPEN => \E o \in S : Last(S, o) /\ PinAt(o).net = net /\ net \in Nets
  BY <1>1, <1>2 DEF Holds, NetIndex
<1>4. ASSUME NEW o \in S, Last(S, o), PinAt(o).net \in Nets PROVE net = PinAt(o).net /\ net # OPEN
  <2>1. PICK p \in S : Last(S, p) /\ net = NetIndex(PinAt(p))
    BY <1>2, <1>4
  <2>2. o = p
    BY <1>4, <2>1, PinOrder DEF Last
  <2>3. QED
    BY <1>1, <1>4, <2>1, <2>2 DEF NetIndex
<1>5. QED
  BY <1>2, <1>3, <1>4

\* No pin of the block is overwritten by a later one of the same port.
NoneReplaced(b, role) ==
  \A p, q \in PinsIn(b, role) : p # q /\ NotAfter(p, q) => ~ Overwritten(PinAt(p), PinAt(q))

\* The inputs of a block fill as many slots as it counts when none is overwritten.
LEMMA InputsCounted ==
  ASSUME ReadWhole, NEW b \in BlockIds, ~ UnusedInpad(b)
  PROVE  /\ Cardinality(UsedIns(b)) = logical_block[b].nin <=> NoneReplaced(b, "in")
         /\ \A s \in UsedIns(b) : \E o \in AtSlot(b, "in", s) :
              PinAt(o).net = logical_block[b].ins[s] /\ PinAt(o).net \in Nets
         /\ NoneReplaced(b, "in") => \A o \in Used(PinsIn(b, "in")) :
              logical_block[b].ins[PinAt(o).slot] = PinAt(o).net
<1>. DEFINE P == PinsIn(b, "in")
            U == Used(P)
            V == UsedIns(b)
<1>1. TypeOK /\ P \subseteq Occurrences /\ IsFiniteSet(U)
  BY AllRead, FinitePinsIn
<1>2. V = {s \in Slots : logical_block[b].ins[s] # OPEN}
  BY DEF UsedIns, Kept
<1>3. ASSUME NEW o \in P
      PROVE  /\ o \in Occurrences /\ PinAt(o).role = "in" /\ PinAt(o).slot \in Slots
             /\ o \in AtSlot(b, "in", PinAt(o).slot)
  <2>1. PinAt(o) \in Pin
    BY <1>1, OccurrenceType
  <2>2. QED
    BY <1>1, <2>1 DEF PinsIn, AtSlot, Pin
<1>4. ASSUME NEW s \in Slots
      PROVE  /\ logical_block[b].ins[s] # OPEN =>
                  \E o \in AtSlot(b, "in", s) : Last(AtSlot(b, "in", s), o)
                     /\ PinAt(o).net = logical_block[b].ins[s] /\ PinAt(o).net \in Nets
             /\ \A o \in AtSlot(b, "in", s) : Last(AtSlot(b, "in", s), o) /\ PinAt(o).net \in Nets
                  => logical_block[b].ins[s] = PinAt(o).net /\ s \in V
             /\ AtSlot(b, "in", s) # {} => \E o \in AtSlot(b, "in", s) : Last(AtSlot(b, "in", s), o)
             /\ AtSlot(b, "in", s) \subseteq P
  <2>1. AtSlot(b, "in", s) \subseteq P /\ AtSlot(b, "in", s) \subseteq Occurrences
    BY <1>1 DEF AtSlot
  <2>2. QED
    BY <1>1, <1>2, <2>1, BlockContents, HeldNet
<1>5. \A s \in V : \E o \in AtSlot(b, "in", s) :
        /\ Last(AtSlot(b, "in", s), o) /\ o \in U /\ PinAt(o).slot = s
        /\ PinAt(o).net = logical_block[b].ins[s] /\ PinAt(o).net \in Nets
  BY <1>2, <1>4 DEF Used, AtSlot
<1>6. ASSUME \A o \in U : PinAt(o).slot \in V,
             \A o, p \in U : PinAt(o).slot = PinAt(p).slot => o = p
      PROVE  NoneReplaced(b, "in")
  <2>. SUFFICES ASSUME NEW p \in P, NEW q \in P, p # q, NotAfter(p, q), Overwritten(PinAt(p), PinAt(q))
                PROVE  FALSE
    BY DEF NoneReplaced
  <2>1. p \in U /\ PinAt(q).slot = PinAt(p).slot
    BY DEF Overwritten, Used
  <2>2. PICK o \in U : PinAt(o).slot = PinAt(p).slot /\ Last(AtSlot(b, "in", PinAt(p).slot), o)
    BY <1>5, <1>6, <2>1
  <2>3. o = p
    BY <1>6, <2>1, <2>2
  <2>4. NotAfter(q, p)
    BY <1>3, <2>1, <2>2, <2>3 DEF Last
  <2>5. QED
    BY <1>1, <1>3, <2>4, PinOrder
<1>7. ASSUME NoneReplaced(b, "in"), NEW o \in U
      PROVE  /\ logical_block[b].ins[PinAt(o).slot] = PinAt(o).net /\ PinAt(o).slot \in V
             /\ \A p \in U : PinAt(o).slot = PinAt(p).slot => o = p
  <2>1. ASSUME NEW p \in P, NEW q \in P, PinAt(p).slot = PinAt(q).slot, PinAt(p).net \in Nets, NotAfter(p, q)
        PROVE  p = q
    <3>1. PinAt(p).role = "in" /\ PinAt(q).role = "in"
      BY <1>3
    <3>2. Overwritten(PinAt(p), PinAt(q))
      BY <2>1, <3>1 DEF Overwritten
    <3>3. QED
      BY <1>7, <2>1, <3>2 DEF NoneReplaced
  <2>2. o \in P /\ PinAt(o).net \in Nets
    BY DEF Used
  <2>. DEFINE s == PinAt(o).slot
  <2>3. PICK l \in AtSlot(b, "in", s) : Last(AtSlot(b, "in", s), l)
    BY <1>3, <1>4, <2>2
  <2>4. l \in P /\ PinAt(l).slot = s /\ NotAfter(o, l)
    BY <1>3, <2>2, <2>3 DEF AtSlot, Last
  <2>5. l = o
    BY <2>1, <2>2, <2>4
  <2>6. logical_block[b].ins[s] = PinAt(o).net /\ s \in V
    BY <1>3, <1>4, <2>2, <2>3, <2>5
  <2>7. ASSUME NEW p \in U, PinAt(o).slot = PinAt(p).slot PROVE o = p
    <3>1. p \in P /\ PinAt(p).net \in Nets
      BY DEF Used
    <3>2. NotAfter(o, p) \/ NotAfter(p, o)
      BY <1>1, <1>3, <2>2, <3>1, PinOrder
    <3>3. QED
      BY <2>1, <2>2, <2>7, <3>1, <3>2
  <2>8. QED
    BY <2>6, <2>7
<1>8. Cardinality(V) = Cardinality(U) <=> NoneReplaced(b, "in")
  <2>1. \A s \in V : \E o \in U : PinAt(o).slot = s
    BY <1>5
  <2>. HIDE DEF U, V
  <2>2. Cardinality(V) = Cardinality(U)
           <=> /\ \A o \in U : PinAt(o).slot \in V
               /\ \A o, p \in U : PinAt(o).slot = PinAt(p).slot => o = p
    BY <1>1, <2>1, SlotEach
  <2>3. QED
    BY <1>6, <1>7, <2>2
<1>9. logical_block[b].nin = Cardinality(U)
  BY BlockContents
<1>10. QED
  BY <1>5, <1>7, <1>8, <1>9

\* The outputs left by the sweep are those of the nets with sinks.
LEMMA OutputsSwept ==
  ASSUME ReadWhole, OneDriverEach, NEW b \in BlockIds
  PROVE  /\ SweptBlocks[b].nout = Cardinality(Live(b)) /\ IsFiniteSet(Live(b))
         /\ SweptBlocks[b].type = logical_block[b].type
         /\ \A s \in Slots : SweptBlocks[b].outs[s] =
              IF \E o \in Dead(b) : PinAt(o).slot = s THEN OPEN ELSE logical_block[b].outs[s]
<1>1. TypeOK
  BY AllRead
<1>2. /\ SweptBlocks[b].type = logical_block[b].type
      /\ SweptBlocks[b].nout = logical_block[b].nout - Cardinality({n \in Swept : Driver(n)[1] = b})
      /\ \A s \in Slots : SweptBlocks[b].outs[s] = IF SweptAt(b, s) # {} THEN OPEN ELSE logical_block[b].outs[s]
  BY <1>1, SweptFields
<1>3. /\ \A s : SweptAt(b, s) # {} <=> \E o \in Dead(b) : PinAt(o).slot = s
      /\ Cardinality({n \in Swept : Driver(n)[1] = b}) = Cardinality(Dead(b))
  BY SweptPins
<1>. DEFINE U == Used(PinsIn(b, "out"))
<1>4. IsFiniteSet(U) /\ logical_block[b].nout = Cardinality(U)
  BY <1>1, FinitePinsIn, BlockContents
<1>5. Live(b) = U \ Dead(b) /\ U \cap Dead(b) = Dead(b)
  BY DEF Live, Dead, Used
<1>. HIDE DEF U
<1>6. IsFiniteSet(Live(b)) /\ Cardinality(Live(b)) = Cardinality(U) - Cardinality(Dead(b))
  BY <1>4, <1>5, FS_Difference
<1>7. QED
  BY <1>2, <1>3, <1>4, <1>6

\* The outputs of a block fill as many slots as it counts when none is overwritten.
LEMMA OutputsCounted ==
  ASSUME ReadWhole, OneDriverEach, NEW b \in BlockIds
  PROVE  /\ ~ UnusedInpad(b) => (Cardinality(UsedOuts(b)) = SweptBlocks[b].nout <=> NoneReplaced(b, "out"))
         /\ \A s \in Slots : SweptBlocks[b].outs[s] # OPEN =>
              \E o \in Live(b) : PinAt(o).slot = s /\ PinAt(o).net = SweptBlocks[b].outs[s]
         /\ NoneReplaced(b, "out") => \A o \in Live(b) : SweptBlocks[b].outs[PinAt(o).slot] = PinAt(o).net
<1>. DEFINE P == PinsIn(b, "out")
            U == Live(b)
            V == {s \in Slots : SweptBlocks[b].outs[s] # OPEN}
<1>1. TypeOK /\ P \subseteq Occurrences /\ IsFiniteSet(U) /\ U \subseteq P
  BY AllRead, FinitePinsIn, OutputsSwept DEF Live
<1>2. ~ UnusedInpad(b) => UsedOuts(b) = V
  BY DEF UsedOuts, Kept
<1>3. ASSUME NEW o \in P
      PROVE  /\ o \in Occurrences /\ PinAt(o).role = "out" /\ PinAt(o).slot \in Slots
             /\ o \in AtSlot(b, "out", PinAt(o).slot)
  <2>1. PinAt(o) \in Pin
    BY <1>1, OccurrenceType
  <2>2. QED
    BY <1>1, <2>1 DEF PinsIn, AtSlot, Pin
<1>4. ASSUME NEW s \in Slots
      PROVE  /\ logical_block[b].outs[s] # OPEN =>
                  \E o \in AtSlot(b, "out", s) : Last(AtSlot(b, "out", s), o)
                     /\ PinAt(o).net = logical_block[b].outs[s] /\ PinAt(o).net \in Nets
             /\ \A o \in AtSlot(b, "out", s) : Last(AtSlot(b, "out", s), o) /\ PinAt(o).net \in Nets
                  => logical_block[b].outs[s] = PinAt(o).net /\ logical_block[b].outs[s] # OPEN
             /\ AtSlot(b, "out", s) # {} => \E o \in AtSlot(b, "out", s) : Last(AtSlot(b, "out", s), o)
             /\ AtSlot(b, "out", s) \subseteq P
  <2>1. AtSlot(b, "out", s) \subseteq P /\ AtSlot(b, "out", s) \subseteq Occurrences
    BY <1>1 DEF AtSlot
  <2>2. QED
    BY <1>1, <2>1, BlockContents, HeldNet
<1>5. ASSUME NEW s \in V
      PROVE  /\ \A d \in Dead(b) : PinAt(d).slot # s
             /\ \E o \in U : /\ Last(AtSlot(b, "out", s), o) /\ PinAt(o).slot = s
                             /\ PinAt(o).net = SweptBlocks[b].outs[s]
  <2>1. /\ \A d \in Dead(b) : PinAt(d).slot # s
        /\ SweptBlocks[b].outs[s] = logical_block[b].outs[s]
    BY OutputsSwept
  <2>2. PICK o \in AtSlot(b, "out", s) : Last(AtSlot(b, "out", s), o)
                     /\ PinAt(o).net = logical_block[b].outs[s] /\ PinAt(o).net \in Nets
    BY <1>4, <2>1
  <2>3. o \in P /\ PinAt(o).slot = s
    BY <2>2 DEF AtSlot
  <2>4. o \in U
    BY <2>1, <2>2, <2>3 DEF Live, Dead
  <2>5. QED
    BY <2>1, <2>2, <2>3, <2>4
<1>6. ASSUME \A o \in U : PinAt(o).slot \in V,
             \A o, p \in U : PinAt(o).slot = PinAt(p).slot => o = p
      PROVE  NoneReplaced(b, "out")
  <2>. SUFFICES ASSUME NEW p \in P, NEW q \in P, p # q, NotAfter(p, q), Overwritten(PinAt(p), PinAt(q))
                PROVE  FALSE
    BY DEF NoneReplaced
  <2>1. /\ PinAt(p).net \in Nets /\ PinAt(q).slot = PinAt(p).slot
        /\ SinksOf(PinAt(p).net) # {} \/ (PinAt(q).net \in Nets /\ SinksOf(PinAt(q).net) # {})
    BY <1>3 DEF Overwritten
  <2>2. CASE p \in U
    <3>1. PICK o \in U : PinAt(o).slot = PinAt(p).slot /\ Last(AtSlot(b, "out", PinAt(p).slot), o)
      BY <1>5, <1>6, <2>2
    <3>2. o = p
      BY <1>6, <2>2, <3>1
    <3>3. NotAfter(q, p)
      BY <1>3, <2>1, <3>1, <3>2 DEF Last
    <3>4. QED
      BY <1>1, <1>3, <3>3, PinOrder
  <2>3. CASE p \notin U
    <3>1. p \in Dead(b) /\ q \in U
      BY <2>1, <2>3 DEF Live, Dead
    <3>2. PinAt(q).slot \in V
      BY <1>6, <3>1
    <3>3. QED
      BY <1>5, <2>1, <3>1, <3>2
  <2>4. QED
    BY <2>2, <2>3
<1>7. ASSUME NoneReplaced(b, "out"), NEW o \in U
      PROVE  /\ SweptBlocks[b].outs[PinAt(o).slot] = PinAt(o).net /\ PinAt(o).slot \in V
             /\ \A p \in U : PinAt(o).slot = PinAt(p).slot => o = p
  <2>. DEFINE s == PinAt(o).slot
  <2>1. o \in P /\ PinAt(o).net \in Nets /\ SinksOf(PinAt(o).net) # {}
    BY DEF Live
  <2>2. ASSUME NEW p \in P, PinAt(p).slot = s, PinAt(p).net \in Nets \/ NotAfter(o, p)
        PROVE  p = o
    <3>1. PinAt(p).role = "out" /\ PinAt(o).role = "out"
      BY <1>3, <2>1
    <3>2. NotAfter(p, o) \/ NotAfter(o, p)
      BY <1>1, <2>1, PinOrder
    <3>3. PinAt(p).net \in Nets => Overwritten(PinAt(p), PinAt(o))
      BY <2>1, <2>2, <3>1 DEF Overwritten
    <3>4. Overwritten(PinAt(o), PinAt(p))
      BY <2>1, <2>2, <3>1 DEF Overwritten
    <3>5. QED
      BY <1>7, <2>1, <2>2, <3>2, <3>3, <3>4 DEF NoneReplaced
  <2>3. \A d \in Dead(b) : PinAt(d).slot # s
    <3>1. ASSUME NEW d \in Dead(b), PinAt(d).slot = s PROVE FALSE
      <4>1. d \in P /\ PinAt(d).net \in Nets /\ SinksOf(PinAt(d).net) = {}
        BY DEF Dead
      <4>2. d = o
        BY <2>2, <3>1, <4>1
      <4>3. QED
        BY <2>1, <4>1, <4>2
    <3>2. QED
      BY <3>1
  <2>4. PICK l \in AtSlot(b, "out", s) : Last(AtSlot(b, "out", s), l)
    BY <1>3, <1>4, <2>1
  <2>5. l \in P /\ PinAt(l).slot = s /\ NotAfter(o, l)
    BY <1>3, <2>1, <2>4 DEF AtSlot, Last
  <2>6. l = o
    BY <2>2, <2>5
  <2>7. logical_block[b].outs[s] = PinAt(o).net /\ logical_block[b].outs[s] # OPEN /\ s \in Slots
    BY <1>3, <1>4, <2>1, <2>4, <2>6
  <2>8. SweptBlocks[b].outs[s] = PinAt(o).net /\ s \in V
    BY <2>3, <2>7, OutputsSwept
  <2>9. ASSUME NEW p \in U, PinAt(o).slot = PinAt(p).slot PROVE o = p
    BY <1>1, <2>2, <2>9 DEF Live
  <2>10. QED
    BY <2>8, <2>9
<1>8. Cardinality(V) = Cardinality(U) <=> NoneReplaced(b, "out")
  <2>1. \A s \in V : \E o \in U : PinAt(o).slot = s
    BY <1>5
  <2>. HIDE DEF U, V
  <2>2. Cardinality(V) = Cardinality(U)
           <=> /\ \A o \in U : PinAt(o).slot \in V
               /\ \A o, p \in U : PinAt(o).slot = PinAt(p).slot => o = p
    BY <1>1, <2>1, SlotEach
  <2>3. QED
    BY <1>6, <1>7, <2>2
<1>9. QED
  BY <1>2, <1>5, <1>7, <1>8, OutputsSwept

\* The entries of a net after the first are the places of its sinks, all of them.
LEMMA EntriesAreSinks ==
  ASSUME ReadWhole, NEW n \in Nets
  PROVE  /\ \A j \in 1 .. num_sinks[n] : \E o \in SinksOf(n) : node_block[n][j] = Place(o)
         /\ \A o \in SinksOf(n) : \E j \in 1 .. num_sinks[n] : node_block[n][j] = Place(o)
<1>1. \A j \in 1 .. num_sinks[n] : \E o \in SinksOf(n) : node_block[n][j] = Place(o)
  <2>1. ListedNet(n)
    BY AllRead DEF ReadWhole, LoadInv, Contents, IsLoading
  <2>2. QED
    BY <2>1, AllRead DEF ListedNet
<1>2. ASSUME NEW o \in SinksOf(n)
      PROVE  \E j \in 1 .. num_sinks[n] : node_block[n][j] = Place(o)
  <2>. DEFINE S == {p \in SinksOf(n) : Place(p) = Place(o)}
              J == {j \in 1 .. num_sinks[n] : node_block[n][j] = Place(o)}
  <2>1. Cardinality(S) = Cardinality(J)
    BY DEF ReadWhole, Placing, LoadedNetlistIsFile
  <2>2. IsFiniteSet(SinksOf(n)) /\ S \subseteq SinksOf(n)
    BY NetCounts
  <2>3. o \in S
    OBVIOUS
  <2>. HIDE DEF S
  <2>4. IsFiniteSet(S) /\ S # {}
    BY <2>2, <2>3, FS_Subset
  <2>5. Cardinality(S) # 0
    BY <2>4, FS_EmptySet
  <2>6. J # {}
    BY <2>1, <2>5, FS_EmptySet
  <2>7. QED
    BY <2>6
<1>3. QED
  BY <1>1, <1>2

\* The asserts of check_net hold when no pin is replaced on a block that is kept.
LEMMA AssertsMean ==
  ASSUME ReadWhole, OneDriverEach
  PROVE  AssertsHold <=>
           \A b \in BlockIds : ~ UnusedInpad(b) => NoneReplaced(b, "in") /\ NoneReplaced(b, "out")
<1>1. \A n \in Known : num_driver[n] = 1
  BY DriversCompared
<1>2. ASSUME NEW b \in BlockIds, ~ UnusedInpad(b), NEW s \in UsedIns(b)
      PROVE  LET n == logical_block[b].ins[s]
             IN \E k \in 1 .. num_sinks[n] : node_block[n][k] = <<b, s>>
  <2>1. PICK o \in AtSlot(b, "in", s) :
          PinAt(o).net = logical_block[b].ins[s] /\ PinAt(o).net \in Nets
    BY <1>2, InputsCounted
  <2>2. o \in Occurrences /\ PinAt(o).role = "in" /\ Place(o)[1] = b /\ PinAt(o).slot = s
    BY <2>1, AllRead DEF AtSlot
  <2>3. o \in SinksOf(PinAt(o).net)
    BY <2>2 DEF SinksOf, PinsOf
  <2>4. Place(o) = <<b, s>>
    BY <2>2, AllRead, PinPlaces
  <2>5. QED
    BY <2>1, <2>3, <2>4, EntriesAreSinks
<1>3. ASSUME NEW b \in BlockIds, NEW s \in UsedOuts(b)
      PROVE  Driver(SweptBlocks[b].outs[s]) = <<b, s>>
  <2>1. s \in Slots /\ SweptBlocks[b].outs[s] # OPEN
    BY DEF UsedOuts, Kept
  <2>2. PICK o \in Live(b) : PinAt(o).slot = s /\ PinAt(o).net = SweptBlocks[b].outs[s]
    BY <2>1, OutputsCounted
  <2>3. o \in Occurrences /\ PinAt(o).role = "out" /\ Place(o)[1] = b /\ PinAt(o).net \in Nets
    BY <2>2, AllRead DEF Live
  <2>4. Place(o) = <<b, s>>
    BY <2>2, <2>3, AllRead, PinPlaces
  <2>5. QED
    BY <2>2, <2>3, <2>4, PinDrives
<1>4. ASSUME NEW b \in BlockIds, ~ UnusedInpad(b)
      PROVE  /\ Cardinality(UsedIns(b)) = logical_block[b].nin <=> NoneReplaced(b, "in")
             /\ Cardinality(UsedOuts(b)) = SweptBlocks[b].nout <=> NoneReplaced(b, "out")
  BY <1>4, InputsCounted, OutputsCounted
<1>5. QED
  BY <1>1, <1>2, <1>3, <1>4 DEF AssertsHold

\* The net of a sink is where check_net looks for it.
FoundAt(n, o) ==
  LET block == logical_block[Place(o)[1]]
  IN n = IF is_global[n] THEN block.clk ELSE block.ins[PinAt(o).slot]

\* Then the only error of a net is a sink that is not where check_net looks for it.
LEMMA NetErrorsMean ==
  ASSUME ReadWhole, OneDriverEach, AssertsHold
  PROVE  NetErrors = {} <=> \A n \in Nets : \A o \in SinksOf(n) : FoundAt(n, o)
<1>0. TypeOK
  BY AllRead
<1>1. /\ \A n \in Known : num_driver[n] = 1
      /\ Known \ Swept = {n \in Nets : SinksOf(n) # {}}
  <2>1. \A n \in Nets : SinksOf(n) \subseteq PinsOf(n)
    BY DEF SinksOf
  <2>2. \A n \in Nets : SinksOf(n) # {} => PinsOf(n) # {}
    BY <2>1
  <2>3. Known = {n \in Nets : PinsOf(n) # {}}
    BY NetCounts DEF Known
  <2>4. QED
    BY <2>2, <2>3, DriversCompared, SweptNets
<1>2. ASSUME NEW n \in Nets, SinksOf(n) # {}
      PROVE  NetCheck(n) = {} <=> \A o \in SinksOf(n) : FoundAt(n, o)
  <2>1. num_sinks[n] \in Nat
    BY NetCounts
  <2>2. SweptBlocks[Driver(n)[1]].outs[Driver(n)[2]] = n
    <3>1. PinsOf(n) # {}
      BY <1>2 DEF SinksOf
    <3>2. PICK d \in Occurrences : Driver(n) = Place(d) /\ PinAt(d).net = n /\ PinAt(d).role = "out"
      BY <3>1, TheDriver
    <3>. DEFINE b == Place(d)[1]
    <3>3. Place(d) = <<b, PinAt(d).slot>>
      BY <1>0, PinPlaces
    <3>4. d \in Live(b)
      BY <1>2, <3>2, AllRead DEF Live
    <3>5. b \in BlockIds
      <4>1. CASE PadLine(d[1])
        BY <1>0, <4>1, PinPlaces, BlockOfThePad
      <4>2. CASE ~ PadLine(d[1])
        BY <1>0, <4>2, PinPlaces, BlockOfTheLine
      <4>3. QED
        BY <4>1, <4>2
    <3>6. ~ UnusedInpad(b)
      <4>1. SweptBlocks[b].nout = Cardinality(Live(b)) /\ IsFiniteSet(Live(b))
        BY <3>5, OutputsSwept
      <4>2. SweptBlocks[b].nout # 0
        BY <3>4, <4>1, FS_EmptySet
      <4>3. QED
        BY <4>2 DEF UnusedInpad
    <3>. HIDE DEF b
    <3>7. NoneReplaced(b, "out")
      BY <3>5, <3>6, AssertsMean
    <3>8. SweptBlocks[b].outs[PinAt(d).slot] = n
      BY <3>2, <3>4, <3>5, <3>7, OutputsCounted
    <3>9. QED
      BY <3>2, <3>3, <3>8
  <2>3. ASSUME NEW j \in 1 .. num_sinks[n], NEW o \in SinksOf(n), node_block[n][j] = Place(o)
        PROVE  j \in NetCheck(n) <=> ~ FoundAt(n, o)
    <3>1. o \in Occurrences
      BY DEF SinksOf, PinsOf
    <3>2. Place(o)[2] = PinAt(o).slot
      BY <1>0, <3>1, PinPlaces
    <3>3. j \in 0 .. num_sinks[n] /\ j > 0 /\ j # 0
      BY <2>1
    <3>4. QED
      BY <2>3, <3>2, <3>3 DEF NetCheck, FoundAt
  <2>4. 0 \notin NetCheck(n)
    BY <2>2 DEF NetCheck, Driver
  <2>5. NetCheck(n) \subseteq 0 .. num_sinks[n]
    BY DEF NetCheck
  <2>6. \A j \in NetCheck(n) : j \in 1 .. num_sinks[n]
    BY <2>1, <2>4, <2>5
  <2>7. QED
    BY <2>3, <2>6, EntriesAreSinks
<1>3. NetErrors = {n \in Nets : SinksOf(n) # {} /\ NetCheck(n) # {}}
  BY <1>1 DEF NetErrors
<1>4. QED
  BY <1>2, <1>3

\* The last pin of the net is a clock.
OnClock(n) == PinAt(Latest(PinsOf(n))).role = "clk"

\* Then, and only then, the flag of the net is set.
LEMMA FlagMeans ==
  ASSUME ReadWhole, NEW n \in Nets, PinsOf(n) # {}
  PROVE  is_global[n] <=> OnClock(n)
<1>1. FlaggedNet(n)
  BY AllRead DEF ReadWhole, LoadInv, Contents, IsLoading
<1>2. TypeOK /\ AddedPins(n) = PinsOf(n) /\ PinsOf(n) \subseteq Occurrences
  BY AllRead DEF PinsOf
<1>3. PICK o \in PinsOf(n) : Last(PinsOf(n), o) /\ (is_global[n] <=> PinAt(o).role = "clk")
  BY <1>1, <1>2 DEF FlaggedNet
<1>4. Latest(PinsOf(n)) = o
  BY <1>2, <1>3, LatestIs DEF Last
<1>5. QED
  BY <1>3, <1>4 DEF OnClock

\* The block of a pin, and the pins on it.
LEMMA BlockOfPin ==
  ASSUME ReadWhole, NEW o \in Occurrences
  PROVE  /\ Place(o)[1] \in BlockIds
         /\ o \in PinsIn(Place(o)[1], PinAt(o).role)
         /\ PadLine(o[1]) => o \in PadPins
         /\ ~ PadLine(o[1]) => o[1] \in BlockLines /\ Place(o)[1] = BlockOfLine(o[1])
<1>1. TypeOK
  BY AllRead
<1>2. Place(o)[1] \in BlockIds
  BY <1>1, PinPlaces, BlockOfThePad, BlockOfTheLine
<1>3. QED
  BY <1>1, <1>2, AllRead, PinPlaces

\* The sink of a net, and the pin of its line that check_net asks for.
SinkFound(n, o) ==
  \E k \in DOMAIN file[o[1]].pins :
    LET p == file[o[1]].pins[k]
    IN /\ p.net = n
       /\ IF OnClock(n) THEN p.role = "clk" ELSE p.role = "in" /\ p.slot = PinAt(o).slot

\* A sink that is found is found on a pin of its line.
LEMMA FoundOnLine ==
  ASSUME ReadWhole, NEW n \in Nets, NEW o \in SinksOf(n), FoundAt(n, o)
  PROVE  SinkFound(n, o)
<1>. DEFINE b == Place(o)[1]
<1>1. /\ TypeOK /\ o \in Occurrences /\ PinAt(o) \in Pin /\ PinsOf(n) # {}
  BY AllRead, OccurrenceType DEF SinksOf, PinsOf
<1>2. b \in BlockIds /\ n # OPEN
  BY <1>1, BlockOfPin, NetsAssumption
<1>3. \E q \in Occurrences : /\ Place(q)[1] = b /\ PinAt(q).net = n
                             /\ IF OnClock(n) THEN PinAt(q).role = "clk"
                                ELSE PinAt(q).role = "in" /\ PinAt(q).slot = PinAt(o).slot
  <2>1. CASE OnClock(n)
    <3>1. logical_block[b].clk = n
      BY <1>1, <2>1, FlagMeans DEF FoundAt
    <3>2. PinsIn(b, "clk") \subseteq Occurrences /\ Holds(PinsIn(b, "clk"), logical_block[b].clk)
      BY <1>1, <1>2, FinitePinsIn, BlockContents
    <3>3. PICK q \in PinsIn(b, "clk") : PinAt(q).net = n
      BY <1>1, <1>2, <3>1, <3>2, HeldNet
    <3>4. QED
      BY <2>1, <3>3, AllRead
  <2>2. CASE ~ OnClock(n)
    <3>. DEFINE s == PinAt(o).slot
    <3>1. logical_block[b].ins[s] = n /\ s \in Slots
      BY <1>1, <2>2, FlagMeans DEF FoundAt, Pin
    <3>2. AtSlot(b, "in", s) \subseteq Occurrences /\ Holds(AtSlot(b, "in", s), logical_block[b].ins[s])
      BY <1>1, <1>2, <3>1, FinitePinsIn, BlockContents DEF AtSlot
    <3>. HIDE DEF s
    <3>3. PICK q \in AtSlot(b, "in", s) : PinAt(q).net = n
      BY <1>1, <1>2, <3>1, <3>2, HeldNet
    <3>4. q \in PinsIn(b, "in") /\ PinAt(q).slot = s
      BY <3>3 DEF AtSlot
    <3>5. QED
      BY <2>2, <3>3, <3>4, AllRead DEF s
  <2>3. QED
    BY <2>1, <2>2
<1>4. PICK q \in Occurrences : /\ Place(q)[1] = b /\ PinAt(q).net = n
                             /\ IF OnClock(n) THEN PinAt(q).role = "clk"
                                ELSE PinAt(q).role = "in" /\ PinAt(q).slot = PinAt(o).slot
  BY <1>3
<1>5. q[1] = o[1]
  BY <1>1, <1>4, SameBlock
<1>6. q[2] \in DOMAIN file[o[1]].pins /\ PinAt(q) = file[o[1]].pins[q[2]]
  BY <1>1, <1>5, OccurrenceType DEF PinAt
<1>7. QED
  BY <1>4, <1>6 DEF SinkFound

\* No pin of the line takes the place of another.
CleanLine(l) ==
  \A k, m \in DOMAIN file[l].pins : k < m => ~ Overwritten(file[l].pins[k], file[l].pins[m])

\* The pins that a line names for a port are the pins of its block.
LEMMA CleanMeans ==
  ASSUME ReadWhole, NEW l \in BlockLines
  PROVE  CleanLine(l) <=> \A role \in Roles : NoneReplaced(BlockOfLine(l), role)
<1>1. /\ TypeOK /\ l \in DOMAIN file /\ BlockLine(l)
      /\ \A role : PinsIn(BlockOfLine(l), role) = {o \in Occurrences : o[1] = l /\ PinAt(o).role = role}
  BY AllRead, BlockOfTheLine DEF BlockLines
<1>2. ASSUME CleanLine(l), NEW role \in Roles, NEW p \in PinsIn(BlockOfLine(l), role),
             NEW q \in PinsIn(BlockOfLine(l), role), p # q, NotAfter(p, q)
      PROVE  ~ Overwritten(PinAt(p), PinAt(q))
  <2>1. p \in Occurrences /\ q \in Occurrences /\ p[1] = l /\ q[1] = l
    BY <1>1
  <2>2. /\ p[2] \in Nat /\ q[2] \in Nat /\ p = <<p[1], p[2]>> /\ q = <<q[1], q[2]>> /\ p[1] \in Nat
        /\ p[2] \in DOMAIN file[l].pins /\ q[2] \in DOMAIN file[l].pins /\ PassOf(p[1]) \in Nat
    BY <1>1, <2>1, OccurrenceType
  <2>3. p[2] < q[2]
    BY <1>2, <2>1, <2>2 DEF NotAfter
  <2>4. QED
    BY <1>2, <2>1, <2>2, <2>3 DEF CleanLine, PinAt
<1>3. ASSUME \A role \in Roles : NoneReplaced(BlockOfLine(l), role),
             NEW k \in DOMAIN file[l].pins, NEW m \in DOMAIN file[l].pins, k < m,
             Overwritten(file[l].pins[k], file[l].pins[m])
      PROVE  FALSE
  <2>. DEFINE p == <<l, k>>
              q == <<l, m>>
  <2>1. /\ p \in Occurrences /\ q \in Occurrences /\ PinAt(p) = file[l].pins[k] /\ PinAt(q) = file[l].pins[m]
        /\ p[1] = l /\ q[1] = l /\ p[2] = k /\ q[2] = m
    BY <1>1, OccurrenceIntro DEF PinAt
  <2>2. k \in Nat /\ m \in Nat /\ PinAt(p) \in Pin /\ PassOf(l) \in Nat /\ l \in Nat
    BY <1>1, <2>1, OccurrenceType
  <2>3. PinAt(p).role = PinAt(q).role /\ PinAt(p).role \in Roles
    BY <1>3, <2>1, <2>2 DEF Overwritten, Pin
  <2>4. NotAfter(p, q) /\ p # q
    BY <1>3, <2>1, <2>2 DEF NotAfter
  <2>. HIDE DEF p, q
  <2>5. QED
    BY <1>1, <1>3, <2>1, <2>3, <2>4 DEF NoneReplaced
<1>4. QED
  BY <1>2, <1>3 DEF CleanLine, NoneReplaced

\* No pin of a pad is replaced: it is the only one of its block.
LEMMA PadsClean ==
  ASSUME ReadWhole, NEW o \in PadPins
  PROVE  \A role : NoneReplaced(Place(o)[1], role)
<1>1. \A role : PinsIn(Place(o)[1], role) \subseteq {o}
  BY BlockOfThePad
<1>2. QED
  BY <1>1 DEF NoneReplaced

\* What the keyword of a line says of the roles of its pins.
LEMMA LineRoles ==
  ASSUME TypeOK, NEW o \in Occurrences
  PROVE  LET kind == file[o[1]].kind
             last == Len(file[o[1]].pins)
         IN /\ kind \in {"inputs", "outputs", "names", "latch", "subckt"}
            /\ kind = "inputs" => PinAt(o).role = "out"
            /\ kind = "outputs" => PinAt(o).role = "in"
            /\ kind = "names" => PinAt(o).role = IF o[2] = last THEN "out" ELSE "in"
            /\ kind = "latch" => /\ last = 3 /\ o[2] \in {1, 2, 3}
                                 /\ PinAt(o).role = <<"in", "out", "clk">>[o[2]]
<1>1. /\ o[1] \in DOMAIN file /\ o[2] \in DOMAIN file[o[1]].pins
      /\ BlockLine(o[1]) \/ PadLine(o[1])
      /\ WellTyped(file) /\ file \in Seq(Line)
  BY OccurrenceType DEF TypeOK, PositionTypeOK, WellTyped
<1>2. file[o[1]].kind \in {"inputs", "outputs", "names", "latch", "subckt"}
  BY <1>1 DEF BlockLine, PadLine
<1>3. /\ file[o[1]].kind = "inputs" => PinAt(o).role = "out"
      /\ file[o[1]].kind = "outputs" => PinAt(o).role = "in"
      /\ file[o[1]].kind = "names" => PinAt(o).role = IF o[2] = Len(file[o[1]].pins) THEN "out" ELSE "in"
      /\ file[o[1]].kind = "latch" => /\ Len(file[o[1]].pins) = 3
                                      /\ PinAt(o).role = <<"in", "out", "clk">>[o[2]]
  BY <1>1 DEF WellTyped, PinAt, TypeOK, PositionTypeOK
<1>4. ASSUME file[o[1]].kind = "latch" PROVE o[2] \in {1, 2, 3}
  <2>1. file[o[1]].pins \in Seq(Pin)
    <3>1. file[o[1]] \in Line
      BY <1>1
    <3>2. QED
      BY <3>1 DEF Line
  <2>2. o[2] \in 1 .. 3
    BY <1>1, <1>3, <1>4, <2>1
  <2>3. QED
    BY <2>2
<1>5. QED
  BY <1>2, <1>3, <1>4

\* The clock that names a net is the last one of its block.
LEMMA ClockLast ==
  ASSUME ReadWhole, FullyConnected, NEW l \in BlockLines,
         NEW q \in PinsIn(BlockOfLine(l), "clk"), PinAt(q).net \in Nets
  PROVE  Last(PinsIn(BlockOfLine(l), "clk"), q)
<1>1. /\ TypeOK /\ l \in DOMAIN file /\ BlockLine(l)
      /\ \A r \in PinsIn(BlockOfLine(l), "clk") :
           r \in Occurrences /\ r[1] = l /\ PinAt(r).role = "clk"
  BY AllRead, BlockOfTheLine DEF BlockLines
<1>2. NoneReplaced(BlockOfLine(l), "clk")
  <2>1. CleanLine(l) /\ "clk" \in Roles
    BY <1>1 DEF FullyConnected, CleanLine, Roles
  <2>2. QED
    BY <2>1, CleanMeans
<1>3. ASSUME NEW r \in PinsIn(BlockOfLine(l), "clk"), r # q PROVE PinAt(r).slot = PinAt(q).slot
  <2>1. r = <<r[1], r[2]>> /\ q = <<q[1], q[2]>>
    BY <1>1, OccurrenceType
  <2>2. file[l].kind # "latch"
    <3>1. file[l].kind = "latch" => r[2] = 3 /\ q[2] = 3
      BY <1>1, LineRoles
    <3>2. QED
      BY <1>1, <1>3, <2>1, <3>1
  <2>3. file[l].kind = "subckt"
    BY <1>1, <2>2, LineRoles DEF BlockLine
  <2>4. ASSUME NEW p \in PinsIn(BlockOfLine(l), "clk") PROVE PinAt(p).slot = 0
    <3>1. p[2] \in DOMAIN file[l].pins /\ PinAt(p) = file[l].pins[p[2]]
      BY <1>1, OccurrenceType DEF PinAt
    <3>2. QED
      BY <1>1, <2>3, <3>1 DEF FullyConnected
  <2>5. QED
    BY <2>4
<1>4. ASSUME NEW r \in PinsIn(BlockOfLine(l), "clk") PROVE NotAfter(r, q)
  <2>1. NotAfter(r, r) /\ (NotAfter(r, q) \/ NotAfter(q, r))
    BY <1>1, PinOrder
  <2>2. r # q => Overwritten(PinAt(q), PinAt(r))
    BY <1>1, <1>3 DEF Overwritten
  <2>3. QED
    BY <1>2, <2>1, <2>2 DEF NoneReplaced
<1>5. QED
  BY <1>4 DEF Last

\* A sink that a pin of its line stands for is where check_net looks for it.
LEMMA FoundComplete ==
  ASSUME ReadWhole, FullyConnected, NEW n \in Nets, NEW o \in SinksOf(n), SinkFound(n, o)
  PROVE  FoundAt(n, o)
<1>. DEFINE b == Place(o)[1]
            s == PinAt(o).slot
<1>1. /\ TypeOK /\ o \in Occurrences /\ PinsOf(n) # {} /\ o[1] \in DOMAIN file
      /\ (BlockLine(o[1]) \/ PadLine(o[1])) /\ b \in BlockIds
      /\ PinAt(o).net = n /\ PinAt(o).role # "out"
      /\ (is_global[n] <=> OnClock(n))
  <2>1. TypeOK /\ o \in Occurrences /\ PinsOf(n) # {} /\ PinAt(o).net = n /\ PinAt(o).role # "out"
    BY AllRead DEF SinksOf, PinsOf
  <2>2. QED
    BY <2>1, OccurrenceType, BlockOfPin, FlagMeans
<1>2. PICK q \in Occurrences :
        /\ q[1] = o[1] /\ PinAt(q).net = n
        /\ IF OnClock(n) THEN PinAt(q).role = "clk" ELSE PinAt(q).role = "in" /\ PinAt(q).slot = s
  <2>1. PICK k \in DOMAIN file[o[1]].pins :
           LET p == file[o[1]].pins[k]
           IN p.net = n /\ IF OnClock(n) THEN p.role = "clk" ELSE p.role = "in" /\ p.slot = s
    BY DEF SinkFound
  <2>2. <<o[1], k>> \in Occurrences /\ PinAt(<<o[1], k>>) = file[o[1]].pins[k]
    BY <1>1, OccurrenceType, OccurrenceIntro DEF PinAt
  <2>3. QED
    BY <2>1, <2>2
<1>3. CASE PadLine(o[1])
  <2>1. o \in PadPins /\ file[o[1]].kind \in {"inputs", "outputs"}
    BY <1>1, <1>3, BlockOfPin DEF PadLine
  <2>2. PinAt(o).role = "in" /\ PinAt(q).role # "clk" /\ TypeOfPad(o) = "OUTPAD"
    BY <1>1, <1>2, <2>1, LineRoles DEF TypeOfPad
  <2>3. PinsIn(b, "in") = {o} /\ logical_block[b].type = "OUTPAD"
    BY <2>1, <2>2, BlockOfThePad
  <2>4. ~ UnusedInpad(b)
    BY <1>1, <2>3, SweptFields DEF UnusedInpad
  <2>5. NoneReplaced(b, "in")
    BY <2>1, PadsClean
  <2>6. o \in Used(PinsIn(b, "in"))
    BY <1>1, <2>3 DEF Used
  <2>7. logical_block[b].ins[s] = n
    BY <1>1, <2>4, <2>5, <2>6, InputsCounted
  <2>8. QED
    BY <1>1, <1>2, <2>2, <2>7 DEF FoundAt
<1>4. CASE ~ PadLine(o[1])
  <2>. DEFINE l == o[1]
  <2>1. l \in BlockLines /\ b = BlockOfLine(l) /\ BlockLine(l) /\ l \in DOMAIN file
    BY <1>1, <1>4, BlockOfPin
  <2>2. /\ \A role : PinsIn(b, role) = {p \in Occurrences : p[1] = l /\ PinAt(p).role = role}
        /\ logical_block[b].type = TypeOfLine(l)
    BY <2>1, BlockOfTheLine
  <2>3. q \in PinsIn(b, PinAt(q).role)
    BY <1>2, <2>2
  <2>4. CASE OnClock(n)
    <3>1. q \in PinsIn(b, "clk") /\ Last(PinsIn(b, "clk"), q)
      BY <1>2, <2>1, <2>3, <2>4, ClockLast
    <3>2. PinsIn(b, "clk") \subseteq Occurrences /\ Holds(PinsIn(b, "clk"), logical_block[b].clk)
      BY <1>1, FinitePinsIn, BlockContents
    <3>3. logical_block[b].clk = n
      BY <1>1, <1>2, <3>1, <3>2, HeldNet
    <3>4. QED
      BY <1>1, <2>4, <3>3 DEF FoundAt
  <2>5. CASE ~ OnClock(n)
    <3>1. q \in Used(PinsIn(b, "in")) /\ PinAt(q).slot = s
      BY <1>2, <2>3, <2>5 DEF Used
    <3>2. ~ UnusedInpad(b)
      BY <1>1, <2>2, SweptFields DEF UnusedInpad, TypeOfLine
    <3>3. NoneReplaced(b, "in")
      <4>1. CleanLine(l) /\ "in" \in Roles
        BY <2>1 DEF FullyConnected, CleanLine, Roles
      <4>2. QED
        BY <2>1, <4>1, CleanMeans
    <3>4. logical_block[b].ins[s] = n
      BY <1>1, <1>2, <3>1, <3>2, <3>3, InputsCounted
    <3>5. QED
      BY <1>1, <2>5, <3>4 DEF FoundAt
  <2>6. QED
    BY <2>4, <2>5
<1>5. QED
  BY <1>3, <1>4

\* The size of a set of at most one element.
LEMMA AtMostOne ==
  ASSUME NEW S, NEW x, S \subseteq {x}
  PROVE  /\ IsFiniteSet(S) /\ Cardinality(S) = IF S = {} THEN 0 ELSE 1
<1>1. S = {} \/ S = {x}
  OBVIOUS
<1>2. CASE S = {}
  BY <1>2, FS_EmptySet
<1>3. CASE S = {x}
  <2>1. IsFiniteSet({x}) /\ Cardinality({x}) = 1
    BY FS_Singleton
  <2>2. S # {}
    BY <1>3
  <2>3. QED
    BY <1>3, <2>1, <2>2
<1>4. QED
  BY <1>1, <1>2, <1>3

\* A line is useful when its block drives something that the sweep leaves.
LEMMA UsefulMeans ==
  ASSUME ReadWhole, NEW l \in BlockLines
  PROVE  Useful(l) <=> Live(BlockOfLine(l)) # {}
<1>1. TypeOK /\ l \in DOMAIN file /\ BlockLine(l)
  BY AllRead DEF BlockLines
<1>2. \A o : o \in {l} \X DOMAIN file[l].pins <=> o \in Occurrences /\ o[1] = l
  <2>1. ASSUME NEW o \in {l} \X DOMAIN file[l].pins PROVE o \in Occurrences /\ o[1] = l
    BY <1>1, OccurrenceIntro
  <2>2. ASSUME NEW o \in Occurrences, o[1] = l PROVE o \in {l} \X DOMAIN file[l].pins
    BY <1>1, <2>2, OccurrenceType
  <2>3. QED
    BY <2>1, <2>2
<1>3. {o \in {l} \X DOMAIN file[l].pins :
         PinAt(o).role = "out" /\ PinAt(o).net \in Nets /\ SinksOf(PinAt(o).net) # {}} = Live(BlockOfLine(l))
  BY <1>2, BlockOfTheLine DEF Live
<1>4. QED
  BY <1>3 DEF Useful

\* A latch has an input, an output and a clock.
LEMMA LatchPins ==
  ASSUME ReadWhole, NEW l \in BlockLines, file[l].kind = "latch"
  PROVE  LET b == BlockOfLine(l)
         IN /\ DOMAIN file[l].pins = {1, 2, 3}
            /\ PinsIn(b, "in") = {<<l, 1>>} /\ PinsIn(b, "out") = {<<l, 2>>}
            /\ PinsIn(b, "clk") = {<<l, 3>>}
            /\ \A k \in {1, 2, 3} : PinAt(<<l, k>>) = file[l].pins[k] /\ <<l, k>> \in Occurrences
<1>1. TypeOK /\ l \in DOMAIN file /\ BlockLine(l) /\ file \in Seq(Line) /\ WellTyped(file)
  BY AllRead DEF BlockLines, TypeOK, PositionTypeOK, WellTyped
<1>2. file[l] \in Line
  BY <1>1
<1>3. file[l].pins \in Seq(Pin) /\ Len(file[l].pins) = 3
  BY <1>1, <1>2 DEF Line, WellTyped
<1>4. DOMAIN file[l].pins = {1, 2, 3}
  <2>1. DOMAIN file[l].pins = 1 .. 3
    BY <1>3, LenProperties
  <2>2. QED
    BY <2>1
<1>5. \A k \in {1, 2, 3} : PinAt(<<l, k>>) = file[l].pins[k] /\ <<l, k>> \in Occurrences
  BY <1>1, <1>4, OccurrenceIntro DEF PinAt
<1>6. \A o \in Occurrences : o[1] = l => o = <<l, o[2]>> /\ o[2] \in {1, 2, 3}
                                         /\ PinAt(o).role = <<"in", "out", "clk">>[o[2]]
  BY <1>1, OccurrenceType, LineRoles
<1>7. \A k \in {1, 2, 3} : PinAt(<<l, k>>).role = <<"in", "out", "clk">>[k]
  BY <1>5, <1>6
<1>8. \A role : PinsIn(BlockOfLine(l), role) = {o \in Occurrences : o[1] = l /\ PinAt(o).role = role}
  BY BlockOfTheLine
<1>9. QED
  BY <1>4, <1>5, <1>6, <1>7, <1>8

\* The errors of the block of a line.
LEMMA LineErrorsMean ==
  ASSUME ReadWhole, OneDriverEach, NEW l \in BlockLines
  PROVE  BlockOfLine(l) \notin BlockErrors <=>
           /\ Useful(l)
           /\ file[l].kind = "latch" => \A k \in DOMAIN file[l].pins : file[l].pins[k].net \in Nets
<1>. DEFINE b == BlockOfLine(l)
            block == SweptBlocks[b]
<1>1. /\ TypeOK /\ l \in DOMAIN file /\ BlockLine(l) /\ b \in BlockIds
      /\ block.type = TypeOfLine(l) /\ block.nout = Cardinality(Live(b)) /\ IsFiniteSet(Live(b))
      /\ block.nin = logical_block[b].nin /\ block.clk = logical_block[b].clk
  <2>1. TypeOK /\ l \in DOMAIN file /\ BlockLine(l) /\ b \in BlockIds
    BY AllRead, BlockOfTheLine DEF BlockLines
  <2>2. block.nin = logical_block[b].nin /\ block.clk = logical_block[b].clk
    BY <2>1, BlockContents DEF SweptBlocks, Block
  <2>3. QED
    BY <2>1, <2>2, BlockOfTheLine, OutputsSwept
<1>2. Useful(l) <=> Live(b) # {}
  BY UsefulMeans
<1>3. block.nout = 0 <=> Live(b) = {}
  BY <1>1, FS_EmptySet
<1>4. b \in BlockErrors <=>
        \/ block.type \in {"LUT", "SUBCKT", "LATCH"} /\ block.nout = 0
        \/ block.type = "LATCH" /\ (block.nin # 1 \/ block.nout # 1 \/ block.clk = OPEN)
        \/ block.type = "INPAD" /\ block.nout > 1
        \/ block.type = "OUTPAD" /\ block.nin # 1
        \/ block.type = "LUT" /\ block.nout # 1
  BY <1>1 DEF BlockErrors
<1>5. CASE file[l].kind = "names"
  <2>1. block.type = "LUT"
    BY <1>1, <1>5 DEF TypeOfLine
  <2>2. Live(b) \subseteq {<<l, Len(file[l].pins)>>}
    <3>1. \A o \in Live(b) : o \in Occurrences /\ o[1] = l /\ PinAt(o).role = "out"
      BY BlockOfTheLine DEF Live
    <3>2. \A o \in Live(b) : o = <<l, o[2]>> /\ o[2] = Len(file[l].pins)
      BY <1>1, <1>5, <3>1, OccurrenceType, LineRoles
    <3>3. QED
      BY <3>2
  <2>3. block.nout = IF Live(b) = {} THEN 0 ELSE 1
    BY <1>1, <2>2, AtMostOne
  <2>. HIDE DEF block
  <2>4. QED
    BY <1>2, <1>4, <1>5, <2>1, <2>3
<1>6. CASE file[l].kind = "subckt"
  <2>1. block.type = "SUBCKT"
    BY <1>1, <1>6 DEF TypeOfLine
  <2>. HIDE DEF block
  <2>2. QED
    BY <1>2, <1>3, <1>4, <1>6, <2>1
<1>7. CASE file[l].kind = "latch"
  <2>1. block.type = "LATCH"
    BY <1>1, <1>7 DEF TypeOfLine
  <2>2. /\ DOMAIN file[l].pins = {1, 2, 3}
        /\ PinsIn(b, "in") = {<<l, 1>>} /\ PinsIn(b, "out") = {<<l, 2>>}
        /\ PinsIn(b, "clk") = {<<l, 3>>}
        /\ \A k \in {1, 2, 3} : PinAt(<<l, k>>) = file[l].pins[k] /\ <<l, k>> \in Occurrences
    BY <1>7, LatchPins
  <2>3. block.nin = 1 <=> file[l].pins[1].net \in Nets
    <3>1. Used(PinsIn(b, "in")) \subseteq {<<l, 1>>} /\ (Used(PinsIn(b, "in")) # {} <=> file[l].pins[1].net \in Nets)
      BY <2>2 DEF Used
    <3>2. logical_block[b].nin = Cardinality(Used(PinsIn(b, "in")))
      BY <1>1, BlockContents
    <3>3. Cardinality(Used(PinsIn(b, "in"))) = IF Used(PinsIn(b, "in")) = {} THEN 0 ELSE 1
      BY <3>1, AtMostOne
    <3>4. block.nin = logical_block[b].nin
      BY <1>1
    <3>. HIDE DEF block, b
    <3>5. QED
      BY <3>1, <3>2, <3>3, <3>4
  <2>4. /\ block.nout = IF Live(b) = {} THEN 0 ELSE 1
        /\ Live(b) # {} => file[l].pins[2].net \in Nets
    <3>1. Live(b) \subseteq {<<l, 2>>}
      BY <2>2 DEF Live
    <3>2. Live(b) # {} => file[l].pins[2].net \in Nets
      BY <2>2 DEF Live
    <3>3. QED
      BY <1>1, <3>1, <3>2, AtMostOne
  <2>5. block.clk # OPEN <=> file[l].pins[3].net \in Nets
    <3>1. PinsIn(b, "clk") \subseteq Occurrences /\ Holds(PinsIn(b, "clk"), logical_block[b].clk)
      BY <1>1, FinitePinsIn, BlockContents
    <3>2. logical_block[b].clk # OPEN => PinAt(<<l, 3>>).net \in Nets
      BY <1>1, <2>2, <3>1, HeldNet
    <3>3. PinAt(<<l, 3>>).net \in Nets => logical_block[b].clk # OPEN
      <4>1. NotAfter(<<l, 3>>, <<l, 3>>)
        BY <1>1, <2>2, PinOrder
      <4>2. Last(PinsIn(b, "clk"), <<l, 3>>)
        BY <2>2, <4>1 DEF Last
      <4>3. QED
        BY <1>1, <2>2, <3>1, <4>2, HeldNet
    <3>4. QED
      BY <1>1, <2>2, <3>2, <3>3
  <2>. HIDE DEF block
  <2>6. (\A k \in DOMAIN file[l].pins : file[l].pins[k].net \in Nets)
          <=> file[l].pins[1].net \in Nets /\ file[l].pins[2].net \in Nets /\ file[l].pins[3].net \in Nets
    BY <2>2
  <2>7. QED
    BY <1>2, <1>4, <1>7, <2>1, <2>3, <2>4, <2>5, <2>6
<1>8. QED
  BY <1>1, <1>5, <1>6, <1>7 DEF BlockLine

\* The error of the block of a pad is an output pad of no net.
LEMMA PadErrorsMean ==
  ASSUME ReadWhole, OneDriverEach, NEW o \in PadPins
  PROVE  Place(o)[1] \notin BlockErrors <=> (PinAt(o).role = "in" => PinAt(o).net \in Nets)
<1>. DEFINE b == Place(o)[1]
            block == SweptBlocks[b]
<1>1. /\ b \in BlockIds /\ block.type = TypeOfPad(o) /\ block.nout = Cardinality(Live(b))
      /\ block.nin = logical_block[b].nin
      /\ \A role : PinsIn(b, role) = IF role = PinAt(o).role THEN {o} ELSE {}
      /\ PinAt(o).role = IF TypeOfPad(o) = "INPAD" THEN "out" ELSE "in"
      /\ logical_block[b].nin = Cardinality(Used(PinsIn(b, "in")))
  <2>1. b \in BlockIds
    BY BlockOfThePad
  <2>2. block.nin = logical_block[b].nin
    BY <2>1, BlockContents DEF SweptBlocks, Block
  <2>3. QED
    BY <2>1, <2>2, BlockOfThePad, OutputsSwept, BlockContents
<1>2. block.nout = IF Live(b) = {} THEN 0 ELSE 1
  <2>1. Live(b) \subseteq {o}
    BY <1>1 DEF Live
  <2>2. QED
    BY <1>1, <2>1, AtMostOne
<1>3. block.nin = IF PinAt(o).role = "in" /\ PinAt(o).net \in Nets THEN 1 ELSE 0
  <2>1. /\ Used(PinsIn(b, "in")) \subseteq {o}
        /\ Used(PinsIn(b, "in")) # {} <=> PinAt(o).role = "in" /\ PinAt(o).net \in Nets
    BY <1>1 DEF Used
  <2>2. QED
    BY <1>1, <2>1, AtMostOne
<1>4. TypeOfPad(o) \in {"INPAD", "OUTPAD"}
  BY DEF TypeOfPad
<1>5. b \in BlockErrors <=>
        \/ block.type \in {"LUT", "SUBCKT", "LATCH"} /\ block.nout = 0
        \/ block.type = "LATCH" /\ (block.nin # 1 \/ block.nout # 1 \/ block.clk = OPEN)
        \/ block.type = "INPAD" /\ block.nout > 1
        \/ block.type = "OUTPAD" /\ block.nin # 1
        \/ block.type = "LUT" /\ block.nout # 1
  BY <1>1 DEF BlockErrors
<1>. HIDE DEF block
<1>6. QED
  BY <1>1, <1>2, <1>3, <1>4, <1>5

-----------------------------------------------------------------------------
(* What check_net accepts, and what is accepted *)

\* A file that was loaded to its end is one that can be read.
LEMMA ReadIsReadable ==
  ASSUME ReadWhole
  PROVE  Readable
<1>1. /\ IsLoading /\ pass = 4 /\ TypeOK
      /\ \A l \in DOMAIN file : AcceptedLine(l) /\ AcceptedModel(l)
      /\ \A l \in DOMAIN file : file[l].kind = "names" /\ l + 1 \in DOMAIN file /\ file[l + 1].kind = "row"
                                  => HasBlock(l)
      /\ \A o \in Occurrences : AcceptedPin(o)
  <2>1. IsLoading /\ pass = 4 /\ TypeOK /\ \A o \in Occurrences : Added(o)
    BY AllRead DEF ReadWhole, IsLoading
  <2>2. LinesAccepted /\ Contents
    BY DEF ReadWhole, LoadInv
  <2>3. \A o \in Occurrences : AcceptedPin(o)
    BY <2>1, <2>2 DEF Contents
  <2>4. \A l \in DOMAIN file : AcceptedLine(l) /\ AcceptedModel(l)
    BY <2>1, <2>2 DEF LinesAccepted, PassedThird
  <2>5. QED
    BY <2>1, <2>2, <2>3, <2>4 DEF LinesAccepted
<1>2. ASSUME NEW l \in DOMAIN file, file[l].kind = "names", RowsOf(l) # {}
      PROVE  PadPins # {} \/ \E m \in 1 .. l : BlockLine(m)
  <2>1. DOMAIN file = 1 .. Len(file) /\ Len(file) \in Nat
    BY <1>1 DEF TypeOK, PositionTypeOK, WellTyped
  <2>2. PICK r \in l + 1 .. Len(file) : \A m \in l + 1 .. r : file[m].kind = "row"
    BY <1>2 DEF RowsOf
  <2>3. l + 1 \in l + 1 .. r /\ l + 1 \in DOMAIN file
    BY <2>1, <2>2
  <2>4. HasBlock(l)
    BY <1>1, <1>2, <2>2, <2>3
  <2>5. QED
    BY <2>4 DEF HasBlock
<1>3. \A l \in DOMAIN file :
       /\ file[l].kind \notin {"nameless", "unpaired"}
       /\ file[l].kind = "names" => ~ TooWide(file[l])
       /\ file[l].kind \in {"latch", "subckt"} => file[l].known
       /\ file[l].kind = "model" => file[l].known \/ \A m \in 1 .. l - 1 : file[m].kind # "model"
  BY <1>1 DEF AcceptedLine, AcceptedModel
<1>4. \A o \in Occurrences : PinAt(o).net # "open" /\ PinAt(o).role \notin {"none", "beyond"}
  BY <1>1 DEF AcceptedPin
<1>5. ASSUME NEW l \in DOMAIN file, file[l].kind = "names", NEW r \in RowsOf(l) PROVE file[r].known
  <2>1. DOMAIN file = 1 .. Len(file) /\ Len(file) \in Nat
    BY <1>1 DEF TypeOK, PositionTypeOK, WellTyped
  <2>2. r \in l + 1 .. Len(file) /\ \A m \in l + 1 .. r : file[m].kind = "row"
    BY DEF RowsOf
  <2>3. r \in DOMAIN file /\ file[r].kind = "row" /\ l \in 1 .. r - 1
    BY <2>1, <2>2
  <2>4. FollowsNames(r)
    BY <1>5, <2>1, <2>2, <2>3 DEF FollowsNames
  <2>5. QED
    BY <1>1, <2>3, <2>4 DEF AcceptedLine
<1>6. QED
  BY <1>2, <1>3, <1>4, <1>5 DEF Readable

\* The clock of a block that was loaded is not replaced: a .names has none, a latch has one
\* and a subckt meets assert(clock_net == OPEN).
LEMMA ClocksClean ==
  ASSUME ReadWhole, NEW l \in BlockLines
  PROVE  \A role \in {"clk", "none", "beyond"} : NoneReplaced(BlockOfLine(l), role)
<1>1. /\ TypeOK /\ l \in DOMAIN file /\ BlockLine(l)
      /\ \A role : PinsIn(BlockOfLine(l), role) = {o \in Occurrences : o[1] = l /\ PinAt(o).role = role}
      /\ \A o \in Occurrences : AcceptedPin(o)
  BY AllRead, BlockOfTheLine DEF BlockLines, ReadWhole, LoadInv, Contents, IsLoading
<1>2. NoneReplaced(BlockOfLine(l), "none") /\ NoneReplaced(BlockOfLine(l), "beyond")
  BY <1>1 DEF NoneReplaced, AcceptedPin
<1>3. ASSUME NEW p \in PinsIn(BlockOfLine(l), "clk"), NEW q \in PinsIn(BlockOfLine(l), "clk"),
             p # q, NotAfter(p, q)
      PROVE  ~ Overwritten(PinAt(p), PinAt(q))
  <2>1. /\ p \in Occurrences /\ p[1] = l /\ PinAt(p).role = "clk"
        /\ q \in Occurrences /\ q[1] = l /\ PinAt(q).role = "clk"
    BY <1>1
  <2>2. /\ p = <<p[1], p[2]>> /\ q = <<q[1], q[2]>> /\ p[2] \in Nat /\ q[2] \in Nat /\ PassOf(l) \in Nat
        /\ l \in Nat
    BY <1>1, <2>1, OccurrenceType
  <2>3. p[2] < q[2]
    <3>1. p[2] # q[2]
      BY <1>3, <2>1, <2>2
    <3>2. p[2] <= q[2]
      BY <1>3, <2>1, <2>2 DEF NotAfter
    <3>3. QED
      BY <2>2, <3>1, <3>2
  <2>4. file[l].kind \in {"names", "latch", "subckt"}
    BY <1>1 DEF BlockLine
  <2>5. file[l].kind # "names"
    BY <1>1, <2>1, LineRoles
  <2>6. file[l].kind # "latch"
    <3>1. ASSUME file[l].kind = "latch", NEW o \in Occurrences, o[1] = l, PinAt(o).role = "clk" PROVE o[2] = 3
      <4>1. o[2] \in {1, 2, 3} /\ PinAt(o).role = <<"in", "out", "clk">>[o[2]]
        BY <1>1, <3>1, LineRoles
      <4>2. QED
        BY <3>1, <4>1
    <3>2. QED
      BY <2>1, <2>3, <3>1
  <2>7. PinAt(p).net \notin Nets
    BY <1>1, <2>1, <2>3, <2>4, <2>5, <2>6 DEF AcceptedPin
  <2>8. QED
    BY <2>7 DEF Overwritten
<1>4. QED
  BY <1>2, <1>3 DEF NoneReplaced

\* What check_net accepts is well formed, its clocks in an order it can check.
LEMMA CheckedIsWellFormed ==
  ASSUME ReadWhole, AssertsHold, ~ LineErrors, NetErrors = {}, BlockErrors = {}
  PROVE  WellFormed /\ ClockOrder
<1>1. OneDriverEach
  <2>1. \A n \in Known : num_driver[n] = 1
    BY DEF NetErrors
  <2>2. QED
    BY <2>1, DriversCompared
<1>2. Readable /\ CompleteModels
  BY ReadIsReadable, LinesCompared
<1>3. ASSUME NEW l \in BlockLines PROVE CleanLine(l)
  <2>1. /\ BlockOfLine(l) \in BlockIds
        /\ logical_block[BlockOfLine(l)].type = TypeOfLine(l)
    BY BlockOfTheLine
  <2>2. SweptBlocks[BlockOfLine(l)].type = TypeOfLine(l)
    BY <1>1, <2>1, OutputsSwept
  <2>3. ~ UnusedInpad(BlockOfLine(l))
    BY <2>2 DEF UnusedInpad, TypeOfLine
  <2>4. NoneReplaced(BlockOfLine(l), "in") /\ NoneReplaced(BlockOfLine(l), "out")
    BY <1>1, <2>1, <2>3, AssertsMean
  <2>5. QED
    BY <2>4, ClocksClean, CleanMeans DEF Roles
<1>4. FullyConnected
  <2>1. ASSUME NEW l \in DOMAIN file, BlockLine(l)
        PROVE  /\ Useful(l)
               /\ file[l].kind = "latch" => \A k \in DOMAIN file[l].pins : file[l].pins[k].net \in Nets
               /\ \A k, m \in DOMAIN file[l].pins : k < m => ~ Overwritten(file[l].pins[k], file[l].pins[m])
               /\ file[l].kind = "subckt" =>
                    \A k \in DOMAIN file[l].pins : file[l].pins[k].role = "clk" => file[l].pins[k].slot = 0
    <3>1. l \in BlockLines
      BY <2>1 DEF BlockLines
    <3>2. /\ Useful(l)
          /\ file[l].kind = "latch" => \A k \in DOMAIN file[l].pins : file[l].pins[k].net \in Nets
      BY <1>1, <3>1, LineErrorsMean
    <3>3. CleanLine(l)
      BY <1>3, <3>1
    <3>4. ASSUME file[l].kind = "subckt", NEW k \in DOMAIN file[l].pins, file[l].pins[k].role = "clk"
          PROVE  file[l].pins[k].slot = 0
      <4>1. <<l, k>> \in Occurrences /\ PinAt(<<l, k>>) = file[l].pins[k]
        BY <2>1, OccurrenceIntro DEF PinAt
      <4>2. AcceptedPin(<<l, k>>)
        BY <4>1, AllRead DEF ReadWhole, LoadInv, Contents, IsLoading
      <4>3. QED
        BY <3>4, <4>1, <4>2 DEF AcceptedPin
    <3>5. QED
      BY <3>2, <3>3, <3>4 DEF CleanLine
  <2>2. ASSUME NEW o \in PadPins PROVE PinAt(o).role = "in" => PinAt(o).net \in Nets
    BY <1>1, PadErrorsMean
  <2>3. QED
    BY <2>1, <2>2 DEF FullyConnected
<1>5. ClockOrder
  <2>1. ASSUME NEW n \in Nets, NEW o \in SinksOf(n) PROVE SinkFound(n, o)
    <3>1. FoundAt(n, o)
      BY <1>1, NetErrorsMean
    <3>2. QED
      BY <3>1, FoundOnLine
  <2>2. QED
    BY <2>1 DEF ClockOrder, SinkFound, OnClock
<1>6. QED
  BY <1>1, <1>2, <1>4, <1>5 DEF WellFormed

\* And check_net finds nothing wrong with a well-formed file of that kind.
LEMMA WellFormedIsChecked ==
  ASSUME ReadWhole, WellFormed, ClockOrder
  PROVE  AssertsHold /\ ~ LineErrors /\ NetErrors = {} /\ BlockErrors = {} /\ ~ PrintsOpenNet
<1>1. Readable /\ CompleteModels /\ OneDriverEach /\ FullyConnected
  BY DEF WellFormed
<1>2. ~ LineErrors
  BY <1>1, LinesCompared
<1>3. AssertsHold
  <2>1. ASSUME NEW b \in BlockIds, NEW role \in Roles PROVE NoneReplaced(b, role)
    <3>1. CASE \E l \in BlockLines : b = BlockOfLine(l)
      <4>1. PICK l \in BlockLines : b = BlockOfLine(l)
        BY <3>1
      <4>2. CleanLine(l)
        BY <1>1, <4>1 DEF FullyConnected, CleanLine, BlockLines
      <4>3. QED
        BY <4>1, <4>2, CleanMeans
    <3>2. CASE \E o \in PadPins : b = Place(o)[1]
      BY <3>2, PadsClean
    <3>3. QED
      BY <3>1, <3>2, EveryBlock
  <2>2. \A b \in BlockIds : NoneReplaced(b, "in") /\ NoneReplaced(b, "out")
    BY <2>1 DEF Roles
  <2>3. QED
    BY <1>1, <2>2, AssertsMean
<1>4. NetErrors = {}
  <2>1. ASSUME NEW n \in Nets, NEW o \in SinksOf(n) PROVE FoundAt(n, o)
    <3>1. SinkFound(n, o)
      BY DEF ClockOrder, SinkFound, OnClock
    <3>2. QED
      BY <1>1, <3>1, FoundComplete
  <2>2. QED
    BY <1>1, <1>3, <2>1, NetErrorsMean
<1>5. BlockErrors = {}
  <2>1. ASSUME NEW b \in BlockIds PROVE b \notin BlockErrors
    <3>1. CASE \E l \in BlockLines : b = BlockOfLine(l)
      <4>1. PICK l \in BlockLines : b = BlockOfLine(l)
        BY <3>1
      <4>2. QED
        BY <1>1, <4>1, LineErrorsMean DEF FullyConnected, BlockLines
    <3>2. CASE \E o \in PadPins : b = Place(o)[1]
      <4>1. PICK o \in PadPins : b = Place(o)[1]
        BY <3>2
      <4>2. QED
        BY <1>1, <4>1, PadErrorsMean DEF FullyConnected
    <3>3. QED
      BY <3>1, <3>2, EveryBlock
  <2>2. BlockErrors \subseteq BlockIds
    BY DEF BlockErrors
  <2>3. QED
    BY <2>1, <2>2
<1>6. ~ PrintsOpenNet
  <2>1. \A n \in Known \ Swept : NetCheck(n) = {}
    BY <1>4 DEF NetErrors
  <2>2. QED
    BY <2>1 DEF PrintsOpenNet
<1>7. QED
  BY <1>2, <1>3, <1>4, <1>5, <1>6

-----------------------------------------------------------------------------
(* What the reader refuses *)

\* A line of a file that can be read is not refused.
LEMMA NoBadLine ==
  ASSUME PinListsInv, Numbering, LoadInv, Readable
  PROVE  ~ BadLine
<1>1. TypeOK /\ Tracks /\ RowsExpected
  BY DEF PinListsInv, LoadInv
<1>2. ~ (AtLine("model") /\ UnknownModel)
  <2>1. SUFFICES ASSUME AtLine("model"), UnknownModel PROVE FALSE
    OBVIOUS
  <2>2. pc = "line" /\ linenum \in DOMAIN file /\ file[linenum].kind = "model" /\ ~ file[linenum].known
    BY <2>1 DEF AtLine, UnknownModel, TheLine
  <2>3. Models(linenum) = {}
    BY <2>2 DEF Readable, Models
  <2>4. model_lines = 0
    BY <1>1, <2>2, <2>3, FS_EmptySet DEF Tracks
  <2>5. QED
    BY <2>1, <2>4 DEF UnknownModel, ExtraModel
<1>3. /\ ~ (AtLine("latch") /\ Adds("latch") /\ ~ TheLine.known)
      /\ ~ (AtLine("subckt") /\ Adds("subckt") /\ UnknownSubckt)
      /\ ~ (AtLine("names") /\ Adds("names") /\ TooWide(TheLine))
      /\ ~ AtLine("nameless") /\ ~ AtLine("unpaired")
  BY DEF AtLine, TheLine, UnknownSubckt, Readable
<1>4. ASSUME AtLine("row"), add_truth_table = TRUE PROVE TheLine.known /\ num_logical_blocks # 0
  <2>1. AtLine("row") /\ add_truth_table = TRUE
    BY <1>4
  <2>2. /\ pc = "line" /\ linenum \in DOMAIN file /\ file[linenum].kind = "row"
        /\ linenum \in Nat /\ DOMAIN file = 1 .. Len(file) /\ Len(file) \in Nat
    BY <1>1, <2>1 DEF AtLine, TheLine, TypeOK, PositionTypeOK, WellTyped
  <2>3. pass = 3 /\ FollowsNames(linenum)
    BY <1>1, <2>1, <2>2 DEF RowsExpected
  <2>4. PICK k \in 1 .. linenum - 1 :
          file[k].kind = "names" /\ \A m \in k + 1 .. linenum - 1 : file[m].kind = "row"
    BY <2>3 DEF FollowsNames
  <2>5. linenum \in RowsOf(k) /\ k \in DOMAIN file
    BY <2>2, <2>4 DEF RowsOf
  <2>6. /\ PadPins # {} \/ \E m \in 1 .. k : BlockLine(m)
        /\ TheLine.known
    BY <2>4, <2>5 DEF Readable, TheLine
  <2>7. AddedPads = PadPins
    BY <2>3, PassOfLine DEF AddedPads, PadPins, Added
  <2>8. (\E m \in 1 .. k : BlockLine(m)) => BegunLines # {}
    BY <2>2, <2>3, <2>4 DEF BegunLines, BlockLines
  <2>9. /\ IsFiniteSet(AddedPads) /\ IsFiniteSet(BegunLines)
        /\ Cardinality(AddedPads) \in Nat /\ Cardinality(BegunLines) \in Nat
    BY <1>1, BlocksSoFar
  <2>10. ASSUME num_logical_blocks = 0 PROVE FALSE
    <3>1. Cardinality(AddedPads) = 0 /\ Cardinality(BegunLines) = 0
      BY <2>2, <2>9, <2>10 DEF Numbering
    <3>2. AddedPads = {} /\ BegunLines = {}
      BY <2>9, <3>1, FS_EmptySet
    <3>3. QED
      BY <2>6, <2>7, <2>8, <3>2
  <2>11. QED
    BY <2>6, <2>10
<1>5. QED
  BY <1>1, <1>2, <1>3, <1>4 DEF BadLine, TypeOK, FlagsTypeOK

\* A net with one driver has room for each of its sinks.
LEMMA RoomForSink ==
  ASSUME PinListsInv, Placing, OneDriverEach, pc = "pins", doall = 1,
         ThePin.net \in Nets, ThePin.role # "out"
  PROVE  hash[ThePin.net] # 0 /\ ~ NoRoom(ThePin)
<1>. DEFINE n == ThePin.net
<1>0. PICK t : t = TheOccurrence
  OBVIOUS
<1>1. t \in PinsOf(n) /\ t \in SinksOf(n) /\ t \notin AddedSinks(n)
  BY <1>0, ThePinPlaced DEF PinsOf, SinksOf, AddedSinks, AddedPins
<1>2. /\ TypeOK /\ n \in Nets /\ hash[n] = Cardinality(PinsOf(n)) /\ IsFiniteSet(PinsOf(n))
      /\ num_sinks[n] = Cardinality(AddedSinks(n)) /\ num_sinks[n] \in Nat /\ num_driver[n] \in Nat
  BY DEF PinListsInv, Loading, Placing, PlacedNet, TypeOK, NetsTypeOK
<1>3. Cardinality(DriversOf(n)) = 1
  BY <1>1, <1>2 DEF OneDriverEach
<1>4. /\ IsFiniteSet(SinksOf(n)) /\ IsFiniteSet(DriversOf(n)) /\ SinksOf(n) \cap DriversOf(n) = {}
      /\ PinsOf(n) = SinksOf(n) \cup DriversOf(n) /\ AddedSinks(n) \subseteq SinksOf(n) \ {t}
  <2>1. SinksOf(n) \subseteq PinsOf(n) /\ DriversOf(n) = PinsOf(n) \ SinksOf(n)
    BY DEF SinksOf, DriversOf
  <2>2. IsFiniteSet(SinksOf(n)) /\ IsFiniteSet(DriversOf(n))
    BY <1>2, <2>1, FS_Subset
  <2>3. AddedSinks(n) \subseteq SinksOf(n) \ {t}
    BY <1>1 DEF AddedSinks, AddedPins, SinksOf
  <2>4. QED
    BY <2>1, <2>2, <2>3
<1>5. Cardinality(PinsOf(n)) = Cardinality(SinksOf(n)) + 1 /\ Cardinality(SinksOf(n)) \in Nat
  <2>1. Cardinality(PinsOf(n)) = Cardinality(SinksOf(n)) + Cardinality(DriversOf(n))
    <3>1. Cardinality(SinksOf(n) \cup DriversOf(n))
            = Cardinality(SinksOf(n)) + Cardinality(DriversOf(n)) - Cardinality(SinksOf(n) \cap DriversOf(n))
      BY <1>4, FS_Union
    <3>2. Cardinality(SinksOf(n) \cap DriversOf(n)) = 0
      BY <1>4, FS_EmptySet
    <3>3. Cardinality(SinksOf(n)) \in Nat /\ Cardinality(DriversOf(n)) \in Nat
      BY <1>4, FS_CardinalityType
    <3>. HIDE DEF n
    <3>4. QED
      BY <1>4, <3>1, <3>2, <3>3
  <2>2. Cardinality(SinksOf(n)) \in Nat
    BY <1>4, FS_CardinalityType
  <2>3. QED
    BY <1>3, <2>1, <2>2
<1>6. Cardinality(AddedSinks(n)) <= Cardinality(SinksOf(n)) - 1
  <2>1. IsFiniteSet(SinksOf(n) \ {t}) /\ Cardinality(SinksOf(n) \ {t}) = Cardinality(SinksOf(n)) - 1
    BY <1>1, <1>4, FS_RemoveElement
  <2>2. Cardinality(AddedSinks(n)) <= Cardinality(SinksOf(n) \ {t})
    BY <1>4, <2>1, FS_Subset
  <2>3. QED
    BY <2>1, <2>2
<1>. HIDE DEF n
<1>7. hash[n] # 0 /\ ~ (num_sinks[n] + 1 - num_driver[n] >= hash[n])
  BY <1>2, <1>5, <1>6
<1>8. QED
  BY <1>7 DEF n, NoRoom

\* The clock of a subckt is not connected yet when its pin is added.
LEMMA ClockIsFree ==
  ASSUME PinListsInv, Numbering, Contents, FullyConnected, pc = "pins"
  PROVE  ~ BadClock(ThePin)
<1>1. SUFFICES ASSUME doall = 1, ThePin.role = "clk", TheLine.kind = "subckt",
                      ThePin.slot # 0 \/ logical_block[num_logical_blocks].clk # OPEN
               PROVE  FALSE
  BY DEF BadClock
<1>. DEFINE b == num_logical_blocks
<1>0. PICK t : t = TheOccurrence
  OBVIOUS
<1>2. /\ TypeOK /\ linenum \in DOMAIN file /\ linenum \in Nat /\ pin \in Nat /\ pass \in Nat /\ b \in Nat
      /\ IsLoading /\ DOMAIN file \subseteq Nat
  BY <1>1 DEF PinListsInv, TypeOK, PositionTypeOK, BlocksTypeOK, IsLoading, WellTyped
<1>3. /\ t \in Occurrences /\ PinAt(t) = ThePin /\ ~ Added(t)
      /\ t = <<linenum, pin + 1>> /\ t[1] = linenum /\ t[2] = pin + 1
  BY <1>0, <1>1, ThePinPlaced DEF TheOccurrence, PinNumber, LoadsQFirst
<1>4. BlockLine(linenum) /\ ~ PadLine(linenum) /\ pass = 3 /\ PassOf(linenum) = 3
  <2>1. BlockLine(linenum) /\ PassOf(linenum) = pass
    BY <1>1 DEF BlockLine, TheLine, PinListsInv, Tracks
  <2>2. QED
    BY <2>1, PassOfLine
<1>5. b \in BlockIds /\ b = BlockOfLine(linenum)
  <2>1. AddedPads = PadPins
    BY <1>4, PassOfLine DEF AddedPads, PadPins, Added
  <2>2. BegunLines = {l \in BlockLines : l <= linenum} /\ linenum \in BegunLines
    BY <1>2, <1>4 DEF BegunLines, BlockLines
  <2>3. b = Cardinality(PadPins) + Cardinality(BegunLines) /\ Len(logical_block) = b
    BY <1>1, <2>1 DEF Numbering
  <2>4. b = BlockOfLine(linenum)
    BY <1>2, <2>2, <2>3, BlockOfBegun
  <2>5. b > 0
    BY <1>2, <1>4, <2>4, LinePlaces, FinitePins DEF BlockLines
  <2>6. DOMAIN logical_block = 1 .. b
    BY <1>2, <2>3 DEF TypeOK, BlocksTypeOK
  <2>7. QED
    BY <1>2, <2>4, <2>5, <2>6 DEF BlockIds
<1>6. \A k \in DOMAIN file[linenum].pins : file[linenum].pins[k].role = "clk" => file[linenum].pins[k].slot = 0
  BY <1>1, <1>2, <1>4 DEF FullyConnected, TheLine
<1>7. ASSUME NEW o \in Occurrences, o[1] = linenum, PinAt(o).role = "clk" PROVE PinAt(o).slot = 0
  BY <1>2, <1>6, <1>7, OccurrenceType DEF PinAt
<1>8. ThePin.slot = 0 /\ logical_block[b].clk # OPEN
  BY <1>1, <1>3, <1>7
<1>9. PICK q \in PinsIn(b, "clk") : PinAt(q).net \in Nets
  <2>1. ClkHeld(b)
    BY <1>2, <1>5 DEF Contents, HeldBlock
  <2>2. PinsIn(b, "clk") \subseteq Occurrences
    BY DEF PinsIn
  <2>3. QED
    BY <1>2, <1>8, <2>1, <2>2, HeldNet DEF ClkHeld
<1>10. q \in Occurrences /\ Added(q) /\ PinAt(q).role = "clk" /\ Place(q)[1] = b
  BY <1>9 DEF PinsIn
<1>11. q[1] = linenum
  <2>1. Place(t)[1] = b
    BY <1>2, <1>3, <1>4, <1>5, PinPlaces
  <2>2. QED
    BY <1>2, <1>3, <1>4, <1>10, <2>1, SameBlock
<1>12. q[2] < t[2] /\ q[2] \in DOMAIN file[linenum].pins /\ t[2] \in DOMAIN file[linenum].pins
  <2>1. q[2] \in Nat /\ q[2] \in DOMAIN file[linenum].pins /\ t[2] \in DOMAIN file[linenum].pins
    BY <1>2, <1>3, <1>10, <1>11, OccurrenceType
  <2>2. PinNumber(q[2]) = q[2]
    BY <1>1 DEF PinNumber, LoadsQFirst
  <2>3. q[2] <= pin
    BY <1>2, <1>4, <1>10, <1>11, <2>2 DEF Added
  <2>4. QED
    BY <1>2, <1>3, <2>1, <2>3
<1>13. PinAt(q) = file[linenum].pins[q[2]] /\ PinAt(t) = file[linenum].pins[t[2]]
  BY <1>3, <1>11 DEF PinAt
<1>14. Overwritten(PinAt(q), PinAt(t))
  BY <1>1, <1>3, <1>7, <1>9, <1>10, <1>11 DEF Overwritten
<1>15. ~ Overwritten(PinAt(q), PinAt(t))
  BY <1>2, <1>4, <1>12, <1>13 DEF FullyConnected
<1>16. QED
  BY <1>14, <1>15

\* A pin of a well-formed file is not refused.
LEMMA NoBadPin ==
  ASSUME PinListsInv, Numbering, Placing, LoadInv, WellFormed
  PROVE  ~ BadPin
<1>1. SUFFICES ASSUME pc = "pins" PROVE ~ Refused(ThePin) /\ ~ BadClock(ThePin)
  BY DEF BadPin, Refused
<1>2. Readable /\ OneDriverEach /\ FullyConnected /\ Contents
  BY DEF WellFormed, LoadInv
<1>3. ~ BadClock(ThePin)
  BY <1>1, <1>2, ClockIsFree
<1>4. ThePin.net # "open" /\ ThePin.role \notin {"none", "beyond"}
  BY <1>1, <1>2, ThePinPlaced DEF Readable
<1>5. ASSUME doall = 1, ThePin.net \in Nets PROVE hash[ThePin.net] # 0 /\ ~ NoRoom(ThePin)
  <2>1. CASE ThePin.role # "out"
    BY <1>1, <1>2, <1>5, <2>1, RoomForSink
  <2>2. CASE ThePin.role = "out"
    <3>1. ~ NoRoom(ThePin)
      BY <2>2 DEF NoRoom
    <3>2. TheOccurrence \in PinsOf(ThePin.net)
      BY <1>1, ThePinPlaced DEF PinsOf
    <3>3. hash[ThePin.net] = Cardinality(PinsOf(ThePin.net)) /\ IsFiniteSet(PinsOf(ThePin.net))
      BY <1>1, <1>5 DEF PinListsInv, Loading
    <3>4. QED
      BY <3>1, <3>2, <3>3, FS_EmptySet
  <2>3. QED
    BY <2>1, <2>2
<1>6. QED
  BY <1>3, <1>4, <1>5 DEF Refused, NetRefused

-----------------------------------------------------------------------------
(* The verdict *)

\* Whether a file is to be accepted depends on nothing but the file.
LEMMA VerdictUnchanged ==
  ASSUME file' = file
  PROVE  (WellFormed' <=> WellFormed) /\ (ClockOrder' <=> ClockOrder)
<1>1. /\ Occurrences' = Occurrences /\ PadPins' = PadPins
      /\ \A o : PinAt(o)' = PinAt(o)
      /\ \A l : BlockLine(l)' = BlockLine(l) /\ RowsOf(l)' = RowsOf(l)
      /\ \A n : PinsOf(n)' = PinsOf(n) /\ SinksOf(n)' = SinksOf(n) /\ DriversOf(n)' = DriversOf(n)
      /\ \A S : Latest(S)' = Latest(S)
  BY FileUnchanged, ReferenceUnchanged, PlaceUnchanged, RowsUnchanged
<1>2. Readable' <=> Readable
  BY <1>1 DEF Readable, TooWide
<1>3. CompleteModels' <=> CompleteModels
  BY DEF CompleteModels, LinesOf
<1>4. OneDriverEach' <=> OneDriverEach
  BY <1>1 DEF OneDriverEach
<1>5. FullyConnected' <=> FullyConnected
  <2>1. \A l : Useful(l)' <=> Useful(l)
    BY <1>1 DEF Useful
  <2>2. \A p, q : Overwritten(p, q)' <=> Overwritten(p, q)
    BY <1>1 DEF Overwritten
  <2>3. QED
    BY <1>1, <2>1, <2>2 DEF FullyConnected
<1>6. ClockOrder' <=> ClockOrder
  <2>1. \A n : PinAt(Latest(PinsOf(n)))' = PinAt(Latest(PinsOf(n)))
    BY <1>1 DEF PinAt
  <2>2. QED
    BY <1>1, <2>1 DEF ClockOrder
<1>7. QED
  BY <1>2, <1>3, <1>4, <1>5, <1>6 DEF WellFormed

\* A step that stops the reader refuses its file rightly, and check_net accepts rightly.
LEMMA AcceptsNext ==
  ASSUME PinListsInv, Numbering, Placing, Filling, LoadInv, AcceptsExactly, [Next]_vars
  PROVE  AcceptsExactly'
<1>1. /\ file' = file
      /\ (WellFormed' <=> WellFormed) /\ (ClockOrder' <=> ClockOrder)
  BY FilesKept, VerdictUnchanged
<1>2. ASSUME pc' \in {"line", "pins", "check"} PROVE AcceptsExactly'
  BY <1>2 DEF AcceptsExactly
<1>3. ASSUME pc' = pc \/ (pc = "activity" /\ pc' = "done") PROVE AcceptsExactly'
  BY <1>1, <1>3 DEF AcceptsExactly
<1>4. CASE DumParse \/ ModelLine \/ TruthTableRow \/ IgnoreLut
  BY <1>3, <1>4 DEF DumParse, ModelLine, TruthTableRow, IgnoreLut, NextLine
<1>5. CASE IoLine \/ AddLut \/ AddLatch \/ AddSubckt
  <2>1. \E newBlock : StartPins(newBlock) /\ pc = "line"
    BY <1>5, StartedLine DEF PinListsInv
  <2>2. pc' \in {"line", "pins"}
    BY <2>1 DEF StartPins, NextLine
  <2>3. QED
    BY <1>2, <2>2
<1>6. CASE AddPin
  <2>1. pc' \in {"line", "pins"}
    BY <1>6 DEF AddPin
  <2>2. QED
    BY <1>2, <2>1
<1>7. CASE EndPass \/ EndCounting \/ EndLoading
  BY <1>2, <1>3, <1>7 DEF EndPass, EndCounting, EndLoading, AtEnd
<1>8. CASE CheckNet
  <2>1. ReadWhole /\ pc' = "activity"
    BY <1>8 DEF CheckNet, ReadWhole
  <2>2. WellFormed /\ ClockOrder
    BY <1>8, <2>1, CheckedIsWellFormed DEF CheckNet
  <2>3. QED
    BY <1>1, <2>1, <2>2 DEF AcceptsExactly
<1>9. CASE CheckFails \/ BadLine \/ BadPin
  <2>1. pc' \in {"exit", "abort", "corrupt"}
    BY <1>9 DEF CheckFails, BadLine, BadPin, Stop
  <2>2. ~ (WellFormed /\ ClockOrder)
    <3>1. SUFFICES ASSUME WellFormed, ClockOrder PROVE FALSE
      OBVIOUS
    <3>2. ~ BadLine /\ ~ BadPin
      BY <3>1, NoBadLine, NoBadPin DEF WellFormed
    <3>3. CheckFails
      BY <1>9, <3>2
    <3>4. ReadWhole
      BY <3>3 DEF CheckFails, ReadWhole
    <3>5. AssertsHold /\ ~ LineErrors /\ NetErrors = {} /\ BlockErrors = {} /\ ~ PrintsOpenNet
      BY <3>1, <3>4, WellFormedIsChecked
    <3>6. QED
      BY <3>3, <3>5 DEF CheckFails
  <2>3. QED
    BY <1>1, <2>1, <2>2 DEF AcceptsExactly
<1>10. CASE AddActivity \/ EndActivity
  BY <1>3, <1>10 DEF AddActivity, EndActivity, Stop
<1>11. CASE UNCHANGED vars
  BY <1>3, <1>11 DEF vars
<1>12. QED
  BY <1>4, <1>5, <1>6, <1>7, <1>8, <1>9, <1>10, <1>11 DEF Next, Stopped

\* build_blif returns for exactly the well-formed files whose clock nets are named in an
\* order that check_net can check: what it accepts is well formed, and when it stops, in the
\* reader, in add_vpack_net or in check_net, the file is not.
THEOREM AcceptsExactlyThose == Spec => []AcceptsExactly
<1>1. Init => AcceptsExactly
  BY DEF Init, AcceptsExactly
<1>2. PinListsInv /\ Numbering /\ Placing /\ Filling /\ LoadInv /\ AcceptsExactly /\ [Next]_vars
        => AcceptsExactly'
  BY AcceptsNext
<1>3. QED
  BY <1>1, <1>2, PinListsCorrect, BlocksNumbered, PinsPlaced, BlocksFilled, Loaded, PTL DEF Spec
=============================================================================
