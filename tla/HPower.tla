------------------------------- MODULE HPower -------------------------------
(***************************************************************************)
(* The power estimator from its command line to the estimate of the logic  *)
(* (HPower/main.c): read_options, the readers, the placement put on the    *)
(* grid of the architecture, and the walk over the grid that finds every   *)
(* complex block in the power library.  The readers of the architecture,   *)
(* of the netlists and of the routing end well or exit here; BlifNetlist   *)
(* and RouteTrace say what two of them do.                                 *)
(*                                                                         *)
(* A block is [name, type, pb].  A read beyond an array finds anything.    *)
(***************************************************************************)
EXTENDS LogicPower

CONSTANTS
  Inputs,       \* command lines with the content of their files
  Types,        \* the types of complex block: [capacity, height, node]
  ColumnType,   \* the type of each column of the grid, by find_type_col
  BlockParts(_, _, _, _),   \* power_pb: the parts of a node as it is used, by an entry
  NeverEnds(_, _, _, _),    \* whether it has none, for a loop it does not leave
  LoadedEntry(_, _),        \* ProcessPbPower: an entry as it is read
  EntryRefused(_)           \* whether it is one the reader stops at

EMPTY_TYPE == "<EMPTY>"
IO_TYPE == "io"
OPEN == 0
\* The largest size of the grid, whose coordinates are shorts.
MAX_GRID == 32766
\* A line that ends early has no number here.
NoNumber == -100

\* A pad is one tile high, and the tile of a column holds one block.
ASSUME TypesAssumption ==
  /\ IsFiniteSet(DOMAIN Types) /\ IO_TYPE \in DOMAIN Types /\ EMPTY_TYPE \notin DOMAIN Types
  /\ \A t \in DOMAIN Types : Types[t].capacity \in Nat /\ Types[t].height \in Nat \ {0}
  /\ \A t \in DOMAIN Types : \A mode \in ToSet(Types[t].node.modes) :
       \A m \in ToSet(mode.muxes) : m.inputs \in Nat
  /\ Types[IO_TYPE].height = 1
  /\ \A x \in DOMAIN ColumnType : /\ ColumnType[x] \in DOMAIN Types \ {IO_TYPE}
                                  /\ Types[ColumnType[x]].capacity = 1

\* Every block has a type of the architecture, and every column of the grid one to fill it.
ASSUME InputsAssumption == \A i \in Inputs :
  /\ i.argv \in Seq([dash : BOOLEAN, text : STRING])
  /\ Len(i.blocks) \in Nat /\ DOMAIN i.blocks = 1 .. Len(i.blocks)
  /\ \A b \in DOMAIN i.blocks : i.blocks[b].type \in DOMAIN Types
  /\ i.place.nx \in Int /\ i.place.ny \in Int
  /\ i.place.nx <= MAX_GRID => 1 .. i.place.nx \subseteq DOMAIN ColumnType
  /\ Len(i.place.lines) \in Nat /\ DOMAIN i.place.lines = 1 .. Len(i.place.lines)
  /\ \A l \in DOMAIN i.place.lines :
       LET line == i.place.lines[l] IN line.x \in Int /\ line.y \in Int /\ line.z \in Int
  /\ i.lib.mux_size \in Int
  /\ Len(i.lib.instances) \in Nat /\ DOMAIN i.lib.instances = 1 .. Len(i.lib.instances)

\* What an entry of an unknown method may hold in the fields ProcessPbPower leaves unset:
\* a method, with children among which no name is found, or one that cannot be followed.
Unset == {"ignore", "macro", "sum_of_children", "garbage"}

\* What is found in a block can be counted, if the walk ends.
ASSUME PartsAssumption == \A i \in Inputs, unset \in Unset, t \in DOMAIN Types :
  LET entries == [e \in DOMAIN i.lib.instances |-> LoadedEntry(i.lib.instances[e], unset)]
      e == EntryFor(t, entries)
  IN e # 0 => \A pb \in {NoPb} \cup {i.blocks[b].pb : b \in {c \in DOMAIN i.blocks : i.blocks[c].type = t}} :
       \/ NeverEnds(Types[t].node, pb, entries[e], i.lib.mux_size)
       \/ LET parts == BlockParts(Types[t].node, pb, entries[e], i.lib.mux_size)
          IN Bits(parts) \in Nat /\ Muxes(parts) \in Nat

VARIABLES
  input,                       \* argv, the parts that do not read, blocks, place, lib
  main,                        \* what is to be done, or how the program ended
  argv, arg_idx, file_names,
  next_line, nx, ny, coords,   \* the placement file and what was read of it
  grid, next_block,            \* sync_grid_to_blocks
  instances,                   \* the power library
  at, counted,                 \* the walk over the grid, and how often it met each block
  logic_conf_bits, num_muxes

options == <<argv, arg_idx, file_names>>
placement == <<next_line, nx, ny, coords>>
sites == <<grid, next_block>>
estimate == <<at, counted, logic_conf_bits, num_muxes>>
vars == <<input, main, options, placement, sites, instances, estimate>>

\* overrun: something beyond an array has been overwritten, and anything may follow.
Ended == {"done", "exit", "crashed", "overrun"}
Blocks == DOMAIN input.blocks
TypeOf(i) == Types[input.blocks[i].type]

Stop(how) ==
  /\ main' = how
  /\ UNCHANGED <<input, options, placement, sites, instances, estimate>>
-----------------------------------------------------------------------------
(* read_options *)

NameOrder == <<"archFile", "circuitName", "libFile">>
OptionFile == [blif_file |-> "blifFile", act_file |-> "actFile", net_file |-> "netFile",
               place_file |-> "placeFile", route_file |-> "routeFile"]
Known(text) == text \in DOMAIN OptionFile
\* A file name is a word of the command line, or the circuit's name with an ending.
NULL == [ending |-> "none"]
Named(word) == [word |-> word, ending |-> ""]
Endings == [blifFile |-> ".blif", actFile |-> ".act", netFile |-> ".net",
            placeFile |-> ".place", routeFile |-> ".route"]
Files == {NameOrder[i] : i \in 1 .. 3} \cup DOMAIN Endings

ArgcOK == Len(input.argv) >= 3 /\ Len(input.argv) % 2 = 1

Usage == main = "start" /\ ~ArgcOK /\ Stop("exit")

Start ==
  /\ main = "start" /\ ArgcOK
  /\ main' = "options"
  /\ UNCHANGED <<input, options, placement, sites, instances, estimate>>

InOptions == main = "options" /\ arg_idx \in DOMAIN argv
Word == argv[arg_idx]
Missing == {i \in 1 .. 3 : file_names[NameOrder[i]] = NULL}

IsName == ~Word.dash /\ Missing # {}

ReadName ==
  /\ InOptions /\ IsName
  /\ file_names' = [file_names EXCEPT ![NameOrder[Min(Missing)]] = Named(Word.text)]
  /\ arg_idx' = arg_idx + 1
  /\ UNCHANGED <<input, main, argv, placement, sites, instances, estimate>>

\* Mutant: the value of an option is read again.
ValueAgain == arg_idx + 1

\* Mutant: a word too many is passed over.
AfterNext == arg_idx + 3

AfterValue == arg_idx + 2

ReadOption ==
  /\ InOptions /\ ~IsName /\ Known(Word.text)
  /\ arg_idx + 1 \in DOMAIN argv
  /\ file_names' = [file_names EXCEPT ![OptionFile[Word.text]] = Named(argv[arg_idx + 1].text)]
  /\ argv' = [argv EXCEPT ![arg_idx].dash = FALSE]
  /\ arg_idx' = AfterValue
  /\ UNCHANGED <<input, main, placement, sites, instances, estimate>>

\* The value is the NULL that ends argv, and my_strdup copies it as NULL: the file has no
\* name again, and the index is one beyond that NULL.
NoValue ==
  /\ InOptions /\ ~IsName /\ Known(Word.text)
  /\ arg_idx + 1 \notin DOMAIN argv
  /\ file_names' = [file_names EXCEPT ![OptionFile[Word.text]] = NULL]
  /\ argv' = [argv EXCEPT ![arg_idx].dash = FALSE]
  /\ arg_idx' = AfterValue
  /\ UNCHANGED <<input, main, placement, sites, instances, estimate>>

\* The dashes go; then the word may be read as a name, or is looked at for ever.
ReadUnknown ==
  /\ InOptions /\ ~IsName /\ ~Known(Word.text)
  /\ argv' = [argv EXCEPT ![arg_idx].dash = FALSE]
  /\ UNCHANGED <<input, main, arg_idx, file_names, placement, sites, instances, estimate>>

\* Mutant: the placement is always looked for under the name of the circuit.
Default(f) == file_names[f] = NULL \/ f = "placeFile"

Derived(f) == file_names[f] = NULL

NameFiles ==
  /\ main = "options" /\ arg_idx \notin DOMAIN argv
  /\ file_names.circuitName # NULL
  /\ file_names' = [f \in Files |->
       IF f \in DOMAIN Endings /\ Derived(f)
       THEN [word |-> file_names.circuitName.word, ending |-> Endings[f]] ELSE file_names[f]]
  /\ main' = "arch"
  /\ UNCHANGED <<input, argv, arg_idx, placement, sites, instances, estimate>>

\* strlen of the circuit's name.
NoCircuit ==
  /\ main = "options" /\ arg_idx \notin DOMAIN argv
  /\ file_names.circuitName = NULL
  /\ Stop("crashed")
-----------------------------------------------------------------------------
(* The readers that are modelled elsewhere, or are VPR's *)

After == [arch |-> "blif", blif |-> "netlist", netlist |-> "place", trace |-> "lib"]

ReadPart ==
  /\ main \in DOMAIN After
  /\ main' = IF main \in input.bad THEN "exit" ELSE After[main]
  /\ UNCHANGED <<input, options, placement, sites, instances, estimate>>
-----------------------------------------------------------------------------
(* build_place *)

place == input.place
Line == place.lines[next_line]
InPlace == main = "place" /\ next_line \in DOMAIN place.lines

BadHeading == main = "place" /\ next_line = 0 /\ ~(place.names /\ place.size) /\ Stop("exit")

Heading ==
  /\ main = "place" /\ next_line = 0
  /\ place.names /\ place.size
  /\ nx' = place.nx /\ ny' = place.ny
  /\ next_line' = 1
  /\ UNCHANGED <<input, main, options, coords, sites, instances, estimate>>

\* The first block with the name.
CurBlk == SelectInSeq(input.blocks, LAMBDA b : b.name = Line.name)

UnknownBlock == InPlace /\ CurBlk = 0 /\ Stop("exit")

\* my_atoi of the NULL that ends the tokens.
ShortLine == InPlace /\ CurBlk # 0 /\ NoNumber \in {Line.x, Line.y, Line.z} /\ Stop("crashed")

PlaceBlock ==
  /\ InPlace /\ CurBlk # 0
  /\ NoNumber \notin {Line.x, Line.y, Line.z}
  /\ coords' = [coords EXCEPT ![CurBlk] = [x |-> Line.x, y |-> Line.y, z |-> Line.z]]
  /\ next_line' = next_line + 1
  /\ UNCHANGED <<input, main, options, nx, ny, sites, instances, estimate>>

EndOfPlace ==
  /\ main = "place" /\ next_line = Len(place.lines) + 1
  /\ main' = "grid"
  /\ UNCHANGED <<input, options, placement, sites, instances, estimate>>
-----------------------------------------------------------------------------
(* InitArch, with a fixed size, and alloc_and_load_grid *)

Tile(type, offset, cells) == [type |-> type, offset |-> offset, blocks |-> [z \in 0 .. cells - 1 |-> OPEN]]

Pads == Tile(IO_TYPE, 0, Types[IO_TYPE].capacity)

\* Mutant: pads in the corners.
CornerPads == Pads

Corner == Tile(EMPTY_TYPE, 0, 0)

\* A large block that would reach beyond the last row leaves its tiles empty.
Core(x, y) ==
  LET t == ColumnType[x]
      offset == (y - 1) % Types[t].height
  IN IF y + Types[t].height - 1 - offset > ny THEN Tile(EMPTY_TYPE, 0, 1) ELSE Tile(t, offset, 1)

alloc_and_load_grid ==
  [x \in 0 .. nx + 1 |-> [y \in 0 .. ny + 1 |->
     IF x \in 1 .. nx
     THEN IF y \in 1 .. ny THEN Core(x, y) ELSE Pads
     ELSE IF y \in 1 .. ny THEN Pads ELSE Corner]]

num_instances_type(t, g) ==
  IF t = IO_TYPE THEN 2 * Types[IO_TYPE].capacity * (nx + ny)
  ELSE Cardinality({p \in (1 .. nx) \X (1 .. ny) :
                      LET tile == g[p[1]][p[2]] IN tile.type = t /\ tile.offset = 0})

\* Mutant: a full grid is too small.
FitsLoosely(g) ==
  \A t \in DOMAIN Types : Cardinality({i \in Blocks : input.blocks[i].type = t}) < num_instances_type(t, g)

Fits(g) ==
  \A t \in DOMAIN Types : Cardinality({i \in Blocks : input.blocks[i].type = t}) <= num_instances_type(t, g)

\* A size too large is reported; then assert(nx >= 1 && ny >= 1).
TooLarge == nx > MAX_GRID \/ ny > MAX_GRID
NoGrid ==
  /\ main = "grid"
  /\ \/ TooLarge /\ Stop("exit")
     \/ ~TooLarge /\ ~(nx >= 1 /\ ny >= 1) /\ Stop("crashed")

InitArch ==
  /\ main = "grid" /\ ~TooLarge /\ nx >= 1 /\ ny >= 1
  /\ grid' = alloc_and_load_grid
  /\ main' = IF Fits(grid') THEN "sync" ELSE "exit"
  /\ UNCHANGED <<input, options, placement, next_block, instances, estimate>>
-----------------------------------------------------------------------------
(* sync_grid_to_blocks *)

InSync == main = "sync" /\ next_block \in Blocks
Here == coords[next_block]
Below == grid[Here.x][Here.y]

InRange ==
  /\ Here.x \in 0 .. nx + 1
  /\ Here.y >= 0 /\ Here.y + TypeOf(next_block).height - 1 <= ny + 1
  /\ Here.z \in 0 .. TypeOf(next_block).capacity
TypeFits == input.blocks[next_block].type = Below.type
\* The block list of the tile is read, and written, beyond its end.
Beyond == Here.z \notin DOMAIN Below.blocks
Free == Below.blocks[Here.z] = OPEN

BadLocation ==
  /\ InSync
  /\ InRange /\ TypeFits => \/ Beyond
                            \/ ~Beyond /\ ~(Free /\ Below.offset = 0)
  /\ Stop("exit")

\* What is written beyond a list is lost in the slack of its allocation, or overwrites
\* something else.
Overrun == InSync /\ InRange /\ TypeFits /\ Beyond /\ Below.offset = 0 /\ Stop("overrun")

SetBlock ==
  /\ InSync
  /\ InRange /\ TypeFits
  /\ ~Beyond => Free
  /\ Below.offset = 0
  /\ grid' = IF Beyond THEN grid ELSE
       [grid EXCEPT ![Here.x] = [y \in DOMAIN @ |->
          IF y \in Here.y .. Here.y + TypeOf(next_block).height - 1
          THEN [@[y] EXCEPT !.blocks[Here.z] = next_block] ELSE @[y]]]
  /\ next_block' = next_block + 1
  /\ UNCHANGED <<input, main, options, placement, instances, estimate>>

Synced ==
  /\ main = "sync" /\ next_block = Len(input.blocks) + 1
  /\ main' = "trace"
  /\ UNCHANGED <<input, options, placement, sites, instances, estimate>>
-----------------------------------------------------------------------------
(* power_estimation: read_power_lib and power_complex_block *)

\* An entry with what its method does not take, or without the children it needs.
LibraryRefused ==
  \/ "lib" \in input.bad
  \/ input.lib.instances = <<>> \/ \E e \in ToSet(input.lib.instances) : EntryRefused(e)

NoLibrary == main = "lib" /\ (file_names.libFile = NULL \/ LibraryRefused) /\ Stop("exit")

read_power_lib ==
  /\ main = "lib" /\ file_names.libFile # NULL /\ ~LibraryRefused
  /\ \E unset \in Unset :
       instances' = [i \in DOMAIN input.lib.instances |-> LoadedEntry(input.lib.instances[i], unset)]
  /\ at' = [x |-> 0, y |-> 0]
  /\ main' = "power"
  /\ UNCHANGED <<input, options, placement, sites, counted, logic_conf_bits, num_muxes>>

InPower == main = "power" /\ at.x <= nx + 1
TheTile == grid[at.x][at.y]
Entry == EntryFor(TheTile.type, instances)
BlockAt(z) == TheTile.blocks[z]
PbAt(z) == IF BlockAt(z) = OPEN THEN NoPb ELSE input.blocks[BlockAt(z)].pb
PartsAt(z) == BlockParts(Types[TheTile.type].node, PbAt(z), instances[Entry], input.lib.mux_size)

\* Mutant: the upper tiles of a large block count too.
NoSiteEmpty == TheTile.type = EMPTY_TYPE

NoSite == TheTile.offset # 0 \/ TheTile.type = EMPTY_TYPE

NextTile ==
  at' = IF at.y = ny + 1 THEN [x |-> at.x + 1, y |-> 0] ELSE [at EXCEPT !.y = @ + 1]

SkipTile ==
  /\ InPower /\ NoSite
  /\ NextTile
  /\ UNCHANGED <<input, main, options, placement, sites, instances, counted, logic_conf_bits, num_muxes>>

Cells == 0 .. Types[TheTile.type].capacity - 1

\* Not in the library: the message names the block, and there is none in an idle site.
UnnamedTile ==
  /\ InPower /\ ~NoSite /\ Entry = 0
  /\ IF \E z \in Cells : BlockAt(z) = OPEN
     THEN Stop("crashed")
     ELSE /\ NextTile
          /\ UNCHANGED <<input, main, options, placement, sites, instances, counted,
                         logic_conf_bits, num_muxes>>

\* Nothing is enabled at a tile whose walk is endless.
CountTile ==
  /\ InPower /\ ~NoSite /\ Entry # 0
  /\ \A z \in Cells : ~NeverEnds(Types[TheTile.type].node, PbAt(z), instances[Entry], input.lib.mux_size)
  /\ IF \E z \in Cells : Aborts(PartsAt(z))
     THEN Stop("crashed")
     ELSE /\ logic_conf_bits' = logic_conf_bits + SumFunction([z \in Cells |-> Bits(PartsAt(z))])
          /\ num_muxes' = num_muxes + SumFunction([z \in Cells |-> Muxes(PartsAt(z))])
          /\ counted' = [i \in Blocks |-> counted[i] + Cardinality({z \in Cells : BlockAt(z) = i})]
          /\ NextTile
          /\ UNCHANGED <<input, main, options, placement, sites, instances>>

PrintEstimate == main = "power" /\ at.x = nx + 2 /\ Stop("done")
-----------------------------------------------------------------------------
Init ==
  /\ input \in Inputs
  /\ main = "start"
  /\ argv = input.argv /\ arg_idx = 1
  /\ file_names = [f \in Files |-> NULL]
  /\ next_line = 0 /\ nx = 0 /\ ny = 0
  /\ coords = [i \in Blocks |-> [x |-> 0, y |-> 0, z |-> 0]]   \* calloc, in read_netlist
  /\ grid = <<>> /\ next_block = 1
  /\ instances = <<>>
  /\ at = [x |-> 0, y |-> 0]
  /\ counted = [i \in Blocks |-> 0]
  /\ logic_conf_bits = 0 /\ num_muxes = 0

read_options == Usage \/ Start \/ ReadName \/ ReadOption \/ NoValue \/ ReadUnknown
                \/ NameFiles \/ NoCircuit
build_place == BadHeading \/ Heading \/ UnknownBlock \/ ShortLine \/ PlaceBlock \/ EndOfPlace
sync_grid_to_blocks == BadLocation \/ SetBlock \/ Overrun \/ Synced
power_complex_block == SkipTile \/ UnnamedTile \/ CountTile \/ PrintEstimate

Next ==
  \/ read_options \/ ReadPart \/ build_place
  \/ NoGrid \/ InitArch \/ sync_grid_to_blocks
  \/ NoLibrary \/ read_power_lib \/ power_complex_block

\* The program runs on until it ends.
Spec == Init /\ [][Next]_vars /\ WF_vars(Next)
-----------------------------------------------------------------------------
(* Properties *)

\* Every variable keeps its type; the positions stay within what they count.
TypeOK ==
  /\ main \in {"start", "options", "arch", "blif", "netlist", "place", "grid", "sync", "trace",
               "lib", "power"} \cup Ended
  /\ DOMAIN argv = DOMAIN input.argv /\ arg_idx \in 1 .. Len(argv) + 2
  /\ DOMAIN file_names = Files
  /\ next_line \in 0 .. Len(place.lines) + 1
  /\ nx \in Int /\ ny \in Int
  /\ coords \in [Blocks -> [x : Int, y : Int, z : Int]]
  /\ next_block \in 1 .. Len(input.blocks) + 1
  /\ main \in {"sync", "trace", "lib", "power", "done"} => DOMAIN grid = 0 .. nx + 1
  /\ main \in {"power", "done"} => at.x \in 0 .. nx + 2 /\ at.y \in 0 .. ny + 1
  /\ DOMAIN counted = Blocks
  /\ logic_conf_bits \in Nat /\ num_muxes \in Nat

\* How a command line may be read: at the positions of os are options, each followed by its
\* value, and there is no other word with dashes.
Reading(words, os) ==
  LET values == {o + 1 : o \in os}
  IN /\ values \subseteq DOMAIN words /\ values \cap os = {}
     /\ \A o \in os : words[o].dash /\ Known(words[o].text)
     /\ \A i \in DOMAIN words \ (os \cup values) : ~words[i].dash
Readings(words) == {os \in SUBSET DOMAIN words : Reading(words, os)}
Plain(words, os) == DOMAIN words \ (os \cup {o + 1 : o \in os})
\* Which of the plain words it is.
Rank(words, os, p) == Cardinality({q \in Plain(words, os) : q <= p})
Clear(words) == \E os \in Readings(words) : Cardinality(Plain(words, os)) = 3

\* The three plain words name the architecture, the circuit and the library in their order,
\* wherever the options stand among them (lines 201-213); each file is that of the last
\* option for it, and of the circuit's name when there is none (lines 238-258).
OptionsUnderstood ==
  main \notin {"start", "options"} \cup Ended =>
    \A os \in Readings(input.argv) : Cardinality(Plain(input.argv, os)) = 3 =>
      LET words == input.argv
          For(f) == {o \in os : OptionFile[words[o].text] = f}
      IN /\ \A p \in Plain(words, os) :
              file_names[NameOrder[Rank(words, os, p)]] = Named(words[p].text)
         /\ \A f \in DOMAIN Endings :
              file_names[f] = IF For(f) # {} THEN Named(words[Max(For(f)) + 1].text)
                              ELSE [word |-> file_names.circuitName.word, ending |-> Endings[f]]

\* Options read_options does not know, print_usage's --crit_path and --chan_width (line 265)
\* among them, after the three names: it looks at the word for ever (line 196).
StuckAt(words, p) ==
  /\ words[p].dash /\ ~Known(words[p].text)
  /\ Clear(SubSeq(words, 1, p - 1))
OptionsEnd ==
  /\ ArgcOK /\ (\E p \in DOMAIN argv : StuckAt(argv, p)) => [](main \in {"start", "options"})
  /\ Clear(argv) => <>(main \notin {"start", "options"})

\* Whatever the placement file holds, a block list is overrun only for a block whose z is the
\* capacity of its type, which the range check lets through (vpr_utils.c:69). Where no block
\* has such a z, and there only, an estimate is of the placement the file names: every block
\* is on the site of its last line, alone. A block without a line is noticed, though
\* build_place counts none (line 263): it stays in a corner, where nothing may be
\* (vpr_utils.c:78).
AtCapacity(i) == coords[i].z = TypeOf(i).capacity
PlacedWhereNamed ==
  /\ main = "overrun" => \E i \in Blocks : AtCapacity(i)
  /\ main \in {"trace", "lib", "power", "done"} /\ (\A i \in Blocks : ~AtCapacity(i)) =>
    \A i \in Blocks :
      LET lines == {l \in DOMAIN place.lines : place.lines[l].name = input.blocks[i].name}
          last == place.lines[Max(lines)]
      IN /\ lines # {}
         /\ coords[i] = [x |-> last.x, y |-> last.y, z |-> last.z]
         /\ grid[last.x][last.y].blocks[last.z] = i
         /\ \A j \in Blocks \ {i} : coords[j] # coords[i]

\* The multiplexers of a tree, level by level: each level has as many as are needed for the
\* inputs, one when they fit.
TreeMuxes(inputs, size) ==
  LET Powers[k \in Nat] == IF k = 0 THEN 1 ELSE size * Powers[k - 1]
  IN 1 + SumFunction([k \in 1 .. inputs |->
           IF Ceil(inputs, Powers[k - 1]) > size THEN Ceil(inputs, Powers[k]) ELSE 0])

\* Wherever the blocks are, the estimate has each block of the netlist once, and each other
\* site of the architecture as an idle one, of every type the library has: neither the upper
\* tiles of a large block (line 324) nor the tiles no block fits on count. The multiplexers
\* are those of a tree of each interconnect (line 944).
SitesCountedOnce ==
  main = "done" /\ (\A i \in Blocks : ~AtCapacity(i)) =>
    LET InLibrary == {t \in DOMAIN Types : EntryFor(t, instances) # 0}
        Of(t) == {i \in Blocks : input.blocks[i].type = t}
        PartsOf(t, pb) == BlockParts(Types[t].node, pb, instances[EntryFor(t, instances)], input.lib.mux_size)
        Idle(t) == num_instances_type(t, grid) - Cardinality(Of(t))
        Sum(used, idle) ==
          SumFunction([t \in InLibrary |->
            SumFunction([i \in Of(t) |-> used[i]]) + SumFunction([n \in 1 .. Idle(t) |-> idle[t]])])
        Used(i) == PartsOf(input.blocks[i].type, input.blocks[i].pb)
    IN /\ \A i \in Blocks : counted[i] = IF input.blocks[i].type \in InLibrary THEN 1 ELSE 0
       /\ logic_conf_bits = Sum([i \in Blocks |-> Bits(Used(i))], [t \in InLibrary |-> Bits(PartsOf(t, NoPb))])
       /\ num_muxes = Sum([i \in Blocks |-> Muxes(Used(i))], [t \in InLibrary |-> Muxes(PartsOf(t, NoPb))])
       /\ \A t \in DOMAIN Types : \A mode \in ToSet(Types[t].node.modes) : \A m \in ToSet(mode.muxes) :
            input.lib.mux_size > 1 =>
              num_default_muxes(m.inputs, input.lib.mux_size) = TreeMuxes(m.inputs, input.lib.mux_size)

\* A site of the architecture for a block of the type.
Site(t, x, y, z) ==
  /\ z \in 0 .. Types[t].capacity - 1
  /\ IF t = IO_TYPE
     THEN \/ (x \in {0, place.nx + 1} /\ y \in 1 .. place.ny)
          \/ (y \in {0, place.ny + 1} /\ x \in 1 .. place.nx)
     ELSE /\ x \in 1 .. place.nx /\ ColumnType[x] = t
          /\ \E k \in 0 .. place.ny : y = k * Types[t].height + 1
          /\ y + Types[t].height - 1 <= place.ny

\* The file print_place of VPR writes for a legal placement (read_place.c:319).
PrintedPlace ==
  LET N == Len(input.blocks)
  IN /\ place.names /\ place.size /\ place.nx \in 1 .. MAX_GRID /\ place.ny \in 1 .. MAX_GRID
     /\ Len(place.lines) = N
     /\ \A i \in 1 .. N :
          LET l == place.lines[i]
          IN /\ l.name = input.blocks[i].name
             /\ Site(input.blocks[i].type, l.x, l.y, l.z)
             /\ \A j \in 1 .. i - 1 :
                  LET k == place.lines[j] IN <<k.x, k.y, k.z>> # <<l.x, l.y, l.z>>

\* Every method of the library is known: none is left unset, and no entry is refused.
FullLibrary ==
  /\ ~LibraryRefused
  /\ input.lib.mux_size > 1
  /\ \A t \in DOMAIN Types : EntryFor(t, input.lib.instances) # 0
  /\ \A e \in ToSet(input.lib.instances) : LoadedEntry(e, "ignore") = LoadedEntry(e, "garbage")

\* With the files the flow makes and a library that has all the types, the program gets to
\* its estimate: none of its checks (vpr_utils.c:66-101, main.c:362) turns away a placement
\* of VPR, and no walk is cut short or endless.
RightRunsFinish ==
  ArgcOK /\ Clear(argv) /\ input.bad = {} /\ PrintedPlace /\ FullLibrary => <>(main = "done")
=============================================================================
