------------------------------ MODULE MCHPower ------------------------------
(***************************************************************************)
(* An architecture of two columns for HPower, one of large blocks, and a   *)
(* netlist of three blocks; command lines, placements and libraries, each  *)
(* with the others plain.                                                  *)
(***************************************************************************)
EXTENDS HPower, BlockWalk

Primitive(name) == [name |-> name, modes |-> <<>>]
Mode(children, muxes) == [children |-> children, muxes |-> muxes]
Mux(inputs, outputs, clock) == [inputs |-> inputs, outputs |-> outputs, clock |-> clock]

ClbNode == [name |-> "clb", modes |->
  << Mode(<<[node |-> Primitive("lut"), num |-> 2]>>, <<Mux(9, 2, FALSE), Mux(2, 1, TRUE)>>),
     Mode(<<[node |-> Primitive("lut"), num |-> 1], [node |-> Primitive("ff"), num |-> 1]>>, <<Mux(3, 1, FALSE)>>) >>]
MultNode == [name |-> "mult", modes |-> << Mode(<<[node |-> Primitive("slice"), num |-> 1]>>, <<Mux(0, 1, FALSE)>>) >>]

MCTypes == [io |-> [capacity |-> 2, height |-> 1, node |-> Primitive("io")],
            clb |-> [capacity |-> 1, height |-> 1, node |-> ClbNode],
            mult |-> [capacity |-> 1, height |-> 2, node |-> MultNode]]
MCColumnType == <<"clb", "mult">>

Leaf == [mode |-> 1, children |-> <<>>]
Pad(name) == [name |-> name, type |-> "io", pb |-> Leaf]
Netlist == << Pad("a"),
              [name |-> "b", type |-> "clb", pb |-> [mode |-> 2, children |-> <<<<Leaf>>, <<NoPb>>>>]],
              [name |-> "m", type |-> "mult", pb |-> [mode |-> 1, children |-> <<<<Leaf>>>>]] >>
TwoPads == << Pad("a"), Pad("c") >>

Macro(name, bits) == [name |-> name, method |-> "macro", bits |-> bits, children |-> <<>>]
Entries(name, method, children) == [name |-> name, method |-> method, bits |-> 0, children |-> children]
ClbEntry(method) == Entries("clb", method, <<Macro("lut", 64), Macro("ff", 1)>>)
MultEntry == Entries("mult", "sum_of_children", <<Entries("slice", "ignore", <<>>)>>)
IoEntry == Entries("io", "ignore", <<>>)
Library(entries, size) == [instances |-> entries, mux_size |-> size]
Full == <<IoEntry, ClbEntry("sum_of_children"), MultEntry>>
Libraries == {Library(Full, 4), Library(Full, 2), Library(Full, 1),
              Library(<<IoEntry, Entries("clb", "sum", <<>>), MultEntry>>, 4),   \* no such method
              Library(<<IoEntry, ClbEntry("sum"), MultEntry>>, 4), Library(<<>>, 4),
              Library(<<IoEntry, [Entries("clb", "sum", <<>>) EXCEPT !.bits = 1], MultEntry>>, 4),
              Library(<<IoEntry, Entries("clb", "sum_of_children", <<>>), MultEntry>>, 4),
              Library(<<IoEntry, MultEntry>>, 4), Library(<<IoEntry, ClbEntry("sum_of_children")>>, 4),
              Library(<<ClbEntry("sum_of_children"), MultEntry>>, 4),
              Library(<<IoEntry, Entries("clb", "sum_of_children", <<Macro("ff", 1)>>), MultEntry>>, 8)}

At(name, x, y, z) == [name |-> name, x |-> x, y |-> y, z |-> z]
Placed(w, h, lines) == [names |-> TRUE, size |-> TRUE, nx |-> w, ny |-> h, lines |-> lines]

\* Right places and wrong ones for each block, on a grid with a row too many for the
\* large blocks and on one without.
Places(h) ==
  {Placed(2, h, <<pad, clb, mult>>) :
     pad \in {At("a", 0, 1, 0), At("a", 1, h + 1, 1), At("a", 3, 1, 2), At("a", 0, 0, 0), At("a", 4, 1, 0)},
     clb \in {At("b", 1, 1, 0), At("b", 1, h, 0), At("b", 1, 1, 1), At("b", 2, 3, 0)},
     mult \in {At("m", 2, 1, 0), At("m", 2, 2, 0), At("m", 1, 1, 0)}}
Right == Placed(2, 2, <<At("a", 0, 1, 0), At("b", 1, 2, 0), At("m", 2, 1, 0)>>)
\* Cut, doubled, in another order, of another netlist, short of numbers, with other headings.
Edited ==
  LET l == Right.lines
  IN {[Right EXCEPT !.lines = SubSeq(l, 1, k)] : k \in 0 .. 2}
     \cup {[Right EXCEPT !.lines = q] :
             q \in {<<l[3], l[1], l[2]>>, <<l[2], l[3]>>, l \o <<At("b", 1, 1, 0)>>, <<At("b", 1, 1, 0), l[1], l[3]>>,
                    <<At("m", 1, 1, 0)>> \o l, l \o <<At("z", 1, 1, 0)>>,
                    <<At("a", 0, NoNumber, NoNumber), l[2], l[3]>>}}
     \cup {[Right EXCEPT !.names = FALSE], [Right EXCEPT !.size = FALSE],
           [Right EXCEPT !.nx = 0], [Right EXCEPT !.nx = 1],
           [Right EXCEPT !.nx = MAX_GRID + 1], [Right EXCEPT !.ny = MAX_GRID + 1]}
PadPlaces == {Placed(1, 1, <<At("a", 0, 1, z), At("c", x, 1, 0)>>) : z \in 0 .. 2, x \in {0, 2}}

P(text) == [dash |-> FALSE, text |-> text]
D(text) == [dash |-> TRUE, text |-> text]
Names == <<P("arch"), P("alu4"), P("lib")>>
CommandLines ==
  { Names,
    Names \o <<D("place_file"), P("p")>>,
    <<D("blif_file"), P("b")>> \o Names,
    <<P("arch"), D("route_file"), P("r"), P("alu4"), D("net_file"), D("n"), P("lib")>>,
    Names \o <<D("act_file"), P("x"), D("act_file"), P("y")>>,
    Names \o <<D("crit_path"), P("5")>>, <<D("crit_path"), P("5")>> \o Names,
    Names \o <<P("net_file"), P("n")>>, Names \o <<P("u"), P("v")>>,
    <<P("arch"), P("alu4"), D("net_file"), P("n"), D("blif_file")>>,
    <<P("arch"), P("alu4"), D("blif_file")>>, <<D("blif_file"), P("b"), P("arch"), P("alu4"), D("blif_file")>>,
    <<P("arch"), D("net_file"), P("n")>>, <<P("arch"), P("alu4"), D("net_file"), P("n")>>,
    <<D("net_file"), P("n"), P("arch"), D("blif_file"), P("b")>>, <<P("arch"), P("alu4")>>,
    <<P("arch"), P(""), P("lib"), P("u")>>, <<P("arch"), P(""), P("lib")>> }

Plainly == [argv |-> Names, bad |-> {}, blocks |-> Netlist, place |-> Right, lib |-> Library(Full, 4)]
MCInputs ==
  {[Plainly EXCEPT !.argv = a] : a \in CommandLines}
  \cup {[Plainly EXCEPT !.bad = {p}] : p \in {"arch", "blif", "netlist", "trace", "lib"}}
  \cup {[Plainly EXCEPT !.place = p] : p \in Places(2) \cup Places(3) \cup Edited}
  \cup {[Plainly EXCEPT !.lib = l] : l \in Libraries}
  \cup {[Plainly EXCEPT !.blocks = TwoPads, !.place = p] : p \in PadPlaces}
=============================================================================
