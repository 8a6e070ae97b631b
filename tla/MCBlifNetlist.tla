--------------------------- MODULE MCBlifNetlist ---------------------------
(***************************************************************************)
(* Small BLIF files for BlifNetlist: a header, a body of at most n lines   *)
(* taken from a catalog, and .end.                                         *)
(***************************************************************************)
EXTENDS BlifNetlist, SequencesExt

CONSTANTS a, c, w, y   \* nets: a and c are inputs, y the output

In(net, slot) == [net |-> net, role |-> "in", slot |-> slot]
Out(net)      == [net |-> net, role |-> "out", slot |-> 0]
Clk(net)      == [net |-> net, role |-> "clk", slot |-> 0]

Ln(kind, pins) == [kind |-> kind, pins |-> pins, known |-> TRUE]
Names1(i, o)    == Ln("names", <<In(i, 0), Out(o)>>)
Names2(i, j, o) == Ln("names", <<In(i, 0), In(j, 1), Out(o)>>)
Latch(d, q, clk) == Ln("latch", <<In(d, 0), Out(q), Clk(clk)>>)

Model   == Ln("model", <<>>)
Inputs  == Ln("inputs", <<Out(a), Out(c)>>)
Outputs == Ln("outputs", <<In(y, 0)>>)
End     == Ln("end", <<>>)
Row     == Ln("row", <<>>)
BadRow  == [Row EXCEPT !.known = FALSE]

FilesOf(catalog, n) ==
  {<<Model, Inputs, Outputs>> \o body \o <<End>> : body \in SeqOf(catalog, n)}

\* LUTs and latches, with undriven, doubly driven, unused and gated-clock nets.
LogicCatalog ==
  {Names1(a, y), Names2(a, w, y), Names1(a, w), Names1(c, w), Ln("names", <<Out(w)>>),
   Names1("unconn", w), Latch(a, y, c), Latch(w, y, c), Latch(a, w, c), Latch(a, y, w)}
LogicFiles == FilesOf(LogicCatalog, 3)

\* Several models, subcircuits, reserved names, malformed lines, truth tables.
ModelCatalog ==
  {Names1(a, y), Names1(w, y), Row, Names1(a, "unconn"), Names1("open", y),
   Ln("subckt", <<In(a, 0), Out(w)>>), Ln("subckt", <<In(a, 0), Clk(c), Out(y)>>),
   Ln("subckt", <<Clk(c), Clk(c)>>), Ln("subckt", <<[In(a, 0) EXCEPT !.role = "none"]>>),
   [Ln("subckt", <<In(a, 0), Out(y)>>) EXCEPT !.known = FALSE], Ln("subckt", <<>>),
   [Latch(a, y, c) EXCEPT !.known = FALSE], Latch(a, y, c), Latch(c, y, c),
   Ln("subckt", <<In("unconn", 0), In(a, 0), Clk("unconn"), Clk(c), Out(y)>>),
   Ln("subckt", <<In(a, 0), In("unconn", 0), Out(y)>>),
   Ln("subckt", <<Out(w), Out("unconn"), [Out(y) EXCEPT !.slot = 1]>>),
   Ln("subckt", <<[Clk(c) EXCEPT !.slot = 1], Out(y)>>),
   Ln("subckt", <<Clk(c), [In(a, 0) EXCEPT !.role = "none"], Out(y)>>),
   Ln("subckt", <<[In(a, 0) EXCEPT !.role = "beyond"], Out(y)>>),
   Ln("subckt", <<In(w, 0), [In(w, 0) EXCEPT !.role = "beyond"], Out(y)>>),
   Ln("nameless", <<>>), Ln("unpaired", <<>>), BadRow,
   Model, [Model EXCEPT !.known = FALSE],
   Ln("inputs", <<Out(w)>>), Ln("outputs", <<In("unconn", 0)>>), End}
ModelFiles == FilesOf(ModelCatalog, 2)

MoreModels ==
  {<<Model, Inputs, Outputs>> \o body \o <<End, Model>> \o pads \o <<End>> :
     body \in SeqOf({Names1(a, y), Names1(w, y), Row, Latch(a, y, c)}, 2),
     pads \in {<<Ln("inputs", <<>>), Ln("outputs", <<>>)>>, <<Ln("inputs", <<Out(w)>>), Ln("outputs", <<In(w, 0)>>)>>}}

\* A file that drops a header line, repeats a pad, or leaves a pad unconnected.
BrokenHeaders ==
  {SelectSeq(<<Model, inputs, outputs, Names1(a, y), End>>, LAMBDA line : line.kind # dropped) :
     inputs \in {Inputs, Ln("inputs", <<Out(a), Out(a)>>), Ln("inputs", <<Out("unconn"), Out(a)>>)},
     outputs \in {Outputs, Ln("outputs", <<In(y, 0), In("unconn", 0)>>)},
     dropped \in {"model", "inputs", "outputs", "end", "none"}}

\* A LUT with more inputs than the architecture has.
WideFiles == FilesOf({Names1(a, y), Ln("names", <<In(a, 0), In(c, 1), In(a, 1), Out(y)>>)}, 2)

\* Rows without any block to hold them.
NoBlockFiles ==
  {<<Model, Ln("inputs", <<>>), Ln("outputs", <<>>), Names1(a, "unconn")>> \o rows \o <<End>> :
     rows \in {<<>>, <<Row>>, <<BadRow>>}}

\* A LUT with its truth table, then an ignored LUT with its own.
RowFiles == FilesOf({Names1(a, y), Names1(a, "unconn"), Row, BadRow}, 3)

AllFiles == LogicFiles \cup ModelFiles \cup MoreModels \cup BrokenHeaders \cup WideFiles
              \cup NoBlockFiles \cup RowFiles

NetsDef == {a, c, w, y}
SlotsDef == {0, 1}
CompleteActivity == {<<a, c, w, y>>}
NoActivity == {<<>>}
=============================================================================
