------------------------------ MODULE MCAceSim ------------------------------
(***************************************************************************)
(* Circuits for AceSim: a toggle flip-flop, a shift register whose latches *)
(* are listed from the last to the first, reconverging and constant logic, *)
(* a latch that holds and one that feeds two gates; then latches listed    *)
(* after their feeders, and constants that are 1 or read a constant.       *)
(***************************************************************************)
EXTENDS AceSim

And == {<<1, 1>>}
Xor == {<<0, 1>>, <<1, 0>>}
Not == {<<0>>}

Toggle ==
  [pis |-> {"a"}, nodes |-> <<"g">>, latches |-> <<"q">>,
   fanin |-> [g |-> <<"a", "q">>], onset |-> [g |-> Xor], d |-> [q |-> "g"]]
Shift ==
  [pis |-> {"a"}, nodes |-> <<"n", "g">>, latches |-> <<"r", "q">>,
   fanin |-> [n |-> <<"r">>, g |-> <<"n", "q">>], onset |-> [n |-> Not, g |-> And],
   d |-> [q |-> "a", r |-> "q"]]
Reconverge ==
  [pis |-> {"a", "b"}, nodes |-> <<"n", "f", "g">>, latches |-> <<>>,
   fanin |-> [n |-> <<"a">>, f |-> <<"a", "b">>, g |-> <<"n", "f">>],
   onset |-> [n |-> Not, f |-> And, g |-> Xor], d |-> <<>>]
Hold ==
  [pis |-> {"a", "b"}, nodes |-> <<"z", "e", "f", "g">>, latches |-> <<"h", "q">>,
   fanin |-> [z |-> <<>>, e |-> <<"b", "q">>, f |-> <<"q", "h">>, g |-> <<"a", "z">>],
   onset |-> [z |-> {}, e |-> Xor, f |-> Xor, g |-> Xor], d |-> [h |-> "h", q |-> "e"]]

\* r is listed after q, which is listed before s: both take what s had.
InPlace ==
  [pis |-> {"a"}, nodes |-> <<"n", "g">>, latches |-> <<"q", "r", "s", "t">>,
   fanin |-> [n |-> <<"a", "t">>, g |-> <<"n", "r">>], onset |-> [n |-> Xor, g |-> And],
   d |-> [q |-> "s", r |-> "q", s |-> "n", t |-> "s"]]
\* o should be 1, and n and w read constants only.
Ones ==
  [pis |-> {"a"}, nodes |-> <<"o", "n", "w", "g">>, latches |-> <<"q">>,
   fanin |-> [o |-> <<>>, n |-> <<"o">>, w |-> <<"n", "o">>, g |-> <<"a", "w">>],
   onset |-> [o |-> {<<>>}, n |-> Not, w |-> Xor, g |-> Xor], d |-> [q |-> "o"]]

CircuitsDef == {Toggle, Shift, Reconverge, Hold, InPlace, Ones}
ASSUME FaithfulAssumption == {c \in Circuits : ~ Faithful(c)} = {InPlace, Ones}
=============================================================================
