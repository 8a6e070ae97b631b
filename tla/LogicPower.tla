----------------------------- MODULE LogicPower -----------------------------
(***************************************************************************)
(* What power_pb (HPower/power.c) finds in a complex block: the primitives *)
(* the power library knows, and multiplexers of the interconnect.  The     *)
(* powers are sums of reals over these parts and are left out; the counts  *)
(* the estimate prints, of configuration bits and multiplexers, are here.  *)
(*                                                                         *)
(* A node of the architecture is [name, modes]; a mode is [children,       *)
(* muxes], with [node, num] for a type of children and [inputs, outputs,   *)
(* clock] for a multiplexing interconnect.  A used block is [mode,         *)
(* children], an entry of the library [name, method, bits, children].      *)
(***************************************************************************)
EXTENDS Integers, Sequences, SequencesExt, FiniteSetsExt

NoPb == [mode |-> 0]

Ceil(a, b) == (a + b - 1) \div b

\* The multiplexers of the given size that make one with more inputs. It has no value for
\* a size of 1 and more inputs: the code never leaves its loop.
num_default_muxes(input_size, default_mux_size) ==
  LET From[size \in Nat] ==
        IF size > default_mux_size
        THEN LET level == Ceil(size, default_mux_size) IN level + From[level]
        ELSE 1
  IN From[input_size]

\* ceil(log(size) / log(2))
SelectBits(size) == CHOOSE b \in 0 .. size : 2 ^ b >= size /\ \A c \in 0 .. b - 1 : 2 ^ c < size

\* A clock's interconnect is left out.
MuxParts(muxes, size) ==
  LET PartOf(m) == LET n == m.outputs * num_default_muxes(m.inputs, size)
                   IN [kind |-> "mux", bits |-> n * SelectBits(size), muxes |-> n]
      logic == SelectSeq(muxes, LAMBDA m : ~m.clock)
  IN [i \in DOMAIN logic |-> PartOf(logic[i])]

ModeOf(node, pb) == node.modes[IF pb = NoPb THEN 1 ELSE pb.mode]
ChildPb(pb, c, k) == IF pb = NoPb THEN NoPb ELSE pb.children[c][k]
EntryFor(name, entries) == SelectInSeq(entries, LAMBDA e : e.name = name)

Total(part(_), parts) == MapThenSumSet(LAMBDA i : part(parts[i]), DOMAIN parts)
Bits(parts) == Total(LAMBDA p : p.bits, parts)
Muxes(parts) == Total(LAMBDA p : p.muxes, parts)
Aborts(parts) == \E i \in DOMAIN parts : parts[i].kind = "abort"
=============================================================================
