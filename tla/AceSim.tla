------------------------------- MODULE AceSim -------------------------------
(***************************************************************************)
(* The simulation of ACE2 (ace2/sim.c).  ace_sim_activities runs           *)
(* max_cycles cycles; in each, get_pi_values sets the primary inputs,      *)
(* evaluate_circuit sweeps the logic nodes in depth-first order, and       *)
(* update_FFs copies the inputs of the latches to their outputs.  A node   *)
(* is evaluated only when one of its fanins is NEW: the status of a node   *)
(* has to tell whether its value changed in this cycle.                    *)
(*                                                                         *)
(* The random generator and the vector file are a choice of values.  The   *)
(* three objects of a latch, its input (BI), box and output (BO), are      *)
(* assigned alike and only the output is read: one object stands for them. *)
(* Nothing evaluates a primary output, whose counters stay 0.  The status  *)
(* SIM is set when the counters become probabilities.                      *)
(***************************************************************************)
EXTENDS Integers, Sequences, FiniteSets

CONSTANTS Circuits, max_cycles

ASSUME CyclesAssumption == max_cycles \in Nat \ {0}   \* sim.c:285, assert(max_cycles > 0)

\* A circuit, as ABC keeps it: its inputs, its logic nodes in the order of Abc_NtkDfs,
\* the fanins of each and the vectors that make it 1, its latches in the order of
\* the network and the object that feeds each.
NodesOf(c)   == {c.nodes[i] : i \in DOMAIN c.nodes}
LatchesOf(c) == {c.latches[i] : i \in DOMAIN c.latches}
Objects(c)   == c.pis \cup NodesOf(c) \cup LatchesOf(c)

\* The objects of an ABC network are told apart, and read one another.
Network(c) ==
  /\ c.nodes \in Seq(NodesOf(c)) /\ c.latches \in Seq(LatchesOf(c))
  /\ \A i, j \in DOMAIN c.nodes : c.nodes[i] = c.nodes[j] => i = j
  /\ \A i, j \in DOMAIN c.latches : c.latches[i] = c.latches[j] => i = j
  /\ c.pis \cap NodesOf(c) = {} /\ c.pis \cap LatchesOf(c) = {} /\ NodesOf(c) \cap LatchesOf(c) = {}
  /\ c.fanin \in [NodesOf(c) -> Seq(Objects(c))]
  /\ c.d \in [LatchesOf(c) -> Objects(c)]

\* Abc_NtkDfs_rec lists a node after the nodes it reads; ace.c:356 stops at a loop.
DfsOrder(c) ==
  \A i \in DOMAIN c.nodes : \A k \in DOMAIN c.fanin[c.nodes[i]] :
    \A j \in DOMAIN c.nodes : c.fanin[c.nodes[i]][k] = c.nodes[j] => j < i
ASSUME CircuitsAssumption == \A c \in Circuits : Network(c) /\ DfsOrder(c)

VARIABLES circuit, pc, cycle, info, prob

vars == <<circuit, pc, cycle, info, prob>>

Status == {"UNDEF", "SIM", "NEW", "OLD"}
Bit == {0, 1}
PIs == circuit.pis
Nodes == NodesOf(circuit)
Latches == LatchesOf(circuit)

\* Mutant: the outputs of the latches are undefined as well.
InitialStatusUndef(o) == "UNDEF"
\* A latch output starts at 0, as if it had just been loaded.
InitialStatus(o) == IF o \in Latches THEN "NEW" ELSE "UNDEF"

Init ==
  /\ circuit \in Circuits
  /\ pc = "inputs" /\ cycle = 0
  /\ info = [o \in Objects(circuit) |->
               [status |-> InitialStatus(o), value |-> 0, num_ones |-> 0, num_toggles |-> 0]]
  /\ prob = <<>>

-----------------------------------------------------------------------------
(* get_pi_values *)

\* The first value of an input is NEW and, when it is 1, a toggle.
NewPi(pi, v) ==
  IF pi.status = "UNDEF"
  THEN [status |-> "NEW", value |-> v, num_ones |-> v, num_toggles |-> v]
  ELSE [status |-> IF v = pi.value THEN "OLD" ELSE "NEW", value |-> v,
        num_ones |-> pi.num_ones + v,
        num_toggles |-> IF v = pi.value THEN pi.num_toggles ELSE pi.num_toggles + 1]

get_pi_values ==
  /\ pc = "inputs" /\ pc' = "evaluate"
  /\ \E v \in [PIs -> Bit] :
       info' = [o \in DOMAIN info |-> IF o \in PIs THEN NewPi(info[o], v[o]) ELSE info[o]]
  /\ UNCHANGED <<circuit, cycle, prob>>

-----------------------------------------------------------------------------
(* evaluate_circuit; i is the table of infos as the sweep has left it *)

FaninOf(n) == circuit.fanin[n]

\* Mutant: a status is looked up among the first fanins only.
getFirstFaninStatus(i, n) ==
  IF FaninOf(n) # <<>> THEN i[FaninOf(n)[1]].status ELSE "OLD"
getFaninStatus(i, n) ==
  LET statuses == {i[FaninOf(n)[k]].status : k \in DOMAIN FaninOf(n)}
  IN  IF "UNDEF" \in statuses THEN "UNDEF"
      ELSE IF statuses \cap {"NEW", "SIM"} # {} THEN "NEW" ELSE "OLD"

Cudd_Eval(i, n) ==
  LET args == [k \in DOMAIN FaninOf(n) |-> i[FaninOf(n)[k]].value]
  IN  IF args \in circuit.onset[n] THEN 1 ELSE 0

\* Mutant: the first value counts as a toggle.
NewValueFirstToggle(x, v) ==
  IF x.value # v \/ x.status = "UNDEF"
  THEN [x EXCEPT !.status = "NEW", !.value = v, !.num_toggles = @ + 1, !.num_ones = @ + v]
  ELSE [x EXCEPT !.status = "OLD", !.num_ones = @ + v]
NewValue(x, v) ==
  IF x.value # v \/ x.status = "UNDEF"
  THEN [x EXCEPT !.status = "NEW", !.value = v, !.num_ones = @ + v,
                 !.num_toggles = IF x.status = "UNDEF" THEN @ ELSE @ + 1]
  ELSE [x EXCEPT !.status = "OLD", !.num_ones = @ + v]
OldValue(x) == [x EXCEPT !.status = "OLD", !.num_ones = @ + x.value]

Evaluated(i, n) ==
  CASE getFaninStatus(i, n) = "UNDEF" -> [i[n] EXCEPT !.status = "UNDEF"]
    [] getFaninStatus(i, n) = "OLD"   -> OldValue(i[n])
    [] getFaninStatus(i, n) = "NEW"   -> NewValue(i[n], Cudd_Eval(i, n))

\* The table after the first k nodes.
Swept ==
  LET sweep[k \in 0 .. Len(circuit.nodes)] ==
        IF k = 0 THEN info
        ELSE LET i == sweep[k - 1]
                 n == circuit.nodes[k]
             IN  [i EXCEPT ![n] = Evaluated(i, n)]
  IN  sweep

evaluate_circuit ==
  /\ pc = "evaluate" /\ pc' = "update"
  /\ info' = Swept[Len(circuit.nodes)]
  /\ UNCHANGED <<circuit, cycle, prob>>

-----------------------------------------------------------------------------
(* update_FFs and the loop of ace_sim_activities *)

Latched(i, l) == i[circuit.d[l]]

\* The table after the first k latches.
Copied ==
  LET copy[k \in 0 .. Len(circuit.latches)] ==
        IF k = 0 THEN info
        ELSE LET i == copy[k - 1]
                 l == circuit.latches[k]
             IN  [i EXCEPT ![l] = Latched(i, l)]
  IN  copy

update_FFs ==
  /\ pc = "update"
  /\ info' = Copied[Len(circuit.latches)]
  /\ cycle' = cycle + 1
  /\ pc' = IF cycle' < max_cycles THEN "inputs" ELSE "done"
  /\ UNCHANGED <<circuit, prob>>

\* The counters over max_cycles; ace_update_latch_probs repeats update_FFs for them.
Probabilities ==
  /\ pc = "done" /\ prob = <<>>
  /\ prob' = [o \in DOMAIN info |-> [static |-> info[o].num_ones, switch |-> info[o].num_toggles]]
  /\ info' = [o \in DOMAIN info |-> [info[o] EXCEPT !.status = "SIM"]]
  /\ UNCHANGED <<circuit, pc, cycle>>

Stopped == prob # <<>> /\ UNCHANGED vars

Next == get_pi_values \/ evaluate_circuit \/ update_FFs \/ Probabilities \/ Stopped
Spec == Init /\ [][Next]_vars
FairSpec == Spec /\ WF_vars(Next)

-----------------------------------------------------------------------------
(* Properties *)

\* The type invariant: no logic node stays undefined, and no counter passes the
\* number of cycles simulated, which the assertions sim.c:317 and 319 rely on.
TypeOK ==
  /\ circuit \in Circuits
  /\ pc \in {"inputs", "evaluate", "update", "done"} /\ cycle \in 0 .. max_cycles
  /\ info \in [Objects(circuit) -> [status : Status, value : Bit, num_ones : 0 .. max_cycles,
                                    num_toggles : 0 .. max_cycles]]
  /\ \A n \in Nodes : cycle > 0 => info[n].status # "UNDEF"

\* What a latch has loaded when update_FFs is over: the loop copies in place, so a
\* latch listed after its feeder takes what the feeder has taken (sim.c:252-276).
Earlier(c, m, l) ==
  \E i, j \in DOMAIN c.latches : i < j /\ c.latches[i] = m /\ c.latches[j] = l
Source(c) ==
  LET source[l \in LatchesOf(c)] ==
        IF Earlier(c, c.d[l], l) THEN source[c.d[l]] ELSE c.d[l]
  IN  source

\* The nodes that no input and no latch reaches.  None of their fanins is ever NEW,
\* so nothing evaluates them and they stay at 0 (sim.c:164, 194).
ConstantsOf(c) ==
  UNION {N \in SUBSET NodesOf(c) : \A n \in N : \A k \in DOMAIN c.fanin[n] : c.fanin[n][k] \in N}
Zeros(c, n) == [k \in DOMAIN c.fanin[n] |-> 0]

\* The circuit that is simulated: latches load from their sources, constants are 0.
Simulated(c) ==
  [pis |-> c.pis, nodes |-> c.nodes, latches |-> c.latches, fanin |-> c.fanin, d |-> Source(c),
   onset |-> [n \in NodesOf(c) |->
                IF n \in ConstantsOf(c) THEN c.onset[n] \ {Zeros(c, n)} ELSE c.onset[n]]]

\* It is the circuit given when each latch is listed before its feeder, or is fed by
\* no other latch, and when every constant is 0.
LatchOrder(c) == \A l \in LatchesOf(c) : ~ Earlier(c, c.d[l], l)
ConstantsZero(c) == \A n \in ConstantsOf(c) : Zeros(c, n) \notin c.onset[n]
Faithful(c) == LatchOrder(c) /\ ConstantsZero(c)

\* Evaluating a node only when a fanin is NEW, and copying the latches one by
\* one, comes to the same as a synchronous circuit, the one simulated: the same
\* values and counts in every cycle, for latches in any order.
Settled == pc = "update"
Phase == CASE pc \in {"inputs", "evaluate"} -> "clocked"
           [] pc = "update" -> "settled"
           [] pc = "done" -> "done"
Eager == INSTANCE SyncCircuit WITH
  Circuits <- {Simulated(c) : c \in Circuits},
  circuit <- Simulated(circuit),
  phase <- Phase,
  inputs <- IF Settled THEN [p \in PIs |-> info[p].value] ELSE <<>>,
  latch <- [l \in Latches |-> info[l].value],
  val <- [n \in Nodes |-> info[n].value],
  ones <- [n \in Nodes |-> info[n].num_ones],
  toggles <- [n \in Nodes |-> info[n].num_toggles]
LazyIsEager == Eager!FairSpec

\* The latches that no input reaches through latches alone.
LogicLatches(c) ==
  UNION {L \in SUBSET LatchesOf(c) : \A l \in L : c.d[l] \in NodesOf(c) \cup L}

\* When the probabilities are set the switching of a logic node, and of a latch
\* that does not just pass an input on, is at most twice its time at 1 and its
\* time at 0 (the assertions sim.c:321-322, whose tolerance of EPSILON is less
\* than one toggle in ACE_NUM_VECTORS).
BoundedSwitching(o) ==
  prob[o].switch <= 2 * (max_cycles - prob[o].static) /\ prob[o].switch <= 2 * prob[o].static
LogicSwitchingBounded ==
  prob # <<>> => \A o \in Nodes \cup LogicLatches(circuit) : BoundedSwitching(o)

\* The same assertions, of every object: "assert(info->switch_prob - EPSILON <=
\* 2.0 * (1.0 - info->static_prob))".
SwitchingBounded == prob # <<>> => \A o \in DOMAIN prob : BoundedSwitching(o)
=============================================================================
