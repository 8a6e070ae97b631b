---------------------------- MODULE SyncCircuit ----------------------------
(***************************************************************************)
(* What the simulation of ACE2 (ace2/sim.c) promises: a synchronous        *)
(* circuit.  In each cycle the inputs take any value, every gate has the   *)
(* value of its function, and then all the latches load at once.  The ones *)
(* of a gate are the cycles in which it is 1, its toggles the changes from *)
(* one cycle to the next: its first value is no toggle (sim.c:221).        *)
(***************************************************************************)
EXTENDS Integers, Sequences

CONSTANTS Circuits, max_cycles

VARIABLES circuit, phase, cycle, inputs, latch, val, ones, toggles

Gates   == {circuit.nodes[i] : i \in DOMAIN circuit.nodes}
Latches == {circuit.latches[i] : i \in DOMAIN circuit.latches}
Bit == {0, 1}

\* The value of an object, from those of the inputs, the latches and the gates.
Signal(in, gate, o) ==
  IF o \in circuit.pis THEN in[o] ELSE IF o \in Latches THEN latch[o] ELSE gate[o]

Output(in, gate, g) ==
  LET args == [i \in DOMAIN circuit.fanin[g] |-> Signal(in, gate, circuit.fanin[g][i])]
  IN  IF args \in circuit.onset[g] THEN 1 ELSE 0

Init ==
  /\ circuit \in Circuits
  /\ phase = "clocked" /\ cycle = 0 /\ inputs = <<>>
  /\ latch = [l \in Latches |-> 0]
  /\ val = [g \in Gates |-> 0]
  /\ ones = [g \in Gates |-> 0] /\ toggles = [g \in Gates |-> 0]

Settle ==
  /\ phase = "clocked" /\ phase' = "settled"
  /\ inputs' \in [circuit.pis -> Bit]
  /\ val' \in [Gates -> Bit]
  /\ \A g \in Gates : val'[g] = Output(inputs', val', g)
  /\ ones' = [g \in Gates |-> ones[g] + val'[g]]
  /\ toggles' = [g \in Gates |-> IF cycle > 0 /\ val'[g] # val[g] THEN toggles[g] + 1 ELSE toggles[g]]
  /\ UNCHANGED <<circuit, cycle, latch>>

Clock ==
  /\ phase = "settled"
  /\ latch' = [l \in Latches |-> Signal(inputs, val, circuit.d[l])]
  /\ inputs' = <<>>
  /\ cycle' = cycle + 1
  /\ phase' = IF cycle' < max_cycles THEN "clocked" ELSE "done"
  /\ UNCHANGED <<circuit, val, ones, toggles>>

Next == Settle \/ Clock
vars == <<circuit, phase, cycle, inputs, latch, val, ones, toggles>>
Spec == Init /\ [][Next]_vars
FairSpec == Spec /\ WF_vars(Next)
=============================================================================
