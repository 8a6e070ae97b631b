---------------------------- MODULE AceSimProofs ----------------------------
(***************************************************************************)
(* Proofs about the simulation of ACE2, for any circuits and any number of *)
(* cycles: its types and counts, the bound on the switching of the logic,  *)
(* and that evaluating only what a new value reaches implements a          *)
(* synchronous circuit.                                                    *)
(***************************************************************************)
EXTENDS AceSim, NaturalRecursion, SequenceTheorems

-----------------------------------------------------------------------------
(* The circuit and the table of infos *)

Record == [status : Status, value : Bit, num_ones : Nat, num_toggles : Nat]
Tables == [Objects(circuit) -> Record]
LastNode  == Len(circuit.nodes)
LastLatch == Len(circuit.latches)

\* The network of a circuit, in the terms of the state.
LEMMA CircuitFacts ==
  ASSUME circuit \in Circuits
  PROVE  /\ LastNode \in Nat /\ DOMAIN circuit.nodes = 1 .. LastNode
         /\ LastLatch \in Nat /\ DOMAIN circuit.latches = 1 .. LastLatch
         /\ \A k \in 1 .. LastNode : circuit.nodes[k] \in Nodes
         /\ \A n \in Nodes : \E k \in 1 .. LastNode : n = circuit.nodes[k]
         /\ \A k \in 1 .. LastLatch : circuit.latches[k] \in Latches
         /\ \A l \in Latches : \E k \in 1 .. LastLatch : l = circuit.latches[k]
         /\ \A j, k \in 1 .. LastNode : circuit.nodes[j] = circuit.nodes[k] => j = k
         /\ \A j, k \in 1 .. LastLatch : circuit.latches[j] = circuit.latches[k] => j = k
         /\ Objects(circuit) = PIs \cup Nodes \cup Latches
         /\ PIs \cap Nodes = {} /\ PIs \cap Latches = {} /\ Nodes \cap Latches = {}
         /\ \A n \in Nodes : FaninOf(n) \in Seq(Objects(circuit))
         /\ \A l \in Latches : circuit.d[l] \in Objects(circuit)
<1>1. Network(circuit)
  BY CircuitsAssumption
<1>2. circuit.nodes \in Seq(NodesOf(circuit)) /\ circuit.latches \in Seq(LatchesOf(circuit))
  BY <1>1 DEF Network
<1>3. /\ LastNode \in Nat /\ DOMAIN circuit.nodes = 1 .. LastNode
      /\ LastLatch \in Nat /\ DOMAIN circuit.latches = 1 .. LastLatch
  BY <1>2, LenProperties DEF LastNode, LastLatch
<1>4. /\ \A k \in 1 .. LastNode : circuit.nodes[k] \in Nodes
      /\ \A n \in Nodes : \E k \in 1 .. LastNode : n = circuit.nodes[k]
      /\ \A k \in 1 .. LastLatch : circuit.latches[k] \in Latches
      /\ \A l \in Latches : \E k \in 1 .. LastLatch : l = circuit.latches[k]
  BY <1>3 DEF Nodes, Latches, NodesOf, LatchesOf
<1>5. /\ \A n \in Nodes : FaninOf(n) \in Seq(Objects(circuit))
      /\ \A l \in Latches : circuit.d[l] \in Objects(circuit)
  BY <1>1 DEF Network, FaninOf, Nodes, Latches
<1>6. QED
  BY <1>1, <1>3, <1>4, <1>5 DEF Network, Objects, PIs, Nodes, Latches

\* The fanins of a node are objects, and those that are nodes come before it.
LEMMA FaninFacts ==
  ASSUME circuit \in Circuits, NEW n \in Nodes, NEW m \in DOMAIN FaninOf(n)
  PROVE  /\ FaninOf(n)[m] \in Objects(circuit) /\ FaninOf(n)[m] # n
         /\ \A j, k \in 1 .. LastNode :
              n = circuit.nodes[k] /\ FaninOf(n)[m] = circuit.nodes[j] => j < k
<1>1. FaninOf(n) \in Seq(Objects(circuit))
  BY CircuitFacts
<1>2. FaninOf(n)[m] \in Objects(circuit)
  BY <1>1
<1>3. ASSUME NEW j \in 1 .. LastNode, NEW k \in 1 .. LastNode,
             n = circuit.nodes[k], FaninOf(n)[m] = circuit.nodes[j]
      PROVE  j < k
  <2>1. DfsOrder(circuit) /\ DOMAIN circuit.nodes = 1 .. LastNode
    BY CircuitsAssumption, CircuitFacts
  <2>2. QED
    BY <2>1, <1>3 DEF DfsOrder, FaninOf
<1>4. FaninOf(n)[m] # n
  <2>1. PICK k \in 1 .. LastNode : n = circuit.nodes[k]
    BY CircuitFacts
  <2>2. k \in Nat
    BY CircuitFacts
  <2>3. QED
    BY <2>1, <2>2, <1>3
<1>5. QED
  BY <1>2, <1>3, <1>4

\* The status of the fanins is one of three.
LEMMA FaninStatuses ==
  ASSUME NEW i, NEW n
  PROVE  getFaninStatus(i, n) \in {"UNDEF", "NEW", "OLD"}
BY DEF getFaninStatus

\* A node is a constant exactly when all its fanins are.
LEMMA ConstantsFacts ==
  ASSUME circuit \in Circuits
  PROVE  /\ ConstantsOf(circuit) \subseteq Nodes
         /\ \A n \in ConstantsOf(circuit) : \A k \in DOMAIN FaninOf(n) : FaninOf(n)[k] \in ConstantsOf(circuit)
         /\ \A n \in Nodes : (\A k \in DOMAIN FaninOf(n) : FaninOf(n)[k] \in ConstantsOf(circuit)) =>
              n \in ConstantsOf(circuit)
<1>. DEFINE Closed(N) == \A n \in N : \A k \in DOMAIN FaninOf(n) : FaninOf(n)[k] \in N
            C == ConstantsOf(circuit)
<1>1. C = UNION {N \in SUBSET Nodes : Closed(N)}
  BY DEF ConstantsOf, Nodes, FaninOf
<1>. HIDE DEF C
<1>2. C \subseteq Nodes
  BY <1>1
<1>3. ASSUME NEW n \in C, NEW k \in DOMAIN FaninOf(n) PROVE FaninOf(n)[k] \in C
  <2>1. PICK N \in SUBSET Nodes : Closed(N) /\ n \in N
    BY <1>1
  <2>2. FaninOf(n)[k] \in N
    BY <2>1
  <2>3. QED
    BY <1>1, <2>1, <2>2
<1>4. ASSUME NEW n \in Nodes, \A k \in DOMAIN FaninOf(n) : FaninOf(n)[k] \in C PROVE n \in C
  <2>1. Closed(C \cup {n})
    BY <1>3, <1>4
  <2>2. C \cup {n} \in {N \in SUBSET Nodes : Closed(N)}
    BY <1>2, <2>1
  <2>3. QED
    BY <1>1, <2>2
<1>5. QED
  BY <1>2, <1>3, <1>4 DEF C

\* The same closure, of the latches: what a latch of the set loads is of the set or a node.
LEMMA LogicLatchesFacts ==
  ASSUME circuit \in Circuits
  PROVE  /\ LogicLatches(circuit) \subseteq Latches
         /\ \A l \in LogicLatches(circuit) : circuit.d[l] \in Nodes \cup LogicLatches(circuit)
<1>1. LogicLatches(circuit) =
      UNION {L \in SUBSET Latches : \A l \in L : circuit.d[l] \in Nodes \cup L}
  BY DEF LogicLatches, Latches, Nodes
<1>2. QED
  BY <1>1

\* What the latches may load.
Loads == [Latches -> Objects(circuit)]

\* The recursion of the sources is well defined: it goes to earlier latches.
LEMMA SourceRec ==
  ASSUME circuit \in Circuits
  PROVE  \A l \in Latches : Source(circuit)[l] =
           IF Earlier(circuit, circuit.d[l], l) THEN Source(circuit)[circuit.d[l]] ELSE circuit.d[l]
<1>. DEFINE N == LastLatch
            At(x, l) == IF Earlier(circuit, circuit.d[l], l) THEN x[circuit.d[l]] ELSE circuit.d[l]
            Set(x, k) == [x EXCEPT ![circuit.latches[k]] = At(x, circuit.latches[k])]
            step == [m \in Nat |-> [x \in Loads |-> IF m + 1 \in 1 .. N THEN Set(x, m + 1) ELSE x]]
            source == CHOOSE g : g = [l \in Latches |-> At(g, l)]
<1>1. N \in Nat /\ DOMAIN circuit.latches = 1 .. N
  BY CircuitFacts
<1>2. ASSUME NEW l \in Latches, Earlier(circuit, circuit.d[l], l) PROVE circuit.d[l] \in Latches
  <2>1. PICK i \in 1 .. N : circuit.latches[i] = circuit.d[l]
    BY <1>1, <1>2 DEF Earlier
  <2>2. QED
    BY <2>1, CircuitFacts
<1>3. ASSUME NEW x \in Loads, NEW l \in Latches PROVE At(x, l) \in Objects(circuit)
  BY <1>2, CircuitFacts DEF Loads
<1>4. ASSUME NEW k \in 1 .. N, NEW x \in Loads PROVE Set(x, k) \in Loads
  <2>1. circuit.latches[k] \in Latches
    BY CircuitFacts DEF Loads
  <2>. HIDE DEF At
  <2>2. QED
    BY <2>1, <1>3 DEF Loads
<1>5. step \in Steps(Loads) /\ \A k \in 1 .. N : \A x \in Loads : step[k - 1][x] = Set(x, k)
  <2>1. step \in Steps(Loads)
    <3>. HIDE DEF Set
    <3>1. QED
      BY <1>4 DEF Steps
  <2>2. ASSUME NEW k \in 1 .. N, NEW x \in Loads PROVE step[k - 1][x] = Set(x, k)
    <3>1. k - 1 \in Nat /\ (k - 1) + 1 = k
      BY <1>1
    <3>. HIDE DEF Set
    <3>2. QED
      BY <3>1
  <2>3. QED
    BY <2>1, <2>2
<1>. HIDE DEF step
<1>6. PICK d \in Loads : TRUE
  <2>1. [l \in Latches |-> circuit.d[l]] \in Loads
    BY CircuitFacts DEF Loads
  <2>2. QED
    BY <2>1
<1>7. PICK f \in [0 .. N -> Loads] : f[0] = d /\ \A i \in 1 .. N : f[i] = step[i - 1][f[i - 1]]
  BY <1>1, <1>5, Recursion
<1>7a. \A k \in 1 .. N : f[k] = Set(f[k - 1], k)
  <2>. HIDE DEF Set
  <2>1. \A k \in 1 .. N : k - 1 \in 0 .. N /\ f[k - 1] \in Loads
    BY <1>1
  <2>2. QED
    BY <1>5, <1>7, <2>1
<1>8. ASSUME NEW k \in 1 .. N
      PROVE  /\ f[k][circuit.latches[k]] = At(f[k - 1], circuit.latches[k])
             /\ \A l \in Latches : l # circuit.latches[k] => f[k][l] = f[k - 1][l]
  <2>1. k - 1 \in 0 .. N /\ f[k - 1] \in Loads /\ circuit.latches[k] \in Latches
    BY <1>1, CircuitFacts
  <2>. HIDE DEF At
  <2>2. QED
    BY <2>1, <1>7a DEF Loads
<1>. DEFINE Kept(m) == \A j \in 1 .. m : f[m][circuit.latches[j]] = f[j][circuit.latches[j]]
            T == {m \in Nat : m \in 0 .. N => Kept(m)}
<1>9. \A m \in 0 .. N : Kept(m)
  <2>1. 0 \in T
    OBVIOUS
  <2>2. ASSUME NEW m \in Nat, m \in T, m + 1 \in 0 .. N PROVE Kept(m + 1)
    <3>1. Kept(m) /\ m + 1 \in 1 .. N /\ (m + 1) - 1 = m
      BY <1>1, <2>2
    <3>2. ASSUME NEW j \in 1 .. m PROVE f[m + 1][circuit.latches[j]] = f[j][circuit.latches[j]]
      <4>1. j \in 1 .. N /\ j # m + 1
        BY <1>1, <3>1
      <4>2. circuit.latches[j] \in Latches /\ circuit.latches[j] # circuit.latches[m + 1]
        BY <4>1, <3>1, CircuitFacts
      <4>. HIDE DEF At
      <4>3. QED
        BY <4>2, <3>1, <1>8
    <3>3. \A j \in 1 .. m + 1 : j \in 1 .. m \/ j = m + 1
      BY <2>2
    <3>4. QED
      BY <3>2, <3>3
  <2>3. Nat \subseteq T
    <3>1. \A m \in Nat : m \in T => m + 1 \in T
      BY <2>2
    <3>. HIDE DEF T
    <3>2. QED
      BY <2>1, <3>1, SetInduction
  <2>4. QED
    BY <1>1, <2>3
<1>. HIDE DEF T
<1>10. ASSUME NEW l \in Latches PROVE f[N][l] = At(f[N], l)
  <2>1. PICK k \in 1 .. N : l = circuit.latches[k]
    BY CircuitFacts DEF Loads
  <2>2. N \in 0 .. N /\ k - 1 \in 0 .. N /\ k \in Nat /\ k \in 1 .. N
    BY <1>1
  <2>3. f[N][l] = f[k][l] /\ f[k][l] = At(f[k - 1], l)
    BY <2>1, <2>2, <1>8, <1>9
  <2>4. ASSUME Earlier(circuit, circuit.d[l], l) PROVE f[k - 1][circuit.d[l]] = f[N][circuit.d[l]]
    <3>1. PICK i, j \in 1 .. N : i < j /\ circuit.latches[i] = circuit.d[l] /\ circuit.latches[j] = l
      BY <2>4, <1>1 DEF Earlier
    <3>2. j = k
      BY <3>1, <2>1, CircuitFacts
    <3>3. i \in 1 .. k - 1
      BY <1>1, <3>1, <3>2
    <3>4. f[k - 1][circuit.latches[i]] = f[i][circuit.latches[i]] /\ f[N][circuit.latches[i]] = f[i][circuit.latches[i]]
      BY <3>1, <3>3, <2>2, <1>9
    <3>5. QED
      BY <3>1, <3>4
  <2>5. QED
    BY <2>3, <2>4
<1>11. f[N] = [l \in Latches |-> At(f[N], l)]
  <2>1. f[N] \in Loads
    BY <1>1
  <2>. HIDE DEF At
  <2>2. QED
    BY <1>10, <2>1 DEF Loads
<1>12. source = [l \in Latches |-> At(source, l)]
  <2>. HIDE DEF At
  <2>1. QED
    BY <1>11
<1>13. Source(circuit) = source
  BY DEF Source, Latches
<1>14. QED
  <2>. HIDE DEF source
  <2>1. \A l \in Latches : source[l] = At(source, l)
    BY <1>12
  <2>2. QED
    BY <2>1, <1>13

\* A record that is given a new value: the fields, one by one.
LEMMA NewValueFields ==
  ASSUME NEW x \in Record, NEW v \in Bit
  PROVE  LET y == NewValue(x, v)
         IN  /\ y \in Record /\ y.value = v /\ y.num_ones = x.num_ones + v
             /\ y.status \in {"NEW", "OLD"}
             /\ y.status = "OLD" => x.value = v
             /\ x.status = "UNDEF" => y.status = "NEW"
             /\ y.num_toggles = IF x.value # v /\ x.status # "UNDEF"
                                THEN x.num_toggles + 1 ELSE x.num_toggles
<1>1. x.num_ones + v \in Nat /\ x.num_toggles + 1 \in Nat /\ "NEW" \in Status /\ "OLD" \in Status
  BY DEF Record, Bit, Status
<1>2. CASE x.value # v \/ x.status = "UNDEF"
  <2>. DEFINE t == IF x.status = "UNDEF" THEN x.num_toggles ELSE x.num_toggles + 1
  <2>1. t \in Nat
    BY <1>1 DEF Record
  <2>2. NewValue(x, v) = [status |-> "NEW", value |-> v, num_ones |-> x.num_ones + v, num_toggles |-> t]
    BY <1>2 DEF NewValue, Record
  <2>3. QED
    BY <1>1, <1>2, <2>1, <2>2 DEF Record
<1>3. CASE ~ (x.value # v \/ x.status = "UNDEF")
  <2>1. NewValue(x, v) = [status |-> "OLD", value |-> x.value, num_ones |-> x.num_ones + v,
                          num_toggles |-> x.num_toggles]
    BY <1>3 DEF NewValue, Record
  <2>2. QED
    BY <1>1, <1>3, <2>1 DEF Record
<1>4. QED
  BY <1>2, <1>3

\* A record that keeps its value counts it.
LEMMA OldValueFields ==
  ASSUME NEW x \in Record
  PROVE  LET y == OldValue(x)
         IN  /\ y \in Record /\ y.status = "OLD" /\ y.value = x.value
             /\ y.num_ones = x.num_ones + x.value /\ y.num_toggles = x.num_toggles
<1>1. x.num_ones + x.value \in Nat /\ "OLD" \in Status
  BY DEF Record, Bit, Status
<1>2. QED
  BY <1>1 DEF OldValue, Record

\* The value of an input, whether it is the first or not.
LEMMA NewPiFields ==
  ASSUME NEW x \in Record, NEW v \in Bit
  PROVE  LET y == NewPi(x, v)
         IN  /\ y \in Record /\ y.value = v /\ y.status \in {"NEW", "OLD"}
             /\ x.status = "UNDEF" => y.status = "NEW" /\ y.num_ones = v /\ y.num_toggles = v
             /\ x.status # "UNDEF" =>
                  /\ y.status = "OLD" => x.value = v
                  /\ y.num_ones = x.num_ones + v
                  /\ y.num_toggles = IF v = x.value THEN x.num_toggles ELSE x.num_toggles + 1
<1>1. v \in Nat /\ x.num_ones + v \in Nat /\ x.num_toggles + 1 \in Nat /\ x.num_toggles \in Nat
      /\ "NEW" \in Status /\ "OLD" \in Status
  BY DEF Record, Bit, Status
<1>2. QED
  BY <1>1 DEF NewPi, Record

\* Whatever a node is evaluated to is a record.
LEMMA EvaluatedType ==
  ASSUME circuit \in Circuits, NEW i \in Tables, NEW n \in Nodes
  PROVE  Evaluated(i, n) \in Record /\ Cudd_Eval(i, n) \in Bit
<1>1. i[n] \in Record /\ Cudd_Eval(i, n) \in Bit
  BY CircuitFacts DEF Tables, Cudd_Eval, Bit
<1>2. [i[n] EXCEPT !.status = "UNDEF"] \in Record
  BY <1>1 DEF Record, Status
<1>3. OldValue(i[n]) \in Record /\ NewValue(i[n], Cudd_Eval(i, n)) \in Record
  BY <1>1, OldValueFields, NewValueFields
<1>4. QED
  BY <1>1, <1>2, <1>3, FaninStatuses DEF Evaluated

\* A node is evaluated from its own record and those of its fanins.
LEMMA EvaluatedAlike ==
  ASSUME NEW i, NEW j, NEW n, i[n] = j[n],
         \A m \in DOMAIN FaninOf(n) : i[FaninOf(n)[m]] = j[FaninOf(n)[m]]
  PROVE  Evaluated(i, n) = Evaluated(j, n)
<1>1. {i[FaninOf(n)[m]].status : m \in DOMAIN FaninOf(n)} = {j[FaninOf(n)[m]].status : m \in DOMAIN FaninOf(n)}
  OBVIOUS
<1>2. [m \in DOMAIN FaninOf(n) |-> i[FaninOf(n)[m]].value] = [m \in DOMAIN FaninOf(n) |-> j[FaninOf(n)[m]].value]
  OBVIOUS
<1>3. getFaninStatus(i, n) = getFaninStatus(j, n)
  BY <1>1 DEF getFaninStatus
<1>4. Cudd_Eval(i, n) = Cudd_Eval(j, n)
  BY <1>2 DEF Cudd_Eval
<1>5. QED
  BY <1>3, <1>4 DEF Evaluated

-----------------------------------------------------------------------------
(* The sweep of evaluate_circuit *)

\* The recursion of the sweep is well defined.
LEMMA SweptRec ==
  ASSUME circuit \in Circuits, info \in Tables
  PROVE  /\ Swept \in [0 .. LastNode -> Tables] /\ Swept[0] = info
         /\ \A k \in 1 .. LastNode :
              Swept[k] = [Swept[k - 1] EXCEPT ![circuit.nodes[k]] = Evaluated(Swept[k - 1], circuit.nodes[k])]
<1>. DEFINE N == LastNode
            Sweep(x, k) == [x EXCEPT ![circuit.nodes[k]] = Evaluated(x, circuit.nodes[k])]
            step == [m \in Nat |-> [x \in Tables |-> IF m + 1 \in 1 .. N THEN Sweep(x, m + 1) ELSE x]]
            sweep == CHOOSE g : g = [k \in 0 .. N |-> IF k = 0 THEN info ELSE Sweep(g[k - 1], k)]
<1>1. N \in Nat
  BY CircuitFacts
<1>2. ASSUME NEW k \in 1 .. N, NEW x \in Tables PROVE Sweep(x, k) \in Tables
  <2>1. circuit.nodes[k] \in Nodes
    BY CircuitFacts
  <2>2. Evaluated(x, circuit.nodes[k]) \in Record
    BY <2>1, EvaluatedType
  <2>3. QED
    BY <2>1, <2>2 DEF Tables
<1>3. step \in Steps(Tables) /\ \A k \in 1 .. N : \A x \in Tables : step[k - 1][x] = Sweep(x, k)
  <2>1. step \in Steps(Tables)
    BY <1>2 DEF Steps
  <2>2. ASSUME NEW k \in 1 .. N, NEW x \in Tables PROVE step[k - 1][x] = Sweep(x, k)
    <3>1. k - 1 \in Nat /\ (k - 1) + 1 = k
      BY <1>1
    <3>. HIDE DEF Sweep
    <3>2. QED
      BY <3>1
  <2>3. QED
    BY <2>1, <2>2
<1>. HIDE DEF step
<1>4. PICK f \in [0 .. N -> Tables] : f[0] = info /\ \A i \in 1 .. N : f[i] = step[i - 1][f[i - 1]]
  BY <1>1, <1>3, Recursion
<1>. HIDE DEF Sweep
<1>5. f = [k \in 0 .. N |-> IF k = 0 THEN info ELSE Sweep(f[k - 1], k)]
  <2>1. ASSUME NEW k \in 0 .. N, k # 0 PROVE f[k] = Sweep(f[k - 1], k)
    <3>1. k \in 1 .. N /\ k - 1 \in 0 .. N
      BY <1>1, <2>1
    <3>2. f[k - 1] \in Tables
      BY <3>1
    <3>3. QED
      BY <3>1, <3>2, <1>3, <1>4
  <2>2. QED
    BY <2>1, <1>4
<1>6. sweep = [k \in 0 .. N |-> IF k = 0 THEN info ELSE Sweep(sweep[k - 1], k)]
  BY <1>5
<1>7. Swept = sweep
  BY DEF Swept, Sweep, LastNode
<1>. HIDE DEF sweep
<1>8. sweep[0] = info /\ \A k \in 1 .. N : sweep[k] = Sweep(sweep[k - 1], k)
  BY <1>1, <1>6
<1>. DEFINE T == {k \in Nat : k \in 0 .. N => sweep[k] \in Tables}
<1>9. 0 \in T
  BY <1>8
<1>10. \A k \in Nat : k \in T => k + 1 \in T
  <2>. SUFFICES ASSUME NEW k \in Nat, k \in T, k + 1 \in 0 .. N PROVE sweep[k + 1] \in Tables
    OBVIOUS
  <2>1. k + 1 \in 1 .. N /\ k \in 0 .. N /\ (k + 1) - 1 = k
    BY <1>1
  <2>2. QED
    BY <2>1, <1>2, <1>8
<1>11. Nat \subseteq T
  <2>. HIDE DEF T
  <2>1. QED
    BY <1>9, <1>10, SetInduction
<1>12. \A k \in 0 .. N : sweep[k] \in Tables
  BY <1>1, <1>11
<1>13. sweep \in [0 .. N -> Tables]
  <2>1. sweep = [k \in 0 .. N |-> sweep[k]]
    BY <1>6
  <2>2. QED
    BY <2>1, <1>12
<1>14. QED
  BY <1>7, <1>8, <1>13 DEF Sweep

\* A step of the sweep changes the record of its node only.
LEMMA SweptStep ==
  ASSUME circuit \in Circuits, info \in Tables, NEW k \in 1 .. LastNode
  PROVE  /\ Swept[k - 1] \in Tables /\ Swept[k] \in Tables
         /\ Swept[k][circuit.nodes[k]] = Evaluated(Swept[k - 1], circuit.nodes[k])
         /\ \A o \in Objects(circuit) : o # circuit.nodes[k] => Swept[k][o] = Swept[k - 1][o]
<1>1. LastNode \in Nat /\ circuit.nodes[k] \in Objects(circuit)
  BY CircuitFacts
<1>2. k \in 0 .. LastNode /\ k - 1 \in 0 .. LastNode
  BY <1>1
<1>3. Swept[k - 1] \in Tables /\ Swept[k] \in Tables
      /\ Swept[k] = [Swept[k - 1] EXCEPT ![circuit.nodes[k]] = Evaluated(Swept[k - 1], circuit.nodes[k])]
  BY <1>2, SweptRec
<1>4. QED
  BY <1>1, <1>3 DEF Tables

\* After k nodes an object has its old record, or the one it got when its turn came.
LEMMA SweptSoFar ==
  ASSUME circuit \in Circuits, info \in Tables, NEW k \in 0 .. LastNode, NEW o \in Objects(circuit)
  PROVE  /\ (\A j \in 1 .. k : o # circuit.nodes[j]) => Swept[k][o] = info[o]
         /\ \A j \in 1 .. k : o = circuit.nodes[j] => Swept[k][o] = Swept[j][o]
<1>. DEFINE Holds(m) == /\ (\A j \in 1 .. m : o # circuit.nodes[j]) => Swept[m][o] = info[o]
                        /\ \A j \in 1 .. m : o = circuit.nodes[j] => Swept[m][o] = Swept[j][o]
            T == {m \in Nat : m \in 0 .. LastNode => Holds(m)}
<1>1. LastNode \in Nat
  BY CircuitFacts
<1>2. 0 \in T
  BY SweptRec
<1>3. \A m \in Nat : m \in T => m + 1 \in T
  <2>. SUFFICES ASSUME NEW m \in Nat, m \in T, m + 1 \in 0 .. LastNode PROVE Holds(m + 1)
    OBVIOUS
  <2>1. m + 1 \in 1 .. LastNode /\ (m + 1) - 1 = m /\ m \in 0 .. LastNode
    BY <1>1
  <2>2. Holds(m)
    BY <2>1
  <2>3. o # circuit.nodes[m + 1] => Swept[m + 1][o] = Swept[m][o]
    BY <2>1, SweptStep
  <2>4. \A j \in 1 .. m : j \in 1 .. m + 1 /\ j \in 1 .. LastNode /\ j # m + 1
    BY <1>1, <2>1
  <2>5. \A j \in 1 .. m + 1 : j \in 1 .. m \/ j = m + 1
    BY <2>1
  <2>6. \A j \in 1 .. m : o = circuit.nodes[j] => o # circuit.nodes[m + 1]
    BY <2>1, <2>4, CircuitFacts
  <2>7. m + 1 \in 1 .. m + 1
    BY <2>1
  <2>8. QED
    BY <2>2, <2>3, <2>4, <2>5, <2>6, <2>7
<1>4. Nat \subseteq T
  <2>. HIDE DEF T
  <2>1. QED
    BY <1>2, <1>3, SetInduction
<1>5. k \in Nat
  BY <1>1
<1>6. QED
  BY <1>4, <1>5

\* The table that the sweep leaves: inputs and latches as they were, and each node
\* evaluated from its own old record and the records its fanins have at the end.
LEMMA SweptTable ==
  ASSUME circuit \in Circuits, info \in Tables, NEW t, t = Swept[LastNode]
  PROVE  /\ t \in Tables
         /\ \A o \in PIs \cup Latches : t[o] = info[o]
         /\ \A n \in Nodes : t[n] = Evaluated([t EXCEPT ![n] = info[n]], n)
<1>1. LastNode \in Nat /\ LastNode \in 0 .. LastNode
  BY CircuitFacts
<1>2. t \in Tables
  BY <1>1, SweptRec
<1>3. ASSUME NEW o \in PIs \cup Latches PROVE t[o] = info[o]
  <2>1. o \in Objects(circuit) /\ \A j \in 1 .. LastNode : o # circuit.nodes[j]
    BY CircuitFacts
  <2>2. QED
    BY <1>1, <2>1, SweptSoFar
<1>4. ASSUME NEW n \in Nodes PROVE t[n] = Evaluated([t EXCEPT ![n] = info[n]], n)
  <2>1. PICK k \in 1 .. LastNode : n = circuit.nodes[k]
    BY CircuitFacts
  <2>2. n \in Objects(circuit) /\ k \in Nat /\ k - 1 \in 0 .. LastNode /\ k - 1 \in Nat
    BY <1>1, CircuitFacts
  <2>3. t[n] = Evaluated(Swept[k - 1], n)
    BY <1>1, <2>1, <2>2, SweptSoFar, SweptStep
  <2>. DEFINE u == [t EXCEPT ![n] = info[n]]
  <2>4. Swept[k - 1][n] = info[n]
    <3>1. \A j \in 1 .. k - 1 : j \in 1 .. LastNode /\ j # k
      BY <1>1, <2>2
    <3>2. \A j \in 1 .. k - 1 : n # circuit.nodes[j]
      BY <3>1, <2>1, CircuitFacts
    <3>3. QED
      BY <3>2, <2>2, SweptSoFar
  <2>5. u[n] = info[n]
    BY <1>2, <2>2 DEF Tables
  <2>6. ASSUME NEW m \in DOMAIN FaninOf(n) PROVE Swept[k - 1][FaninOf(n)[m]] = u[FaninOf(n)[m]]
    <3>. DEFINE f == FaninOf(n)[m]
    <3>1. f \in Objects(circuit) /\ f # n /\ \A j \in 1 .. LastNode : f = circuit.nodes[j] => j < k
      BY <2>1, FaninFacts
    <3>. HIDE DEF f
    <3>2. u[f] = t[f]
      BY <1>2, <3>1 DEF Tables
    <3>3. CASE f \in Nodes
      <4>1. PICK j \in 1 .. LastNode : f = circuit.nodes[j]
        BY <3>3, CircuitFacts
      <4>2. j < k /\ j \in 1 .. k - 1
        BY <4>1, <3>1, <1>1, <2>2
      <4>3. Swept[k - 1][f] = Swept[j][f]
        BY <4>1, <4>2, <3>1, <2>2, SweptSoFar
      <4>4. t[f] = Swept[j][f]
        BY <4>1, <3>1, <1>1, SweptSoFar
      <4>5. QED
        BY <4>3, <4>4, <3>2 DEF f
    <3>4. CASE f \notin Nodes
      <4>1. \A j \in 1 .. LastNode : f # circuit.nodes[j]
        BY <3>4, CircuitFacts
      <4>2. \A j \in 1 .. k - 1 : f # circuit.nodes[j]
        BY <4>1, <1>1, <2>2
      <4>3. Swept[k - 1][f] = info[f] /\ t[f] = info[f]
        BY <4>1, <4>2, <3>1, <1>1, <2>2, SweptSoFar
      <4>4. QED
        BY <4>3, <3>2 DEF f
    <3>5. QED
      BY <3>3, <3>4
  <2>. HIDE DEF u
  <2>7. Evaluated(Swept[k - 1], n) = Evaluated(u, n)
    BY <2>4, <2>5, <2>6, EvaluatedAlike
  <2>8. QED
    BY <2>3, <2>7 DEF u
<1>5. QED
  BY <1>2, <1>3, <1>4

\* What evaluate_circuit does, with no order: each node goes by the statuses and the
\* values its fanins have when the sweep is over.
LEMMA Evaluates ==
  ASSUME circuit \in Circuits, info \in Tables, evaluate_circuit
  PROVE  /\ info' \in Tables
         /\ \A o \in PIs \cup Latches : info'[o] = info[o]
         /\ \A n \in Nodes :
              /\ getFaninStatus(info', n) = "UNDEF" => info'[n] = [info[n] EXCEPT !.status = "UNDEF"]
              /\ getFaninStatus(info', n) = "OLD"   => info'[n] = OldValue(info[n])
              /\ getFaninStatus(info', n) = "NEW"   => info'[n] = NewValue(info[n], Cudd_Eval(info', n))
<1>1. info' = Swept[LastNode]
  BY DEF evaluate_circuit, LastNode
<1>2. /\ info' \in Tables
      /\ \A o \in PIs \cup Latches : info'[o] = info[o]
      /\ \A n \in Nodes : info'[n] = Evaluated([info' EXCEPT ![n] = info[n]], n)
  BY <1>1, SweptTable
<1>3. ASSUME NEW n \in Nodes
      PROVE  /\ getFaninStatus(info', n) = "UNDEF" => info'[n] = [info[n] EXCEPT !.status = "UNDEF"]
             /\ getFaninStatus(info', n) = "OLD"   => info'[n] = OldValue(info[n])
             /\ getFaninStatus(info', n) = "NEW"   => info'[n] = NewValue(info[n], Cudd_Eval(info', n))
  <2>. DEFINE u == [info' EXCEPT ![n] = info[n]]
  <2>1. n \in Objects(circuit) /\ u[n] = info[n]
    BY <1>2, CircuitFacts DEF Tables
  <2>2. \A m \in DOMAIN FaninOf(n) : u[FaninOf(n)[m]] = info'[FaninOf(n)[m]]
    BY <1>2, FaninFacts DEF Tables
  <2>3. info'[n] = Evaluated(u, n)
    BY <1>2
  <2>. HIDE DEF u
  <2>4. getFaninStatus(u, n) = getFaninStatus(info', n)
    <3>1. {u[FaninOf(n)[m]].status : m \in DOMAIN FaninOf(n)} = {info'[FaninOf(n)[m]].status : m \in DOMAIN FaninOf(n)}
      BY <2>2
    <3>2. QED
      BY <3>1 DEF getFaninStatus
  <2>5. Cudd_Eval(u, n) = Cudd_Eval(info', n)
    <3>1. [m \in DOMAIN FaninOf(n) |-> u[FaninOf(n)[m]].value] = [m \in DOMAIN FaninOf(n) |-> info'[FaninOf(n)[m]].value]
      BY <2>2
    <3>2. QED
      BY <3>1 DEF Cudd_Eval
  <2>6. QED
    BY <2>1, <2>3, <2>4, <2>5 DEF Evaluated
<1>4. QED
  BY <1>2, <1>3

-----------------------------------------------------------------------------
(* The loop of update_FFs *)

\* The recursion of the loop is well defined.
LEMMA CopiedRec ==
  ASSUME circuit \in Circuits, info \in Tables
  PROVE  /\ Copied \in [0 .. LastLatch -> Tables] /\ Copied[0] = info
         /\ \A k \in 1 .. LastLatch :
              Copied[k] = [Copied[k - 1] EXCEPT ![circuit.latches[k]] = Latched(Copied[k - 1], circuit.latches[k])]
<1>. DEFINE N == LastLatch
            Copy(x, k) == [x EXCEPT ![circuit.latches[k]] = Latched(x, circuit.latches[k])]
            step == [m \in Nat |-> [x \in Tables |-> IF m + 1 \in 1 .. N THEN Copy(x, m + 1) ELSE x]]
            copy == CHOOSE g : g = [k \in 0 .. N |-> IF k = 0 THEN info ELSE Copy(g[k - 1], k)]
<1>1. N \in Nat
  BY CircuitFacts
<1>2. ASSUME NEW k \in 1 .. N, NEW x \in Tables PROVE Copy(x, k) \in Tables
  <2>1. circuit.latches[k] \in Latches
    BY CircuitFacts
  <2>2. Latched(x, circuit.latches[k]) \in Record
    BY <2>1, CircuitFacts DEF Latched, Tables
  <2>3. QED
    BY <2>1, <2>2 DEF Tables
<1>3. step \in Steps(Tables) /\ \A k \in 1 .. N : \A x \in Tables : step[k - 1][x] = Copy(x, k)
  <2>1. step \in Steps(Tables)
    BY <1>2 DEF Steps
  <2>2. ASSUME NEW k \in 1 .. N, NEW x \in Tables PROVE step[k - 1][x] = Copy(x, k)
    <3>1. k - 1 \in Nat /\ (k - 1) + 1 = k
      BY <1>1
    <3>. HIDE DEF Copy
    <3>2. QED
      BY <3>1
  <2>3. QED
    BY <2>1, <2>2
<1>. HIDE DEF step
<1>4. PICK f \in [0 .. N -> Tables] : f[0] = info /\ \A i \in 1 .. N : f[i] = step[i - 1][f[i - 1]]
  BY <1>1, <1>3, Recursion
<1>. HIDE DEF Copy
<1>5. f = [k \in 0 .. N |-> IF k = 0 THEN info ELSE Copy(f[k - 1], k)]
  <2>1. ASSUME NEW k \in 0 .. N, k # 0 PROVE f[k] = Copy(f[k - 1], k)
    <3>1. k \in 1 .. N /\ k - 1 \in 0 .. N
      BY <1>1, <2>1
    <3>2. f[k - 1] \in Tables
      BY <3>1
    <3>3. QED
      BY <3>1, <3>2, <1>3, <1>4
  <2>2. QED
    BY <2>1, <1>4
<1>6. copy = [k \in 0 .. N |-> IF k = 0 THEN info ELSE Copy(copy[k - 1], k)]
  BY <1>5
<1>7. Copied = copy
  BY DEF Copied, Copy, LastLatch
<1>. HIDE DEF copy
<1>8. copy[0] = info /\ \A k \in 1 .. N : copy[k] = Copy(copy[k - 1], k)
  BY <1>1, <1>6
<1>. DEFINE T == {k \in Nat : k \in 0 .. N => copy[k] \in Tables}
<1>9. 0 \in T
  BY <1>8
<1>10. \A k \in Nat : k \in T => k + 1 \in T
  <2>. SUFFICES ASSUME NEW k \in Nat, k \in T, k + 1 \in 0 .. N PROVE copy[k + 1] \in Tables
    OBVIOUS
  <2>1. k + 1 \in 1 .. N /\ k \in 0 .. N /\ (k + 1) - 1 = k
    BY <1>1
  <2>2. QED
    BY <2>1, <1>2, <1>8
<1>11. Nat \subseteq T
  <2>. HIDE DEF T
  <2>1. QED
    BY <1>9, <1>10, SetInduction
<1>12. \A k \in 0 .. N : copy[k] \in Tables
  BY <1>1, <1>11
<1>13. copy \in [0 .. N -> Tables]
  <2>1. copy = [k \in 0 .. N |-> copy[k]]
    BY <1>6
  <2>2. QED
    BY <2>1, <1>12
<1>14. QED
  BY <1>7, <1>8, <1>13 DEF Copy

\* After k latches an object that is none of them is as it was, and each of them is as
\* when its turn came, with a copy of what fed it then.
LEMMA CopiedSoFar ==
  ASSUME circuit \in Circuits, info \in Tables, NEW k \in 0 .. LastLatch
  PROVE  /\ Copied[k] \in Tables
         /\ \A o \in Objects(circuit) :
              (\A j \in 1 .. k : o # circuit.latches[j]) => Copied[k][o] = info[o]
         /\ \A j \in 1 .. k :
              Copied[k][circuit.latches[j]] = Copied[j - 1][circuit.d[circuit.latches[j]]]
<1>. DEFINE Holds(m) ==
              /\ \A o \in Objects(circuit) :
                   (\A j \in 1 .. m : o # circuit.latches[j]) => Copied[m][o] = info[o]
              /\ \A j \in 1 .. m :
                   Copied[m][circuit.latches[j]] = Copied[j - 1][circuit.d[circuit.latches[j]]]
            T == {m \in Nat : m \in 0 .. LastLatch => Holds(m)}
<1>1. LastLatch \in Nat
  BY CircuitFacts
<1>2. 0 \in T
  BY CopiedRec
<1>3. \A m \in Nat : m \in T => m + 1 \in T
  <2>. SUFFICES ASSUME NEW m \in Nat, m \in T, m + 1 \in 0 .. LastLatch PROVE Holds(m + 1)
    OBVIOUS
  <2>1. m + 1 \in 1 .. LastLatch /\ (m + 1) - 1 = m /\ m \in 0 .. LastLatch
    BY <1>1
  <2>. DEFINE l == circuit.latches[m + 1]
  <2>2. Holds(m)
    BY <2>1
  <2>3. l \in Objects(circuit) /\ l \in Latches
    BY <2>1, CircuitFacts
  <2>4. Copied[m] \in Tables /\ Copied[m + 1] = [Copied[m] EXCEPT ![l] = Latched(Copied[m], l)]
    BY <2>1, CopiedRec
  <2>. HIDE DEF l
  <2>5. /\ Copied[m + 1][l] = Copied[m][circuit.d[l]]
        /\ \A o \in Objects(circuit) : o # l => Copied[m + 1][o] = Copied[m][o]
    BY <2>3, <2>4 DEF Tables, Latched
  <2>6. \A j \in 1 .. m : j \in 1 .. m + 1 /\ j \in 1 .. LastLatch /\ j # m + 1
    BY <1>1, <2>1
  <2>7. \A j \in 1 .. m + 1 : j \in 1 .. m \/ j = m + 1
    BY <2>1
  <2>8. \A j \in 1 .. m : circuit.latches[j] # l /\ circuit.latches[j] \in Objects(circuit)
    BY <2>1, <2>6, CircuitFacts DEF l
  <2>9. m + 1 \in 1 .. m + 1
    BY <2>1
  <2>10. \A o \in Objects(circuit) :
           (\A j \in 1 .. m + 1 : o # circuit.latches[j]) => Copied[m + 1][o] = info[o]
    BY <2>2, <2>5, <2>6, <2>9 DEF l
  <2>11. ASSUME NEW j \in 1 .. m + 1
         PROVE  Copied[m + 1][circuit.latches[j]] = Copied[j - 1][circuit.d[circuit.latches[j]]]
    <3>1. CASE j = m + 1
      BY <3>1, <2>1, <2>5 DEF l
    <3>2. CASE j \in 1 .. m
      BY <3>2, <2>2, <2>5, <2>8
    <3>3. QED
      BY <3>1, <3>2, <2>7
  <2>12. QED
    BY <2>10, <2>11
<1>4. Nat \subseteq T
  <2>. HIDE DEF T
  <2>1. QED
    BY <1>2, <1>3, SetInduction
<1>5. k \in Nat
  BY <1>1
<1>6. Holds(k)
  BY <1>4, <1>5
<1>7. QED
  BY <1>6, CopiedRec

\* What update_FFs does: inputs and nodes stay, and a latch gets the record of the
\* object that feeds it, at some point of the loop.
LEMMA Copies ==
  ASSUME circuit \in Circuits, info \in Tables, update_FFs
  PROVE  /\ info' \in Tables
         /\ \A o \in PIs \cup Nodes : info'[o] = info[o]
         /\ \A k \in 1 .. LastLatch :
              info'[circuit.latches[k]] = Copied[k - 1][circuit.d[circuit.latches[k]]]
<1>1. info' = Copied[LastLatch] /\ LastLatch \in 0 .. LastLatch
  BY CircuitFacts DEF update_FFs, LastLatch
<1>2. \A o \in PIs \cup Nodes : o \in Objects(circuit) /\ \A j \in 1 .. LastLatch : o # circuit.latches[j]
  BY CircuitFacts
<1>3. QED
  BY <1>1, <1>2, CopiedSoFar

\* A property of the records of objects that are fed by one another only is kept.
LEMMA CopiesKeep ==
  ASSUME circuit \in Circuits, info \in Tables, update_FFs, NEW S,
         NEW P, P \subseteq Objects(circuit), \A l \in P \cap Latches : circuit.d[l] \in P,
         \A o \in P : info[o] \in S
  PROVE  \A o \in P : info'[o] \in S
<1>. DEFINE T == {k \in Nat : k \in 0 .. LastLatch => \A o \in P : Copied[k][o] \in S}
<1>1. LastLatch \in Nat
  BY CircuitFacts
<1>2. 0 \in T
  BY CopiedRec
<1>3. \A k \in Nat : k \in T => k + 1 \in T
  <2>. SUFFICES ASSUME NEW k \in Nat, k \in T, k + 1 \in 0 .. LastLatch, NEW o \in P
                PROVE  Copied[k + 1][o] \in S
    OBVIOUS
  <2>1. k + 1 \in 1 .. LastLatch /\ (k + 1) - 1 = k /\ k \in 0 .. LastLatch
    BY <1>1
  <2>2. circuit.latches[k + 1] \in Latches
    BY <2>1, CircuitFacts
  <2>3. Copied[k] \in Tables
        /\ Copied[k + 1] = [Copied[k] EXCEPT ![circuit.latches[k + 1]] = Latched(Copied[k], circuit.latches[k + 1])]
    BY <2>1, CopiedRec
  <2>4. circuit.latches[k + 1] \in P => Latched(Copied[k], circuit.latches[k + 1]) \in S
    BY <2>1, <2>2 DEF Latched
  <2>5. QED
    BY <2>1, <2>3, <2>4 DEF Tables
<1>4. Nat \subseteq T
  <2>. HIDE DEF T
  <2>1. QED
    BY <1>2, <1>3, SetInduction
<1>5. \A o \in P : Copied[LastLatch][o] \in S
  BY <1>1, <1>4
<1>6. info' = Copied[LastLatch]
  BY DEF update_FFs, LastLatch
<1>7. QED
  BY <1>5, <1>6

\* When the k-th latch is copied its feeder has the record its source had before the loop.
LEMMA SourceRead ==
  ASSUME circuit \in Circuits, info \in Tables
  PROVE  \A k \in 1 .. LastLatch :
           LET l == circuit.latches[k]
           IN  Source(circuit)[l] \in Objects(circuit) /\ Copied[k - 1][circuit.d[l]] = info[Source(circuit)[l]]
<1>. DEFINE Reads(k) == LET l == circuit.latches[k]
                        IN  /\ Source(circuit)[l] \in Objects(circuit)
                            /\ Copied[k - 1][circuit.d[l]] = info[Source(circuit)[l]]
            T == {m \in Nat : \A k \in 1 .. LastLatch : k <= m => Reads(k)}
<1>1. LastLatch \in Nat /\ DOMAIN circuit.latches = 1 .. LastLatch
  BY CircuitFacts
<1>2. 0 \in T
  BY <1>1
<1>3. ASSUME NEW m \in Nat, m \in T PROVE m + 1 \in T
  <2>. SUFFICES ASSUME NEW k \in 1 .. LastLatch, k = m + 1 PROVE Reads(k)
    BY <1>1, <1>3
  <2>. DEFINE l == circuit.latches[k]
              f == circuit.d[l]
  <2>1. l \in Latches /\ f \in Objects(circuit) /\ k - 1 \in 0 .. LastLatch /\ k \in Nat
    BY <1>1, CircuitFacts
  <2>2. Source(circuit)[l] = IF Earlier(circuit, f, l) THEN Source(circuit)[f] ELSE f
    BY <2>1, SourceRec
  <2>3. CASE Earlier(circuit, f, l)
    <3>1. PICK i, j \in 1 .. LastLatch : i < j /\ circuit.latches[i] = f /\ circuit.latches[j] = l
      BY <1>1, <2>3 DEF Earlier
    <3>2. j = k /\ i \in 1 .. k - 1 /\ i <= m
      BY <1>1, <3>1, CircuitFacts
    <3>3. Reads(i)
      BY <1>3, <3>2
    <3>4. Copied[k - 1][f] = Copied[i - 1][circuit.d[f]]
      BY <2>1, <3>1, <3>2, CopiedSoFar
    <3>5. QED
      BY <2>2, <2>3, <3>1, <3>3, <3>4
  <2>4. CASE ~ Earlier(circuit, f, l)
    <3>1. \A j \in 1 .. k - 1 : j < k /\ j \in 1 .. LastLatch
      BY <1>1
    <3>2. \A j \in 1 .. k - 1 : f # circuit.latches[j]
      BY <1>1, <2>4, <3>1 DEF Earlier
    <3>3. Copied[k - 1][f] = info[f]
      BY <2>1, <3>2, CopiedSoFar
    <3>4. QED
      BY <2>1, <2>2, <2>4, <3>3
  <2>5. QED
    BY <2>3, <2>4
<1>4. Nat \subseteq T
  <2>1. \A m \in Nat : m \in T => m + 1 \in T
    BY <1>3
  <2>. HIDE DEF T
  <2>2. QED
    BY <1>2, <2>1, SetInduction
<1>5. \A k \in 1 .. LastLatch : k \in Nat /\ k <= k
  BY <1>1
<1>6. QED
  BY <1>4, <1>5

\* The loop loads all the latches at once, each from its source.
LEMMA CopiesAtOnce ==
  ASSUME circuit \in Circuits, info \in Tables, update_FFs
  PROVE  \A l \in Latches : info'[l] = info[Source(circuit)[l]]
BY Copies, SourceRead, CircuitFacts

\* A latch loads from an object of the network.
LEMMA SourceType ==
  ASSUME circuit \in Circuits, info \in Tables
  PROVE  \A l \in Latches : Source(circuit)[l] \in Objects(circuit)
BY SourceRead, CircuitFacts

-----------------------------------------------------------------------------
(* The inductive invariant *)

\* Where the simulation is.
Progress ==
  /\ circuit \in Circuits /\ info \in Tables
  /\ pc \in {"inputs", "evaluate", "update", "done"} /\ cycle \in 0 .. max_cycles
  /\ pc # "done" => cycle < max_cycles
  /\ pc = "done" => cycle = max_cycles

\* The cycles for which an object has been given a value.
Cycles(o) == IF pc = "update" \/ (pc = "evaluate" /\ o \in PIs) THEN cycle + 1 ELSE cycle

\* A cycle adds at most one to a counter.
Counts == \A o \in Objects(circuit) :
  info[o].num_ones <= Cycles(o) /\ info[o].num_toggles <= Cycles(o)

\* What was undefined at the start is defined once its turn has come.
Defined ==
  /\ \A l \in Latches : info[l].status # "UNDEF"
  /\ cycle > 0 \/ pc # "inputs" => \A p \in PIs : info[p].status # "UNDEF"
  /\ cycle > 0 \/ pc = "update" => \A n \in Nodes : info[n].status # "UNDEF"

\* In the first cycle nothing has been counted, and nothing is old.
Zero(status) == [status |-> status, value |-> 0, num_ones |-> 0, num_toggles |-> 0]
Fresh == cycle = 0 =>
  /\ pc \in {"inputs", "evaluate"} => \A n \in Nodes : info[n] = Zero("UNDEF")
  /\ \A l \in Latches : info[l] = Zero("NEW")
  /\ pc = "inputs" => \A p \in PIs : info[p] = Zero("UNDEF")
  /\ pc # "inputs" => \A p \in PIs : info[p].status = "NEW"

\* A toggle to 1 begins a cycle at 1 and a toggle to 0 one at 0, of which the first
\* value of a node has had one more: that leaves room for the next toggle.
Turns == cycle > 0 \/ pc = "update" => \A n \in Nodes :
  /\ info[n].num_toggles + info[n].value <= 2 * info[n].num_ones
  /\ info[n].num_toggles + (1 - info[n].value) <= 2 * (Cycles(n) - info[n].num_ones)

\* A latch that no input reaches through latches has the counters a node had.
Carried == \A l \in LogicLatches(circuit) :
  info[l].num_toggles <= 2 * info[l].num_ones /\ info[l].num_toggles <= 2 * (cycle - info[l].num_ones)

\* The probabilities are the counters of the last cycle.
Final == prob # <<>> =>
  /\ pc = "done"
  /\ prob = [o \in Objects(circuit) |-> [static |-> info[o].num_ones, switch |-> info[o].num_toggles]]

SimInv == Progress /\ Counts /\ Defined /\ Fresh /\ Turns /\ Carried /\ Final

\* The value of a node of the circuit simulated, for the values v of the objects.
Gate(v, n) ==
  IF [k \in DOMAIN FaninOf(n) |-> v[FaninOf(n)[k]]] \in Simulated(circuit).onset[n] THEN 1 ELSE 0
Vals == [o \in Objects(circuit) |-> info[o].value]

\* After the sweep the gates have settled, and a latch whose input is old has its value.
Settling == pc = "update" =>
  /\ \A n \in Nodes : info[n].value = Gate(Vals, n)
  /\ \A l \in Latches :
       info[Source(circuit)[l]].status = "OLD" => info[Source(circuit)[l]].value = info[l].value

\* Between two sweeps, the values v of the sweep before: the gates have them still and
\* had settled on them, the latches have loaded from them, and whatever is old has kept its.
Previous(v) ==
  /\ \A n \in Nodes : info[n].value = v[n] /\ v[n] = Gate(v, n)
  /\ \A l \in Latches :
       info[l].value = v[Source(circuit)[l]] /\ (info[l].status = "OLD" => info[l].value = v[l])
  /\ \A p \in PIs : pc = "inputs" \/ info[p].status = "OLD" => info[p].value = v[p]
Between == cycle > 0 /\ pc \in {"inputs", "evaluate"} =>
  \E v \in [Objects(circuit) -> Bit] : Previous(v)

\* What nothing evaluates stays at 0.
Still == \A n \in ConstantsOf(circuit) : info[n].value = 0

LazyInv == Still /\ Settling /\ Between

-----------------------------------------------------------------------------
(* What the steps do to the table *)

\* The inputs get a value each, and nothing else changes.
LEMMA PiStep ==
  ASSUME circuit \in Circuits, info \in Tables, get_pi_values
  PROVE  /\ pc = "inputs" /\ pc' = "evaluate" /\ UNCHANGED <<circuit, cycle, prob>>
         /\ info' \in Tables
         /\ \A o \in Nodes \cup Latches : info'[o] = info[o]
         /\ \A p \in PIs : \E v \in Bit : info'[p] = NewPi(info[p], v)
<1>1. pc = "inputs" /\ pc' = "evaluate" /\ UNCHANGED <<circuit, cycle, prob>>
  BY DEF get_pi_values
<1>2. PICK v \in [PIs -> Bit] :
        info' = [o \in DOMAIN info |-> IF o \in PIs THEN NewPi(info[o], v[o]) ELSE info[o]]
  BY DEF get_pi_values
<1>3. DOMAIN info = Objects(circuit) /\ \A o \in Objects(circuit) : info[o] \in Record
  BY DEF Tables
<1>4. \A p \in PIs : p \in Objects(circuit) /\ v[p] \in Bit
  BY CircuitFacts
<1>5. \A p \in PIs : NewPi(info[p], v[p]) \in Record
  BY <1>3, <1>4, NewPiFields
<1>6. info' \in Tables
  BY <1>1, <1>2, <1>3, <1>5 DEF Tables
<1>7. \A o \in Nodes \cup Latches : o \in Objects(circuit) /\ o \notin PIs
  BY CircuitFacts
<1>8. QED
  BY <1>1, <1>2, <1>3, <1>4, <1>6, <1>7

\* Setting the probabilities marks every object and keeps its counters.
LEMMA ProbStep ==
  ASSUME circuit \in Circuits, info \in Tables, Probabilities
  PROVE  /\ pc = "done" /\ UNCHANGED <<circuit, pc, cycle>>
         /\ info' \in Tables
         /\ \A o \in Objects(circuit) :
              /\ info'[o].status = "SIM" /\ info'[o].value = info[o].value
              /\ info'[o].num_ones = info[o].num_ones /\ info'[o].num_toggles = info[o].num_toggles
         /\ prob' = [o \in Objects(circuit) |-> [static |-> info[o].num_ones, switch |-> info[o].num_toggles]]
<1>1. DOMAIN info = Objects(circuit) /\ \A o \in Objects(circuit) : info[o] \in Record
  BY DEF Tables
<1>2. \A x \in Record : LET y == [x EXCEPT !.status = "SIM"]
                        IN  y \in Record /\ y.status = "SIM" /\ y.value = x.value
                            /\ y.num_ones = x.num_ones /\ y.num_toggles = x.num_toggles
  BY DEF Record, Status
<1>3. info' = [o \in Objects(circuit) |-> [info[o] EXCEPT !.status = "SIM"]]
  BY <1>1 DEF Probabilities
<1>4. info' \in [Objects(circuit) -> Record] /\ circuit' = circuit
  BY <1>1, <1>2, <1>3 DEF Probabilities
<1>5. pc = "done" /\ UNCHANGED <<circuit, pc, cycle>> /\ info' \in Tables
  BY <1>4 DEF Probabilities, Tables
<1>6. prob' = [o \in Objects(circuit) |-> [static |-> info[o].num_ones, switch |-> info[o].num_toggles]]
  BY <1>1 DEF Probabilities
<1>7. ASSUME NEW o \in Objects(circuit)
      PROVE  /\ info'[o].status = "SIM" /\ info'[o].value = info[o].value
             /\ info'[o].num_ones = info[o].num_ones /\ info'[o].num_toggles = info[o].num_toggles
  <2>1. info'[o] = [info[o] EXCEPT !.status = "SIM"] /\ info[o] \in Record
    BY <1>1, <1>3
  <2>2. QED
    BY <2>1, <1>2
<1>8. QED
  BY <1>5, <1>6, <1>7

\* The end of a cycle.
LEMMA UpdateStep ==
  ASSUME Progress, update_FFs
  PROVE  /\ pc = "update" /\ UNCHANGED <<circuit, prob>>
         /\ cycle \in Nat /\ cycle' = cycle + 1 /\ cycle' \in 0 .. max_cycles
         /\ pc' = IF cycle' < max_cycles THEN "inputs" ELSE "done"
         /\ pc' = "done" => cycle' = max_cycles
BY CyclesAssumption DEF Progress, update_FFs

-----------------------------------------------------------------------------
(* The parts of the invariant, step by step *)

\* Every step leaves the simulation at one of its points, with a table of records.
LEMMA ProgressNext ==
  ASSUME Progress, [Next]_vars
  PROVE  Progress'
<1>1. circuit \in Circuits /\ info \in Tables
  BY DEF Progress
<1>2. CASE get_pi_values
  <2>1. Tables' = Tables /\ pc = "inputs" /\ pc' = "evaluate" /\ UNCHANGED <<circuit, cycle>> /\ info' \in Tables
    BY <1>1, <1>2, PiStep DEF Tables
  <2>2. QED
    BY <2>1 DEF Progress
<1>3. CASE evaluate_circuit
  <2>1. pc = "evaluate" /\ pc' = "update" /\ UNCHANGED <<circuit, cycle>> /\ info' \in Tables
    BY <1>1, <1>3, Evaluates DEF evaluate_circuit
  <2>2. Tables' = Tables
    BY <2>1 DEF Tables
  <2>3. QED
    BY <2>1, <2>2 DEF Progress
<1>4. CASE update_FFs
  <2>1. info' \in Tables /\ circuit' = circuit
    BY <1>1, <1>4, Copies, UpdateStep
  <2>2. Tables' = Tables
    BY <2>1 DEF Tables
  <2>3. QED
    BY <1>1, <1>4, <2>1, <2>2, UpdateStep DEF Progress
<1>5. CASE Probabilities
  <2>1. info' \in Tables /\ UNCHANGED <<circuit, pc, cycle>>
    BY <1>1, <1>5, ProbStep
  <2>2. Tables' = Tables
    BY <2>1 DEF Tables
  <2>3. QED
    BY <2>1, <2>2 DEF Progress
<1>6. CASE Stopped \/ UNCHANGED vars
  <2>1. UNCHANGED <<circuit, pc, cycle, info>>
    BY <1>6 DEF Stopped, vars
  <2>2. QED
    BY <2>1 DEF Progress, Tables
<1>7. QED
  BY <1>2, <1>3, <1>4, <1>5, <1>6 DEF Next

\* A step that is none of the three of a cycle keeps values and counters.
LEMMA QuietStep ==
  ASSUME Progress, Probabilities \/ Stopped \/ UNCHANGED vars
  PROVE  /\ UNCHANGED <<circuit, pc, cycle>>
         /\ \A o \in Objects(circuit) :
              /\ info'[o].value = info[o].value
              /\ info'[o].num_ones = info[o].num_ones /\ info'[o].num_toggles = info[o].num_toggles
              /\ pc # "done" => info'[o] = info[o]
              /\ info'[o].status \in {"SIM", info[o].status}
<1>1. CASE Probabilities
  BY <1>1, ProbStep DEF Progress
<1>2. CASE Stopped \/ UNCHANGED vars
  BY <1>2 DEF Stopped, vars
<1>3. QED
  BY <1>1, <1>2

\* The number of ones and toggles of a node grows by one at most in the sweep.
LEMMA NodeStep ==
  ASSUME Progress, evaluate_circuit, NEW n \in Nodes
  PROVE  /\ info[n] \in Record /\ info'[n] \in Record
         /\ info'[n].num_ones <= info[n].num_ones + 1
         /\ info'[n].num_toggles <= info[n].num_toggles + 1
         /\ getFaninStatus(info', n) # "UNDEF" => info'[n].status \in {"NEW", "OLD"}
         /\ info'[n].status = "OLD" => info'[n].value = info[n].value
<1>1. info \in Tables /\ info' \in Tables /\ circuit \in Circuits /\ n \in Objects(circuit)
  BY Evaluates, CircuitFacts DEF Progress
<1>2. info[n] \in Record /\ info'[n] \in Record /\ Cudd_Eval(info', n) \in Bit
  BY <1>1, EvaluatedType DEF Tables
<1>3. info[n].num_ones \in Nat /\ info[n].num_toggles \in Nat /\ info[n].value \in {0, 1}
  BY <1>2 DEF Record, Bit
<1>4. CASE getFaninStatus(info', n) = "UNDEF"
  <2>1. info'[n] = [info[n] EXCEPT !.status = "UNDEF"]
    BY <1>1, <1>4, Evaluates
  <2>2. \A x \in Record : LET y == [x EXCEPT !.status = "UNDEF"]
                          IN  y.status = "UNDEF" /\ y.num_ones = x.num_ones /\ y.num_toggles = x.num_toggles
    BY DEF Record
  <2>3. QED
    BY <1>2, <1>3, <1>4, <2>1, <2>2
<1>5. CASE getFaninStatus(info', n) = "OLD"
  <2>1. info'[n] = OldValue(info[n])
    BY <1>1, <1>5, Evaluates
  <2>2. QED
    BY <1>2, <1>3, <2>1, OldValueFields
<1>6. CASE getFaninStatus(info', n) = "NEW"
  <2>1. info'[n] = NewValue(info[n], Cudd_Eval(info', n))
    BY <1>1, <1>6, Evaluates
  <2>2. PICK v \in {0, 1} : v = Cudd_Eval(info', n)
    BY <1>2 DEF Bit
  <2>3. v \in Bit /\ info'[n] = NewValue(info[n], v)
    BY <2>1, <2>2 DEF Bit
  <2>4. QED
    BY <1>2, <1>3, <2>3, NewValueFields
<1>7. QED
  BY <1>2, <1>4, <1>5, <1>6, FaninStatuses

\* No step counts more than once in a cycle.
LEMMA CountsNext ==
  ASSUME Progress, Counts, [Next]_vars
  PROVE  Counts'
<1>1. circuit \in Circuits /\ info \in Tables /\ circuit' = circuit
  <2>1. Progress' /\ circuit' = circuit
    BY ProgressNext DEF Next, get_pi_values, evaluate_circuit, update_FFs, Probabilities, Stopped, vars
  <2>2. QED
    BY <2>1 DEF Progress
<1>2. /\ cycle \in Nat /\ cycle' \in Nat /\ Objects(circuit)' = Objects(circuit) /\ PIs' = PIs
      /\ \A o \in Objects(circuit) : info[o].num_ones \in Nat /\ info[o].num_toggles \in Nat /\ info[o].value \in {0, 1}
  BY <1>1, ProgressNext, CyclesAssumption DEF Progress, Tables, Record, Bit, PIs
<1>3. CASE get_pi_values
  <2>1. pc = "inputs" /\ pc' = "evaluate" /\ cycle' = cycle
    BY <1>1, <1>3, PiStep
  <2>2. ASSUME NEW o \in Objects(circuit)
        PROVE  info'[o].num_ones <= Cycles(o)' /\ info'[o].num_toggles <= Cycles(o)'
    <3>1. info[o].num_ones <= cycle /\ info[o].num_toggles <= cycle
      BY <2>1 DEF Counts, Cycles
    <3>2. CASE o \in PIs
      <4>1. Cycles(o)' = cycle + 1
        BY <2>1, <3>2, <1>2 DEF Cycles
      <4>2. PICK v \in Bit : info'[o] = NewPi(info[o], v)
        BY <1>1, <1>3, <3>2, PiStep
      <4>3. info[o] \in Record /\ v \in {0, 1}
        BY <1>1 DEF Tables, Bit
      <4>4. QED
        BY <4>1, <4>2, <4>3, <3>1, <1>2, NewPiFields
    <3>3. CASE o \notin PIs
      <4>1. Cycles(o)' = cycle /\ info'[o] = info[o]
        BY <2>1, <3>3, <1>1, <1>2, <1>3, CircuitFacts, PiStep DEF Cycles
      <4>2. QED
        BY <3>1, <4>1
    <3>4. QED
      BY <3>2, <3>3
  <2>3. QED
    BY <2>2, <1>2 DEF Counts
<1>4. CASE evaluate_circuit
  <2>1. pc = "evaluate" /\ pc' = "update" /\ cycle' = cycle
    BY <1>4 DEF evaluate_circuit
  <2>2. ASSUME NEW o \in Objects(circuit)
        PROVE  info'[o].num_ones <= Cycles(o)' /\ info'[o].num_toggles <= Cycles(o)'
    <3>1. Cycles(o)' = cycle + 1 /\ Cycles(o) \in {cycle, cycle + 1}
      BY <2>1 DEF Cycles
    <3>2. info[o].num_ones <= Cycles(o) /\ info[o].num_toggles <= Cycles(o)
      BY DEF Counts
    <3>3. CASE o \in Nodes
      <4>1. Cycles(o) = cycle
        BY <2>1, <3>3, <1>1, CircuitFacts DEF Cycles
      <4>2. info'[o] \in Record /\ info'[o].num_ones <= info[o].num_ones + 1 /\ info'[o].num_toggles <= info[o].num_toggles + 1
        BY <1>4, <3>3, NodeStep
      <4>3. info'[o].num_ones \in Nat /\ info'[o].num_toggles \in Nat
        BY <4>2 DEF Record
      <4>4. QED
        BY <3>1, <3>2, <4>1, <4>2, <4>3, <1>2
    <3>4. CASE o \notin Nodes
      <4>1. info'[o] = info[o]
        BY <1>1, <1>4, <3>4, CircuitFacts, Evaluates
      <4>2. QED
        BY <3>1, <3>2, <4>1, <1>2
    <3>5. QED
      BY <3>3, <3>4
  <2>3. QED
    BY <2>2, <1>2 DEF Counts
<1>5. CASE update_FFs
  <2>1. pc = "update" /\ pc' \in {"inputs", "done"} /\ cycle' = cycle + 1
    BY <1>5, UpdateStep
  <2>. DEFINE S == {x \in Record : x.num_ones <= cycle + 1 /\ x.num_toggles <= cycle + 1}
  <2>2. \A o \in Objects(circuit) : info[o] \in S
    BY <1>1, <2>1 DEF Counts, Cycles, Tables
  <2>3. \A o \in Objects(circuit) : info'[o] \in S
    <3>. HIDE DEF S
    <3>1. \A l \in Objects(circuit) \cap Latches : circuit.d[l] \in Objects(circuit)
      BY <1>1, CircuitFacts
    <3>2. QED
      BY <1>1, <1>5, <2>2, <3>1, CopiesKeep
  <2>4. \A o : Cycles(o)' = cycle + 1
    BY <2>1 DEF Cycles
  <2>5. QED
    BY <1>2, <2>3, <2>4 DEF Counts
<1>6. CASE Probabilities \/ Stopped \/ UNCHANGED vars
  <2>1. \A o : Cycles(o)' = Cycles(o)
    BY <1>2, <1>6, QuietStep DEF Cycles
  <2>2. QED
    BY <1>2, <1>6, <2>1, QuietStep DEF Counts
<1>7. QED
  BY <1>3, <1>4, <1>5, <1>6 DEF Next

\* No fanin is undefined when its node is evaluated: the nodes it reads come before it.
LEMMA AllDefined ==
  ASSUME Progress, Defined, evaluate_circuit
  PROVE  \A n \in Nodes : getFaninStatus(info', n) # "UNDEF" /\ info'[n].status \in {"NEW", "OLD"}
<1>. DEFINE Good(n) == getFaninStatus(info', n) # "UNDEF" /\ info'[n].status \in {"NEW", "OLD"}
            T == {k \in Nat : \A j \in 1 .. LastNode : j <= k => Good(circuit.nodes[j])}
<1>1. circuit \in Circuits /\ info \in Tables /\ pc = "evaluate" /\ LastNode \in Nat
  BY CircuitFacts DEF Progress, evaluate_circuit
<1>2. \A o \in PIs \cup Latches : info'[o].status # "UNDEF"
  BY <1>1, Evaluates DEF Defined
<1>3. 0 \in T
  BY <1>1
<1>4. \A k \in Nat : k \in T => k + 1 \in T
  <2>. SUFFICES ASSUME NEW k \in Nat, k \in T, NEW j \in 1 .. LastNode, j <= k + 1
                PROVE  Good(circuit.nodes[j])
    OBVIOUS
  <2>. DEFINE n == circuit.nodes[j]
  <2>1. n \in Nodes /\ j \in Nat
    BY <1>1, CircuitFacts
  <2>2. \A i \in 1 .. LastNode : i <= k => info'[circuit.nodes[i]].status # "UNDEF"
    OBVIOUS
  <2>. HIDE DEF Good, T
  <2>3. ASSUME NEW m \in DOMAIN FaninOf(n) PROVE info'[FaninOf(n)[m]].status # "UNDEF"
    <3>. DEFINE f == FaninOf(n)[m]
    <3>1. f \in Objects(circuit) /\ \A i \in 1 .. LastNode : f = circuit.nodes[i] => i < j
      BY <1>1, <2>1, FaninFacts
    <3>. HIDE DEF f
    <3>2. CASE f \in Nodes
      <4>1. PICK i \in 1 .. LastNode : f = circuit.nodes[i]
        BY <1>1, <3>2, CircuitFacts
      <4>2. i < j /\ i \in Nat
        BY <3>1, <4>1, <1>1
      <4>3. i <= k
        BY <4>2, <2>1
      <4>4. QED
        BY <2>2, <4>1, <4>3 DEF f
    <3>3. CASE f \notin Nodes
      BY <1>1, <1>2, <3>1, <3>3, CircuitFacts DEF f
    <3>4. QED
      BY <3>2, <3>3
  <2>4. getFaninStatus(info', n) # "UNDEF"
    BY <2>3 DEF getFaninStatus
  <2>5. QED
    BY <2>1, <2>4, NodeStep DEF Good
<1>5. Nat \subseteq T
  <2>. HIDE DEF T
  <2>1. QED
    BY <1>3, <1>4, SetInduction
<1>6. \A j \in 1 .. LastNode : j \in Nat /\ j <= j
  BY <1>1
<1>7. \A j \in 1 .. LastNode : Good(circuit.nodes[j])
  BY <1>5, <1>6
<1>. HIDE DEF Good
<1>8. \A n \in Nodes : Good(n)
  BY <1>1, <1>7, CircuitFacts
<1>9. QED
  BY <1>8 DEF Good

\* What has a value keeps one, and the sweep and the loop leave nothing undefined.
LEMMA DefinedNext ==
  ASSUME Progress, Defined, Fresh, [Next]_vars
  PROVE  Defined'
<1>1. /\ circuit \in Circuits /\ info \in Tables /\ circuit' = circuit /\ cycle \in Nat
      /\ PIs' = PIs /\ Nodes' = Nodes /\ Latches' = Latches
  <2>1. circuit' = circuit
    BY DEF Next, get_pi_values, evaluate_circuit, update_FFs, Probabilities, Stopped, vars
  <2>2. QED
    BY <2>1, CyclesAssumption DEF Progress, PIs, Nodes, Latches
<1>2. CASE get_pi_values
  <2>1. pc = "inputs" /\ pc' = "evaluate" /\ cycle' = cycle /\ \A o \in Nodes \cup Latches : info'[o] = info[o]
    BY <1>1, <1>2, PiStep
  <2>2. ASSUME NEW p \in PIs PROVE info'[p].status # "UNDEF"
    <3>1. PICK v \in Bit : info'[p] = NewPi(info[p], v)
      BY <1>1, <1>2, PiStep
    <3>2. info[p] \in Record
      BY <1>1, CircuitFacts DEF Tables
    <3>3. QED
      BY <3>1, <3>2, NewPiFields
  <2>3. QED
    BY <1>1, <2>1, <2>2 DEF Defined
<1>3. CASE evaluate_circuit
  <2>1. pc = "evaluate" /\ pc' = "update" /\ cycle' = cycle
    BY <1>3 DEF evaluate_circuit
  <2>2. \A o \in PIs \cup Latches : info'[o] = info[o]
    BY <1>1, <1>3, Evaluates
  <2>3. \A n \in Nodes : info'[n].status # "UNDEF"
    BY <1>3, AllDefined
  <2>4. QED
    BY <1>1, <2>1, <2>2, <2>3 DEF Defined
<1>4. CASE update_FFs
  <2>1. pc = "update" /\ \A o \in PIs \cup Nodes : info'[o] = info[o]
    BY <1>1, <1>4, Copies, UpdateStep
  <2>. DEFINE S == {x \in Record : x.status # "UNDEF"}
  <2>2. \A o \in Objects(circuit) : info[o] \in S
    BY <1>1, <2>1, CircuitFacts DEF Defined, Tables
  <2>3. \A o \in Objects(circuit) : info'[o] \in S
    <3>. HIDE DEF S
    <3>1. \A l \in Objects(circuit) \cap Latches : circuit.d[l] \in Objects(circuit)
      BY <1>1, CircuitFacts
    <3>2. QED
      BY <1>1, <1>4, <2>2, <3>1, CopiesKeep
  <2>4. QED
    BY <1>1, <2>1, <2>3, CircuitFacts DEF Defined
<1>5. CASE Probabilities \/ Stopped \/ UNCHANGED vars
  <2>1. UNCHANGED <<pc, cycle>> /\ \A o \in Objects(circuit) : info'[o].status \in {"SIM", info[o].status}
    BY <1>5, QuietStep
  <2>2. QED
    BY <1>1, <2>1, CircuitFacts DEF Defined
<1>6. QED
  BY <1>2, <1>3, <1>4, <1>5 DEF Next

\* The first cycle stays as it is until it is over.
LEMMA FreshNext ==
  ASSUME Progress, Fresh, [Next]_vars
  PROVE  Fresh'
<1>1. /\ circuit \in Circuits /\ info \in Tables /\ circuit' = circuit /\ cycle \in Nat
      /\ PIs' = PIs /\ Nodes' = Nodes /\ Latches' = Latches
  <2>1. circuit' = circuit
    BY DEF Next, get_pi_values, evaluate_circuit, update_FFs, Probabilities, Stopped, vars
  <2>2. QED
    BY <2>1, CyclesAssumption DEF Progress, PIs, Nodes, Latches
<1>2. CASE get_pi_values
  <2>1. pc = "inputs" /\ pc' = "evaluate" /\ cycle' = cycle /\ \A o \in Nodes \cup Latches : info'[o] = info[o]
    BY <1>1, <1>2, PiStep
  <2>2. ASSUME NEW p \in PIs, cycle = 0 PROVE info'[p].status = "NEW"
    <3>1. PICK v \in Bit : info'[p] = NewPi(info[p], v)
      BY <1>1, <1>2, PiStep
    <3>2. info[p] \in Record /\ info[p].status = "UNDEF"
      BY <1>1, <2>1, <2>2, CircuitFacts DEF Tables, Fresh, Zero
    <3>3. QED
      BY <3>1, <3>2, NewPiFields
  <2>3. QED
    BY <1>1, <2>1, <2>2 DEF Fresh
<1>3. CASE evaluate_circuit
  <2>1. pc = "evaluate" /\ pc' = "update" /\ cycle' = cycle
    BY <1>3 DEF evaluate_circuit
  <2>2. \A o \in PIs \cup Latches : info'[o] = info[o]
    BY <1>1, <1>3, Evaluates
  <2>3. QED
    BY <1>1, <2>1, <2>2 DEF Fresh
<1>4. CASE update_FFs
  BY <1>4, UpdateStep DEF Fresh
<1>5. CASE Probabilities \/ Stopped \/ UNCHANGED vars
  <2>1. UNCHANGED <<pc, cycle>> /\ \A o \in Objects(circuit) : pc # "done" => info'[o] = info[o]
    BY <1>5, QuietStep
  <2>2. pc = "done" => cycle # 0
    BY CyclesAssumption DEF Progress
  <2>3. QED
    BY <1>1, <2>1, <2>2, CircuitFacts DEF Fresh
<1>6. QED
  BY <1>2, <1>3, <1>4, <1>5 DEF Next

\* The sweep of the first cycle gives a node its value without a toggle, a later one
\* counts a toggle exactly when the value changes; both count the value.
LEMMA NodeCounts ==
  ASSUME Progress, Defined, Fresh, evaluate_circuit, NEW n \in Nodes
  PROVE  /\ info[n] \in Record /\ info'[n] \in Record
         /\ info'[n].num_ones = info[n].num_ones + info'[n].value
         /\ info'[n].num_toggles = IF cycle > 0 /\ info'[n].value # info[n].value
                                   THEN info[n].num_toggles + 1 ELSE info[n].num_toggles
<1>1. /\ circuit \in Circuits /\ info \in Tables /\ info[n] \in Record /\ info'[n] \in Record
      /\ Cudd_Eval(info', n) \in Bit /\ cycle \in Nat
  <2>1. circuit \in Circuits /\ info \in Tables /\ info' \in Tables /\ n \in Objects(circuit) /\ cycle \in Nat
    BY Evaluates, CircuitFacts, CyclesAssumption DEF Progress
  <2>2. QED
    BY <2>1, EvaluatedType DEF Tables
<1>2. cycle > 0 => info[n].status # "UNDEF"
  BY DEF Defined
<1>3. cycle = 0 => info[n].status = "UNDEF" /\ info[n].value = 0
  BY DEF Fresh, evaluate_circuit, Zero
<1>4. CASE getFaninStatus(info', n) = "OLD"
  <2>1. info'[n] = OldValue(info[n])
    BY <1>1, <1>4, Evaluates
  <2>2. QED
    BY <1>1, <2>1, OldValueFields
<1>5. CASE getFaninStatus(info', n) = "NEW"
  <2>1. info'[n] = NewValue(info[n], Cudd_Eval(info', n))
    BY <1>1, <1>5, Evaluates
  <2>2. QED
    BY <1>1, <1>2, <1>3, <2>1, NewValueFields
<1>6. QED
  BY <1>1, <1>4, <1>5, AllDefined, FaninStatuses

\* A node that keeps its value adds to its ones or to its zeros; one that changes it
\* adds a toggle, and to the other of the two.
LEMMA TurnsCount ==
  ASSUME NEW v \in {0, 1}, NEW w \in {0, 1}, NEW t \in Nat, NEW o \in Nat, NEW c \in Nat,
         NEW u, u = IF w # v THEN t + 1 ELSE t,
         t + v <= 2 * o, t + (1 - v) <= 2 * (c - o)
  PROVE  u + w <= 2 * (o + w) /\ u + (1 - w) <= 2 * ((c + 1) - (o + w))
OBVIOUS

\* Either way the toggles are at most twice the ones and twice the zeros.
LEMMA TurnsRoom ==
  ASSUME NEW v \in {0, 1}, NEW t \in Nat, NEW o \in Nat, NEW c \in Nat,
         t + v <= 2 * o, t + (1 - v) <= 2 * (c - o)
  PROVE  t <= 2 * o /\ t <= 2 * (c - o)
OBVIOUS

\* Every sweep keeps the toggles of a node within its ones and its zeros.
LEMMA TurnsNext ==
  ASSUME Progress, Defined, Fresh, Turns, [Next]_vars
  PROVE  Turns'
<1>1. /\ circuit \in Circuits /\ info \in Tables /\ circuit' = circuit /\ cycle \in Nat
      /\ Nodes' = Nodes /\ PIs' = PIs
  <2>1. circuit' = circuit
    BY DEF Next, get_pi_values, evaluate_circuit, update_FFs, Probabilities, Stopped, vars
  <2>2. QED
    BY <2>1, CyclesAssumption DEF Progress, Nodes, PIs
<1>2. CASE get_pi_values
  <2>1. pc = "inputs" /\ pc' = "evaluate" /\ cycle' = cycle /\ \A n \in Nodes : info'[n] = info[n]
    BY <1>1, <1>2, PiStep
  <2>2. \A n \in Nodes : Cycles(n)' = Cycles(n)
    BY <1>1, <2>1, CircuitFacts DEF Cycles
  <2>3. QED
    BY <1>1, <2>1, <2>2 DEF Turns
<1>3. CASE evaluate_circuit
  <2>1. pc = "evaluate" /\ pc' = "update" /\ cycle' = cycle
    BY <1>3 DEF evaluate_circuit
  <2>2. ASSUME NEW n \in Nodes
        PROVE  /\ info'[n].num_toggles + info'[n].value <= 2 * info'[n].num_ones
               /\ info'[n].num_toggles + (1 - info'[n].value) <= 2 * (Cycles(n)' - info'[n].num_ones)
    <3>. DEFINE x == info[n]
                y == info'[n]
    <3>1. Cycles(n)' = cycle + 1 /\ Cycles(n) = cycle
      BY <1>1, <2>1, CircuitFacts DEF Cycles
    <3>2. /\ x.value \in {0, 1} /\ y.value \in {0, 1} /\ x.num_toggles \in Nat /\ x.num_ones \in Nat
          /\ y.num_ones = x.num_ones + y.value
          /\ y.num_toggles = IF cycle > 0 /\ y.value # x.value THEN x.num_toggles + 1 ELSE x.num_toggles
      BY <1>3, NodeCounts DEF Record, Bit
    <3>3. CASE cycle = 0
      <4>1. x = Zero("UNDEF")
        BY <2>1, <3>3 DEF Fresh
      <4>2. x.value = 0 /\ x.num_ones = 0 /\ x.num_toggles = 0
        BY <4>1 DEF Zero
      <4>. HIDE DEF x, y
      <4>3. QED
        BY <3>1, <3>2, <3>3, <4>2 DEF x, y
    <3>4. CASE cycle > 0
      <4>1. x.num_toggles + x.value <= 2 * x.num_ones /\ x.num_toggles + (1 - x.value) <= 2 * (cycle - x.num_ones)
        BY <3>1, <3>4 DEF Turns
      <4>2. y.num_toggles = IF y.value # x.value THEN x.num_toggles + 1 ELSE x.num_toggles
        BY <3>2, <3>4
      <4>. HIDE DEF x, y
      <4>3. /\ y.num_toggles + y.value <= 2 * (x.num_ones + y.value)
            /\ y.num_toggles + (1 - y.value) <= 2 * ((cycle + 1) - (x.num_ones + y.value))
        BY <1>1, <3>2, <4>1, <4>2, TurnsCount
      <4>4. QED
        BY <3>1, <3>2, <4>3 DEF y
    <3>5. QED
      BY <1>1, <3>3, <3>4
  <2>3. QED
    BY <1>1, <2>2 DEF Turns
<1>4. CASE update_FFs
  <2>1. pc = "update" /\ pc' \in {"inputs", "done"} /\ cycle' = cycle + 1
    BY <1>4, UpdateStep
  <2>2. \A n \in Nodes : info'[n] = info[n] /\ Cycles(n)' = Cycles(n)
    BY <1>1, <1>4, <2>1, Copies DEF Cycles
  <2>3. QED
    BY <1>1, <2>1, <2>2 DEF Turns
<1>5. CASE Probabilities \/ Stopped \/ UNCHANGED vars
  <2>1. UNCHANGED <<pc, cycle>>
        /\ \A n \in Nodes : /\ info'[n].value = info[n].value /\ info'[n].num_ones = info[n].num_ones
                            /\ info'[n].num_toggles = info[n].num_toggles /\ Cycles(n)' = Cycles(n)
    BY <1>1, <1>5, QuietStep, CircuitFacts DEF Cycles
  <2>2. QED
    BY <1>1, <2>1 DEF Turns
<1>6. QED
  BY <1>2, <1>3, <1>4, <1>5 DEF Next

\* The loop passes the counters of the nodes on, and nothing else touches the latches.
LEMMA CarriedNext ==
  ASSUME Progress, Turns, Carried, [Next]_vars
  PROVE  Carried'
<1>. DEFINE LL == LogicLatches(circuit)
            P == Nodes \cup LL
<1>1. /\ circuit \in Circuits /\ info \in Tables /\ circuit' = circuit /\ cycle \in Nat
      /\ LogicLatches(circuit)' = LL
  <2>1. circuit' = circuit
    BY DEF Next, get_pi_values, evaluate_circuit, update_FFs, Probabilities, Stopped, vars
  <2>2. QED
    BY <2>1, CyclesAssumption DEF Progress
<1>2. LL \subseteq Latches /\ \A l \in LL : circuit.d[l] \in P
  BY <1>1, LogicLatchesFacts
<1>. HIDE DEF LL
<1>3. P \subseteq Objects(circuit) /\ \A l \in P \cap Latches : circuit.d[l] \in P
  BY <1>1, <1>2, CircuitFacts
<1>4. \A o \in P : info[o] \in Record /\ info[o].num_ones \in Nat /\ info[o].num_toggles \in Nat
                   /\ info[o].value \in {0, 1}
  BY <1>1, <1>3 DEF Tables, Record, Bit
<1>5. CASE get_pi_values \/ evaluate_circuit
  <2>1. cycle' = cycle /\ \A l \in Latches : info'[l] = info[l]
    BY <1>1, <1>5, PiStep, Evaluates DEF evaluate_circuit
  <2>2. QED
    BY <1>1, <1>2, <2>1 DEF Carried, LL
<1>6. CASE update_FFs
  <2>1. pc = "update" /\ cycle' = cycle + 1
    BY <1>6, UpdateStep
  <2>. DEFINE S == {x \in Record : x.num_toggles <= 2 * x.num_ones
                                    /\ x.num_toggles <= 2 * ((cycle + 1) - x.num_ones)}
  <2>2. ASSUME NEW o \in P PROVE info[o] \in S
    <3>1. CASE o \in Nodes
      <4>1. Cycles(o) = cycle + 1
        BY <2>1 DEF Cycles
      <4>2. /\ info[o].num_toggles + info[o].value <= 2 * info[o].num_ones
            /\ info[o].num_toggles + (1 - info[o].value) <= 2 * ((cycle + 1) - info[o].num_ones)
        BY <2>1, <3>1, <4>1 DEF Turns
      <4>3. QED
        BY <1>1, <1>4, <4>2
    <3>2. CASE o \in LL
      <4>1. info[o].num_toggles <= 2 * info[o].num_ones /\ info[o].num_toggles <= 2 * (cycle - info[o].num_ones)
        BY <3>2 DEF Carried, LL
      <4>2. QED
        BY <1>1, <1>4, <4>1
    <3>3. QED
      BY <3>1, <3>2
  <2>3. \A o \in P : info'[o] \in S
    <3>. HIDE DEF S, P
    <3>1. QED
      BY <1>1, <1>3, <1>6, <2>2, CopiesKeep
  <2>4. QED
    BY <1>1, <2>1, <2>3 DEF Carried, LL
<1>7. CASE Probabilities \/ Stopped \/ UNCHANGED vars
  <2>1. cycle' = cycle /\ \A o \in P : info'[o].num_ones = info[o].num_ones
                                        /\ info'[o].num_toggles = info[o].num_toggles
    BY <1>3, <1>7, QuietStep
  <2>2. QED
    BY <1>1, <2>1 DEF Carried, LL
<1>8. QED
  BY <1>5, <1>6, <1>7 DEF Next

\* The probabilities are set once, from the counters, which stay.
LEMMA FinalNext ==
  ASSUME Progress, Final, [Next]_vars
  PROVE  Final'
<1>1. CASE get_pi_values \/ evaluate_circuit \/ update_FFs
  <2>1. prob' = prob /\ pc # "done"
    BY <1>1 DEF get_pi_values, evaluate_circuit, update_FFs
  <2>2. QED
    BY <2>1 DEF Final
<1>2. CASE Probabilities
  <2>1. /\ pc = "done" /\ pc' = pc /\ circuit' = circuit
        /\ prob' = [o \in Objects(circuit) |-> [static |-> info[o].num_ones, switch |-> info[o].num_toggles]]
        /\ \A o \in Objects(circuit) : info'[o].num_ones = info[o].num_ones /\ info'[o].num_toggles = info[o].num_toggles
    BY <1>2, ProbStep DEF Progress
  <2>2. prob' = [o \in Objects(circuit') |-> [static |-> info'[o].num_ones, switch |-> info'[o].num_toggles]]
    BY <2>1
  <2>3. QED
    BY <2>1, <2>2 DEF Final
<1>3. CASE Stopped \/ UNCHANGED vars
  BY <1>3 DEF Stopped, vars, Final
<1>4. QED
  BY <1>1, <1>2, <1>3 DEF Next

\* The invariant holds at the start.
LEMMA SimInit == Init => SimInv
<1>. SUFFICES ASSUME Init PROVE SimInv
  OBVIOUS
<1>1. /\ circuit \in Circuits /\ pc = "inputs" /\ cycle = 0 /\ prob = <<>>
      /\ info = [o \in Objects(circuit) |-> Zero(InitialStatus(o))]
  BY DEF Init, Zero
<1>2. \A o : InitialStatus(o) \in {"NEW", "UNDEF"} /\ Zero(InitialStatus(o)) \in Record
  BY DEF InitialStatus, Zero, Record, Status, Bit
<1>3. \A o \in Objects(circuit) : info[o] = Zero(InitialStatus(o)) /\ info[o].num_ones = 0 /\ info[o].num_toggles = 0
  BY <1>1 DEF Zero
<1>4. Progress
  BY <1>1, <1>2, CyclesAssumption DEF Progress, Tables
<1>5. Counts
  BY <1>1, <1>3 DEF Counts, Cycles
<1>6. /\ \A l \in Latches : info[l] = Zero("NEW")
      /\ \A o \in PIs \cup Nodes : info[o] = Zero("UNDEF")
  BY <1>1, <1>3, CircuitFacts DEF InitialStatus
<1>7. Zero("NEW").status = "NEW"
  BY DEF Zero
<1>8. Defined
  BY <1>1, <1>6, <1>7 DEF Defined
<1>9. Fresh
  BY <1>1, <1>6 DEF Fresh
<1>10. Turns /\ Final
  BY <1>1 DEF Turns, Final
<1>11. Carried
  BY <1>1, <1>3, LogicLatchesFacts, CircuitFacts DEF Carried
<1>12. QED
  BY <1>4, <1>5, <1>8, <1>9, <1>10, <1>11 DEF SimInv

\* The invariant is inductive.
LEMMA SimNext == SimInv /\ [Next]_vars => SimInv'
BY ProgressNext, CountsNext, DefinedNext, FreshNext, TurnsNext, CarriedNext, FinalNext DEF SimInv

\* The inductive invariant of the simulation holds in every behaviour.
THEOREM SimInvariant == Spec => []SimInv
BY SimInit, SimNext, PTL DEF Spec

\* The type invariant, for any circuits and any number of cycles: no logic node stays
\* undefined after the first cycle, and no counter passes the number of cycles, which
\* the assertions on the probabilities rely on (sim.c:317 and 319).
THEOREM SimTypes == Spec => []TypeOK
<1>1. SimInv => TypeOK
  <2>. SUFFICES ASSUME SimInv PROVE TypeOK
    OBVIOUS
  <2>1. circuit \in Circuits /\ cycle \in Nat /\ max_cycles \in Nat /\ info \in Tables
    BY CyclesAssumption DEF SimInv, Progress
  <2>2. ASSUME NEW o \in Objects(circuit)
        PROVE  info[o].num_ones \in 0 .. max_cycles /\ info[o].num_toggles \in 0 .. max_cycles
    <3>1. info[o].num_ones \in Nat /\ info[o].num_toggles \in Nat
      BY <2>1 DEF Tables, Record
    <3>2. info[o].num_ones <= Cycles(o) /\ info[o].num_toggles <= Cycles(o)
      BY DEF SimInv, Counts
    <3>3. Cycles(o) \in Nat /\ Cycles(o) <= max_cycles
      BY <2>1 DEF Cycles, SimInv, Progress
    <3>4. QED
      BY <3>1, <3>2, <3>3, <2>1
  <2>3. info \in [Objects(circuit) -> [status : Status, value : Bit, num_ones : 0 .. max_cycles,
                                       num_toggles : 0 .. max_cycles]]
    BY <2>1, <2>2 DEF Tables, Record
  <2>4. QED
    BY <2>3 DEF TypeOK, SimInv, Progress, Defined
<1>2. QED
  BY SimInvariant, <1>1, PTL

\* The switching of a logic node, and of a latch that does not just pass an input on, is at
\* most twice its time at 1 and its time at 0, for any circuits, any inputs and any number
\* of cycles (the assertions sim.c:321-322).
THEOREM SwitchingOfLogic == Spec => []LogicSwitchingBounded
<1>1. SimInv => LogicSwitchingBounded
  <2>. SUFFICES ASSUME SimInv, prob # <<>>, NEW n \in Nodes \cup LogicLatches(circuit) PROVE BoundedSwitching(n)
    BY DEF LogicSwitchingBounded
  <2>1. circuit \in Circuits /\ info \in Tables /\ n \in Objects(circuit)
    BY CircuitFacts, LogicLatchesFacts DEF SimInv, Progress
  <2>2. pc = "done" /\ prob[n].static = info[n].num_ones /\ prob[n].switch = info[n].num_toggles
    BY <2>1 DEF SimInv, Final
  <2>3. cycle = max_cycles /\ cycle > 0 /\ max_cycles \in Nat /\ Cycles(n) = cycle
    BY <2>2, CyclesAssumption DEF SimInv, Progress, Cycles
  <2>4. info[n].num_toggles \in Nat /\ info[n].num_ones \in Nat /\ info[n].value \in {0, 1}
    BY <2>1 DEF Tables, Record, Bit
  <2>5. info[n].num_toggles <= 2 * info[n].num_ones /\ info[n].num_toggles <= 2 * (max_cycles - info[n].num_ones)
    <3>1. CASE n \in Nodes
      <4>1. /\ info[n].num_toggles + info[n].value <= 2 * info[n].num_ones
            /\ info[n].num_toggles + (1 - info[n].value) <= 2 * (max_cycles - info[n].num_ones)
        BY <2>3, <3>1 DEF SimInv, Turns
      <4>2. QED
        BY <2>3, <2>4, <4>1, TurnsRoom
    <3>2. CASE n \in LogicLatches(circuit)
      BY <2>3, <3>2 DEF SimInv, Carried
    <3>3. QED
      BY <3>1, <3>2
  <2>6. QED
    BY <2>2, <2>3, <2>4, <2>5 DEF BoundedSwitching
<1>2. QED
  BY SimInvariant, <1>1, PTL

-----------------------------------------------------------------------------
(* The simulation settles as a synchronous circuit does *)

\* The output of a gate is that of the values of its fanins.
LEMMA GateAlike ==
  ASSUME NEW v, NEW w, NEW n, \A k \in DOMAIN FaninOf(n) : v[FaninOf(n)[k]] = w[FaninOf(n)[k]]
  PROVE  Gate(v, n) = Gate(w, n)
<1>1. [k \in DOMAIN FaninOf(n) |-> v[FaninOf(n)[k]]] = [k \in DOMAIN FaninOf(n) |-> w[FaninOf(n)[k]]]
  OBVIOUS
<1>2. QED
  BY <1>1 DEF Gate

\* The same for the records of the table, unless the node is a constant.
LEMMA EvalIsGate ==
  ASSUME NEW i, NEW v, NEW n \in Nodes, n \notin ConstantsOf(circuit),
         \A k \in DOMAIN FaninOf(n) : i[FaninOf(n)[k]].value = v[FaninOf(n)[k]]
  PROVE  Cudd_Eval(i, n) = Gate(v, n)
<1>1. [k \in DOMAIN FaninOf(n) |-> i[FaninOf(n)[k]].value] = [k \in DOMAIN FaninOf(n) |-> v[FaninOf(n)[k]]]
  OBVIOUS
<1>2. Simulated(circuit).onset[n] = circuit.onset[n]
  BY DEF Simulated, Nodes
<1>3. QED
  BY <1>1, <1>2 DEF Gate, Cudd_Eval

\* When no fanin is new or undefined, all of them are old.
LEMMA OldFanins ==
  ASSUME NEW i \in Tables, circuit \in Circuits, NEW n \in Nodes, getFaninStatus(i, n) = "OLD",
         NEW k \in DOMAIN FaninOf(n)
  PROVE  i[FaninOf(n)[k]].status = "OLD"
<1>. DEFINE statuses == {i[FaninOf(n)[m]].status : m \in DOMAIN FaninOf(n)}
<1>1. "UNDEF" \notin statuses /\ statuses \cap {"NEW", "SIM"} = {}
  BY DEF getFaninStatus
<1>2. i[FaninOf(n)[k]].status \in Status
  BY FaninFacts DEF Tables, Record
<1>3. QED
  BY <1>1, <1>2 DEF Status

\* A new fanin makes its node be evaluated.
LEMMA NewFanin ==
  ASSUME NEW i, NEW n, NEW k \in DOMAIN FaninOf(n), i[FaninOf(n)[k]].status = "NEW",
         getFaninStatus(i, n) # "UNDEF"
  PROVE  getFaninStatus(i, n) = "NEW"
<1>1. "NEW" \in {i[FaninOf(n)[m]].status : m \in DOMAIN FaninOf(n)} \cap {"NEW", "SIM"}
  OBVIOUS
<1>2. QED
  BY <1>1 DEF getFaninStatus

\* In the first cycle every node that is no constant is evaluated: along its fanins
\* there is an input or a latch, which are new.
LEMMA AllNew ==
  ASSUME SimInv, cycle = 0, evaluate_circuit
  PROVE  \A n \in Nodes : n \notin ConstantsOf(circuit) =>
           getFaninStatus(info', n) = "NEW" /\ info'[n].status = "NEW"
<1>. DEFINE Good(n) == n \notin ConstantsOf(circuit) => getFaninStatus(info', n) = "NEW" /\ info'[n].status = "NEW"
            T == {k \in Nat : \A j \in 1 .. LastNode : j <= k => Good(circuit.nodes[j])}
<1>1. /\ circuit \in Circuits /\ info \in Tables /\ pc = "evaluate" /\ LastNode \in Nat /\ info' \in Tables
      /\ Progress /\ Defined /\ Fresh
  BY CircuitFacts, Evaluates DEF SimInv, Progress, evaluate_circuit
<1>2. \A o \in PIs \cup Latches : info'[o].status = "NEW"
  BY <1>1, Evaluates DEF Fresh, Zero
<1>3. 0 \in T
  BY <1>1
<1>4. \A k \in Nat : k \in T => k + 1 \in T
  <2>. SUFFICES ASSUME NEW k \in Nat, k \in T, NEW j \in 1 .. LastNode, j <= k + 1,
                       circuit.nodes[j] \notin ConstantsOf(circuit)
                PROVE  /\ getFaninStatus(info', circuit.nodes[j]) = "NEW"
                       /\ info'[circuit.nodes[j]].status = "NEW"
    OBVIOUS
  <2>. DEFINE n == circuit.nodes[j]
  <2>1. n \in Nodes /\ j \in Nat /\ n \in NodesOf(circuit)
    BY <1>1, CircuitFacts DEF Nodes
  <2>2. \A i \in 1 .. LastNode : i <= k /\ circuit.nodes[i] \notin ConstantsOf(circuit) =>
          info'[circuit.nodes[i]].status = "NEW"
    OBVIOUS
  <2>. HIDE DEF Good, T
  <2>3. PICK m \in DOMAIN FaninOf(n) : FaninOf(n)[m] \notin ConstantsOf(circuit)
    BY <1>1, <2>1, ConstantsFacts
  <2>. DEFINE f == FaninOf(n)[m]
  <2>4. info'[f].status = "NEW"
    <3>1. f \in Objects(circuit) /\ \A i \in 1 .. LastNode : f = circuit.nodes[i] => i < j
      BY <1>1, <2>1, FaninFacts
    <3>2. f \notin ConstantsOf(circuit)
      BY <2>3
    <3>. HIDE DEF f
    <3>3. CASE f \in Nodes
      <4>1. PICK i \in 1 .. LastNode : f = circuit.nodes[i]
        BY <1>1, <3>3, CircuitFacts
      <4>2. i < j /\ i \in Nat
        BY <3>1, <4>1, <1>1
      <4>3. i <= k
        BY <4>2, <2>1
      <4>4. QED
        BY <2>2, <3>2, <4>1, <4>3
    <3>4. CASE f \notin Nodes
      BY <1>1, <1>2, <3>1, <3>4, CircuitFacts
    <3>5. QED
      BY <3>3, <3>4
  <2>5. getFaninStatus(info', n) = "NEW"
    BY <1>1, <2>1, <2>4, NewFanin, AllDefined
  <2>6. info'[n] = NewValue(info[n], Cudd_Eval(info', n))
    BY <1>1, <2>1, <2>5, Evaluates
  <2>. HIDE DEF n
  <2>7. info[n] \in Record /\ info[n].status = "UNDEF" /\ Cudd_Eval(info', n) \in Bit
    <3>1. info[n] = Zero("UNDEF") /\ n \in Objects(circuit)
      BY <1>1, <2>1, CircuitFacts DEF Fresh
    <3>2. info[n] \in Record /\ Cudd_Eval(info', n) \in Bit
      BY <1>1, <2>1, <3>1, EvaluatedType DEF Tables
    <3>3. QED
      BY <3>1, <3>2 DEF Zero
  <2>8. info'[n].status = "NEW"
    BY <2>6, <2>7, NewValueFields
  <2>9. QED
    BY <2>5, <2>8 DEF n
<1>5. Nat \subseteq T
  <2>. HIDE DEF T
  <2>1. QED
    BY <1>3, <1>4, SetInduction
<1>6. \A j \in 1 .. LastNode : j \in Nat /\ j <= j
  BY <1>1
<1>7. \A j \in 1 .. LastNode : Good(circuit.nodes[j])
  BY <1>5, <1>6
<1>. HIDE DEF Good
<1>8. \A n \in Nodes : Good(n)
  BY <1>1, <1>7, CircuitFacts
<1>9. QED
  BY <1>8 DEF Good

\* No fanin of a constant is ever new: the sweep counts it with the value it has.
LEMMA ConstantsOld ==
  ASSUME SimInv, evaluate_circuit
  PROVE  \A n \in ConstantsOf(circuit) : getFaninStatus(info', n) = "OLD" /\ info'[n].value = info[n].value
<1>. DEFINE Good(n) == n \in ConstantsOf(circuit) => getFaninStatus(info', n) = "OLD" /\ info'[n] = OldValue(info[n])
            T == {k \in Nat : \A j \in 1 .. LastNode : j <= k => Good(circuit.nodes[j])}
<1>1. /\ circuit \in Circuits /\ info \in Tables /\ LastNode \in Nat /\ info' \in Tables /\ Progress /\ Defined
  BY CircuitFacts, Evaluates DEF SimInv, Progress
<1>2. 0 \in T
  BY <1>1
<1>3. \A k \in Nat : k \in T => k + 1 \in T
  <2>. SUFFICES ASSUME NEW k \in Nat, k \in T, NEW j \in 1 .. LastNode, j <= k + 1,
                       circuit.nodes[j] \in ConstantsOf(circuit)
                PROVE  /\ getFaninStatus(info', circuit.nodes[j]) = "OLD"
                       /\ info'[circuit.nodes[j]] = OldValue(info[circuit.nodes[j]])
    OBVIOUS
  <2>. DEFINE n == circuit.nodes[j]
  <2>1. n \in Nodes /\ j \in Nat
    BY <1>1, CircuitFacts
  <2>2. \A i \in 1 .. LastNode : i <= k => Good(circuit.nodes[i])
    OBVIOUS
  <2>. HIDE DEF T, Good
  <2>3. ASSUME NEW m \in DOMAIN FaninOf(n) PROVE info'[FaninOf(n)[m]].status = "OLD"
    <3>. DEFINE f == FaninOf(n)[m]
    <3>1. f \in Nodes /\ f \in ConstantsOf(circuit) /\ \A i \in 1 .. LastNode : f = circuit.nodes[i] => i < j
      BY <1>1, <2>1, FaninFacts, ConstantsFacts
    <3>. HIDE DEF f
    <3>2. PICK i \in 1 .. LastNode : f = circuit.nodes[i]
      BY <1>1, <3>1, CircuitFacts
    <3>3. i < j /\ i \in Nat
      BY <3>1, <3>2, <1>1
    <3>4. i <= k
      BY <3>3, <2>1
    <3>5. info'[f] = OldValue(info[f])
      BY <2>2, <3>1, <3>2, <3>4 DEF Good
    <3>6. info[f] \in Record
      BY <1>1, <3>1, CircuitFacts DEF Tables
    <3>7. QED
      BY <3>5, <3>6, OldValueFields DEF f
  <2>4. getFaninStatus(info', n) = "OLD"
    BY <2>3 DEF getFaninStatus
  <2>5. QED
    BY <1>1, <2>1, <2>4, Evaluates
<1>4. Nat \subseteq T
  <2>. HIDE DEF T
  <2>1. QED
    BY <1>2, <1>3, SetInduction
<1>5. \A j \in 1 .. LastNode : j \in Nat /\ j <= j
  BY <1>1
<1>6. \A j \in 1 .. LastNode : Good(circuit.nodes[j])
  BY <1>4, <1>5
<1>. HIDE DEF Good
<1>7. \A n \in Nodes : Good(n)
  BY <1>1, <1>6, CircuitFacts
<1>8. ASSUME NEW n \in ConstantsOf(circuit)
      PROVE  getFaninStatus(info', n) = "OLD" /\ info'[n].value = info[n].value
  <2>1. n \in Nodes /\ n \in Objects(circuit)
    BY <1>1, ConstantsFacts, CircuitFacts
  <2>2. info[n] \in Record /\ getFaninStatus(info', n) = "OLD" /\ info'[n] = OldValue(info[n])
    BY <1>1, <1>7, <2>1 DEF Good, Tables
  <2>3. QED
    BY <2>2, OldValueFields
<1>9. QED
  BY <1>8

\* The onsets of the circuit simulated: those of the circuit, but for the constants.
LEMMA OnsetFacts ==
  ASSUME NEW n \in Nodes
  PROVE  Simulated(circuit).onset[n] =
           IF n \in ConstantsOf(circuit) THEN circuit.onset[n] \ {Zeros(circuit, n)} ELSE circuit.onset[n]
BY DEF Simulated, Nodes

\* When the fanins of a constant are 0, so is its gate in the circuit simulated.
LEMMA ConstantIsZero ==
  ASSUME circuit \in Circuits, NEW n \in ConstantsOf(circuit), NEW v,
         \A m \in ConstantsOf(circuit) : v[m] = 0
  PROVE  Gate(v, n) = 0
<1>1. n \in Nodes /\ \A k \in DOMAIN FaninOf(n) : v[FaninOf(n)[k]] = 0
  BY ConstantsFacts
<1>2. [k \in DOMAIN FaninOf(n) |-> v[FaninOf(n)[k]]] = Zeros(circuit, n)
  BY <1>1 DEF Zeros, FaninOf
<1>3. QED
  BY <1>1, <1>2, OnsetFacts DEF Gate

\* What is old after the sweep has the value it had before it.
LEMMA OldKeeps ==
  ASSUME SimInv, evaluate_circuit, NEW v, Previous(v), NEW o \in Objects(circuit), info'[o].status = "OLD"
  PROVE  info'[o].value = v[o]
<1>1. circuit \in Circuits /\ info \in Tables /\ Progress /\ pc = "evaluate"
  BY DEF SimInv, Progress, evaluate_circuit
<1>2. CASE o \in PIs \cup Latches
  <2>1. info'[o] = info[o]
    BY <1>1, <1>2, Evaluates
  <2>2. QED
    BY <1>1, <1>2, <2>1 DEF Previous
<1>3. CASE o \in Nodes
  <2>1. info'[o].value = info[o].value
    BY <1>1, <1>3, NodeStep
  <2>2. QED
    BY <1>3, <2>1 DEF Previous
<1>4. QED
  BY <1>1, <1>2, <1>3, CircuitFacts

\* The sweep leaves every node with the value of its function, evaluated or not.
LEMMA SweepSettles ==
  ASSUME SimInv, evaluate_circuit, Still, Between, NEW n \in Nodes,
         NEW w, \A o \in Objects(circuit) : w[o] = info'[o].value
  PROVE  info'[n].value = Gate(w, n)
<1>1. /\ circuit \in Circuits /\ info \in Tables /\ Progress /\ Defined /\ pc = "evaluate" /\ cycle \in Nat
      /\ info' \in Tables /\ n \in Objects(circuit) /\ info[n] \in Record /\ Cudd_Eval(info', n) \in Bit
  <2>1. circuit \in Circuits /\ info \in Tables /\ Progress /\ Defined /\ pc = "evaluate" /\ cycle \in Nat
    BY CyclesAssumption DEF SimInv, Progress, evaluate_circuit
  <2>2. info' \in Tables /\ n \in Objects(circuit)
    BY <2>1, Evaluates, CircuitFacts
  <2>3. QED
    BY <2>1, <2>2, EvaluatedType DEF Tables
<1>c. CASE n \in ConstantsOf(circuit)
  <2>1. \A m \in ConstantsOf(circuit) : m \in Objects(circuit) /\ info'[m].value = 0
    BY <1>1, ConstantsOld, ConstantsFacts, CircuitFacts DEF Still
  <2>2. Gate(w, n) = 0
    BY <1>1, <1>c, <2>1, ConstantIsZero
  <2>3. QED
    BY <1>c, <2>1, <2>2
<1>. SUFFICES ASSUME n \notin ConstantsOf(circuit) PROVE info'[n].value = Gate(w, n)
  BY <1>c
<1>g. Cudd_Eval(info', n) = Gate(w, n)
  BY <1>1, FaninFacts, EvalIsGate
<1>2. CASE getFaninStatus(info', n) = "NEW"
  <2>1. info'[n] = NewValue(info[n], Cudd_Eval(info', n))
    BY <1>1, <1>2, Evaluates
  <2>2. QED
    BY <1>1, <1>g, <2>1, NewValueFields
<1>3. CASE getFaninStatus(info', n) = "OLD" /\ cycle = 0
  BY <1>3, AllNew
<1>4. CASE getFaninStatus(info', n) = "OLD" /\ cycle > 0
  <2>1. PICK v : Previous(v)
    BY <1>1, <1>4 DEF Between
  <2>2. \A k \in DOMAIN FaninOf(n) : info'[FaninOf(n)[k]].value = v[FaninOf(n)[k]]
    BY <1>1, <1>4, <2>1, OldFanins, OldKeeps, FaninFacts
  <2>3. Cudd_Eval(info', n) = Gate(v, n)
    BY <2>2, EvalIsGate
  <2>4. info'[n].value = info[n].value
    BY <1>1, <1>4, Evaluates, OldValueFields
  <2>5. QED
    BY <1>g, <2>1, <2>3, <2>4 DEF Previous
<1>5. QED
  BY <1>1, <1>2, <1>3, <1>4, AllDefined, FaninStatuses

\* The gates settle and the latches have what is old at their inputs.
LEMMA SettlingNext ==
  ASSUME SimInv, LazyInv, [Next]_vars
  PROVE  Settling'
<1>1. /\ circuit \in Circuits /\ info \in Tables /\ circuit' = circuit /\ cycle \in Nat
      /\ Nodes' = Nodes /\ Latches' = Latches /\ Progress /\ Settling /\ Between /\ Still
      /\ Source(circuit)' = Source(circuit)
  <2>1. circuit' = circuit
    BY DEF Next, get_pi_values, evaluate_circuit, update_FFs, Probabilities, Stopped, vars
  <2>2. QED
    BY <2>1, CyclesAssumption DEF SimInv, Progress, Nodes, Latches, LazyInv
<1>2. CASE evaluate_circuit
  <2>1. /\ info' \in Tables /\ \A o \in PIs \cup Latches : info'[o] = info[o]
        /\ pc = "evaluate" /\ pc' = "update" /\ cycle' = cycle
    BY <1>1, <1>2, Evaluates DEF evaluate_circuit
  <2>2. ASSUME NEW n \in Nodes PROVE info'[n].value = Gate(Vals, n)'
    <3>1. \A o \in Objects(circuit) : Vals'[o] = info'[o].value
      BY <1>1 DEF Vals
    <3>2. info'[n].value = Gate(Vals', n)
      BY <1>1, <1>2, <3>1, SweepSettles
    <3>3. Gate(Vals, n)' = Gate(Vals', n)
      BY <1>1 DEF Gate, FaninOf
    <3>4. QED
      BY <3>2, <3>3
  <2>3. ASSUME NEW l \in Latches, info'[Source(circuit)[l]].status = "OLD"
        PROVE  info'[Source(circuit)[l]].value = info'[l].value
    <3>1. Source(circuit)[l] \in Objects(circuit) /\ info'[l] = info[l]
      BY <1>1, <2>1, SourceType
    <3>2. CASE cycle > 0
      <4>1. PICK v : Previous(v)
        BY <1>1, <2>1, <3>2 DEF Between
      <4>2. info'[Source(circuit)[l]].value = v[Source(circuit)[l]]
        BY <1>2, <2>3, <3>1, <4>1, OldKeeps
      <4>3. QED
        BY <3>1, <4>1, <4>2 DEF Previous
    <3>3. CASE cycle = 0
      <4>1. Source(circuit)[l] \in Nodes
        <5>1. \A o \in PIs \cup Latches : info'[o].status = "NEW"
          BY <2>1, <3>3 DEF SimInv, Fresh, Zero
        <5>2. QED
          BY <5>1, <2>3, <3>1, <1>1, CircuitFacts
      <4>2. info'[Source(circuit)[l]].value = info[Source(circuit)[l]].value
        BY <1>1, <1>2, <2>3, <4>1, NodeStep
      <4>3. info[Source(circuit)[l]].value = 0 /\ info[l].value = 0
        BY <2>1, <3>3, <4>1 DEF SimInv, Fresh, Zero
      <4>4. QED
        BY <3>1, <4>2, <4>3
    <3>4. QED
      BY <1>1, <3>2, <3>3
  <2>4. QED
    BY <1>1, <2>1, <2>2, <2>3 DEF Settling
<1>3. CASE get_pi_values \/ update_FFs
  <2>1. pc' # "update"
    BY <1>3, UpdateStep, <1>1 DEF get_pi_values
  <2>2. QED
    BY <2>1 DEF Settling
<1>4. CASE Probabilities \/ Stopped \/ UNCHANGED vars
  <2>1. CASE pc = "update"
    <3>1. UNCHANGED <<pc, info, circuit>>
      BY <1>4, <2>1 DEF Probabilities, Stopped, vars
    <3>2. QED
      BY <1>1, <3>1 DEF Settling, Gate, Vals, FaninOf, Nodes, Latches
  <2>2. CASE pc # "update"
    BY <1>1, <1>4, <2>2, QuietStep DEF Settling
  <2>3. QED
    BY <2>1, <2>2
<1>5. QED
  BY <1>2, <1>3, <1>4 DEF Next

\* Between two sweeps the values of the one before explain what is there.
LEMMA BetweenNext ==
  ASSUME SimInv, LazyInv, [Next]_vars
  PROVE  Between'
<1>1. /\ circuit \in Circuits /\ info \in Tables /\ circuit' = circuit /\ cycle \in Nat
      /\ Nodes' = Nodes /\ Latches' = Latches /\ PIs' = PIs /\ Objects(circuit)' = Objects(circuit)
      /\ Progress /\ Settling /\ Between /\ Source(circuit)' = Source(circuit)
      /\ \A v, n : Gate(v, n)' = Gate(v, n)
  <2>1. circuit' = circuit
    BY DEF Next, get_pi_values, evaluate_circuit, update_FFs, Probabilities, Stopped, vars
  <2>2. QED
    BY <2>1, CyclesAssumption DEF SimInv, Progress, PIs, Nodes, Latches, LazyInv, Gate, FaninOf
<1>2. CASE get_pi_values
  <2>1. /\ pc = "inputs" /\ pc' = "evaluate" /\ cycle' = cycle
        /\ \A o \in Nodes \cup Latches : info'[o] = info[o]
    BY <1>1, <1>2, PiStep
  <2>2. ASSUME cycle > 0 PROVE \E v \in [Objects(circuit) -> Bit] : Previous(v)'
    <3>1. PICK v \in [Objects(circuit) -> Bit] : Previous(v)
      BY <1>1, <2>1, <2>2 DEF Between
    <3>2. ASSUME NEW p \in PIs, info'[p].status = "OLD" PROVE info'[p].value = v[p]
      <4>1. PICK b \in Bit : info'[p] = NewPi(info[p], b)
        BY <1>1, <1>2, PiStep
      <4>2. info[p] \in Record /\ info[p].status # "UNDEF"
        BY <1>1, <2>2, CircuitFacts DEF Tables, SimInv, Defined
      <4>3. info'[p].value = info[p].value
        BY <3>2, <4>1, <4>2, NewPiFields
      <4>4. QED
        BY <2>1, <3>1, <4>3 DEF Previous
    <3>3. \A n \in Nodes : info'[n].value = v[n] /\ v[n] = Gate(v, n)
      BY <2>1, <3>1 DEF Previous
    <3>4. \A l \in Latches : info'[l].value = v[Source(circuit)[l]] /\ (info'[l].status = "OLD" => info'[l].value = v[l])
      BY <2>1, <3>1 DEF Previous
    <3>5. Previous(v)'
      BY <1>1, <2>1, <3>2, <3>3, <3>4 DEF Previous
    <3>6. QED
      BY <3>5
  <2>3. QED
    BY <1>1, <2>1, <2>2 DEF Between
<1>3. CASE evaluate_circuit
  BY <1>3 DEF Between, evaluate_circuit
<1>4. CASE update_FFs
  <2>1. pc = "update" /\ \A o \in PIs \cup Nodes : info'[o] = info[o]
    BY <1>1, <1>4, Copies, UpdateStep
  <2>2. \A l \in Latches : info'[l] = info[Source(circuit)[l]]
    BY <1>1, <1>4, CopiesAtOnce
  <2>. DEFINE v == Vals
  <2>3. v \in [Objects(circuit) -> Bit] /\ \A o \in Objects(circuit) : v[o] = info[o].value
    BY <1>1 DEF Vals, Tables, Record
  <2>4. \A n \in Nodes : info[n].value = Gate(v, n)
    BY <1>1, <2>1 DEF Settling
  <2>. HIDE DEF v
  <2>5. \A n \in Nodes : info'[n].value = v[n] /\ v[n] = Gate(v, n)
    BY <1>1, <2>1, <2>3, <2>4, CircuitFacts
  <2>6. ASSUME NEW l \in Latches
        PROVE  info'[l].value = v[Source(circuit)[l]] /\ (info'[l].status = "OLD" => info'[l].value = v[l])
    <3>1. Source(circuit)[l] \in Objects(circuit) /\ l \in Objects(circuit)
      BY <1>1, SourceType, CircuitFacts
    <3>2. info[Source(circuit)[l]].status = "OLD" => info[Source(circuit)[l]].value = info[l].value
      BY <1>1, <2>1 DEF Settling
    <3>3. QED
      BY <2>2, <2>3, <3>1, <3>2
  <2>7. \A p \in PIs : info'[p].value = v[p]
    BY <1>1, <2>1, <2>3, CircuitFacts
  <2>8. \E w \in [Objects(circuit) -> Bit] :
          /\ \A n \in Nodes : info'[n].value = w[n] /\ w[n] = Gate(w, n)
          /\ \A l \in Latches : info'[l].value = w[Source(circuit)[l]] /\ (info'[l].status = "OLD" => info'[l].value = w[l])
          /\ \A p \in PIs : info'[p].value = w[p]
    BY <2>3, <2>5, <2>6, <2>7
  <2>9. QED
    BY <1>1, <2>8 DEF Between, Previous
<1>5. CASE Probabilities \/ Stopped \/ UNCHANGED vars
  <2>1. CASE pc \in {"inputs", "evaluate"}
    <3>1. UNCHANGED <<pc, info, circuit, cycle>>
      BY <1>5, <2>1 DEF Probabilities, Stopped, vars
    <3>2. QED
      BY <1>1, <3>1 DEF Between, Previous
  <2>2. CASE pc \notin {"inputs", "evaluate"}
    BY <1>1, <1>5, <2>2, QuietStep DEF Between
  <2>3. QED
    BY <2>1, <2>2
<1>6. QED
  BY <1>2, <1>3, <1>4, <1>5 DEF Next

\* What is never evaluated keeps the 0 of the start.
LEMMA StillNext ==
  ASSUME SimInv, LazyInv, [Next]_vars
  PROVE  Still'
<1>1. /\ circuit \in Circuits /\ info \in Tables /\ ConstantsOf(circuit)' = ConstantsOf(circuit)
      /\ Progress /\ Still
  <2>1. circuit' = circuit
    BY DEF Next, get_pi_values, evaluate_circuit, update_FFs, Probabilities, Stopped, vars
  <2>2. QED
    BY <2>1 DEF SimInv, Progress, LazyInv
<1>2. \A n \in ConstantsOf(circuit) : n \in Nodes /\ n \in Objects(circuit)
  BY <1>1, ConstantsFacts, CircuitFacts
<1>3. CASE get_pi_values \/ update_FFs
  <2>1. \A n \in ConstantsOf(circuit) : info'[n] = info[n]
    BY <1>1, <1>2, <1>3, PiStep, Copies
  <2>2. QED
    BY <1>1, <2>1 DEF Still
<1>4. CASE evaluate_circuit
  BY <1>1, <1>4, ConstantsOld DEF Still
<1>5. CASE Probabilities \/ Stopped \/ UNCHANGED vars
  <2>1. \A n \in ConstantsOf(circuit) : info'[n].value = info[n].value
    BY <1>1, <1>2, <1>5, QuietStep
  <2>2. QED
    BY <1>1, <2>1 DEF Still
<1>6. QED
  BY <1>3, <1>4, <1>5 DEF Next

\* Before the first sweep there is nothing to settle or to remember.
LEMMA LazyInit == Init => LazyInv
<1>. SUFFICES ASSUME Init PROVE LazyInv
  OBVIOUS
<1>1. circuit \in Circuits /\ \A o \in Objects(circuit) : info[o].value = 0
  BY DEF Init
<1>2. Still
  BY <1>1, ConstantsFacts, CircuitFacts DEF Still
<1>3. Settling /\ Between
  BY DEF Init, Settling, Between
<1>4. QED
  BY <1>2, <1>3 DEF LazyInv

\* With the invariant of the simulation, that of the lazy evaluation is inductive.
LEMMA LazyNext == SimInv /\ LazyInv /\ [Next]_vars => LazyInv'
BY StillNext, SettlingNext, BetweenNext DEF LazyInv

-----------------------------------------------------------------------------
(* The refinement: the values of the synchronous circuit, in the table *)

\* The circuit simulated has the objects of the circuit.
LEMMA SimulatedFacts ==
  /\ Simulated(circuit).pis = PIs /\ Eager!Latches = Latches /\ Eager!Gates = Nodes
  /\ Simulated(circuit).d = Source(circuit)
  /\ \A n : Simulated(circuit).fanin[n] = FaninOf(n)
BY DEF Simulated, Eager!Latches, Eager!Gates, PIs, Latches, LatchesOf, Nodes, NodesOf, FaninOf

\* A signal of the synchronous circuit is the value of an object.
LEMMA SignalIsValue ==
  ASSUME circuit \in Circuits, NEW in, NEW gate, NEW v,
         \A p \in PIs : in[p] = v[p], \A n \in Nodes : gate[n] = v[n], \A l \in Latches : info[l].value = v[l],
         NEW o \in Objects(circuit)
  PROVE  Eager!Signal(in, gate, o) = v[o]
<1>1. Eager!Latches = Latches /\ Simulated(circuit).pis = PIs
  BY SimulatedFacts
<1>2. CASE o \in PIs
  BY <1>1, <1>2 DEF Eager!Signal
<1>3. CASE o \in Latches
  <2>1. o \notin PIs
    BY <1>3, CircuitFacts
  <2>2. QED
    BY <1>1, <1>3, <2>1 DEF Eager!Signal
<1>4. CASE o \in Nodes
  <2>1. o \notin PIs /\ o \notin Latches
    BY <1>4, CircuitFacts
  <2>2. QED
    BY <1>1, <1>4, <2>1 DEF Eager!Signal
<1>5. QED
  BY <1>2, <1>3, <1>4, CircuitFacts

\* An output of the synchronous circuit is that of the gate, over the same values.
LEMMA OutputIsGate ==
  ASSUME circuit \in Circuits, NEW in, NEW gate, NEW v,
         \A p \in PIs : in[p] = v[p], \A n \in Nodes : gate[n] = v[n], \A l \in Latches : info[l].value = v[l],
         NEW n \in Nodes
  PROVE  Eager!Output(in, gate, n) = Gate(v, n)
<1>1. \A k \in DOMAIN FaninOf(n) : Eager!Signal(in, gate, FaninOf(n)[k]) = v[FaninOf(n)[k]]
  BY FaninFacts, SignalIsValue
<1>2. [k \in DOMAIN FaninOf(n) |-> Eager!Signal(in, gate, FaninOf(n)[k])] = [k \in DOMAIN FaninOf(n) |-> v[FaninOf(n)[k]]]
  BY <1>1
<1>3. Simulated(circuit).fanin[n] = FaninOf(n)
  BY SimulatedFacts
<1>4. QED
  BY <1>2, <1>3 DEF Eager!Output, Gate

\* Nothing has been counted at the start, and all values are 0.
LEMMA MapsInit == Init => Eager!Init
<1>. SUFFICES ASSUME Init PROVE Eager!Init
  OBVIOUS
<1>1. circuit \in Circuits /\ pc = "inputs" /\ cycle = 0
  BY DEF Init
<1>2. Eager!Latches = Latches /\ Eager!Gates = Nodes
  BY SimulatedFacts
<1>3. \A o \in Objects(circuit) : info[o].value = 0 /\ info[o].num_ones = 0 /\ info[o].num_toggles = 0
  BY DEF Init
<1>4. \A o \in Nodes \cup Latches : o \in Objects(circuit)
  BY <1>1, CircuitFacts
<1>5. Phase = "clocked" /\ ~ Settled
  BY <1>1 DEF Phase, Settled
<1>6. QED
  BY <1>1, <1>2, <1>3, <1>4, <1>5 DEF Eager!Init

\* The sweep is the step in which the gates of the synchronous circuit settle.
LEMMA MapsSettle ==
  ASSUME SimInv, LazyInv, evaluate_circuit
  PROVE  Eager!Settle
<1>1. /\ circuit \in Circuits /\ info \in Tables /\ circuit' = circuit /\ cycle' = cycle
      /\ Nodes' = Nodes /\ Latches' = Latches /\ PIs' = PIs
      /\ Progress /\ Defined /\ Fresh /\ Between /\ Still
      /\ pc = "evaluate" /\ pc' = "update"
  BY DEF evaluate_circuit, SimInv, Progress, LazyInv, Nodes, Latches, PIs
<1>2. info' \in Tables /\ \A o \in PIs \cup Latches : info'[o] = info[o]
  BY <1>1, Evaluates
<1>3. Phase = "clocked" /\ Phase' = "settled" /\ Settled'
  BY <1>1 DEF Phase, Settled
<1>4. Eager!Gates = Nodes /\ Simulated(circuit).pis = PIs
  BY SimulatedFacts
<1>5. \A o \in Objects(circuit) : info'[o].value \in Bit
  BY <1>2 DEF Tables, Record
<1>. DEFINE in == [p \in PIs |-> info'[p].value]
            gate == [n \in Nodes |-> info'[n].value]
<1>6. in \in [PIs -> Bit] /\ gate \in [Nodes -> Bit]
  BY <1>1, <1>4, <1>5, CircuitFacts
<1>7. ASSUME NEW n \in Nodes PROVE gate[n] = Eager!Output(in, gate, n)
  <2>. DEFINE v == [o \in Objects(circuit) |-> info'[o].value]
  <2>1. \A o \in Objects(circuit) : v[o] = info'[o].value
    OBVIOUS
  <2>2. \A p \in PIs : in[p] = v[p]
    BY <1>1, CircuitFacts
  <2>3. \A m \in Nodes : gate[m] = v[m]
    BY <1>1, CircuitFacts
  <2>4. \A l \in Latches : info[l].value = v[l]
    BY <1>1, <1>2, CircuitFacts
  <2>6. gate[n] = info'[n].value
    OBVIOUS
  <2>. HIDE DEF v, in, gate
  <2>7. Eager!Output(in, gate, n) = Gate(v, n)
    BY <1>1, <2>2, <2>3, <2>4, OutputIsGate
  <2>8. info'[n].value = Gate(v, n)
    BY <1>1, <2>1, SweepSettles
  <2>9. QED
    BY <2>6, <2>7, <2>8
<1>8. [n \in Nodes |-> info'[n].num_ones] = [n \in Nodes |-> info[n].num_ones + gate[n]]
  BY <1>1, NodeCounts
<1>9. [n \in Nodes |-> info'[n].num_toggles] =
      [n \in Nodes |-> IF cycle > 0 /\ gate[n] # info[n].value THEN info[n].num_toggles + 1 ELSE info[n].num_toggles]
  BY <1>1, NodeCounts
<1>10. [l \in Latches |-> info'[l].value] = [l \in Latches |-> info[l].value]
  BY <1>2
<1>11. /\ (IF Settled THEN [p \in PIs |-> info[p].value] ELSE <<>>)' = in
       /\ [n \in Nodes |-> info[n].value]' = gate
       /\ [n \in Nodes |-> info[n].num_ones]' = [n \in Nodes |-> info[n].num_ones + gate[n]]
       /\ [n \in Nodes |-> info[n].num_toggles]' =
          [n \in Nodes |-> IF cycle > 0 /\ gate[n] # info[n].value THEN info[n].num_toggles + 1 ELSE info[n].num_toggles]
       /\ UNCHANGED [l \in Latches |-> info[l].value]
  BY <1>1, <1>3, <1>8, <1>9, <1>10
<1>. HIDE DEF in, gate
<1>12. /\ [n \in Nodes |-> info[n].num_ones + gate[n]] =
          [n \in Nodes |-> [m \in Nodes |-> info[m].num_ones][n] + gate[n]]
       /\ [n \in Nodes |-> IF cycle > 0 /\ gate[n] # info[n].value THEN info[n].num_toggles + 1 ELSE info[n].num_toggles] =
          [n \in Nodes |-> IF cycle > 0 /\ gate[n] # [m \in Nodes |-> info[m].value][n]
                           THEN [m \in Nodes |-> info[m].num_toggles][n] + 1 ELSE [m \in Nodes |-> info[m].num_toggles][n]]
  OBVIOUS
<1>13. UNCHANGED <<Simulated(circuit), cycle, [l \in Latches |-> info[l].value]>>
  BY <1>1, <1>11
<1>14. Eager!Bit = Bit
  BY DEF Eager!Bit, Bit
<1>15. QED
  BY <1>3, <1>4, <1>6, <1>7, <1>11, <1>12, <1>13, <1>14 DEF Eager!Settle

\* update_FFs is the step in which its latches load.
LEMMA MapsClock ==
  ASSUME SimInv, update_FFs
  PROVE  Eager!Clock
<1>1. /\ circuit \in Circuits /\ info \in Tables /\ circuit' = circuit
      /\ Nodes' = Nodes /\ Latches' = Latches /\ PIs' = PIs
      /\ pc = "update" /\ cycle' = cycle + 1 /\ pc' = IF cycle' < max_cycles THEN "inputs" ELSE "done"
  BY UpdateStep DEF update_FFs, SimInv, Progress, Nodes, Latches, PIs
<1>2. /\ \A o \in PIs \cup Nodes : info'[o] = info[o]
      /\ \A l \in Latches : info'[l] = info[Source(circuit)[l]]
  BY <1>1, Copies, CopiesAtOnce
<1>3. /\ Phase = "settled" /\ Settled /\ ~ Settled'
      /\ Phase' = IF cycle' < max_cycles THEN "clocked" ELSE "done"
  BY <1>1 DEF Phase, Settled
<1>4. Eager!Latches = Latches /\ Simulated(circuit).d = Source(circuit) /\ Simulated(circuit)' = Simulated(circuit)
  BY <1>1, SimulatedFacts
<1>5. ASSUME NEW l \in Latches
      PROVE  info'[l].value = Eager!Signal([p \in PIs |-> info[p].value], [n \in Nodes |-> info[n].value], Source(circuit)[l])
  <2>. DEFINE v == [o \in Objects(circuit) |-> info[o].value]
              in == [p \in PIs |-> info[p].value]
              gate == [n \in Nodes |-> info[n].value]
  <2>1. Source(circuit)[l] \in Objects(circuit) /\ \A o \in Objects(circuit) : v[o] = info[o].value
    BY <1>1, SourceType
  <2>2. /\ \A p \in PIs : in[p] = v[p]
        /\ \A n \in Nodes : gate[n] = v[n]
        /\ \A m \in Latches : info[m].value = v[m]
    BY <1>1, CircuitFacts
  <2>. HIDE DEF v, in, gate
  <2>3. Eager!Signal(in, gate, Source(circuit)[l]) = info[Source(circuit)[l]].value
    BY <1>1, <2>1, <2>2, SignalIsValue
  <2>4. QED
    BY <1>2, <2>3 DEF in, gate
<1>6. QED
  BY <1>1, <1>2, <1>3, <1>4, <1>5 DEF Eager!Clock

\* What is left of a cycle, and its end, are no step of the synchronous circuit.
LEMMA MapsStutter ==
  ASSUME Progress, get_pi_values \/ Probabilities \/ Stopped \/ UNCHANGED vars
  PROVE  UNCHANGED Eager!vars
<1>1. circuit \in Circuits /\ info \in Tables
  BY DEF Progress
<1>2. CASE get_pi_values
  <2>1. /\ pc = "inputs" /\ pc' = "evaluate" /\ UNCHANGED <<circuit, cycle>>
        /\ \A o \in Nodes \cup Latches : info'[o] = info[o]
    BY <1>1, <1>2, PiStep
  <2>2. Nodes' = Nodes /\ Latches' = Latches /\ Phase' = Phase /\ ~ Settled /\ ~ Settled'
    BY <2>1 DEF Nodes, Latches, Phase, Settled
  <2>3. QED
    BY <2>1, <2>2 DEF Eager!vars
<1>3. CASE Probabilities \/ Stopped \/ UNCHANGED vars
  <2>1. /\ UNCHANGED <<circuit, pc, cycle>>
        /\ \A o \in PIs \cup Nodes \cup Latches :
             /\ info'[o].value = info[o].value
             /\ info'[o].num_ones = info[o].num_ones /\ info'[o].num_toggles = info[o].num_toggles
    BY <1>1, <1>3, QuietStep, CircuitFacts
  <2>2. /\ PIs' = PIs /\ Nodes' = Nodes /\ Latches' = Latches /\ Phase' = Phase /\ Settled' = Settled
    BY <2>1 DEF PIs, Nodes, Latches, Phase, Settled
  <2>3. QED
    BY <2>1, <2>2 DEF Eager!vars
<1>4. QED
  BY <1>2, <1>3

\* Every step of the simulation is one of the synchronous circuit, or none.
LEMMA MapsNext ==
  ASSUME SimInv, LazyInv, [Next]_vars
  PROVE  [Eager!Next]_(Eager!vars)
<1>1. Progress
  BY DEF SimInv
<1>2. CASE evaluate_circuit
  BY <1>2, MapsSettle DEF Eager!Next
<1>3. CASE update_FFs
  BY <1>3, MapsClock DEF Eager!Next
<1>4. CASE get_pi_values \/ Probabilities \/ Stopped \/ UNCHANGED vars
  BY <1>1, <1>4, MapsStutter
<1>5. QED
  BY <1>2, <1>3, <1>4 DEF Next

\* The simulation of ace2 implements a synchronous circuit, for any circuits, any inputs
\* and any number of cycles: evaluating a node only when a fanin is new (sim.c:181-238)
\* and copying the latches one by one (sim.c:242-277) give every node and latch the values
\* and the counts it would have if all nodes were evaluated and all latches loaded at once,
\* in the circuit where a latch reads its source and a constant is 0.
THEOREM SimulatesCircuit == Spec => Eager!Spec
<1>1. Init => Eager!Init
  BY MapsInit
<1>2. SimInv /\ LazyInv /\ [Next]_vars => [Eager!Next]_(Eager!vars)
  BY MapsNext
<1>3. Spec => []LazyInv
  BY SimInvariant, LazyInit, LazyNext, PTL DEF Spec
<1>4. QED
  BY <1>1, <1>2, <1>3, SimInvariant, PTL DEF Spec, Eager!Spec

\* That circuit is the one given when no latch is listed after a latch that feeds it and
\* the function of every constant is 0: its latches read what feeds them and its nodes
\* have their own functions.
THEOREM FaithfulCircuits ==
  ASSUME circuit \in Circuits, Faithful(circuit)
  PROVE  /\ \A l \in Latches : Simulated(circuit).d[l] = circuit.d[l]
         /\ \A n \in Nodes : Simulated(circuit).onset[n] = circuit.onset[n]
<1>1. \A l \in Latches : ~ Earlier(circuit, circuit.d[l], l)
  BY DEF Faithful, LatchOrder, Latches
<1>2. \A l \in Latches : Source(circuit)[l] = circuit.d[l]
  BY <1>1, SourceRec
<1>3. \A n \in ConstantsOf(circuit) : circuit.onset[n] \ {Zeros(circuit, n)} = circuit.onset[n]
  BY DEF Faithful, ConstantsZero
<1>4. QED
  BY <1>2, <1>3, SimulatedFacts, OnsetFacts
=============================================================================
