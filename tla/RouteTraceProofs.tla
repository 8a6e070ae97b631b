-------------------------- MODULE RouteTraceProofs --------------------------
(***************************************************************************)
(* Proofs about RouteTrace: the printed file as the concatenation of the   *)
(* lines of the nets, the lists of read_trace_file as chains of cells, and *)
(* the walk of power_routing over them.                                    *)
(***************************************************************************)
EXTENDS RouteTrace, NaturalRecursion, SequenceTheorems

-----------------------------------------------------------------------------
(* The printed file *)

LineKinds == {"header", "net", "global", "renamed", "other", "node"}
Lines == [kind : LineKinds, of : Nets \cup Nodes]

\* The line of the file on which the lines of each net begin, after the header.
LineOf(r) ==
  LET at[n \in 0 .. num_nets] == IF n = 0 THEN 2 ELSE at[n - 1] + Len(NetLines(n - 1, r[n - 1]))
  IN  at

\* What the lines of a net are.
NetBlock(n, kind, t, ls) ==
  /\ ls \in Seq(Lines) /\ Len(ls) \in Nat \ {0}
  /\ t \in Seq(Nodes) /\ kind \in {"routed", "foreign", "global", "local", "renamed"}
  /\ kind \in {"routed", "foreign"} =>
       /\ Len(ls) = Len(t) + 1 /\ ls[1] = [kind |-> "net", of |-> n]
       /\ \A i \in 1 .. Len(t) : ls[i + 1] = [kind |-> "node", of |-> t[i]] /\ t[i] \in Nodes
  /\ kind = "local" =>
       Len(ls) = 2 /\ ls[1] = [kind |-> "net", of |-> n] /\ ls[2] = [kind |-> "other", of |-> n]
  /\ kind = "global" =>
       Len(ls) = 2 /\ ls[1] = [kind |-> "global", of |-> n] /\ ls[2] = [kind |-> "other", of |-> n]
  /\ kind = "renamed" => Len(ls) = 1 /\ ls[1] = [kind |-> "renamed", of |-> n]

\* The lines of a net are a line that names it and then, when it was routed, the
\* nodes of its traceback, or a line of no known kind, or nothing.
LEMMA LinesOfNet ==
  ASSUME NEW r \in Routings, NEW n \in Nets
  PROVE  NetBlock(n, r[n].kind, r[n].trace, NetLines(n, r[n]))
<1>. DEFINE ls == NetLines(n, r[n])
            t  == r[n].trace
<1>1. r[n] \in NetRouting
  BY RoutingsAssumption
<1>2. t \in Seq(Nodes) /\ r[n].kind \in {"routed", "foreign", "global", "local", "renamed"}
  BY <1>1 DEF NetRouting
<1>3. CASE r[n].kind \in {"routed", "foreign"}
  <2>. DEFINE head == <<[kind |-> "net", of |-> n]>>
              body == NodeLines(t)
  <2>1. ls = head \o body
    BY <1>3 DEF NetLines
  <2>2. head \in Seq(Lines) /\ Len(head) = 1 /\ head[1] = [kind |-> "net", of |-> n]
    BY DEF Lines, LineKinds
  <2>3. body \in Seq(Lines) /\ Len(body) = Len(t)
        /\ \A i \in 1 .. Len(t) : body[i] = [kind |-> "node", of |-> t[i]] /\ t[i] \in Nodes
    <3>1. DOMAIN t = 1 .. Len(t) /\ Len(t) \in Nat /\ \A i \in 1 .. Len(t) : t[i] \in Nodes
      BY <1>2
    <3>2. body = [i \in 1 .. Len(t) |-> [kind |-> "node", of |-> t[i]]]
      BY <3>1 DEF NodeLines
    <3>3. \A i \in 1 .. Len(t) : [kind |-> "node", of |-> t[i]] \in Lines
      BY <3>1 DEF Lines, LineKinds
    <3>. HIDE DEF t, body
    <3>4. QED
      BY <3>1, <3>2, <3>3
  <2>. HIDE DEF head, body, ls, t
  <2>4. ls \in Seq(Lines) /\ Len(ls) = Len(t) + 1 /\ ls[1] = head[1]
        /\ \A i \in 1 .. Len(t) : ls[i + 1] = body[i]
    <3>1. /\ head \o body \in Seq(Lines) /\ Len(head \o body) = Len(head) + Len(body)
          /\ \A i \in 1 .. Len(head) + Len(body) :
               (head \o body)[i] = IF i <= Len(head) THEN head[i] ELSE body[i - Len(head)]
      <4>1. head \in Seq(Lines) /\ body \in Seq(Lines)
        BY <2>2, <2>3
      <4>2. QED
        BY ONLY <4>1, ConcatProperties
    <3>2. Len(t) \in Nat
      BY <1>2
    <3>3. ASSUME NEW i \in 1 .. Len(t) PROVE (head \o body)[i + 1] = body[i]
      BY <2>2, <2>3, <3>1, <3>2
    <3>4. QED
      BY <2>1, <2>2, <2>3, <3>1, <3>2, <3>3
  <2>5. QED
    BY <1>2, <1>3, <2>2, <2>3, <2>4 DEF ls, t, NetBlock
<1>4. CASE r[n].kind \in {"local", "global"}
  <2>. DEFINE k == IF r[n].kind = "local" THEN "net" ELSE "global"
  <2>1. ls = <<[kind |-> k, of |-> n], [kind |-> "other", of |-> n]>>
    BY <1>4 DEF NetLines
  <2>2. [kind |-> k, of |-> n] \in Lines /\ [kind |-> "other", of |-> n] \in Lines
    BY DEF Lines, LineKinds
  <2>. HIDE DEF ls
  <2>3. ls \in Seq(Lines) /\ Len(ls) = 2 /\ ls[1] = [kind |-> k, of |-> n] /\ ls[2] = [kind |-> "other", of |-> n]
    BY <2>1, <2>2
  <2>4. QED
    BY <1>2, <1>4, <2>3 DEF ls, NetBlock
<1>5. CASE r[n].kind = "renamed"
  <2>1. ls = <<[kind |-> "renamed", of |-> n]>>
    BY <1>5 DEF NetLines
  <2>2. [kind |-> "renamed", of |-> n] \in Lines
    BY DEF Lines, LineKinds
  <2>. HIDE DEF ls
  <2>3. ls \in Seq(Lines) /\ Len(ls) = 1 /\ ls[1] = [kind |-> "renamed", of |-> n]
    BY <2>1, <2>2
  <2>4. QED
    BY <1>2, <1>5, <2>3 DEF ls, NetBlock
<1>6. QED
  BY <1>2, <1>3, <1>4, <1>5

\* There is a net, and the last one.
LEMMA NetsRange == /\ num_nets \in Nat \ {0} /\ Nets \subseteq Nat /\ 0 \in Nets /\ num_nets - 1 \in Nets
                   /\ \A n \in Nets : n < num_nets /\ n + 1 \in 0 .. num_nets
                   /\ \A n \in Nat : n < num_nets => n \in Nets
BY NetsAssumption DEF Nets

\* The recursion that numbers the lines is well defined.
LEMMA LineOfRec ==
  ASSUME NEW r \in Routings
  PROVE  /\ LineOf(r) \in [0 .. num_nets -> Nat] /\ LineOf(r)[0] = 2
         /\ \A n \in Nets : LineOf(r)[n + 1] = LineOf(r)[n] + Len(NetLines(n, r[n]))
<1>. DEFINE len == [n \in Nat |-> IF n \in Nets THEN Len(NetLines(n, r[n])) ELSE 0]
            step == [n \in Nat |-> [v \in Nat |-> v + len[n]]]
            at == CHOOSE g : g = [n \in 0 .. num_nets |->
                                    IF n = 0 THEN 2 ELSE g[n - 1] + Len(NetLines(n - 1, r[n - 1]))]
<1>1. \A n \in Nets : Len(NetLines(n, r[n])) \in Nat
  BY LinesOfNet DEF NetBlock
<1>2. len \in [Nat -> Nat] /\ \A n \in Nets : len[n] = Len(NetLines(n, r[n]))
  BY <1>1, NetsRange
<1>. HIDE DEF len
<1>3. step \in [Nat -> [Nat -> Nat]] /\ \A n, v \in Nat : step[n][v] = v + len[n]
  BY <1>2
<1>. HIDE DEF step
<1>4. PICK f \in [0 .. num_nets -> Nat] :
        f[0] = 2 /\ \A i \in 0 .. num_nets - 1 : f[i + 1] = step[i][f[i]]
  <2>1. num_nets \in Nat /\ 2 \in Nat /\ step \in Steps(Nat)
    BY <1>3, NetsRange DEF Steps
  <2>2. PICK f : f \in Iterates(Nat, 2, step, num_nets)
    BY <2>1, Iteration
  <2>3. QED
    BY <2>2 DEF Iterates
<1>5. \A n \in 1 .. num_nets : f[n] = f[n - 1] + Len(NetLines(n - 1, r[n - 1]))
  <2>1. SUFFICES ASSUME NEW n \in 1 .. num_nets PROVE f[n] = f[n - 1] + Len(NetLines(n - 1, r[n - 1]))
    OBVIOUS
  <2>2. n - 1 \in Nets /\ n - 1 \in 0 .. num_nets - 1 /\ (n - 1) + 1 = n /\ f[n - 1] \in Nat /\ n - 1 \in Nat
    BY NetsRange
  <2>3. f[n] = step[n - 1][f[n - 1]]
    BY <2>2, <1>4
  <2>4. QED
    BY <2>2, <2>3, <1>3, <1>2
<1>6. f = [n \in 0 .. num_nets |-> IF n = 0 THEN 2 ELSE f[n - 1] + Len(NetLines(n - 1, r[n - 1]))]
  <2>1. \A n \in 0 .. num_nets : n # 0 => n \in 1 .. num_nets
    BY NetsRange
  <2>2. \A n \in 0 .. num_nets : f[n] = IF n = 0 THEN 2 ELSE f[n - 1] + Len(NetLines(n - 1, r[n - 1]))
    BY <2>1, <1>4, <1>5
  <2>3. QED
    BY <2>2
<1>7. at = [n \in 0 .. num_nets |-> IF n = 0 THEN 2 ELSE at[n - 1] + Len(NetLines(n - 1, r[n - 1]))]
  BY <1>6
<1>8. LineOf(r) = at
  BY DEF LineOf
<1>. HIDE DEF at
<1>. DEFINE S == {n \in Nat : n \in 0 .. num_nets => at[n] \in Nat}
<1>9. at[0] = 2 /\ \A n \in Nets : at[n + 1] = at[n] + Len(NetLines(n, r[n]))
  <2>1. \A n \in Nets : n + 1 \in 0 .. num_nets /\ n + 1 # 0 /\ (n + 1) - 1 = n
    BY NetsRange
  <2>2. at[0] = 2
    BY <1>7, NetsRange
  <2>3. ASSUME NEW n \in Nets PROVE at[n + 1] = at[n] + Len(NetLines(n, r[n]))
    <3>1. at[n + 1] = at[(n + 1) - 1] + Len(NetLines((n + 1) - 1, r[(n + 1) - 1]))
      BY <2>1, <1>7
    <3>2. QED
      BY <3>1, <2>1
  <2>4. QED
    BY <2>2, <2>3
<1>10. 0 \in S
  BY <1>9
<1>11. \A n \in Nat : n \in S => n + 1 \in S
  <2>. SUFFICES ASSUME NEW n \in Nat, n \in S, n + 1 \in 0 .. num_nets PROVE at[n + 1] \in Nat
    OBVIOUS
  <2>2. n \in Nets /\ n \in 0 .. num_nets
    BY NetsRange
  <2>3. QED
    BY <2>2, <1>9, <1>1
<1>12. Nat \subseteq S
  <2>. HIDE DEF S
  <2>1. QED
    BY <1>10, <1>11, SetInduction
<1>13. \A n \in 0 .. num_nets : at[n] \in Nat
  BY <1>12, NetsRange
<1>14. at \in [0 .. num_nets -> Nat]
  <2>1. DOMAIN at = 0 .. num_nets
    BY <1>7
  <2>2. at = [n \in 0 .. num_nets |-> at[n]]
    BY <1>7, <2>1
  <2>3. QED
    BY <2>2, <1>13
<1>15. QED
  BY <1>8, <1>9, <1>14

\* The lines of a net come before those of the next, and are one or more.
LEMMA LineOfNet ==
  ASSUME NEW r \in Routings, NEW n \in Nets
  PROVE  /\ LineOf(r)[n] \in Nat /\ LineOf(r)[n + 1] \in Nat /\ Len(NetLines(n, r[n])) \in Nat \ {0}
         /\ LineOf(r)[n + 1] = LineOf(r)[n] + Len(NetLines(n, r[n]))
<1>1. n \in 0 .. num_nets /\ n + 1 \in 0 .. num_nets
  BY NetsRange
<1>2. Len(NetLines(n, r[n])) \in Nat \ {0}
  BY LinesOfNet DEF NetBlock
<1>3. QED
  BY <1>1, <1>2, LineOfRec

\* The header, and the lines of every net of r at their place in the file f.
HoldsNets(f, r, n) ==
  /\ f \in Seq(Lines) /\ Len(f) = LineOf(r)[n + 1] - 1 /\ f[1] = [kind |-> "header", of |-> 0]
  /\ \A m \in 0 .. n :
       /\ LineOf(r)[m] >= 2 /\ LineOf(r)[m + 1] <= LineOf(r)[n + 1]
       /\ \A i \in 1 .. Len(NetLines(m, r[m])) : f[LineOf(r)[m] + i - 1] = NetLines(m, r[m])[i]

\* Appending the lines of the next net.
LEMMA HoldsNextNet ==
  ASSUME NEW r \in Routings, NEW n \in Nets, n + 1 \in Nets, NEW f, HoldsNets(f, r, n)
  PROVE  HoldsNets(f \o NetLines(n + 1, r[n + 1]), r, n + 1)
<1>. DEFINE at == LineOf(r)
            ls == NetLines(n + 1, r[n + 1])
            g == f \o ls
            len(m) == Len(NetLines(m, r[m]))
<1>1. f \in Seq(Lines) /\ Len(f) = at[n + 1] - 1 /\ f[1] = [kind |-> "header", of |-> 0]
  BY DEF HoldsNets
<1>2. n \in Nat /\ at[n + 1] \in Nat /\ len(n + 1) \in Nat \ {0} /\ at[(n + 1) + 1] = at[n + 1] + len(n + 1)
  BY LineOfNet, NetsRange
<1>3. at[n + 1] > 2
  <2>1. n \in 0 .. n
    BY <1>2
  <2>2. at[n] >= 2
    BY <2>1 DEF HoldsNets
  <2>3. QED
    BY <2>2, LineOfNet
<1>4. ls \in Seq(Lines) /\ Len(ls) = len(n + 1)
  BY LinesOfNet DEF NetBlock
<1>. HIDE DEF at, ls, len
<1>5. g \in Seq(Lines) /\ Len(g) = Len(f) + Len(ls)
      /\ \A i \in 1 .. Len(f) + Len(ls) : g[i] = IF i <= Len(f) THEN f[i] ELSE ls[i - Len(f)]
  BY <1>1, <1>4, ConcatProperties
<1>6. /\ \A i \in 1 .. Len(f) : g[i] = f[i]
      /\ \A i \in 1 .. Len(ls) : g[Len(f) + i] = ls[i]
  <2>1. Len(f) \in Nat /\ Len(ls) \in Nat
    BY <1>1, <1>4
  <2>2. ASSUME NEW i \in 1 .. Len(f) PROVE g[i] = f[i]
    BY <2>1, <1>5
  <2>3. ASSUME NEW i \in 1 .. Len(ls) PROVE g[Len(f) + i] = ls[i]
    <3>1. Len(f) + i \in 1 .. Len(f) + Len(ls) /\ ~ (Len(f) + i <= Len(f)) /\ (Len(f) + i) - Len(f) = i
      BY <2>1
    <3>2. QED
      BY <3>1, <1>5
  <2>4. QED
    BY <2>2, <2>3
<1>. HIDE DEF g
<1>7. Len(g) = at[(n + 1) + 1] - 1
  BY <1>1, <1>2, <1>4, <1>5
<1>8. g[1] = [kind |-> "header", of |-> 0]
  <2>1. 1 \in 1 .. Len(f)
    BY <1>1, <1>2, <1>3
  <2>2. QED
    BY <2>1, <1>1, <1>6
<1>9. ASSUME NEW m \in 0 .. n + 1
      PROVE  at[m] >= 2 /\ at[m + 1] <= at[(n + 1) + 1]
             /\ \A i \in 1 .. len(m) : g[at[m] + i - 1] = NetLines(m, r[m])[i]
  <2>1. CASE m = n + 1
    <3>1. ASSUME NEW i \in 1 .. len(n + 1) PROVE g[at[n + 1] + i - 1] = ls[i]
      <4>1. at[n + 1] + i - 1 = Len(f) + i
        BY <1>1, <1>2
      <4>2. QED
        BY <4>1, <1>4, <1>6
    <3>2. QED
      BY <2>1, <3>1, <1>2, <1>3 DEF ls
  <2>2. CASE m \in 0 .. n
    <3>1. m \in Nets
      BY <2>2, NetsRange
    <3>2. at[m] \in Nat /\ at[m + 1] \in Nat /\ len(m) \in Nat /\ at[m + 1] = at[m] + len(m)
      BY <3>1, LineOfNet DEF at, len
    <3>3. at[m] >= 2 /\ at[m + 1] <= at[n + 1]
      BY <2>2 DEF HoldsNets, at, len
    <3>6. \A i \in 1 .. len(m) : f[at[m] + i - 1] = NetLines(m, r[m])[i]
      BY <2>2 DEF HoldsNets, at, len
    <3>4. ASSUME NEW i \in 1 .. len(m) PROVE g[at[m] + i - 1] = f[at[m] + i - 1]
      <4>1. at[m] + i - 1 \in 1 .. at[n + 1] - 1
        BY <3>2, <3>3, <1>2
      <4>2. QED
        BY <4>1, <1>1, <1>6
    <3>5. QED
      BY <3>2, <3>3, <3>4, <3>6, <1>2
  <2>3. QED
    BY <2>1, <2>2, <1>2
<1>10. QED
  BY <1>5, <1>7, <1>8, <1>9 DEF HoldsNets, at, g, ls, len

\* The header, and the lines of the first net.
LEMMA HoldsFirstNet ==
  ASSUME NEW r \in Routings
  PROVE  HoldsNets(<<[kind |-> "header", of |-> 0]>> \o NetLines(0, r[0]), r, 0)
<1>. DEFINE at == LineOf(r)
            head == <<[kind |-> "header", of |-> 0]>>
            ls == NetLines(0, r[0])
            g == head \o ls
<1>1. at[0] = 2 /\ at[0 + 1] = 2 + Len(ls)
  BY LineOfRec, NetsRange
<1>2. ls \in Seq(Lines) /\ Len(ls) \in Nat \ {0}
  BY LinesOfNet, NetsRange DEF NetBlock
<1>3. [kind |-> "header", of |-> 0] \in Lines
  BY NetsRange DEF Lines, LineKinds
<1>4. head \in Seq(Lines) /\ Len(head) = 1 /\ head[1] = [kind |-> "header", of |-> 0]
  BY <1>3
<1>. HIDE DEF at, ls, head
<1>5. g \in Seq(Lines) /\ Len(g) = Len(head) + Len(ls)
      /\ \A i \in 1 .. Len(head) + Len(ls) : g[i] = IF i <= Len(head) THEN head[i] ELSE ls[i - Len(head)]
  BY <1>2, <1>4, ConcatProperties
<1>. HIDE DEF g
<1>6. g \in Seq(Lines) /\ Len(g) = at[0 + 1] - 1 /\ g[1] = [kind |-> "header", of |-> 0]
  BY <1>1, <1>2, <1>4, <1>5
<1>7. \A i \in 1 .. Len(ls) : g[at[0] + i - 1] = ls[i]
  BY <1>1, <1>2, <1>4, <1>5
<1>8. \A m \in 0 .. 0 : m = 0
  OBVIOUS
<1>9. at[0] >= 2 /\ at[0 + 1] <= at[0 + 1]
  BY <1>1, <1>2
<1>10. QED
  BY <1>6, <1>7, <1>8, <1>9 DEF HoldsNets, at, g, ls, head

\* The printed file holds the lines of every net, in the order of the nets, and
\* nothing else (print_route, route_common.c:1265-1365).
LEMMA PrintedFile ==
  ASSUME NEW r \in Routings
  PROVE  HoldsNets(print_route(r), r, num_nets - 1)
<1>. DEFINE head == <<[kind |-> "header", of |-> 0]>>
            first == head \o NetLines(0, r[0])
            step == [n \in Nat |-> [q \in Seq(Lines) |-> IF n + 1 \in Nets THEN q \o NetLines(n + 1, r[n + 1]) ELSE q]]
            upto == CHOOSE g : g = [n \in Nets |-> (IF n = 0 THEN head ELSE g[n - 1]) \o NetLines(n, r[n])]
<1>1. first \in Seq(Lines)
  BY HoldsFirstNet DEF HoldsNets
<1>2. step \in Steps(Seq(Lines))
  <2>1. ASSUME NEW n \in Nat, NEW q \in Seq(Lines), n + 1 \in Nets PROVE q \o NetLines(n + 1, r[n + 1]) \in Seq(Lines)
    <3>1. NetLines(n + 1, r[n + 1]) \in Seq(Lines)
      BY <2>1, LinesOfNet DEF NetBlock
    <3>2. QED
      BY <3>1, ConcatProperties
  <2>2. QED
    BY <2>1 DEF Steps
<1>3. \A n \in Nat, q \in Seq(Lines) : n + 1 \in Nets => step[n][q] = q \o NetLines(n + 1, r[n + 1])
  OBVIOUS
<1>. HIDE DEF step, first
<1>4. num_nets - 1 \in Nat
  BY NetsRange
<1>5. PICK f : f \in Iterates(Seq(Lines), first, step, num_nets - 1)
  BY <1>1, <1>2, <1>4, Iteration
<1>6. f \in [Nets -> Seq(Lines)] /\ f[0] = first
      /\ \A n \in Nat : n + 1 \in Nets => f[n + 1] = f[n] \o NetLines(n + 1, r[n + 1])
  <2>1. f \in [Nets -> Seq(Lines)] /\ f[0] = first /\ \A i \in 0 .. (num_nets - 1) - 1 : f[i + 1] = step[i][f[i]]
    BY <1>5 DEF Iterates, Nets
  <2>2. ASSUME NEW n \in Nat, n + 1 \in Nets PROVE f[n + 1] = f[n] \o NetLines(n + 1, r[n + 1])
    <3>1. n \in Nets /\ n \in 0 .. (num_nets - 1) - 1
      BY <2>2, NetsRange DEF Nets
    <3>2. QED
      BY <3>1, <2>1, <2>2, <1>3
  <2>3. QED
    BY <2>1, <2>2
<1>7. f = [n \in Nets |-> (IF n = 0 THEN head ELSE f[n - 1]) \o NetLines(n, r[n])]
  <2>1. ASSUME NEW n \in Nets PROVE f[n] = (IF n = 0 THEN head ELSE f[n - 1]) \o NetLines(n, r[n])
    <3>1. CASE n = 0
      BY <3>1, <1>6 DEF first
    <3>2. CASE n # 0
      <4>1. n - 1 \in Nat /\ (n - 1) + 1 = n
        BY <3>2, NetsRange
      <4>2. f[(n - 1) + 1] = f[n - 1] \o NetLines((n - 1) + 1, r[(n - 1) + 1])
        BY <4>1, <1>6
      <4>3. QED
        BY <3>2, <4>1, <4>2
    <3>3. QED
      BY <3>1, <3>2
  <2>. HIDE DEF head
  <2>2. QED
    BY <2>1, <1>6
<1>8. upto = [n \in Nets |-> (IF n = 0 THEN head ELSE upto[n - 1]) \o NetLines(n, r[n])]
  BY <1>7
<1>9. print_route(r) = upto[num_nets - 1]
  BY DEF print_route
<1>. HIDE DEF upto
<1>. DEFINE T == {n \in Nat : n \in Nets => HoldsNets(upto[n], r, n)}
<1>10. 0 \in T
  <2>1. upto[0] = head \o NetLines(0, r[0])
    BY <1>8, NetsRange
  <2>2. QED
    BY <2>1, HoldsFirstNet
<1>11. \A n \in Nat : n \in T => n + 1 \in T
  <2>. SUFFICES ASSUME NEW n \in Nat, n \in T, n + 1 \in Nets PROVE HoldsNets(upto[n + 1], r, n + 1)
    OBVIOUS
  <2>1. n \in Nets /\ (n + 1) - 1 = n /\ n + 1 # 0
    BY NetsRange
  <2>2. upto[n + 1] = upto[n] \o NetLines(n + 1, r[n + 1])
    BY <1>8, <2>1
  <2>3. QED
    BY <2>1, <2>2, HoldsNextNet
<1>12. Nat \subseteq T
  <2>. HIDE DEF T
  <2>1. QED
    BY <1>10, <1>11, SetInduction
<1>13. HoldsNets(upto[num_nets - 1], r, num_nets - 1)
  BY <1>12, NetsRange
<1>14. QED
  BY <1>9, <1>13

\* What is left of the printed file: the first lines of it.
LEMMA FileLines ==
  ASSUME NEW r \in Routings, NEW f \in FilesOf(r)
  PROVE  /\ f \in Seq(Lines) /\ Len(f) \in Nat /\ DOMAIN f = 1 .. Len(f)
         /\ 1 \in DOMAIN f => f[1] = [kind |-> "header", of |-> 0]
         /\ \A n \in Nets : \A i \in 1 .. Len(NetLines(n, r[n])) :
              LineOf(r)[n] + i - 1 \in DOMAIN f => f[LineOf(r)[n] + i - 1] = NetLines(n, r[n])[i]
         /\ Len(f) <= LineOf(r)[num_nets] - 1
         /\ f = print_route(r) => Len(f) = LineOf(r)[num_nets] - 1
<1>. DEFINE p == print_route(r)
<1>1. HoldsNets(p, r, num_nets - 1)
  BY PrintedFile
<1>2. num_nets - 1 + 1 = num_nets /\ \A n \in Nets : n \in 0 .. num_nets - 1
  BY NetsRange DEF Nets
<1>3. p \in Seq(Lines) /\ Len(p) = LineOf(r)[num_nets] - 1 /\ p[1] = [kind |-> "header", of |-> 0]
  BY <1>1, <1>2 DEF HoldsNets
<1>4. \A n \in Nets : \A i \in 1 .. Len(NetLines(n, r[n])) : p[LineOf(r)[n] + i - 1] = NetLines(n, r[n])[i]
  BY <1>1, <1>2 DEF HoldsNets
<1>5. Len(p) \in Nat /\ DOMAIN p = 1 .. Len(p)
  BY <1>3
<1>6. f \in Seq(Lines) /\ Len(f) \in Nat /\ Len(f) <= Len(p) /\ DOMAIN f = 1 .. Len(f)
      /\ \A l \in DOMAIN f : f[l] = p[l]
  <2>1. CASE f = p
    BY <2>1, <1>3, <1>5
  <2>2. CASE \E k \in 0 .. Len(p) : f = SubSeq(p, 1, k)
    <3>1. PICK k \in 0 .. Len(p) : f = SubSeq(p, 1, k)
      BY <2>2
    <3>. HIDE DEF p
    <3>2. k \in Nat /\ k <= Len(p)
      BY <1>5
    <3>3. \A i \in 1 .. k : i \in 1 .. Len(p) /\ p[i] \in Lines
      BY <3>2, <1>3, <1>5
    <3>4. f = [i \in 1 .. k |-> p[i]]
      BY <3>1, <3>2, <1>3
    <3>5. QED
      BY <3>2, <3>3, <3>4
  <2>3. QED
    BY <2>1, <2>2 DEF FilesOf
<1>. HIDE DEF p
<1>7. QED
  BY <1>3, <1>4, <1>6 DEF p

-----------------------------------------------------------------------------
(* The inductive invariant: the types *)

Cell == [index : Nodes \cup {Garbage}, iswitch : Nat \cup {OPEN, Garbage}, next : Nat \cup {Garbage}]

\* The types, with the shape of the cells and of the functions.
Typed ==
  /\ routing \in Routings /\ file \in FilesOf(routing)
  /\ pc \in Final \cup {"header", "line", "walk"} /\ linenum \in 1 .. Len(file) + 1
  /\ heap \in Seq(Cell) /\ \A c \in Cells : heap[c].next \in Pointers
  /\ freed \subseteq Cells
  /\ trace_head \in [Nets -> Pointers] /\ trace_tail \in [Nets -> Pointers]
  /\ cur_net \in Nets \cup {OPEN} /\ skip_cur_net \in BOOLEAN
  /\ trace \in Pointers /\ next \in {Garbage} \cup Cells /\ cell \in Pointers
  /\ net_idx \in Nets
  /\ net_num \in [Nodes -> Nets \cup {OPEN}] /\ chan_driven_by_chan \subseteq Nodes

(* The place of the reader in the file *)

Kind(n) == routing[n].kind
At(n)   == LineOf(routing)[n]
Size(n) == Len(NetLines(n, routing[n]))

Unread(n) == trace_head[n] = Garbage /\ trace_tail[n] = Garbage

Blank ==
  /\ heap = <<>> /\ freed = {} /\ cur_net = OPEN /\ skip_cur_net = FALSE
  /\ trace = Garbage /\ next = Garbage /\ \A n \in Nets : Unread(n)

\* The current cell is the last one allocated and leads nowhere; after the line of
\* no known kind of a net it is the last cell of an earlier list.
OnCell(n, i) ==
  IF Kind(n) = "local" /\ i = 2 THEN next = trace /\ heap[trace].next = NULL
  ELSE trace = Len(heap) /\ heap[trace].next = Garbage /\ (i = 1 => trace_head[n] = trace /\ next # trace)

\* The first i lines of the net n were read.
Reads(n, i) ==
  /\ linenum = At(n) + i
  /\ trace \in Cells /\ Kind(n) # "renamed"
  /\ \A m \in Nets : m > n => Unread(m)
  /\ IF Kind(n) = "global" THEN cur_net = OPEN /\ skip_cur_net = TRUE /\ next # trace
     ELSE cur_net = n /\ skip_cur_net = FALSE /\ trace_head[n] \in Cells /\ trace_tail[n] = Garbage /\ OnCell(n, i)

Place ==
  /\ pc = "header" => linenum = 1 /\ Blank
  /\ pc = "line" => (linenum = 2 /\ Blank) \/ \E n \in Nets : \E i \in 1 .. Size(n) : Reads(n, i)

(* The links *)

\* A link leads to the next cell allocated, unless it is that of a net which never
\* left its block.
LinkOK(c) ==
  /\ heap[c].next \notin freed /\ heap[heap[c].next].index \in Nodes
  /\ \/ heap[c].next = c + 1 /\ \A m \in Nets : trace_head[m] # c + 1
     \/ \E m \in Nets : Kind(m) = "local" /\ trace_head[m] = c

Linked ==
  /\ \A n \in Nets : trace_head[n] \in Cells =>
       trace_head[n] \notin freed /\ \A m \in Nets : trace_head[m] = trace_head[n] => m = n
  /\ \A c \in Cells : heap[c].next \in Cells => LinkOK(c)
  /\ next \in Cells => next \notin freed /\ heap[next].index \in Nodes
  /\ pc = "line" /\ next \in Cells => next = trace \/ heap[next].next = NULL

\* Only the current cell still leads to garbage.
Ended ==
  /\ pc \in {"line", "walk"} =>
       \A c \in Cells \ freed : heap[c].next = Garbage => pc = "line" /\ c = trace /\ cur_net # OPEN
  /\ pc = "walk" => cell \notin freed

ListInv == Typed /\ Place /\ Linked /\ Ended

-----------------------------------------------------------------------------
(* The heap *)

\* A cell with another next, with another switch and next, and with another node.
LEMMA CellClosed ==
  ASSUME NEW x \in Cell, NEW v \in Nat \cup {Garbage}
  PROVE  LET y == [x EXCEPT !.next = v]
         IN  y \in Cell /\ y.index = x.index /\ y.iswitch = x.iswitch /\ y.next = v /\ (x.next = v => y = x)
BY DEF Cell

\* The cell a SOURCE or a node line fills and leads on keeps its node.
LEMMA CellLinked ==
  ASSUME NEW x \in Cell, NEW s, NEW v
  PROVE  [[x EXCEPT !.iswitch = s] EXCEPT !.next = v] = [index |-> x.index, iswitch |-> s, next |-> v]
<1>1. PICK i, w, n : x = [index |-> i, iswitch |-> w, next |-> n]
  BY DEF Cell
<1>2. [x EXCEPT !.iswitch = s] = [index |-> i, iswitch |-> s, next |-> n]
  BY <1>1
<1>3. [[index |-> i, iswitch |-> s, next |-> n] EXCEPT !.next = v] = [index |-> i, iswitch |-> s, next |-> v]
  OBVIOUS
<1>4. x.index = i
  BY <1>1
<1>5. QED
  BY <1>2, <1>3, <1>4

\* The cell that is given its node keeps its switch and its link.
LEMMA CellNamed ==
  ASSUME NEW x \in Cell, NEW n \in Nodes
  PROVE  LET y == [x EXCEPT !.index = n]
         IN  y \in Cell /\ y.index = n /\ y.iswitch = x.iswitch /\ y.next = x.next
BY DEF Cell

\* Allocating a cell.
LEMMA HeapAppend ==
  ASSUME NEW h \in Seq(Cell), NEW x \in Cell
  PROVE  /\ Append(h, x) \in Seq(Cell) /\ Len(Append(h, x)) = Len(h) + 1
         /\ \A c \in 1 .. Len(h) : Append(h, x)[c] = h[c]
         /\ Append(h, x)[Len(h) + 1] = x
<1>1. Len(h) \in Nat
  OBVIOUS
<1>2. QED
  BY <1>1, AppendProperties

\* Writing a cell.
LEMMA HeapWrite ==
  ASSUME NEW h \in Seq(Cell), NEW c \in 1 .. Len(h), NEW x \in Cell
  PROVE  /\ [h EXCEPT ![c] = x] \in Seq(Cell) /\ Len([h EXCEPT ![c] = x]) = Len(h)
         /\ [h EXCEPT ![c] = x][c] = x /\ \A d \in 1 .. Len(h) : d # c => [h EXCEPT ![c] = x][d] = h[d]
BY ExceptSeq

\* A cell of the heap.
LEMMA CellTyped ==
  ASSUME NEW h \in Seq(Cell), NEW c \in 1 .. Len(h)
  PROVE  /\ h[c] \in Cell /\ h[c].index \in Nodes \cup {Garbage} /\ h[c].iswitch \in Nat \cup {OPEN, Garbage}
         /\ h[c].next \in Nat \cup {Garbage}
<1>1. h[c] \in Cell
  BY ElementOfSeq
<1>2. QED
  BY <1>1 DEF Cell

\* A list is closed by one write, of a cell that led nowhere or was closed.
LEMMA ClosingHeap ==
  ASSUME Typed, Place, pc = "line"
  PROVE  /\ ClosedHeap \in Seq(Cell) /\ Len(ClosedHeap) = Len(heap)
         /\ \A c \in Cells : /\ ClosedHeap[c].index = heap[c].index /\ ClosedHeap[c].iswitch = heap[c].iswitch
                             /\ ClosedHeap[c].next = IF cur_net # OPEN /\ c = trace THEN NULL ELSE heap[c].next
                             /\ heap[c].next # Garbage => ClosedHeap[c] = heap[c]
         /\ cur_net # OPEN => trace \in Cells /\ heap[trace].next \in {Garbage, NULL}
<1>1. heap \in Seq(Cell)
  BY DEF Typed
<1>2. CASE cur_net = OPEN
  BY <1>1, <1>2 DEF ClosedHeap
<1>3. CASE cur_net # OPEN
  <2>0. PICK n \in Nets : \E i \in 1 .. Size(n) : Reads(n, i)
    BY <1>3 DEF Place, Blank
  <2>1. PICK i \in 1 .. Size(n) : Reads(n, i)
    BY <2>0
  <2>2. trace \in Cells /\ heap[trace].next \in {Garbage, NULL}
    BY <1>3, <2>1 DEF Reads, OnCell
  <2>. DEFINE x == [heap[trace] EXCEPT !.next = NULL]
  <2>3. heap[trace] \in Cell
    BY <1>1, <2>2, CellTyped DEF Cells
  <2>4. x \in Cell /\ x.index = heap[trace].index /\ x.iswitch = heap[trace].iswitch /\ x.next = NULL
        /\ (heap[trace].next = NULL => x = heap[trace])
    BY <2>3, CellClosed DEF NULL
  <2>5. ClosedHeap = [heap EXCEPT ![trace] = x]
    BY <1>3 DEF ClosedHeap
  <2>. HIDE DEF x
  <2>6. /\ ClosedHeap \in Seq(Cell) /\ Len(ClosedHeap) = Len(heap)
        /\ ClosedHeap[trace] = x /\ \A d \in Cells : d # trace => ClosedHeap[d] = heap[d]
    BY <1>1, <2>2, <2>4, <2>5, HeapWrite DEF Cells
  <2>7. QED
    BY <1>3, <2>2, <2>4, <2>6
<1>4. QED
  BY <1>2, <1>3

\* The line to be read is the first of a net, and nothing is known of the nets from it on.
Begins(n) == linenum = At(n) /\ \A m \in Nets : m >= n => Unread(m)

\* After the line read comes the next of the same net or the first of the next one.
LEMMA NextPlace ==
  ASSUME Typed, Place, pc = "line", linenum \in DOMAIN file
  PROVE  \/ \E n \in Nets : Begins(n) /\ TheLine = NetLines(n, routing[n])[1]
         \/ \E n \in Nets : \E i \in 1 .. Size(n) - 1 : Reads(n, i) /\ TheLine = NetLines(n, routing[n])[i + 1]
<1>. USE DEF At, Size
<1>1. routing \in Routings /\ file \in FilesOf(routing) /\ linenum \in Nat
  BY DEF Typed
<1>2. ASSUME NEW n \in Nets, Begins(n) PROVE TheLine = NetLines(n, routing[n])[1]
  <2>1. At(n) + 1 - 1 = At(n) /\ 1 \in 1 .. Size(n)
    BY <1>1, LineOfNet
  <2>2. file[At(n) + 1 - 1] = NetLines(n, routing[n])[1]
    BY <1>1, <1>2, <2>1, FileLines DEF Begins
  <2>3. QED
    BY <1>2, <2>1, <2>2 DEF Begins, TheLine
<1>3. ASSUME NEW n \in Nets, NEW i \in 1 .. Size(n) - 1, Reads(n, i)
      PROVE  TheLine = NetLines(n, routing[n])[i + 1]
  <2>1. At(n) \in Nat /\ Size(n) \in Nat
    BY <1>1, LineOfNet
  <2>2. i + 1 \in 1 .. Size(n) /\ linenum = At(n) + (i + 1) - 1
    BY <1>3, <2>1 DEF Reads
  <2>3. QED
    BY <1>1, <2>2, FileLines DEF TheLine
<1>4. CASE linenum = 2 /\ Blank
  <2>1. Begins(0)
    BY <1>1, <1>4, LineOfRec DEF Begins, Blank
  <2>2. QED
    BY <2>1, <1>2, NetsRange
<1>5. ASSUME NEW n \in Nets, NEW i \in 1 .. Size(n), Reads(n, i)
      PROVE  \/ \E m \in Nets : Begins(m)
             \/ i \in 1 .. Size(n) - 1
  <2>1. At(n) \in Nat /\ Size(n) \in Nat /\ At(n + 1) \in Nat /\ At(n + 1) = At(n) + Size(n) /\ n \in Nat
    BY <1>1, LineOfNet, NetsRange
  <2>2. CASE i = Size(n)
    <3>1. linenum = At(n + 1)
      BY <1>5, <2>1, <2>2 DEF Reads
    <3>2. linenum <= Len(file) /\ Len(file) <= At(num_nets) - 1 /\ Len(file) \in Nat
      BY <1>1, FileLines
    <3>3. n + 1 # num_nets
      <4>1. n + 1 = num_nets => At(n + 1) = At(num_nets)
        OBVIOUS
      <4>2. At(num_nets) \in Nat
        BY <1>1, LineOfRec, NetsRange
      <4>. HIDE DEF At, Size
      <4>3. QED
        BY <2>1, <3>1, <3>2, <4>1, <4>2
    <3>4. n + 1 \in Nets
      BY <2>1, <3>3, NetsRange
    <3>5. \A m \in Nets : m >= n + 1 => Unread(m)
      BY <1>5, <2>1, NetsRange DEF Reads
    <3>6. QED
      BY <3>1, <3>4, <3>5 DEF Begins
  <2>3. QED
    BY <2>1, <2>2
<1>6. QED
  BY <1>2, <1>3, <1>4, <1>5 DEF Place

\* The lines of a net by its kind.
LEMMA KindOfNet ==
  ASSUME routing \in Routings, NEW n \in Nets
  PROVE  /\ Kind(n) \in {"routed", "foreign", "global", "local", "renamed"}
         /\ At(n) \in Nat /\ Size(n) \in Nat \ {0} /\ At(n + 1) = At(n) + Size(n)
         /\ routing[n].trace \in Seq(Nodes) /\ Len(routing[n].trace) \in Nat
         /\ Kind(n) \in {"routed", "foreign"} => Size(n) = Len(routing[n].trace) + 1
         /\ Kind(n) \in {"local", "global"} => Size(n) = 2
         /\ Kind(n) = "renamed" => Size(n) = 1
<1>1. NetBlock(n, Kind(n), routing[n].trace, NetLines(n, routing[n]))
  BY LinesOfNet DEF Kind
<1>2. At(n) \in Nat /\ At(n + 1) = At(n) + Size(n)
  BY LineOfNet DEF At, Size
<1>. HIDE DEF Kind
<1>3. QED
  BY <1>1, <1>2 DEF NetBlock, Size

\* The first line of a net names it and its kind.
LEMMA FirstLineKind ==
  ASSUME routing \in Routings, NEW n \in Nets
  PROVE  LET l == NetLines(n, routing[n])[1]
         IN  /\ l.of = n /\ l.kind \in {"net", "global", "renamed"}
             /\ l.kind = "net" <=> Kind(n) \in {"routed", "foreign", "local"}
             /\ l.kind = "global" <=> Kind(n) = "global"
<1>1. NetBlock(n, Kind(n), routing[n].trace, NetLines(n, routing[n]))
  BY LinesOfNet DEF Kind
<1>. HIDE DEF Kind
<1>2. QED
  BY <1>1 DEF NetBlock

\* The lines after it are the nodes of its traceback, or one of no known kind.
LEMMA OtherLineKind ==
  ASSUME routing \in Routings, NEW n \in Nets, NEW i \in 1 .. Size(n) - 1
  PROVE  LET l == NetLines(n, routing[n])[i + 1]
         IN  \/ /\ l.kind = "node" /\ Kind(n) \in {"routed", "foreign"} /\ i \in 1 .. Len(routing[n].trace)
                /\ l.of = routing[n].trace[i] /\ l.of \in Nodes
             \/ l.kind = "other" /\ Kind(n) \in {"local", "global"} /\ i = 1
<1>1. NetBlock(n, Kind(n), routing[n].trace, NetLines(n, routing[n]))
  BY LinesOfNet DEF Kind
<1>2. CASE Kind(n) \in {"routed", "foreign"}
  <2>1. i \in 1 .. Len(routing[n].trace)
    BY <1>2, KindOfNet
  <2>2. \A k \in 1 .. Len(routing[n].trace) :
          NetLines(n, routing[n])[k + 1] = [kind |-> "node", of |-> routing[n].trace[k]] /\ routing[n].trace[k] \in Nodes
    BY <1>1, <1>2 DEF NetBlock
  <2>3. NetLines(n, routing[n])[i + 1] = [kind |-> "node", of |-> routing[n].trace[i]] /\ routing[n].trace[i] \in Nodes
    BY <2>1, <2>2
  <2>4. QED
    BY <1>2, <2>1, <2>3
<1>3. CASE Kind(n) \in {"local", "global"}
  <2>1. i = 1
    BY <1>3, KindOfNet
  <2>2. NetLines(n, routing[n])[2] = [kind |-> "other", of |-> n]
    BY <1>1, <1>3 DEF NetBlock
  <2>3. QED
    BY <1>3, <2>1, <2>2
<1>4. QED
  BY <1>2, <1>3, KindOfNet

\* The lines that begin a net, read by their keyword.
LEMMA FirstOfNet ==
  ASSUME Typed, Place, pc = "line", linenum \in DOMAIN file, TheLine.kind \in {"net", "global", "renamed"}
  PROVE  \E n \in Nets : /\ Begins(n) /\ TheLine.of = n
                         /\ TheLine.kind = "net" <=> Kind(n) \in {"routed", "foreign", "local"}
                         /\ TheLine.kind = "global" <=> Kind(n) = "global"
<1>1. routing \in Routings
  BY DEF Typed
<1>2. PICK n \in Nets : Begins(n) /\ TheLine = NetLines(n, routing[n])[1]
  BY <1>1, NextPlace, OtherLineKind
<1>3. QED
  BY <1>1, <1>2, FirstLineKind

\* The other lines, read by their keyword: a node of the traceback of a net, or the
\* second line of a net that was not routed.
LEMMA RestOfNet ==
  ASSUME Typed, Place, pc = "line", linenum \in DOMAIN file, TheLine.kind \in {"node", "other"}
  PROVE  \E n \in Nets : \E i \in 1 .. Size(n) - 1 :
           /\ Reads(n, i)
           /\ TheLine.kind = "node" => /\ Kind(n) \in {"routed", "foreign"}
                                       /\ i \in 1 .. Len(routing[n].trace) /\ TheLine.of = routing[n].trace[i]
                                       /\ TheLine.of \in Nodes
           /\ TheLine.kind = "other" => Kind(n) \in {"local", "global"} /\ i = 1
<1>1. routing \in Routings
  BY DEF Typed
<1>2. PICK n \in Nets : \E i \in 1 .. Size(n) - 1 : Reads(n, i) /\ TheLine = NetLines(n, routing[n])[i + 1]
  BY <1>1, NextPlace, FirstLineKind
<1>3. PICK i \in 1 .. Size(n) - 1 : Reads(n, i) /\ TheLine = NetLines(n, routing[n])[i + 1]
  BY <1>2
<1>4. QED
  BY <1>1, <1>3, OtherLineKind

-----------------------------------------------------------------------------
(* What the actions do to the heap *)

\* A line that begins a net closes the list before it and allocates a cell.
LEMMA FirstLineHeap ==
  ASSUME Typed, Place, NetLine \/ GlobalLine
  PROVE  /\ pc = "line" /\ linenum \in DOMAIN file /\ TheLine.kind \in {"net", "global"}
         /\ heap' \in Seq(Cell) /\ Len(heap') = Len(heap) + 1
         /\ \A c \in Cells : heap'[c] = ClosedHeap[c]
         /\ heap'[NewCell].next = Garbage /\ heap'[NewCell].index = Garbage
<1>. DEFINE x == [index |-> Garbage, iswitch |-> Garbage, next |-> Garbage]
<1>1. pc = "line" /\ linenum \in DOMAIN file /\ TheLine.kind \in {"net", "global"} /\ heap' = Append(ClosedHeap, x)
  BY DEF NetLine, GlobalLine, AtLine
<1>2. x \in Cell
  BY DEF Cell
<1>3. ClosedHeap \in Seq(Cell) /\ Len(ClosedHeap) = Len(heap)
  BY <1>1, ClosingHeap
<1>4. x.next = Garbage /\ x.index = Garbage
  OBVIOUS
<1>. HIDE DEF x
<1>5. QED
  BY <1>1, <1>2, <1>3, <1>4, HeapAppend DEF Cells, NewCell

\* The switch found from a cell.
LEMMA SwitchFound ==
  ASSUME NEW h \in Seq(Cell), trace \in 1 .. Len(h), NEW to \in 1 .. Len(h), NEW s \in SwitchesTo(h, to)
  PROVE  /\ s \in Nat \cup {OPEN}
         /\ h[trace].index \in Nodes =>
              s = IF <<h[trace].index, h[to].index>> \in Edges THEN Switch[<<h[trace].index, h[to].index>>] ELSE OPEN
<1>1. \A e \in Edges : Switch[e] \in Nat
  BY GraphAssumption
<1>2. h[trace].index \in Nodes => h[trace].index # Garbage
  BY GraphAssumption
<1>3. QED
  BY <1>1, <1>2 DEF SwitchesTo

\* The line of a node allocates its cell and links it to the current one.
LEMMA NodeLineHeap ==
  ASSUME Typed, Place, NodeLine
  PROVE  \/ Stop("exit")
         \/ /\ heap' \in Seq(Cell) /\ Len(heap') = Len(heap) + 1
            /\ \A c \in Cells : c # trace => heap'[c] = heap[c]
            /\ trace \in Cells /\ heap'[trace].index = heap[trace].index /\ heap'[trace].next = NewCell
            /\ heap[trace].index \in Nodes =>
                 LET edge == <<heap[trace].index, TheLine.of>> IN
                 /\ heap'[trace].iswitch = IF edge \in Edges THEN Switch[edge] ELSE OPEN
                 /\ edge \notin Edges => prev_rr_type = "SINK"
            /\ heap'[NewCell].next = Garbage /\ heap'[NewCell].index = TheLine.of
            /\ trace' = NewCell /\ next' = NewCell
            /\ rr_type' = RRType[TheLine.of] /\ prev_rr_type' = RRType[TheLine.of]
            /\ linenum' = linenum + 1
            /\ UNCHANGED <<input, pc, walk, marks, estimate, freed, lists, cur_net, skip_cur_net>>
<1>1. pc = "line" /\ linenum \in DOMAIN file /\ TheLine.kind = "node"
      /\ LinkTo(Malloc(TheLine.of), NewCell, RRType[TheLine.of])
  BY DEF NodeLine, AtLine
<1>2. PICK n \in Nets : \E i \in 1 .. Size(n) - 1 : Reads(n, i) /\ TheLine.of \in Nodes
  BY <1>1, RestOfNet
<1>3. trace \in Cells /\ TheLine.of \in Nodes
  BY <1>2 DEF Reads
<1>. DEFINE h == Malloc(TheLine.of)
            x == [index |-> TheLine.of, iswitch |-> IF RRType[TheLine.of] = "SINK" THEN OPEN ELSE Garbage, next |-> Garbage]
<1>4. x \in Cell /\ x.index = TheLine.of /\ x.next = Garbage
  BY <1>3 DEF Cell
<1>5. heap \in Seq(Cell) /\ Len(heap) \in Nat
  BY DEF Typed
<1>6. h = Append(heap, x)
  BY DEF Malloc
<1>. HIDE DEF x, h
<1>7. h \in Seq(Cell) /\ Len(h) = Len(heap) + 1 /\ h[NewCell] = x /\ \A c \in Cells : h[c] = heap[c]
  BY <1>4, <1>5, <1>6, HeapAppend DEF NewCell, Cells
<1>8. SUFFICES ASSUME ~ Stop("exit")
               PROVE  /\ heap' \in Seq(Cell) /\ Len(heap') = Len(heap) + 1
                      /\ \A c \in Cells : c # trace => heap'[c] = heap[c]
                      /\ trace \in Cells /\ heap'[trace].index = heap[trace].index /\ heap'[trace].next = NewCell
                      /\ heap[trace].index \in Nodes =>
                           LET edge == <<heap[trace].index, TheLine.of>> IN
                           /\ heap'[trace].iswitch = IF edge \in Edges THEN Switch[edge] ELSE OPEN
                           /\ edge \notin Edges => prev_rr_type = "SINK"
                      /\ heap'[NewCell].next = Garbage /\ heap'[NewCell].index = TheLine.of
                      /\ trace' = NewCell /\ next' = NewCell
                      /\ rr_type' = RRType[TheLine.of] /\ prev_rr_type' = RRType[TheLine.of]
                      /\ linenum' = linenum + 1
                      /\ UNCHANGED <<input, pc, walk, marks, estimate, freed, lists, cur_net, skip_cur_net>>
  OBVIOUS
<1>9. PICK s \in SwitchesTo(h, NewCell) :
        /\ ~ Unlinked(s)
        /\ heap' = [h EXCEPT ![trace].iswitch = s, ![trace].next = NewCell]
        /\ trace' = NewCell /\ next' = NewCell
        /\ rr_type' = RRType[TheLine.of] /\ prev_rr_type' = RRType[TheLine.of]
        /\ NextLine /\ UNCHANGED <<freed, lists, cur_net, skip_cur_net>>
  BY <1>1, <1>8 DEF LinkTo, h
<1>10. trace \in 1 .. Len(h) /\ NewCell \in 1 .. Len(h) /\ trace # NewCell /\ NewCell \in Nat
  BY <1>3, <1>5, <1>7 DEF Cells, NewCell
<1>11. /\ s \in Nat \cup {OPEN}
       /\ h[trace].index \in Nodes =>
            s = IF <<h[trace].index, TheLine.of>> \in Edges THEN Switch[<<h[trace].index, TheLine.of>>] ELSE OPEN
  BY <1>4, <1>7, <1>9, <1>10, SwitchFound
<1>. DEFINE y == [index |-> h[trace].index, iswitch |-> s, next |-> NewCell]
<1>12. h[trace] \in Cell
  BY <1>7, <1>10, CellTyped
<1>13. y \in Cell /\ y.index = h[trace].index /\ y.iswitch = s /\ y.next = NewCell
  <2>1. h[trace].index \in Nodes \cup {Garbage}
    BY <1>7, <1>10, CellTyped
  <2>2. QED
    BY <2>1, <1>10, <1>11 DEF Cell
<1>14. heap' = [h EXCEPT ![trace] = y]
  <2>1. [[h[trace] EXCEPT !.iswitch = s] EXCEPT !.next = NewCell] = y
    BY <1>12, CellLinked
  <2>2. heap' = [h EXCEPT ![trace] = [[h[trace] EXCEPT !.iswitch = s] EXCEPT !.next = NewCell]]
    BY <1>7, <1>9, <1>10
  <2>. HIDE DEF y
  <2>3. QED
    BY <2>1, <2>2
<1>. HIDE DEF y
<1>15. heap' \in Seq(Cell) /\ Len(heap') = Len(h) /\ heap'[trace] = y
       /\ \A d \in 1 .. Len(h) : d # trace => heap'[d] = h[d]
  BY <1>7, <1>10, <1>13, <1>14, HeapWrite
<1>16. /\ \A c \in Cells : c # trace => heap'[c] = heap[c]
       /\ heap'[NewCell].next = Garbage /\ heap'[NewCell].index = TheLine.of
  BY <1>4, <1>5, <1>7, <1>10, <1>15 DEF Cells
<1>17. h[trace] = heap[trace]
  BY <1>3, <1>7
<1>18. heap[trace].index \in Nodes =>
         LET edge == <<heap[trace].index, TheLine.of>> IN
         /\ heap'[trace].iswitch = IF edge \in Edges THEN Switch[edge] ELSE OPEN
         /\ edge \notin Edges => prev_rr_type = "SINK"
  BY <1>9, <1>11, <1>13, <1>15, <1>17 DEF Unlinked
<1>19. QED
  BY <1>3, <1>7, <1>9, <1>13, <1>15, <1>16, <1>17, <1>18 DEF NextLine

\* The line of no known kind of a net links the current cell to the last of an earlier list.
LEMMA OtherLineHeap ==
  ASSUME Typed, Place, OtherLine
  PROVE  \/ Stop("exit") \/ Stop("corrupt")
         \/ /\ heap' \in Seq(Cell) /\ Len(heap') = Len(heap)
            /\ \A c \in Cells : c # trace => heap'[c] = heap[c]
            /\ trace \in Cells /\ heap'[trace].index = heap[trace].index /\ heap'[trace].next = next
            /\ next \in Cells /\ trace' = next /\ next' = next
            /\ linenum' = linenum + 1
            /\ UNCHANGED <<input, pc, walk, marks, estimate, freed, lists, cur_net, skip_cur_net>>
<1>1. pc = "line" /\ linenum \in DOMAIN file /\ TheLine.kind = "other"
  BY DEF OtherLine, AtLine
<1>2. PICK n \in Nets : \E i \in 1 .. Size(n) - 1 : Reads(n, i)
  BY <1>1, RestOfNet
<1>3. trace \in Cells
  BY <1>2 DEF Reads
<1>4. heap \in Seq(Cell) /\ Len(heap) \in Nat /\ next \in {Garbage} \cup Cells
  BY DEF Typed
<1>5. SUFFICES ASSUME ~ Stop("exit"), ~ Stop("corrupt")
               PROVE  /\ heap' \in Seq(Cell) /\ Len(heap') = Len(heap)
                      /\ \A c \in Cells : c # trace => heap'[c] = heap[c]
                      /\ trace \in Cells /\ heap'[trace].index = heap[trace].index /\ heap'[trace].next = next
                      /\ next \in Cells /\ trace' = next /\ next' = next
                      /\ linenum' = linenum + 1
                      /\ UNCHANGED <<input, pc, walk, marks, estimate, freed, lists, cur_net, skip_cur_net>>
  OBVIOUS
<1>6. next \in Cells /\ LinkTo(heap, next, rr_type)
  BY <1>4, <1>5 DEF OtherLine
<1>7. PICK s \in SwitchesTo(heap, next) :
        /\ heap' = [heap EXCEPT ![trace].iswitch = s, ![trace].next = next]
        /\ trace' = next /\ next' = next
        /\ NextLine /\ UNCHANGED <<freed, lists, cur_net, skip_cur_net>>
  BY <1>5, <1>6 DEF LinkTo
<1>8. s \in Nat \cup {OPEN} /\ next \in Nat
  <2>1. trace \in 1 .. Len(heap) /\ next \in 1 .. Len(heap) /\ heap \in Seq(Cell) /\ s \in SwitchesTo(heap, next)
    BY <1>3, <1>4, <1>6, <1>7 DEF Cells
  <2>2. s \in Nat \cup {OPEN}
    BY <2>1, SwitchFound
  <2>3. QED
    BY <2>1, <2>2
<1>. DEFINE y == [index |-> heap[trace].index, iswitch |-> s, next |-> next]
<1>9. heap[trace] \in Cell
  BY <1>3, <1>4, CellTyped DEF Cells
<1>10. y \in Cell /\ y.index = heap[trace].index /\ y.next = next
  <2>1. heap[trace].index \in Nodes \cup {Garbage}
    BY <1>3, <1>4, CellTyped DEF Cells
  <2>2. QED
    BY <2>1, <1>8 DEF Cell
<1>11. heap' = [heap EXCEPT ![trace] = y]
  <2>1. [[heap[trace] EXCEPT !.iswitch = s] EXCEPT !.next = next] = y
    BY <1>9, CellLinked
  <2>2. heap' = [heap EXCEPT ![trace] = [[heap[trace] EXCEPT !.iswitch = s] EXCEPT !.next = next]]
    BY <1>3, <1>4, <1>7 DEF Cells
  <2>. HIDE DEF y
  <2>3. QED
    BY <2>1, <2>2
<1>. HIDE DEF y
<1>12. heap' \in Seq(Cell) /\ Len(heap') = Len(heap) /\ heap'[trace] = y
       /\ \A d \in Cells : d # trace => heap'[d] = heap[d]
  BY <1>3, <1>4, <1>10, <1>11, HeapWrite DEF Cells
<1>13. QED
  BY <1>3, <1>6, <1>7, <1>10, <1>12 DEF NextLine

\* The line of a source writes the node of the current cell.
LEMMA SourceLineHeap ==
  ASSUME Typed, Place, SourceLine
  PROVE  /\ heap' \in Seq(Cell) /\ Len(heap') = Len(heap)
         /\ \A c \in Cells : c # trace => heap'[c] = heap[c]
         /\ trace \in Cells /\ heap'[trace].index = TheLine.of /\ TheLine.of \in Nodes
         /\ heap'[trace].next = heap[trace].next
<1>1. pc = "line" /\ linenum \in DOMAIN file /\ TheLine.kind = "node"
      /\ heap' = [heap EXCEPT ![trace].index = TheLine.of]
  BY DEF SourceLine, AtLine
<1>2. PICK n \in Nets : \E i \in 1 .. Size(n) - 1 : Reads(n, i) /\ TheLine.of \in Nodes
  BY <1>1, RestOfNet
<1>3. trace \in Cells /\ TheLine.of \in Nodes
  BY <1>2 DEF Reads
<1>4. heap \in Seq(Cell) /\ Len(heap) \in Nat
  BY DEF Typed
<1>. DEFINE y == [heap[trace] EXCEPT !.index = TheLine.of]
<1>5. heap[trace] \in Cell
  BY <1>3, <1>4, CellTyped DEF Cells
<1>6. y \in Cell /\ y.index = TheLine.of /\ y.next = heap[trace].next
  BY <1>3, <1>5, CellNamed
<1>7. heap' = [heap EXCEPT ![trace] = y]
  BY <1>1
<1>. HIDE DEF y
<1>8. QED
  BY <1>3, <1>4, <1>6, <1>7, HeapWrite DEF Cells

-----------------------------------------------------------------------------
(* The types are preserved *)

\* The cells and the pointers once the heap has grown by one cell, or not.
LEMMA CellsGrow ==
  ASSUME Typed, heap' \in Seq(Cell)
  PROVE  /\ Len(heap) \in Nat /\ Len(heap') \in Nat
         /\ Len(heap') = Len(heap) + 1 =>
              Cells' = Cells \cup {NewCell} /\ NewCell \notin Cells /\ Pointers' = Pointers \cup {NewCell}
         /\ Len(heap') = Len(heap) => Cells' = Cells /\ Pointers' = Pointers
<1>1. Len(heap) \in Nat /\ Len(heap') \in Nat
  BY DEF Typed
<1>2. Cells = 1 .. Len(heap) /\ Cells' = 1 .. Len(heap') /\ Pointers = {Garbage, NULL} \cup Cells
      /\ Pointers' = {Garbage, NULL} \cup Cells' /\ NewCell = Len(heap) + 1
  BY DEF Cells, Pointers, NULL, NewCell
<1>3. Len(heap') = Len(heap) + 1 => Cells' = Cells \cup {NewCell} /\ NewCell \notin Cells
  BY <1>1, <1>2
<1>4. QED
  BY <1>1, <1>2, <1>3

\* The next line, and what NextLine leaves alone.
LEMMA NextLineTyped ==
  ASSUME Typed, linenum \in DOMAIN file, UNCHANGED <<input, pc, walk, marks>>, linenum' = linenum + 1,
         Pointers \subseteq Pointers'
  PROVE  /\ (routing \in Routings)' /\ (file \in FilesOf(routing))'
         /\ (pc \in Final \cup {"header", "line", "walk"})' /\ (linenum \in 1 .. Len(file) + 1)'
         /\ (cell \in Pointers)' /\ (net_idx \in Nets)'
         /\ (net_num \in [Nodes -> Nets \cup {OPEN}])' /\ (chan_driven_by_chan \subseteq Nodes)'
<1>1. DOMAIN file = 1 .. Len(file) /\ Len(file) \in Nat
  BY FileLines DEF Typed
<1>2. linenum' \in 1 .. Len(file) + 1
  BY <1>1
<1>3. QED
  BY <1>2 DEF Typed, input, walk, marks, Final

\* An action that leaves the state but pc, which it sets to a final state.
LEMMA StopTyped ==
  ASSUME Typed, NEW how \in Final, Stop(how)
  PROVE  Typed'
BY DEF Typed, Stop, input, store, lists, reader, walk, marks, Cells, Pointers

\* Reading the first line of a net.
LEMMA FirstLineTyped ==
  ASSUME Typed, Place, NetLine \/ GlobalLine
  PROVE  Typed'
<1>1. /\ pc = "line" /\ linenum \in DOMAIN file /\ TheLine.kind \in {"net", "global"}
      /\ heap' \in Seq(Cell) /\ Len(heap') = Len(heap) + 1
      /\ \A c \in Cells : heap'[c] = ClosedHeap[c]
      /\ heap'[NewCell].next = Garbage
  BY FirstLineHeap
<1>2. Cells' = Cells \cup {NewCell} /\ Pointers' = Pointers \cup {NewCell}
  BY <1>1, CellsGrow
<1>3. linenum' = linenum + 1 /\ UNCHANGED <<input, pc, walk, marks, next>>
  BY DEF NetLine, GlobalLine, NextLine
<1>4. PICK n \in Nets : TheLine.of = n
  BY <1>1, FirstOfNet
<1>5. \A c \in Cells : heap[c].next \in Pointers /\ ClosedHeap[c].next \in {NULL, heap[c].next}
  BY <1>1, ClosingHeap DEF Typed
<1>6. \A c \in Cells' : heap'[c].next \in Pointers'
  BY <1>1, <1>2, <1>5 DEF Pointers
<1>7. ClosedTails \in [Nets -> Pointers]
  BY DEF Typed, ClosedTails
<1>8. NULL \in Pointers /\ Garbage \in Pointers
  BY DEF Pointers
<1>9. /\ trace_head' \in [Nets -> Pointers'] /\ trace_tail' \in [Nets -> Pointers']
      /\ trace' \in Pointers' /\ cur_net' \in Nets \cup {OPEN} /\ skip_cur_net' \in BOOLEAN
      /\ freed' \subseteq Cells'
  <2>1. trace_head \in [Nets -> Pointers] /\ freed \subseteq Cells
    BY DEF Typed
  <2>2. CASE NetLine
    BY <2>1, <2>2, <1>2, <1>4, <1>7, <1>8 DEF NetLine
  <2>3. CASE GlobalLine
    BY <2>1, <2>3, <1>2, <1>4, <1>7, <1>8 DEF GlobalLine, GlobalHead
  <2>4. QED
    BY <2>2, <2>3
<1>10. (next \in {Garbage} \cup Cells)'
  BY <1>2, <1>3 DEF Typed
<1>11. QED
  BY <1>1, <1>2, <1>3, <1>6, <1>9, <1>10, NextLineTyped DEF Typed

\* Reading another line of a net.
LEMMA OtherLineTyped ==
  ASSUME Typed, Place, NodeLine \/ OtherLine \/ SourceLine \/ SkipLine
  PROVE  Typed'
<1>1. linenum \in DOMAIN file
  BY DEF NodeLine, OtherLine, SourceLine, SkipLine, AtLine
<1>2. CASE \E how \in Final : Stop(how)
  BY <1>2, StopTyped
<1>3. CASE NodeLine /\ ~ Stop("exit")
  <2>1. /\ heap' \in Seq(Cell) /\ Len(heap') = Len(heap) + 1
        /\ \A c \in Cells : c # trace => heap'[c] = heap[c]
        /\ trace \in Cells /\ heap'[trace].next = NewCell /\ heap'[NewCell].next = Garbage
        /\ trace' = NewCell /\ next' = NewCell /\ linenum' = linenum + 1
        /\ UNCHANGED <<input, pc, walk, marks, estimate, freed, lists, cur_net, skip_cur_net>>
    BY <1>3, NodeLineHeap
  <2>2. Cells' = Cells \cup {NewCell} /\ Pointers' = Pointers \cup {NewCell}
    BY <2>1, CellsGrow
  <2>3. \A c \in Cells' : heap'[c].next \in Pointers'
    BY <2>1, <2>2 DEF Typed, Pointers
  <2>4. QED
    BY <1>1, <2>1, <2>2, <2>3, NextLineTyped DEF Typed, lists
<1>4. CASE OtherLine /\ ~ Stop("exit") /\ ~ Stop("corrupt")
  <2>1. /\ heap' \in Seq(Cell) /\ Len(heap') = Len(heap)
        /\ \A c \in Cells : c # trace => heap'[c] = heap[c]
        /\ trace \in Cells /\ heap'[trace].next = next
        /\ next \in Cells /\ trace' = next /\ next' = next /\ linenum' = linenum + 1
        /\ UNCHANGED <<input, pc, walk, marks, estimate, freed, lists, cur_net, skip_cur_net>>
    BY <1>4, OtherLineHeap
  <2>2. Cells' = Cells /\ Pointers' = Pointers
    BY <2>1, CellsGrow
  <2>3. \A c \in Cells' : heap'[c].next \in Pointers'
    BY <2>1, <2>2 DEF Typed, Pointers
  <2>4. trace' \in Pointers'
    BY <2>1, <2>2 DEF Pointers
  <2>5. QED
    BY <1>1, <2>1, <2>2, <2>3, <2>4, NextLineTyped DEF Typed, lists
<1>5. CASE SourceLine
  <2>1. /\ heap' \in Seq(Cell) /\ Len(heap') = Len(heap)
        /\ \A c \in Cells : c # trace => heap'[c] = heap[c]
        /\ trace \in Cells /\ heap'[trace].next = heap[trace].next
    BY <1>5, SourceLineHeap
  <2>2. Cells' = Cells /\ Pointers' = Pointers
    BY <2>1, CellsGrow
  <2>3. linenum' = linenum + 1 /\ UNCHANGED <<input, pc, walk, marks, freed, lists, cur_net, skip_cur_net, trace, next>>
    BY <1>5 DEF SourceLine, NextLine
  <2>4. \A c \in Cells' : heap'[c].next \in Pointers'
    BY <2>1, <2>2 DEF Typed
  <2>5. QED
    BY <1>1, <2>1, <2>2, <2>3, <2>4, NextLineTyped DEF Typed, lists
<1>6. CASE SkipLine
  <2>1. linenum' = linenum + 1 /\ UNCHANGED <<input, pc, walk, marks, store, lists, reader>>
    BY <1>6 DEF SkipLine, NextLine
  <2>2. heap' \in Seq(Cell) /\ Len(heap') = Len(heap)
    BY <2>1 DEF store, Typed
  <2>3. Cells' = Cells /\ Pointers' = Pointers
    BY <2>2, CellsGrow
  <2>4. QED
    BY <1>1, <2>1, <2>3, NextLineTyped DEF Typed, lists, store, reader
<1>7. QED
  BY <1>2, <1>3, <1>4, <1>5, <1>6 DEF Final

\* The end of the file.
LEMMA EndTyped ==
  ASSUME Typed, Place, EndOfFile
  PROVE  Typed'
<1>1. pc = "line" /\ heap' = ClosedHeap /\ trace_tail' = ClosedTails /\ pc' = "walk" /\ net_idx' = 0
      /\ cell' = trace_head[0] /\ UNCHANGED <<input, linenum, freed, trace_head, reader, marks, estimate>>
  BY DEF EndOfFile
<1>2. ClosedHeap \in Seq(Cell) /\ Len(ClosedHeap) = Len(heap)
      /\ \A c \in Cells : ClosedHeap[c].next \in {NULL, heap[c].next}
  BY <1>1, ClosingHeap
<1>3. Cells' = Cells /\ Pointers' = Pointers
  BY <1>1, <1>2, CellsGrow
<1>4. NULL \in Pointers
  BY DEF Pointers
<1>5. \A c \in Cells' : heap'[c].next \in Pointers'
  BY <1>1, <1>2, <1>3, <1>4 DEF Typed
<1>6. ClosedTails \in [Nets -> Pointers]
  BY DEF Typed, ClosedTails
<1>7. trace_head[0] \in Pointers /\ 0 \in Nets
  BY NetsRange DEF Typed
<1>8. QED
  BY <1>1, <1>2, <1>3, <1>5, <1>6, <1>7 DEF Typed, input, reader, marks

\* The cell that the walk is on, and the one after it.
LEMMA WalkCell ==
  ASSUME Typed, Linked, Ended, MarkCell
  PROVE  /\ pc = "walk" /\ cell \in Cells /\ heap[cell].index \in Nodes
         /\ heap[cell].next \in {NULL} \cup Cells
         /\ heap[cell].next # NULL => heap[cell].next \in Cells \ freed /\ heap[heap[cell].next].index \in Nodes
<1>1. pc = "walk" /\ cell \in Cells /\ heap[cell].index # Garbage
  BY DEF MarkCell
<1>2. heap[cell].index \in Nodes
  BY <1>1, CellTyped DEF Typed, Cells
<1>3. heap[cell].next # Garbage
  BY <1>1 DEF Ended
<1>4. heap[cell].next \in {NULL} \cup Cells
  BY <1>1, <1>3 DEF Typed, Pointers
<1>5. heap[cell].next \in Cells => LinkOK(cell)
  BY <1>1 DEF Linked
<1>6. QED
  BY <1>1, <1>2, <1>4, <1>5 DEF LinkOK

\* The walk marks nodes of the graph, and goes to a cell or ends.
LEMMA WalkTyped ==
  ASSUME Typed, Linked, Ended, MarkCell \/ NextNet \/ Charge
  PROVE  Typed'
<1>1. CASE MarkCell
  <2>. DEFINE n == heap[cell].index
              m == heap[heap[cell].next].index
  <2>1. /\ n \in Nodes /\ cell \in Cells /\ heap[cell].next \in Pointers
        /\ heap[cell].next # NULL => m \in Nodes
    BY <1>1, WalkCell DEF Pointers
  <2>2. /\ cell' = heap[cell].next /\ UNCHANGED <<input, pc, linenum, store, lists, reader, net_idx, estimate>>
        /\ \/ net_num' = [net_num EXCEPT ![n] = net_idx] /\ chan_driven_by_chan' = chan_driven_by_chan
           \/ /\ heap[cell].next # NULL
              /\ net_num' = [net_num EXCEPT ![n] = net_idx, ![m] = net_idx]
              /\ chan_driven_by_chan' = chan_driven_by_chan \cup (IF ChanDriven(n, m) THEN {m} ELSE {})
    BY <1>1 DEF MarkCell
  <2>. HIDE DEF n, m
  <2>3. net_num' \in [Nodes -> Nets \cup {OPEN}] /\ chan_driven_by_chan' \subseteq Nodes
    BY <2>1, <2>2 DEF Typed
  <2>4. QED
    BY <2>1, <2>2, <2>3 DEF Typed, input, store, lists, reader, Cells, Pointers
<1>2. CASE NextNet
  <2>1. WalkNext \in Nets /\ net_idx' = WalkNext /\ cell' = trace_head[WalkNext]
        /\ UNCHANGED <<input, pc, linenum, store, lists, reader, marks, estimate>>
    BY <1>2 DEF NextNet
  <2>. HIDE DEF WalkNext
  <2>2. cell' \in Pointers
    BY <2>1 DEF Typed
  <2>3. QED
    BY <2>1, <2>2 DEF Typed, input, store, lists, reader, marks, Cells, Pointers
<1>3. CASE Charge
  <2>1. pc' = "done" /\ UNCHANGED <<input, linenum, store, lists, reader, walk, marks>>
    BY <1>3 DEF Charge
  <2>2. QED
    BY <2>1 DEF Typed, input, store, lists, reader, walk, marks, Cells, Pointers, Final
<1>4. QED
  BY <1>1, <1>2, <1>3

\* The headings, and a step that changes nothing.
LEMMA QuietTyped ==
  ASSUME Typed, Header \/ UNCHANGED vars
  PROVE  Typed'
<1>1. CASE Header
  <2>1. /\ \E l \in DOMAIN file : l = 1
        /\ pc' = "line" /\ linenum' = 2 /\ UNCHANGED <<input, store, lists, reader, walk, marks, estimate>>
    BY <1>1 DEF Header
  <2>2. 1 \in 1 .. Len(file) /\ Len(file) \in Nat
    BY <2>1, FileLines DEF Typed
  <2>3. QED
    BY <2>1, <2>2 DEF Typed, input, store, lists, reader, walk, marks, Cells, Pointers
<1>2. CASE UNCHANGED vars
  BY <1>2 DEF Typed, vars, input, store, lists, reader, walk, marks, Cells, Pointers
<1>3. QED
  BY <1>1, <1>2

\* The next-state relation by what the actions do to the invariant.
LEMMA NextSteps ==
  ASSUME [Next]_vars
  PROVE  \/ \E how \in Final : Stop(how)
         \/ NetLine \/ GlobalLine
         \/ NodeLine \/ OtherLine \/ SourceLine \/ SkipLine
         \/ EndOfFile
         \/ MarkCell \/ NextNet \/ Charge
         \/ Header \/ UNCHANGED vars
<1>1. "exit" \in Final /\ "corrupt" \in Final
  BY DEF Final
<1>2. BadHeader \/ RenamedLine \/ BadCell => \E how \in Final : Stop(how)
  BY <1>1 DEF BadHeader, RenamedLine, BadCell
<1>3. Stopped => UNCHANGED vars
  BY DEF Stopped
<1>4. QED
  BY <1>2, <1>3 DEF Next

\* Every step keeps the pointers within what was allocated.
LEMMA TypedNext ==
  ASSUME ListInv, [Next]_vars
  PROVE  Typed'
BY NextSteps, StopTyped, FirstLineTyped, OtherLineTyped, EndTyped, WalkTyped, QuietTyped DEF ListInv

-----------------------------------------------------------------------------
(* The place in the file is preserved *)
\* Garbage is no cell and no null pointer, and null is no cell.
LEMMA NoGarbage ==
  ASSUME Typed
  PROVE  Garbage \notin Cells /\ Garbage # NULL /\ NULL \notin Cells /\ OPEN \notin Nets /\ Cells \subseteq Nat
<1>1. Len(heap) \in Nat
  BY DEF Typed
<1>2. QED
  BY <1>1, GraphAssumption DEF Cells, NULL, Nets

\* The list of the current net was begun and is not closed.
LEMMA CurrentNet ==
  ASSUME Place, pc = "line", cur_net # OPEN
  PROVE  cur_net \in Nets /\ trace_head[cur_net] \in Cells /\ trace_tail[cur_net] = Garbage
<1>1. PICK n \in Nets : \E i \in 1 .. Size(n) : Reads(n, i)
  BY DEF Place, Blank
<1>2. QED
  BY <1>1 DEF Reads

\* The place after a line of a net was read.
LEMMA PlaceOf ==
  ASSUME Typed, NEW n \in Nets, NEW i \in Nat, i \in 1 .. Size(n) \/ i = 1,
         Reads(n, i)', routing' = routing, pc = "line", pc' = pc
  PROVE  Place'
<1>1. Size(n)' = Size(n)
  BY DEF Size
<1>2. i \in 1 .. Size(n)
  BY KindOfNet DEF Typed
<1>3. QED
  BY <1>1, <1>2 DEF Place

\* Reading the first line of a net.
LEMMA FirstLinePlace ==
  ASSUME Typed, Place, NetLine \/ GlobalLine
  PROVE  Place'
<1>1. /\ pc = "line" /\ linenum \in DOMAIN file /\ TheLine.kind \in {"net", "global"}
      /\ heap' \in Seq(Cell) /\ Len(heap') = Len(heap) + 1
      /\ heap'[NewCell].next = Garbage
  BY FirstLineHeap
<1>2. PICK n \in Nets : /\ Begins(n) /\ TheLine.of = n
                        /\ TheLine.kind = "net" <=> Kind(n) \in {"routed", "foreign", "local"}
                        /\ TheLine.kind = "global" <=> Kind(n) = "global"
  BY <1>1, FirstOfNet
<1>3. linenum' = linenum + 1 /\ pc' = pc /\ routing' = routing /\ trace' = NewCell /\ next' = next
  BY DEF NetLine, GlobalLine, NextLine, input
<1>4. Cells' = Cells \cup {NewCell} /\ NewCell \notin Cells /\ NewCell = Len(heap')
  BY <1>1, CellsGrow DEF NewCell
<1>5. next # NewCell
  <2>1. NewCell \in Nat /\ next \in {Garbage} \cup Cells
    BY <1>1, CellsGrow DEF Typed, NewCell
  <2>2. QED
    BY <2>1, <1>4, GraphAssumption
<1>6. n \in Nat /\ Unread(n) /\ cur_net # n
  <2>1. n \in Nat
    BY NetsRange
  <2>2. Unread(n)
    BY <1>2, <2>1 DEF Begins
  <2>3. QED
    BY <2>1, <2>2, <1>1, CurrentNet, NoGarbage DEF Unread
<1>7. ASSUME NEW m \in Nets, m > n PROVE Unread(m)'
  <2>1. m \in Nat /\ m # n
    BY <1>6, <1>7, NetsRange
  <2>2. Unread(m)
    BY <1>2, <1>6, <1>7, <2>1 DEF Begins
  <2>3. cur_net # m
    BY <2>2, <1>1, CurrentNet, NoGarbage DEF Unread
  <2>4. ClosedTails[m] = Garbage /\ trace_head[m] = Garbage
    BY <2>2, <2>3 DEF ClosedTails, Unread, Typed
  <2>5. CASE NetLine
    BY <2>1, <2>4, <2>5, <1>2 DEF NetLine, Unread
  <2>6. CASE GlobalLine
    <3>1. ClosedTails \in [Nets -> Pointers] /\ trace_head \in [Nets -> Pointers]
      BY DEF Typed, ClosedTails
    <3>2. QED
      BY <2>1, <2>4, <2>6, <3>1, <1>2 DEF GlobalLine, GlobalHead, Unread
  <2>7. QED
    BY <2>5, <2>6
<1>8. (linenum = At(n) + 1 /\ trace \in Cells)' /\ Kind(n)' = Kind(n)
  BY <1>2, <1>3, <1>4 DEF Begins, At, Kind
<1>9. CASE NetLine
  <2>1. /\ Kind(n) \in {"routed", "foreign", "local"}
        /\ cur_net' = n /\ skip_cur_net' = FALSE
        /\ trace_head' = [trace_head EXCEPT ![n] = NewCell] /\ trace_tail' = ClosedTails
    BY <1>2, <1>9 DEF NetLine, AtLine
  <2>2. trace_head'[n] = NewCell /\ ClosedTails[n] = Garbage
    BY <2>1, <1>6 DEF ClosedTails, Unread, Typed
  <2>3. OnCell(n, 1)'
    BY <2>2, <1>1, <1>3, <1>4, <1>5 DEF OnCell
  <2>4. Reads(n, 1)'
    BY <2>1, <2>2, <2>3, <1>3, <1>4, <1>7, <1>8 DEF Reads
  <2>5. QED
    BY <2>4, <1>1, <1>3, PlaceOf
<1>10. CASE GlobalLine
  <2>1. Kind(n) = "global" /\ cur_net' = OPEN /\ skip_cur_net' = TRUE
    BY <1>2, <1>10 DEF GlobalLine, AtLine
  <2>2. Reads(n, 1)'
    BY <2>1, <1>3, <1>4, <1>5, <1>7, <1>8 DEF Reads
  <2>3. QED
    BY <2>2, <1>1, <1>3, PlaceOf
<1>11. QED
  BY <1>9, <1>10

\* Reading the line of a node.
LEMMA NodeLinePlace ==
  ASSUME Typed, Place, NodeLine
  PROVE  Place'
<1>1. pc = "line" /\ linenum \in DOMAIN file /\ TheLine.kind = "node"
  BY DEF NodeLine, AtLine
<1>2. CASE Stop("exit")
  BY <1>2 DEF Stop, Place
<1>3. CASE ~ Stop("exit")
  <2>1. PICK n \in Nets : \E i \in 1 .. Size(n) - 1 : Reads(n, i) /\ Kind(n) \in {"routed", "foreign"}
    BY <1>1, RestOfNet
  <2>2. PICK i \in 1 .. Size(n) - 1 : Reads(n, i)
    BY <2>1
  <2>3. /\ heap' \in Seq(Cell) /\ Len(heap') = Len(heap) + 1
        /\ heap'[NewCell].next = Garbage /\ trace' = NewCell
        /\ linenum' = linenum + 1
        /\ UNCHANGED <<input, pc, lists, cur_net, skip_cur_net>>
    BY <1>3, NodeLineHeap
  <2>4. Cells' = Cells \cup {NewCell} /\ NewCell = Len(heap')
    BY <2>3, CellsGrow DEF NewCell
  <2>5. At(n) \in Nat /\ Size(n) \in Nat /\ i \in Nat
    BY KindOfNet DEF Typed
  <2>6. i + 1 \in 1 .. Size(n) /\ i + 1 # 1 /\ linenum' = At(n) + (i + 1)
    BY <2>2, <2>3, <2>5 DEF Reads
  <2>7. Kind(n)' = Kind(n) /\ At(n)' = At(n) /\ routing' = routing
    BY <2>3 DEF Kind, At, input
  <2>8. OnCell(n, i + 1)'
    BY <2>1, <2>3, <2>4, <2>6, <2>7 DEF OnCell
  <2>9. Reads(n, i + 1)'
    BY <2>1, <2>2, <2>3, <2>4, <2>6, <2>7, <2>8 DEF Reads, lists, Unread
  <2>10. QED
    BY <1>1, <2>3, <2>6, <2>7, <2>9, PlaceOf
<1>4. QED
  BY <1>2, <1>3

\* Reading the line of no known kind of a net.
LEMMA OtherLinePlace ==
  ASSUME Typed, Place, Linked, OtherLine
  PROVE  Place'
<1>1. pc = "line" /\ linenum \in DOMAIN file /\ TheLine.kind = "other" /\ ~ skip_cur_net
  BY DEF OtherLine, AtLine
<1>2. CASE Stop("exit") \/ Stop("corrupt")
  BY <1>2 DEF Stop, Place
<1>3. CASE ~ Stop("exit") /\ ~ Stop("corrupt")
  <2>1. PICK n \in Nets : \E i \in 1 .. Size(n) - 1 : Reads(n, i) /\ Kind(n) \in {"local", "global"} /\ i = 1
    BY <1>1, RestOfNet
  <2>2. Kind(n) = "local" /\ Reads(n, 1) /\ OnCell(n, 1) /\ 1 \in 1 .. Size(n) - 1
    BY <1>1, <2>1 DEF Reads
  <2>3. /\ heap' \in Seq(Cell) /\ Len(heap') = Len(heap)
        /\ \A c \in Cells : c # trace => heap'[c] = heap[c]
        /\ next \in Cells /\ trace' = next /\ next' = next
        /\ linenum' = linenum + 1
        /\ UNCHANGED <<input, pc, lists, cur_net, skip_cur_net>>
    BY <1>3, OtherLineHeap
  <2>4. Cells' = Cells
    BY <2>3, CellsGrow
  <2>5. At(n) \in Nat /\ Size(n) \in Nat
    BY KindOfNet DEF Typed
  <2>6. 2 \in 1 .. Size(n) /\ linenum' = At(n) + 2
    BY <2>2, <2>3, <2>5 DEF Reads
  <2>7. Kind(n)' = Kind(n) /\ At(n)' = At(n) /\ routing' = routing
    BY <2>3 DEF Kind, At, input
  <2>8. next # trace /\ heap[next].next = NULL
    BY <1>1, <2>2, <2>3 DEF OnCell, Linked
  <2>9. OnCell(n, 2)'
    BY <2>2, <2>3, <2>7, <2>8 DEF OnCell
  <2>10. Reads(n, 2)'
    BY <2>2, <2>3, <2>4, <2>6, <2>7, <2>9 DEF Reads, lists, Unread
  <2>11. QED
    BY <1>1, <2>3, <2>6, <2>7, <2>10, PlaceOf
<1>4. QED
  BY <1>2, <1>3

\* Reading the line of a source.
LEMMA SourceLinePlace ==
  ASSUME Typed, Place, SourceLine
  PROVE  Place'
<1>1. pc = "line" /\ linenum \in DOMAIN file /\ TheLine.kind = "node"
  BY DEF SourceLine, AtLine
<1>2. PICK n \in Nets : \E i \in 1 .. Size(n) - 1 : Reads(n, i) /\ Kind(n) \in {"routed", "foreign"}
  BY <1>1, RestOfNet
<1>3. PICK i \in 1 .. Size(n) - 1 : Reads(n, i)
  BY <1>2
<1>4. /\ heap' \in Seq(Cell) /\ Len(heap') = Len(heap)
      /\ trace \in Cells /\ heap'[trace].next = heap[trace].next
  BY SourceLineHeap
<1>5. linenum' = linenum + 1 /\ UNCHANGED <<input, pc, lists, cur_net, skip_cur_net, trace, next>>
  BY DEF SourceLine, NextLine
<1>6. Cells' = Cells
  BY <1>4, CellsGrow
<1>7. At(n) \in Nat /\ Size(n) \in Nat /\ i \in Nat
  BY KindOfNet DEF Typed
<1>8. i + 1 \in 1 .. Size(n) /\ i + 1 # 1 /\ linenum' = At(n) + (i + 1)
  BY <1>3, <1>5, <1>7 DEF Reads
<1>9. Kind(n)' = Kind(n) /\ At(n)' = At(n) /\ routing' = routing
  BY <1>5 DEF Kind, At, input
<1>10. trace = Len(heap) /\ heap[trace].next = Garbage
  BY <1>2, <1>3 DEF Reads, OnCell
<1>11. OnCell(n, i + 1)'
  BY <1>2, <1>4, <1>5, <1>8, <1>9, <1>10 DEF OnCell
<1>12. Reads(n, i + 1)'
  BY <1>2, <1>3, <1>4, <1>5, <1>6, <1>8, <1>9, <1>11 DEF Reads, lists, Unread
<1>13. QED
  BY <1>1, <1>5, <1>8, <1>9, <1>12, PlaceOf

\* Skipping a line of a net that was not routed.
LEMMA SkipLinePlace ==
  ASSUME Typed, Place, SkipLine
  PROVE  Place'
<1>1. pc = "line" /\ linenum \in DOMAIN file /\ TheLine.kind \in {"node", "other"} /\ skip_cur_net
      /\ linenum' = linenum + 1 /\ UNCHANGED <<input, pc, store, lists, reader>>
  BY DEF SkipLine, AtLine, NextLine
<1>2. PICK n \in Nets : \E i \in 1 .. Size(n) - 1 : Reads(n, i)
  BY <1>1, RestOfNet
<1>3. PICK i \in 1 .. Size(n) - 1 : Reads(n, i)
  BY <1>2
<1>4. Kind(n) = "global"
  BY <1>1, <1>3 DEF Reads
<1>5. At(n) \in Nat /\ Size(n) \in Nat /\ i \in Nat
  BY KindOfNet DEF Typed
<1>6. i + 1 \in 1 .. Size(n) /\ linenum' = At(n) + (i + 1)
  BY <1>1, <1>3, <1>5 DEF Reads
<1>7. Kind(n)' = Kind(n) /\ At(n)' = At(n) /\ routing' = routing /\ Cells' = Cells
  BY <1>1 DEF Kind, At, input, store, Cells
<1>8. Reads(n, i + 1)'
  BY <1>1, <1>3, <1>4, <1>6, <1>7 DEF Reads, lists, reader, Unread
<1>9. QED
  BY <1>1, <1>6, <1>7, <1>8, PlaceOf

\* The other steps keep the place, or leave the file.
LEMMA QuietPlace ==
  ASSUME Typed, Place, (\E how \in Final : Stop(how)) \/ EndOfFile \/ MarkCell \/ NextNet \/ Charge \/ Header \/ UNCHANGED vars
  PROVE  Place'
<1>1. CASE \E how \in Final : Stop(how)
  BY <1>1 DEF Stop, Place, Final
<1>2. CASE EndOfFile \/ MarkCell \/ NextNet \/ Charge
  <2>1. pc' \in {"walk", "done"}
    BY <1>2 DEF EndOfFile, MarkCell, NextNet, Charge
  <2>2. QED
    BY <2>1 DEF Place
<1>3. CASE Header
  <2>1. pc = "header" /\ pc' = "line" /\ linenum' = 2 /\ UNCHANGED <<store, lists, reader>>
    BY <1>3 DEF Header
  <2>2. QED
    BY <2>1 DEF Place, Blank, Unread, store, lists, reader
<1>4. CASE UNCHANGED vars
  BY <1>4 DEF Place, Blank, Unread, Reads, OnCell, Kind, At, Size, Cells, vars, input, store, lists, reader
<1>5. QED
  BY <1>1, <1>2, <1>3, <1>4

\* Every step keeps the reader's memory in agreement with the lines read.
LEMMA PlaceNext ==
  ASSUME ListInv, [Next]_vars
  PROVE  Place'
BY NextSteps, FirstLinePlace, NodeLinePlace, OtherLinePlace, SourceLinePlace, SkipLinePlace, QuietPlace DEF ListInv

-----------------------------------------------------------------------------
(* The links are preserved *)

\* The links of a heap whose cells only lost theirs, beside a new cell that leads nowhere.
LEMMA FirstLineLinked ==
  ASSUME Typed, Place, Linked, NetLine \/ GlobalLine
  PROVE  Linked'
<1>1. /\ pc = "line" /\ linenum \in DOMAIN file /\ TheLine.kind \in {"net", "global"}
      /\ heap' \in Seq(Cell) /\ Len(heap') = Len(heap) + 1
      /\ \A c \in Cells : heap'[c] = ClosedHeap[c]
      /\ heap'[NewCell].next = Garbage
  BY FirstLineHeap
<1>2. PICK n \in Nets : Begins(n) /\ TheLine.of = n
  BY <1>1, FirstOfNet
<1>3. Unread(n)
  BY <1>2, NetsRange DEF Begins
<1>4. routing' = routing /\ next' = next
  BY DEF NetLine, GlobalLine, NextLine, input
<1>5. Cells' = Cells \cup {NewCell} /\ NewCell \notin Cells /\ NewCell \in Nat /\ NewCell # NULL
      /\ NewCell \notin Pointers /\ freed \subseteq Cells
  BY <1>1, CellsGrow, GraphAssumption DEF NewCell, Pointers, NULL, Typed
<1>6. \A c \in Cells : /\ heap'[c].index = heap[c].index
                       /\ heap'[c].next = IF cur_net # OPEN /\ c = trace THEN NULL ELSE heap[c].next
  BY <1>1, ClosingHeap
<1>7. /\ \A m \in Nets : m # n => trace_head'[m] = trace_head[m]
      /\ trace_head'[n] \in {NULL, NewCell} /\ (trace_head'[n] = NewCell => freed' = freed)
      /\ freed' \subseteq freed \cup {NewCell}
  <2>1. trace_head \in [Nets -> Pointers]
    BY DEF Typed
  <2>2. CASE NetLine
    BY <2>1, <2>2, <1>2 DEF NetLine
  <2>3. CASE GlobalLine
    BY <2>1, <2>3, <1>2, <1>5 DEF GlobalLine, GlobalHead
  <2>4. QED
    BY <2>2, <2>3
<1>8. \A m \in Nets : m # n => trace_head'[m] # NewCell /\ (trace_head'[m] \in Cells' => trace_head'[m] \in Cells)
  BY <1>5, <1>7 DEF Typed
<1>9. ASSUME NEW m \in Nets, trace_head'[m] \in Cells'
      PROVE  trace_head'[m] \notin freed' /\ \A k \in Nets : trace_head'[k] = trace_head'[m] => k = m
  <2>1. CASE m = n
    <3>1. trace_head'[n] = NewCell /\ freed' = freed
      BY <2>1, <1>5, <1>7, <1>9, NoGarbage
    <3>2. QED
      BY <2>1, <3>1, <1>5, <1>8
  <2>2. CASE m # n
    <3>1. trace_head[m] \in Cells /\ trace_head'[m] = trace_head[m]
      BY <2>2, <1>7, <1>8, <1>9
    <3>2. trace_head[m] \notin freed /\ \A k \in Nets : trace_head[k] = trace_head[m] => k = m
      BY <3>1 DEF Linked
    <3>3. trace_head[m] # NULL /\ trace_head[m] # NewCell
      BY <3>1, <1>5, NoGarbage
    <3>4. QED
      BY <3>1, <3>2, <3>3, <1>7
  <2>3. QED
    BY <2>1, <2>2
<1>10. ASSUME NEW c \in Cells', heap'[c].next \in Cells' PROVE LinkOK(c)'
  <2>1. c \in Cells /\ heap'[c].next = heap[c].next /\ heap[c].next \in Cells
    <3>1. c # NewCell
      BY <1>1, <1>5, <1>10, NoGarbage, GraphAssumption
    <3>2. c \in Cells /\ heap[c].next \in Pointers
      BY <3>1, <1>5 DEF Typed
    <3>3. heap'[c].next # NULL
      BY <1>5, <1>10, NoGarbage
    <3>4. QED
      BY <3>2, <3>3, <1>5, <1>6, <1>10
  <2>2. LinkOK(c)
    BY <2>1 DEF Linked
  <2>3. heap'[c].next \notin freed' /\ heap'[heap'[c].next].index \in Nodes
    BY <2>1, <2>2, <1>5, <1>6, <1>7 DEF LinkOK
  <2>4. CASE heap[c].next = c + 1 /\ \A m \in Nets : trace_head[m] # c + 1
    <3>1. c + 1 \in Cells /\ c + 1 # NULL /\ c + 1 # NewCell
      BY <2>1, <2>4, <1>5, NoGarbage
    <3>2. \A m \in Nets : trace_head'[m] # c + 1
      BY <3>1, <2>4, <1>7
    <3>3. QED
      BY <2>1, <2>3, <2>4, <3>2 DEF LinkOK
  <2>5. CASE \E m \in Nets : Kind(m) = "local" /\ trace_head[m] = c
    <3>1. PICK m \in Nets : Kind(m) = "local" /\ trace_head[m] = c
      BY <2>5
    <3>2. m # n
      BY <3>1, <2>1, <1>3, NoGarbage DEF Unread
    <3>3. Kind(m)' = "local" /\ trace_head'[m] = c
      BY <3>1, <3>2, <1>4, <1>7 DEF Kind
    <3>4. QED
      BY <2>3, <3>3 DEF LinkOK
  <2>6. QED
    BY <2>2, <2>4, <2>5 DEF LinkOK
<1>11. ASSUME next' \in Cells' PROVE next' \notin freed' /\ heap'[next'].index \in Nodes /\ heap'[next'].next = NULL
  <2>1. next \in Cells /\ next' = next
    BY <1>4, <1>5, <1>11 DEF Typed, Pointers
  <2>2. next \notin freed /\ heap[next].index \in Nodes /\ (next = trace \/ heap[next].next = NULL)
    BY <2>1, <1>1 DEF Linked
  <2>3. next = trace => cur_net # OPEN
    <3>1. PICK m \in Nets : \E i \in 1 .. Size(m) : Reads(m, i)
      BY <2>1, <1>1, NoGarbage DEF Place, Blank
    <3>2. QED
      BY <3>1, GraphAssumption DEF Reads, Nets
  <2>4. QED
    BY <2>1, <2>2, <2>3, <1>5, <1>6, <1>7
<1>12. QED
  BY <1>9, <1>10, <1>11 DEF Linked

\* The line of a node links the last cell to the one allocated after it.
LEMMA NodeLineLinked ==
  ASSUME Typed, Place, Linked, NodeLine, ~ Stop("exit")
  PROVE  Linked'
<1>1. pc = "line" /\ linenum \in DOMAIN file /\ TheLine.kind = "node"
  BY DEF NodeLine, AtLine
<1>2. PICK n \in Nets : \E i \in 1 .. Size(n) - 1 : Reads(n, i) /\ Kind(n) \in {"routed", "foreign"} /\ TheLine.of \in Nodes
  BY <1>1, RestOfNet
<1>3. trace = Len(heap) /\ TheLine.of \in Nodes
  BY <1>2 DEF Reads, OnCell
<1>4. /\ heap' \in Seq(Cell) /\ Len(heap') = Len(heap) + 1
      /\ \A c \in Cells : c # trace => heap'[c] = heap[c]
      /\ trace \in Cells /\ heap'[trace].index = heap[trace].index /\ heap'[trace].next = NewCell
      /\ heap'[NewCell].next = Garbage /\ heap'[NewCell].index = TheLine.of
      /\ trace' = NewCell /\ next' = NewCell
      /\ UNCHANGED <<input, pc, freed, lists>>
  BY NodeLineHeap
<1>5. Cells' = Cells \cup {NewCell} /\ NewCell \notin Cells /\ NewCell = trace + 1
      /\ NewCell \notin Pointers /\ freed \subseteq Cells
  BY <1>3, <1>4, CellsGrow, GraphAssumption DEF NewCell, Pointers, NULL, Typed
<1>6. \A m \in Nets : trace_head'[m] = trace_head[m] /\ trace_head[m] # NewCell /\ Kind(m)' = Kind(m)
  BY <1>4, <1>5 DEF Typed, lists, Kind, input
<1>7. \A c \in Cells : heap'[c].index = heap[c].index
  BY <1>4
<1>8. ASSUME NEW c \in Cells', heap'[c].next \in Cells' PROVE LinkOK(c)'
  <2>1. CASE c = NewCell
    BY <2>1, <1>4, <1>5, <1>8, NoGarbage, GraphAssumption, CellsGrow DEF NewCell
  <2>2. CASE c = trace
    <3>1. heap'[c].next = NewCell /\ NewCell \notin freed' /\ heap'[NewCell].index \in Nodes
      BY <2>2, <1>3, <1>4, <1>5
    <3>2. QED
      BY <2>2, <3>1, <1>5, <1>6 DEF LinkOK
  <2>3. CASE c \in Cells /\ c # trace
    <3>1. heap'[c].next = heap[c].next /\ heap[c].next \in Cells
      BY <2>3, <1>4, <1>5, <1>8 DEF Typed
    <3>2. LinkOK(c)
      BY <2>3, <3>1 DEF Linked
    <3>3. QED
      BY <3>1, <3>2, <1>4, <1>6, <1>7 DEF LinkOK
  <2>4. QED
    BY <2>1, <2>2, <2>3, <1>5
<1>9. ASSUME NEW m \in Nets, trace_head'[m] \in Cells'
      PROVE  trace_head'[m] \notin freed' /\ \A k \in Nets : trace_head'[k] = trace_head'[m] => k = m
  BY <1>4, <1>5, <1>6, <1>9 DEF Linked
<1>10. next' \notin freed' /\ heap'[next'].index \in Nodes /\ next' = trace'
  BY <1>3, <1>4, <1>5
<1>11. QED
  BY <1>8, <1>9, <1>10 DEF Linked

\* The line of no known kind links the head of its net to the last cell of a list.
LEMMA OtherLineLinked ==
  ASSUME Typed, Place, Linked, OtherLine, ~ Stop("exit"), ~ Stop("corrupt")
  PROVE  Linked'
<1>1. pc = "line" /\ linenum \in DOMAIN file /\ TheLine.kind = "other" /\ ~ skip_cur_net
  BY DEF OtherLine, AtLine
<1>2. PICK n \in Nets : \E i \in 1 .. Size(n) - 1 : Reads(n, i) /\ Kind(n) \in {"local", "global"} /\ i = 1
  BY <1>1, RestOfNet
<1>3. Kind(n) = "local" /\ trace_head[n] = trace
  BY <1>1, <1>2 DEF Reads, OnCell
<1>4. /\ heap' \in Seq(Cell) /\ Len(heap') = Len(heap)
      /\ \A c \in Cells : c # trace => heap'[c] = heap[c]
      /\ trace \in Cells /\ heap'[trace].index = heap[trace].index /\ heap'[trace].next = next
      /\ next \in Cells /\ trace' = next /\ next' = next
      /\ UNCHANGED <<input, pc, freed, lists>>
  BY OtherLineHeap
<1>5. Cells' = Cells
  BY <1>4, CellsGrow
<1>6. \A m \in Nets : trace_head'[m] = trace_head[m] /\ Kind(m)' = Kind(m)
  BY <1>4 DEF lists, Kind, input
<1>7. \A c \in Cells : heap'[c].index = heap[c].index
  BY <1>4
<1>8. next \notin freed /\ heap[next].index \in Nodes
  BY <1>4 DEF Linked
<1>9. ASSUME NEW c \in Cells', heap'[c].next \in Cells' PROVE LinkOK(c)'
  <2>1. CASE c = trace
    <3>1. heap'[c].next = next /\ next \notin freed' /\ heap'[next].index \in Nodes
      BY <2>1, <1>4, <1>7, <1>8
    <3>2. QED
      BY <2>1, <3>1, <1>3, <1>6 DEF LinkOK
  <2>2. CASE c # trace
    <3>1. c \in Cells /\ heap'[c].next = heap[c].next /\ heap[c].next \in Cells
      BY <2>2, <1>4, <1>5, <1>9
    <3>2. LinkOK(c)
      BY <3>1 DEF Linked
    <3>3. QED
      BY <3>1, <3>2, <1>4, <1>6, <1>7 DEF LinkOK
  <2>3. QED
    BY <2>1, <2>2
<1>10. QED
  BY <1>4, <1>5, <1>6, <1>7, <1>8, <1>9 DEF Linked

\* The line of a source, and the end of the file, make no link.
LEMMA SourceLineLinked ==
  ASSUME Typed, Place, Linked, SourceLine
  PROVE  Linked'
<1>1. /\ heap' \in Seq(Cell) /\ Len(heap') = Len(heap)
      /\ \A c \in Cells : c # trace => heap'[c] = heap[c]
      /\ trace \in Cells /\ heap'[trace].index = TheLine.of /\ TheLine.of \in Nodes
      /\ heap'[trace].next = heap[trace].next
  BY SourceLineHeap
<1>2. UNCHANGED <<input, pc, lists, freed, trace, next>>
  BY DEF SourceLine, NextLine
<1>3. Cells' = Cells
  BY <1>1, CellsGrow
<1>4. \A m \in Nets : trace_head'[m] = trace_head[m] /\ Kind(m)' = Kind(m)
  BY <1>2 DEF lists, Kind, input
<1>5. \A c \in Cells : heap'[c].next = heap[c].next /\ (heap[c].index \in Nodes => heap'[c].index \in Nodes)
  BY <1>1
<1>6. ASSUME NEW c \in Cells, heap[c].next \in Cells PROVE LinkOK(c)'
  <2>1. LinkOK(c)
    BY <1>6 DEF Linked
  <2>2. QED
    BY <2>1, <1>2, <1>4, <1>5, <1>6 DEF LinkOK
<1>7. QED
  BY <1>2, <1>3, <1>4, <1>5, <1>6 DEF Linked

\* The end of the file closes the last list and makes no new link.
LEMMA EndLinked ==
  ASSUME Typed, Place, Linked, EndOfFile
  PROVE  Linked'
<1>1. pc = "line" /\ heap' = ClosedHeap /\ pc' = "walk" /\ UNCHANGED <<input, freed, trace_head, next>>
  BY DEF EndOfFile, reader
<1>2. ClosedHeap \in Seq(Cell) /\ Len(ClosedHeap) = Len(heap)
      /\ \A c \in Cells : heap'[c].index = heap[c].index /\ heap'[c].next \in {NULL, heap[c].next}
  BY <1>1, ClosingHeap
<1>3. Cells' = Cells
  BY <1>1, <1>2, CellsGrow
<1>4. \A m \in Nets : trace_head'[m] = trace_head[m] /\ Kind(m)' = Kind(m)
  BY <1>1 DEF Kind, input
<1>5. ASSUME NEW c \in Cells, heap'[c].next \in Cells PROVE LinkOK(c)'
  <2>1. heap'[c].next = heap[c].next
    BY <1>2, <1>5, NoGarbage
  <2>2. LinkOK(c)
    BY <2>1, <1>5 DEF Linked
  <2>3. QED
    BY <2>1, <2>2, <1>1, <1>2, <1>4, <1>5 DEF LinkOK
<1>6. QED
  BY <1>1, <1>2, <1>3, <1>4, <1>5 DEF Linked

\* The other steps leave the lists alone.
LEMMA QuietLinked ==
  ASSUME Typed, Linked,
         (\E how \in Final : Stop(how)) \/ SkipLine \/ MarkCell \/ NextNet \/ Charge \/ UNCHANGED vars
  PROVE  Linked'
<1>1. UNCHANGED <<input, store, lists, next, trace>> /\ (pc' = "line" => pc = "line")
  BY DEF Stop, SkipLine, NextLine, MarkCell, NextNet, Charge, Final, vars, reader
<1>2. QED
  BY <1>1 DEF Linked, LinkOK, Kind, Cells, input, store, lists

\* Nothing is linked when the first line is read.
LEMMA HeaderLinked ==
  ASSUME Typed, Place, Linked, Header
  PROVE  Linked'
<1>1. pc = "header" /\ UNCHANGED <<input, store, lists, reader>>
  BY DEF Header
<1>2. next' = Garbage
  BY <1>1 DEF Place, Blank, reader
<1>3. Cells' = Cells /\ Garbage \notin Cells
  BY <1>1, NoGarbage DEF Cells, store
<1>4. QED
  BY <1>1, <1>2, <1>3 DEF Linked, LinkOK, Kind, input, store, lists

\* Every step keeps each link leading to a later cell, of a kind that may follow.
LEMMA LinkedNext ==
  ASSUME ListInv, [Next]_vars
  PROVE  Linked'
<1>1. CASE \E how \in Final : Stop(how)
  BY <1>1, QuietLinked DEF ListInv
<1>2. CASE ~ \E how \in Final : Stop(how)
  <2>1. ~ Stop("exit") /\ ~ Stop("corrupt")
    BY <1>2 DEF Final
  <2>2. QED
    BY <1>2, <2>1, NextSteps, FirstLineLinked, NodeLineLinked, OtherLineLinked, SourceLineLinked, EndLinked,
       QuietLinked, HeaderLinked DEF ListInv
<1>3. QED
  BY <1>1, <1>2

-----------------------------------------------------------------------------
(* Only the current cell leads to garbage *)

\* Every step leaves at most the current cell without an end.
LEMMA EndedNext ==
  ASSUME ListInv, [Next]_vars
  PROVE  Ended'
<1>. USE DEF ListInv
<1>1. CASE \E how \in Final : Stop(how)
  BY <1>1 DEF Stop, Ended, Final
<1>2. CASE NetLine \/ GlobalLine
  <2>1. /\ pc = "line" /\ linenum \in DOMAIN file /\ TheLine.kind \in {"net", "global"}
        /\ heap' \in Seq(Cell) /\ Len(heap') = Len(heap) + 1
        /\ \A c \in Cells : heap'[c] = ClosedHeap[c]
    BY <1>2, FirstLineHeap
  <2>2. Cells' = Cells \cup {NewCell} /\ freed \subseteq freed'
    BY <1>2, <2>1, CellsGrow DEF NetLine, GlobalLine
  <2>3. trace' = NewCell /\ pc' = "line" /\ (NewCell \in freed' \/ cur_net' # OPEN)
    <3>1. PICK n \in Nets : TheLine.of = n
      BY <2>1, FirstOfNet
    <3>2. QED
      BY <1>2, <2>1, <3>1, NoGarbage DEF NetLine, GlobalLine, NextLine
  <2>4. ASSUME NEW c \in Cells' \ freed', heap'[c].next = Garbage, c # NewCell PROVE FALSE
    <3>1. c \in Cells \ freed
      BY <2>2, <2>4
    <3>2. heap[c].next = Garbage /\ ~ (cur_net # OPEN /\ c = trace)
      BY <2>1, <2>4, <3>1, ClosingHeap, NoGarbage
    <3>3. QED
      BY <2>1, <3>1, <3>2 DEF Ended
  <2>5. QED
    BY <2>3, <2>4 DEF Ended
<1>3. CASE NodeLine /\ ~ Stop("exit")
  <2>1. /\ heap' \in Seq(Cell) /\ Len(heap') = Len(heap) + 1
        /\ \A c \in Cells : c # trace => heap'[c] = heap[c]
        /\ trace \in Cells /\ heap'[trace].next = NewCell
        /\ trace' = NewCell /\ UNCHANGED <<pc, freed, cur_net>>
    BY <1>3, NodeLineHeap
  <2>2. Cells' = Cells \cup {NewCell} /\ NewCell \in Nat
    BY <2>1, CellsGrow DEF NewCell
  <2>3. pc = "line" /\ cur_net # OPEN
    <3>1. pc = "line" /\ linenum \in DOMAIN file /\ TheLine.kind = "node"
      BY <1>3 DEF NodeLine, AtLine
    <3>2. PICK n \in Nets : \E i \in 1 .. Size(n) - 1 : Reads(n, i) /\ Kind(n) \in {"routed", "foreign"}
      BY <3>1, RestOfNet
    <3>3. QED
      BY <3>1, <3>2, NoGarbage DEF Reads
  <2>4. ASSUME NEW c \in Cells' \ freed', heap'[c].next = Garbage, c # NewCell PROVE FALSE
    <3>1. c \in Cells \ freed /\ c # trace
      BY <2>1, <2>2, <2>4, GraphAssumption
    <3>2. QED
      BY <2>1, <2>3, <2>4, <3>1 DEF Ended
  <2>5. QED
    BY <2>1, <2>3, <2>4 DEF Ended
<1>4. CASE OtherLine /\ ~ Stop("exit") /\ ~ Stop("corrupt")
  <2>1. /\ heap' \in Seq(Cell) /\ Len(heap') = Len(heap)
        /\ \A c \in Cells : c # trace => heap'[c] = heap[c]
        /\ trace \in Cells /\ heap'[trace].next = next /\ next \in Cells
        /\ UNCHANGED <<pc, freed, cur_net>>
    BY <1>4, OtherLineHeap
  <2>2. Cells' = Cells /\ pc = "line"
    BY <1>4, <2>1, CellsGrow DEF OtherLine, AtLine
  <2>3. ASSUME NEW c \in Cells' \ freed', heap'[c].next = Garbage PROVE FALSE
    <3>1. c \in Cells \ freed /\ c # trace
      BY <2>1, <2>2, <2>3, NoGarbage
    <3>2. QED
      BY <2>1, <2>2, <2>3, <3>1 DEF Ended
  <2>4. QED
    BY <2>1, <2>2, <2>3 DEF Ended
<1>5. CASE SourceLine
  <2>1. /\ heap' \in Seq(Cell) /\ Len(heap') = Len(heap)
        /\ \A c \in Cells : c # trace => heap'[c] = heap[c]
        /\ heap'[trace].next = heap[trace].next
    BY <1>5, SourceLineHeap
  <2>2. Cells' = Cells /\ UNCHANGED <<pc, freed, cur_net, trace>> /\ pc = "line"
    BY <1>5, <2>1, CellsGrow DEF SourceLine, NextLine, AtLine
  <2>3. QED
    BY <2>1, <2>2 DEF Ended
<1>6. CASE SkipLine
  <2>1. UNCHANGED <<heap, freed, pc, cur_net, trace, cell>>
    BY <1>6 DEF SkipLine, NextLine, store, reader, walk
  <2>2. QED
    BY <2>1 DEF Ended, Cells
<1>7. CASE EndOfFile
  <2>1. pc = "line" /\ heap' = ClosedHeap /\ pc' = "walk" /\ cell' = trace_head[0] /\ UNCHANGED freed
    BY <1>7 DEF EndOfFile
  <2>2. ClosedHeap \in Seq(Cell) /\ Len(ClosedHeap) = Len(heap)
    BY <2>1, ClosingHeap
  <2>3. Cells' = Cells
    BY <2>1, <2>2, CellsGrow
  <2>4. ASSUME NEW c \in Cells \ freed PROVE heap'[c].next # Garbage
    <3>1. CASE cur_net # OPEN /\ c = trace
      BY <2>1, <3>1, ClosingHeap, NoGarbage
    <3>2. CASE ~ (cur_net # OPEN /\ c = trace)
      <4>1. heap'[c].next = heap[c].next
        BY <2>1, <3>2, ClosingHeap
      <4>2. QED
        BY <2>1, <3>2, <4>1 DEF Ended
    <3>3. QED
      BY <3>1, <3>2
  <2>5. cell' \notin freed
    BY <2>1, NetsRange DEF Typed, Linked
  <2>6. QED
    BY <2>1, <2>3, <2>4, <2>5 DEF Ended
<1>8. CASE MarkCell
  <2>1. cell' = heap[cell].next /\ UNCHANGED <<pc, store>>
    BY <1>8 DEF MarkCell
  <2>2. cell' \notin freed
    BY <1>8, <2>1, WalkCell, NoGarbage DEF Typed
  <2>3. pc = "walk"
    BY <1>8 DEF MarkCell
  <2>4. QED
    BY <2>1, <2>2, <2>3 DEF Ended, store, Cells
<1>9. CASE NextNet
  <2>1. pc = "walk" /\ WalkNext \in Nets /\ cell' = trace_head[WalkNext] /\ UNCHANGED <<pc, store>>
    BY <1>9 DEF NextNet
  <2>2. cell' \notin freed
    BY <2>1 DEF Typed, Linked
  <2>3. QED
    BY <2>1, <2>2 DEF Ended, store, Cells
<1>10. CASE Charge
  BY <1>10 DEF Charge, Ended
<1>11. CASE Header
  <2>1. pc = "header" /\ pc' = "line" /\ heap' = heap
    BY <1>11 DEF Header, store
  <2>2. Cells' = {}
    BY <2>1 DEF Place, Blank, Cells
  <2>3. QED
    BY <2>1, <2>2 DEF Ended
<1>12. CASE UNCHANGED vars
  BY <1>12 DEF Ended, Cells, vars, store, reader, walk
<1>13. QED
  BY <1>1, <1>2, <1>3, <1>4, <1>5, <1>6, <1>7, <1>8, <1>9, <1>10, <1>11, <1>12, NextSteps DEF Final

-----------------------------------------------------------------------------
(* The theorems on the types and the lists *)

\* The invariant of the lists holds before a line is read.
LEMMA ListInit == Init => ListInv
<1>. SUFFICES ASSUME Init PROVE ListInv
  OBVIOUS
<1>1. Cells = {} /\ heap \in Seq(Cell) /\ Len(file) \in Nat
  BY FileLines DEF Init, Cells
<1>2. Garbage \in Pointers /\ NULL \in Pointers /\ 0 \in Nets
  BY NetsRange DEF Pointers
<1>3. Typed
  <2>1. pc \in Final \cup {"header", "line", "walk"} /\ linenum \in 1 .. Len(file) + 1
    BY <1>1 DEF Init, Final
  <2>2. /\ trace_head \in [Nets -> Pointers] /\ trace_tail \in [Nets -> Pointers]
        /\ trace \in Pointers /\ next \in Pointers /\ cell \in Pointers /\ net_idx \in Nets
    BY <1>2, GraphAssumption DEF Init
  <2>3. net_num \in [Nodes -> Nets \cup {OPEN}] /\ cur_net \in Nets \cup {OPEN}
    BY DEF Init
  <2>4. QED
    BY <1>1, <2>1, <2>2, <2>3 DEF Init, Typed
<1>4. Place
  BY DEF Init, Place, Blank, Unread
<1>5. Linked /\ Ended
  BY <1>1, GraphAssumption DEF Init, Linked, Ended
<1>6. QED
  BY <1>3, <1>4, <1>5 DEF ListInv

\* The invariant of the lists is inductive.
LEMMA ListStep == ListInv /\ [Next]_vars => ListInv'
BY TypedNext, PlaceNext, LinkedNext, EndedNext DEF ListInv

\* The inductive invariant of the lists holds in every behaviour.
THEOREM ListsInvariant == Spec => []ListInv
BY ListInit, ListStep, PTL DEF Spec

\* The type invariant of a run: what read_trace_file leaves in its pointers is
\* garbage, null or a cell that was allocated, whatever the routing and wherever
\* the file is cut.
THEOREM TypesOK == Spec => []TypeOK
<1>1. ListInv => TypeOK
  <2>. SUFFICES ASSUME ListInv PROVE TypeOK
    OBVIOUS
  <2>1. \A c \in Cells : IndexOK(heap[c].index) /\ heap[c].iswitch \in Nat \cup {OPEN, Garbage}
                         /\ heap[c].next \in Pointers
    BY CellTyped DEF ListInv, Typed, Cells, IndexOK
  <2>2. next \in Pointers
    BY DEF ListInv, Typed, Pointers
  <2>3. QED
    BY <2>1, <2>2 DEF ListInv, Typed, TypeOK
<1>2. QED
  BY <1>1, ListsInvariant, PTL

-----------------------------------------------------------------------------
(* The lists *)

\* An initial segment of the numbers from 1 to N is 1 .. m for some m.
LEMMA InitialSegment ==
  ASSUME NEW N \in Nat, NEW I \in SUBSET (1 .. N), \A i \in 1 .. N - 1 : i + 1 \in I => i \in I
  PROVE  \E m \in 0 .. N : I = 1 .. m
<1>. DEFINE S == {k \in Nat : k <= N => \E m \in 0 .. k : I \cap 1 .. k = 1 .. m /\ (k \in I => m = k)}
<1>1. 0 \in S
  <2>1. I \cap 1 .. 0 = 1 .. 0 /\ 0 \in 0 .. 0 /\ 0 \notin I
    OBVIOUS
  <2>2. QED
    BY <2>1
<1>2. \A k \in Nat : k \in S => k + 1 \in S
  <2>. SUFFICES ASSUME NEW k \in Nat, k \in S, k + 1 <= N
                PROVE  \E m \in 0 .. k + 1 : I \cap 1 .. k + 1 = 1 .. m /\ (k + 1 \in I => m = k + 1)
    OBVIOUS
  <2>1. PICK m \in 0 .. k : I \cap 1 .. k = 1 .. m /\ (k \in I => m = k)
    OBVIOUS
  <2>2. CASE k + 1 \in I
    <3>1. m = k
      <4>1. CASE k = 0
        BY <4>1, <2>1
      <4>2. CASE k # 0
        <5>1. k \in 1 .. N - 1
          BY <4>2
        <5>2. QED
          BY <5>1, <2>1, <2>2
      <4>3. QED
        BY <4>1, <4>2
    <3>2. 1 .. k + 1 = 1 .. k \cup {k + 1}
      OBVIOUS
    <3>3. I \cap 1 .. k + 1 = 1 .. k + 1
      BY <3>1, <3>2, <2>1, <2>2
    <3>4. k + 1 \in 0 .. k + 1
      OBVIOUS
    <3>5. QED
      BY <3>3, <3>4
  <2>3. CASE k + 1 \notin I
    <3>1. 1 .. k + 1 = 1 .. k \cup {k + 1}
      OBVIOUS
    <3>2. I \cap 1 .. k + 1 = 1 .. m
      BY <3>1, <2>1, <2>3
    <3>3. m \in 0 .. k + 1
      OBVIOUS
    <3>4. QED
      BY <3>2, <3>3, <2>3
  <2>4. QED
    BY <2>2, <2>3
<1>. HIDE DEF S
<1>3. N \in S
  BY <1>1, <1>2, SetInduction
<1>4. PICK m \in 0 .. N : I \cap 1 .. N = 1 .. m
  BY <1>3 DEF S
<1>5. I = 1 .. m
  BY <1>4
<1>6. QED
  BY <1>5

\* The list of n has m cells, from its head along the links to a cell without one.
HasList(n, m) ==
  /\ m \in 0 .. Len(heap) /\ ListOf(n) \in [1 .. m -> Cells]
  /\ m = 0 <=> trace_head[n] \notin Cells
  /\ m >= 1 => ListOf(n)[1] = trace_head[n]
  /\ \A i \in 1 .. m - 1 : ListOf(n)[i + 1] = heap[ListOf(n)[i]].next
  /\ m >= 1 /\ m < Len(heap) => heap[ListOf(n)[m]].next \notin Cells

\* The recursion that follows a list is well defined, and stops where the list does.
LEMMA ListShape ==
  ASSUME Typed, NEW n \in Nets
  PROVE  \E m : HasList(n, m)
<1>. DEFINE N == Len(heap)
            Slot(c) == IF c \in Cells THEN <<c>> ELSE <<>>
            Slots == {<<>>} \cup {<<c>> : c \in Cells}
            After(x) == IF x = <<>> THEN <<>> ELSE Slot(heap[x[1]].next)
            from == CHOOSE g : g = [i \in 1 .. N |->
                      LET before == g[i - 1]
                          c == IF i = 1 THEN trace_head[n]
                               ELSE IF before = <<>> THEN NULL ELSE heap[before[1]].next
                      IN  IF c \in Cells THEN <<c>> ELSE <<>>]
            I == {i \in 1 .. N : from[i] # <<>>}
            size == Cardinality(I)
<1>1. N \in Nat /\ Cells = 1 .. N /\ NULL \notin Cells
  BY NoGarbage DEF Typed, Cells
<1>2. ListOf(n) = [i \in 1 .. size |-> from[i][1]]
  BY DEF ListOf
<1>. HIDE DEF N
<1>3. \A c : Slot(c) \in Slots /\ (Slot(c) # <<>> <=> c \in Cells) /\ (c \in Cells => Slot(c)[1] = c)
  OBVIOUS
<1>4. \A x \in Slots : After(x) \in Slots
  BY <1>3
<1>5. PICK f \in [0 .. N -> Slots] : f[0] = Slot(trace_head[n]) /\ \A i \in 0 .. N - 1 : f[i + 1] = After(f[i])
  <2>. DEFINE step == [i \in Nat |-> [x \in Slots |-> After(x)]]
  <2>. HIDE DEF Slots, Slot, After
  <2>1. step \in Steps(Slots) /\ \A i \in Nat : \A x \in Slots : step[i][x] = After(x)
    BY <1>4 DEF Steps
  <2>. HIDE DEF step
  <2>2. PICK f : f \in Iterates(Slots, Slot(trace_head[n]), step, N)
    BY <1>1, <1>3, <2>1, Iteration
  <2>3. f \in [0 .. N -> Slots] /\ f[0] = Slot(trace_head[n]) /\ \A i \in 0 .. N - 1 : f[i + 1] = step[i][f[i]]
    BY <2>2 DEF Iterates
  <2>4. \A i \in 0 .. N - 1 : i \in Nat /\ f[i] \in Slots
    BY <1>1, <2>3
  <2>5. QED
    BY <2>1, <2>3, <2>4
<1>. DEFINE Is(g) == g = [i \in 1 .. N |->
                      LET before == g[i - 1]
                          c == IF i = 1 THEN trace_head[n]
                               ELSE IF before = <<>> THEN NULL ELSE heap[before[1]].next
                      IN  IF c \in Cells THEN <<c>> ELSE <<>>]
            Follows(g) == \A i \in 1 .. N : g[i] = IF i = 1 THEN Slot(trace_head[n]) ELSE After(g[i - 1])
<1>6. \A g : Is(g) => Follows(g)
  BY <1>1
<1>7. ASSUME NEW g, DOMAIN g = 1 .. N, g = [i \in 1 .. N |-> g[i]], Follows(g) PROVE Is(g)
  BY <1>1, <1>7
<1>8. \E g : Is(g)
  <2>. DEFINE g == [i \in 1 .. N |-> f[i - 1]]
  <2>1. DOMAIN g = 1 .. N /\ g = [i \in 1 .. N |-> g[i]]
    OBVIOUS
  <2>. HIDE DEF Slot, After, Slots
  <2>2. ASSUME NEW i \in 1 .. N PROVE g[i] = IF i = 1 THEN Slot(trace_head[n]) ELSE After(g[i - 1])
    <3>1. CASE i = 1
      BY <3>1, <1>5
    <3>2. CASE i # 1
      <4>1. i - 1 \in 1 .. N /\ i - 2 \in 0 .. N - 1 /\ (i - 2) + 1 = i - 1 /\ (i - 1) - 1 = i - 2
        BY <1>1, <3>2
      <4>2. g[i] = f[i - 1] /\ g[i - 1] = f[i - 2]
        BY <4>1
      <4>3. f[i - 1] = After(f[i - 2])
        BY <4>1, <1>5
      <4>4. QED
        BY <3>2, <4>2, <4>3
    <3>3. QED
      BY <3>1, <3>2
  <2>. HIDE DEF g, Is
  <2>3. QED
    BY <2>1, <2>2, <1>7
<1>9. Is(from)
  <2>1. from = CHOOSE g : Is(g)
    OBVIOUS
  <2>. HIDE DEF from, Is
  <2>2. QED
    BY <1>8, <2>1
<1>. HIDE DEF from
<1>10. \A i \in 1 .. N : from[i] = IF i = 1 THEN Slot(trace_head[n]) ELSE After(from[i - 1])
  BY <1>6, <1>9
<1>. HIDE DEF Is, Follows
<1>11. \A i \in 1 .. N - 1 : from[i + 1] = After(from[i])
  <2>. HIDE DEF After, Slot
  <2>1. ASSUME NEW i \in 1 .. N - 1 PROVE from[i + 1] = After(from[i])
    <3>1. i + 1 \in 1 .. N /\ i + 1 # 1 /\ (i + 1) - 1 = i
      BY <1>1
    <3>2. QED
      BY <3>1, <1>10
  <2>2. QED
    BY <2>1
<1>12. 1 \in 1 .. N => from[1] = Slot(trace_head[n])
  BY <1>10
<1>13. PICK m \in 0 .. N : I = 1 .. m
  <2>1. \A i \in 1 .. N - 1 : i + 1 \in I => i \in I
    <3>. SUFFICES ASSUME NEW i \in 1 .. N - 1, i + 1 \in I PROVE i \in I
      OBVIOUS
    <3>1. i \in 1 .. N /\ from[i + 1] # <<>> /\ from[i + 1] = After(from[i])
      BY <1>1, <1>11
    <3>2. from[i] # <<>>
      BY <3>1
    <3>3. QED
      BY <3>1, <3>2
  <2>2. I \in SUBSET (1 .. N)
    OBVIOUS
  <2>. HIDE DEF I
  <2>3. N \in Nat
    BY <1>1
  <2>4. QED
    BY <2>1, <2>2, <2>3, InitialSegment
<1>14. size = m
  <2>1. m \in Nat /\ 1 \in Int
    BY <1>1
  <2>. HIDE DEF I
  <2>2. Cardinality(1 .. m) = m
    BY <2>1, FS_Interval
  <2>3. QED
    BY <1>13, <2>2
<1>. DEFINE l == ListOf(n)
<1>15. l = [i \in 1 .. m |-> from[i][1]]
  BY <1>2, <1>14
<1>. HIDE DEF size, l
<1>16. \A i \in 1 .. m : i \in 1 .. N /\ from[i] # <<>>
  BY <1>13
<1>17. m < N => from[m + 1] = <<>>
  <2>1. SUFFICES ASSUME m < N PROVE m + 1 \notin I /\ m + 1 \in 1 .. N
    OBVIOUS
  <2>2. QED
    BY <1>1, <1>13, <2>1
<1>. HIDE DEF I
<1>18. \A i \in 1 .. m : from[i] \in Slots /\ from[i] = <<l[i]>> /\ l[i] \in Cells
  <2>1. ASSUME NEW i \in 1 .. m PROVE from[i] \in Slots
    <3>1. i \in 1 .. N /\ from[i] = IF i = 1 THEN Slot(trace_head[n]) ELSE After(from[i - 1])
      BY <1>10, <1>16
    <3>2. CASE i = 1
      BY <3>1, <3>2, <1>3
    <3>3. CASE i # 1
      BY <3>1, <3>3, <1>3
    <3>4. QED
      BY <3>2, <3>3
  <2>2. QED
    BY <2>1, <1>15, <1>16
<1>19. l \in [1 .. m -> Cells]
  BY <1>15, <1>18
<1>20. (m = 0 <=> trace_head[n] \notin Cells) /\ (m >= 1 => l[1] = trace_head[n])
  <2>1. CASE N = 0
    BY <1>1, <2>1
  <2>2. CASE N # 0
    <3>1. 1 \in 1 .. N /\ from[1] = Slot(trace_head[n])
      BY <1>1, <1>12, <2>2
    <3>2. m = 0 => trace_head[n] \notin Cells
      BY <3>1, <1>1, <1>17
    <3>3. m # 0 => 1 \in 1 .. m
      BY <1>1
    <3>4. m # 0 => trace_head[n] \in Cells /\ l[1] = trace_head[n]
      BY <3>1, <3>3, <1>18
    <3>5. QED
      BY <3>2, <3>4, <1>1
  <2>3. QED
    BY <2>1, <2>2
<1>21. \A i \in 1 .. m - 1 : l[i + 1] = heap[l[i]].next
  <2>. SUFFICES ASSUME NEW i \in 1 .. m - 1 PROVE l[i + 1] = heap[l[i]].next
    OBVIOUS
  <2>1. i \in 1 .. N - 1 /\ i \in 1 .. m /\ i + 1 \in 1 .. m
    BY <1>1
  <2>2. from[i] = <<l[i]>> /\ from[i + 1] = <<l[i + 1]>> /\ from[i + 1] = After(from[i])
    BY <2>1, <1>11, <1>18
  <2>3. QED
    BY <2>2
<1>22. m >= 1 /\ m < N => heap[l[m]].next \notin Cells
  <2>. SUFFICES ASSUME m >= 1, m < N PROVE heap[l[m]].next \notin Cells
    OBVIOUS
  <2>1. m \in 1 .. m /\ m \in 1 .. N - 1
    BY <1>1
  <2>2. from[m] = <<l[m]>> /\ from[m + 1] = After(from[m]) /\ from[m + 1] = <<>>
    BY <2>1, <1>11, <1>17, <1>18
  <2>3. After(<<l[m]>>) = Slot(heap[l[m]].next)
    OBVIOUS
  <2>4. Slot(heap[l[m]].next) = <<>>
    BY <2>2, <2>3
  <2>. HIDE DEF Slot
  <2>5. QED
    BY <2>4, <1>3
<1>23. HasList(n, m)
  BY <1>19, <1>20, <1>21, <1>22 DEF HasList, l, N
<1>24. QED
  BY <1>23

\* A set that has the head of a list, and the next of each of its cells, has all its cells.
LEMMA ListWithin ==
  ASSUME Typed, NEW n \in Nets, NEW S,
         trace_head[n] \in Cells => trace_head[n] \in S,
         \A c \in S \cap Cells : heap[c].next \in Cells => heap[c].next \in S
  PROVE  CellsOf(n) \subseteq S
<1>1. PICK m : HasList(n, m)
  BY ListShape
<1>. DEFINE l == ListOf(n)
            T == {i \in Nat : i + 1 <= m => l[i + 1] \in S}
<1>2. m \in Nat /\ l \in [1 .. m -> Cells]
      /\ (m = 0 <=> trace_head[n] \notin Cells) /\ (m >= 1 => l[1] = trace_head[n])
      /\ \A i \in 1 .. m - 1 : l[i + 1] = heap[l[i]].next
  BY <1>1 DEF HasList
<1>3. CellsOf(n) = {l[i] : i \in 1 .. m}
  BY <1>2 DEF CellsOf
<1>. HIDE DEF l
<1>4. 0 \in T
  BY <1>2
<1>5. \A i \in Nat : i \in T => i + 1 \in T
  <2>. SUFFICES ASSUME NEW i \in Nat, i \in T, (i + 1) + 1 <= m PROVE l[(i + 1) + 1] \in S
    OBVIOUS
  <2>1. i + 1 \in 1 .. m - 1 /\ i + 1 \in 1 .. m /\ (i + 1) + 1 \in 1 .. m
    BY <1>2
  <2>2. l[i + 1] \in S \cap Cells /\ l[(i + 1) + 1] \in Cells /\ l[(i + 1) + 1] = heap[l[i + 1]].next
    BY <1>2, <2>1
  <2>3. QED
    BY <2>2
<1>6. Nat \subseteq T
  <2>. HIDE DEF T
  <2>1. QED
    BY <1>4, <1>5, SetInduction
<1>7. ASSUME NEW i \in 1 .. m PROVE l[i] \in S
  <2>1. i - 1 \in Nat /\ (i - 1) + 1 = i /\ i <= m
    BY <1>2
  <2>2. i - 1 \in T
    BY <2>1, <1>6
  <2>3. QED
    BY <2>1, <2>2
<1>8. QED
  BY <1>3, <1>7

\* No list reaches a cell that was freed: the head was not, and no link leads to one.
LEMMA FreedUnreached ==
  ASSUME ListInv, NEW n \in Nets
  PROVE  freed \cap CellsOf(n) = {}
<1>1. trace_head[n] \in Cells => trace_head[n] \in Cells \ freed
  BY DEF ListInv, Linked
<1>2. \A c \in (Cells \ freed) \cap Cells : heap[c].next \in Cells => heap[c].next \in Cells \ freed
  BY DEF ListInv, Linked, LinkOK
<1>3. CellsOf(n) \subseteq Cells \ freed
  BY <1>1, <1>2, ListWithin DEF ListInv
<1>4. QED
  BY <1>3

\* The cells from the head of n up to the head allocated next.
Region(n) == {c \in Cells : c >= trace_head[n] /\ \A p \in Nets : ~ (trace_head[p] \in Cells /\ trace_head[n] < trace_head[p]
                                                                    /\ trace_head[p] <= c)}

\* The list of a routed net stays among them: its links lead one cell on, and to no head.
LEMMA ListInRegion ==
  ASSUME ListInv, NEW n \in Nets, Kind(n) = "routed", trace_head[n] \in Cells
  PROVE  CellsOf(n) \subseteq Region(n)
<1>1. Cells \subseteq Nat
  BY NoGarbage DEF ListInv
<1>2. trace_head[n] \in Region(n)
  <2>1. trace_head[n] \in Nat /\ \A p \in Nets : trace_head[p] \in Cells => trace_head[p] \in Nat
    BY <1>1
  <2>2. \A a, b \in Nat : ~ (a < b /\ b <= a) /\ a >= a
    OBVIOUS
  <2>3. QED
    BY <2>1, <2>2 DEF Region
<1>3. ASSUME NEW c \in Region(n) \cap Cells, heap[c].next \in Cells PROVE heap[c].next \in Region(n)
  <2>1. c \in Nat /\ c >= trace_head[n]
        /\ \A p \in Nets : ~ (trace_head[p] \in Cells /\ trace_head[n] < trace_head[p] /\ trace_head[p] <= c)
    BY <1>1 DEF Region
  <2>2. CASE heap[c].next = c + 1 /\ \A p \in Nets : trace_head[p] # c + 1
    <3>0. /\ trace_head[n] \in Nat
          /\ \A a, b \in Nat : (a <= b + 1 /\ a # b + 1 => a <= b) /\ (b >= a => b + 1 >= a)
      <4>1. trace_head[n] \in Nat
        BY <1>1
      <4>2. \A a, b \in Nat : (a <= b + 1 /\ a # b + 1 => a <= b) /\ (b >= a => b + 1 >= a)
        OBVIOUS
      <4>3. QED
        BY <4>1, <4>2
    <3>1. \A p \in Nets : trace_head[p] \in Cells /\ trace_head[p] <= c + 1 => trace_head[p] <= c
      <4>1. \A p \in Nets : trace_head[p] \in Cells => trace_head[p] \in Nat
        BY <1>1
      <4>2. QED
        BY <3>0, <4>1, <2>1, <2>2
    <3>2. c + 1 \in Cells /\ c + 1 >= trace_head[n]
      BY <1>3, <3>0, <2>1, <2>2
    <3>3. QED
      BY <2>1, <2>2, <3>1, <3>2 DEF Region
  <2>3. CASE \E p \in Nets : Kind(p) = "local" /\ trace_head[p] = c
    <3>1. PICK p \in Nets : Kind(p) = "local" /\ trace_head[p] = c
      BY <2>3
    <3>2. ~ (trace_head[n] < c)
      BY <2>1, <3>1
    <3>3. c = trace_head[n]
      <4>1. trace_head[n] \in Nat
        BY <1>1
      <4>2. QED
        BY <2>1, <3>2, <4>1
    <3>4. p = n
      BY <3>1, <3>3 DEF ListInv, Linked
    <3>5. QED
      BY <3>1, <3>4
  <2>4. LinkOK(c)
    BY <1>3 DEF ListInv, Linked
  <2>5. QED
    BY <2>2, <2>3, <2>4 DEF LinkOK
<1>4. QED
  BY <1>2, <1>3, ListWithin DEF ListInv

\* Two routed nets share no cell: the one whose head is allocated later is past the region of the other.
LEMMA ListsApart ==
  ASSUME ListInv, NEW n \in Nets, NEW m \in Nets, n # m, Kind(n) = "routed", Kind(m) = "routed"
  PROVE  CellsOf(n) \cap CellsOf(m) = {}
<1>1. ASSUME NEW p \in Nets, trace_head[p] \notin Cells PROVE CellsOf(p) \subseteq {}
  <2>. DEFINE none == {}
  <2>1. \A c \in none \cap Cells : heap[c].next \in Cells => heap[c].next \in none
    OBVIOUS
  <2>2. trace_head[p] \in Cells => trace_head[p] \in none
    BY <1>1
  <2>. HIDE DEF none
  <2>3. CellsOf(p) \subseteq none
    BY <2>1, <2>2, ListWithin DEF ListInv
  <2>4. QED
    BY <2>3 DEF none
<1>2. SUFFICES ASSUME trace_head[n] \in Cells, trace_head[m] \in Cells PROVE CellsOf(n) \cap CellsOf(m) = {}
  BY <1>1
<1>3. CellsOf(n) \subseteq Region(n) /\ CellsOf(m) \subseteq Region(m)
  BY <1>2, ListInRegion
<1>4. trace_head[n] # trace_head[m]
  BY <1>2 DEF ListInv, Linked
<1>5. Cells \subseteq Nat
  BY NoGarbage DEF ListInv
<1>6. ASSUME NEW c \in Region(n), c \in Region(m) PROVE FALSE
  <2>1. c \in Cells /\ c >= trace_head[n] /\ c >= trace_head[m]
        /\ ~ (trace_head[n] < trace_head[m] /\ trace_head[m] <= c)
        /\ ~ (trace_head[m] < trace_head[n] /\ trace_head[n] <= c)
    BY <1>2, <1>6 DEF Region
  <2>2. c \in Nat /\ trace_head[n] \in Nat /\ trace_head[m] \in Nat
    BY <1>2, <1>5, <2>1
  <2>3. QED
    BY <1>4, <2>1, <2>2
<1>7. QED
  BY <1>3, <1>6

\* No list reaches a freed cell and the lists of routed nets are disjoint, whatever
\* was routed and wherever the file ends (route.c:160-185).
THEOREM ListsOwn == Spec => []ListsOwnTheirCells
<1>1. ListInv => ListsOwnTheirCells
  BY FreedUnreached, ListsApart DEF ListsOwnTheirCells, Kind
<1>2. QED
  BY <1>1, ListsInvariant, PTL

-----------------------------------------------------------------------------
(* The inductive invariant: the lists rebuilt *)

Trace(n) == routing[n].trace

\* No net returns to its source. A branch from the source overwrites the sink
\* before it (route.c:181), and its list is then not the traceback.
SourceOnce ==
  \A n \in Nets : Kind(n) = "routed" => \A i \in 2 .. Len(Trace(n)) : RRType[Trace(n)[i]] # "SOURCE"

\* The cell of node k of the traceback of n, and the switch to the node after it.
CellAt(n, k) == trace_head[n] + k - 1
SwitchAfter(n, k) ==
  IF RRType[Trace(n)[k]] = "SINK" THEN OPEN ELSE Switch[<<Trace(n)[k], Trace(n)[k + 1]>>]

\* The first j nodes of the traceback of n are in cells that follow one another.
Chain(n, j) ==
  \A k \in 1 .. j :
    /\ CellAt(n, k) \in Cells /\ heap[CellAt(n, k)].index = Trace(n)[k]
    /\ k < j => heap[CellAt(n, k)].next = CellAt(n, k + 1) /\ heap[CellAt(n, k)].iswitch = SwitchAfter(n, k)

\* The list of the current net, as far as it was read, ends at the current cell.
Partial ==
  pc = "line" /\ cur_net # OPEN /\ Kind(cur_net) = "routed" =>
    LET j == linenum - At(cur_net) - 1
    IN  Chain(cur_net, j) /\ (j >= 1 => trace = CellAt(cur_net, j))

\* The list of n is its whole traceback.
WholeList(n) ==
  /\ trace_head[n] \in Cells /\ Chain(n, Len(Trace(n)))
  /\ trace_tail[n] = CellAt(n, Len(Trace(n))) /\ heap[trace_tail[n]].next = NULL

Loaded ==
  SourceOnce =>
    /\ Partial
    /\ \A n \in Nets : Kind(n) = "routed" /\ Closed(n) /\ (cur_net # n \/ file = print_route(routing)) => WholeList(n)

(* The nets read *)

\* The list of a routed net whose lines were begun is closed, or is the current one,
\* and a global net has none.
Listed(n) ==
  /\ Kind(n) = "routed" => Closed(n) \/ (pc = "line" /\ cur_net = n)
  /\ Kind(n) = "global" => trace_head[n] = NULL
AllListed ==
  /\ pc = "line" => \A n \in Nets : At(n) < linenum => Listed(n)
  /\ pc = "walk" /\ file = print_route(routing) => \A n \in Nets : Listed(n)

(* The walk *)

\* The cell of node k of the traceback of n was walked.
Walked(n, k) == n < net_idx \/ (n = net_idx /\ (cell = NULL \/ CellAt(n, k) < cell))

\* The walk is at the end of a list, or on a cell of the list of a routed net.
OnList == cell # NULL => Kind(net_idx) = "routed" /\ \E k \in 1 .. Len(Trace(net_idx)) : cell = CellAt(net_idx, k)

\* A node that was marked is one of its net, and every node walked was marked.
Marked ==
  /\ \A node \in Nodes : net_num[node] # OPEN => Uses(net_num[node], node)
  /\ \A n \in Nets : Kind(n) = "routed" => \A k \in 1 .. Len(Trace(n)) : Walked(n, k) => net_num[Trace(n)[k]] # OPEN

\* The wires driven by a wire are those that the links walked lead to.
DrivenBy(n, k, b) == ChanDriven(Trace(n)[k], Trace(n)[k + 1]) /\ b = Trace(n)[k + 1]
Driven ==
  \A b \in Nodes : b \in chan_driven_by_chan <=>
    \E n \in Nets : Kind(n) = "routed" /\ \E k \in 1 .. Len(Trace(n)) - 1 : Walked(n, k) /\ DrivenBy(n, k, b)

Walk ==
  /\ pc \in {"header", "line"} => (\A node \in Nodes : net_num[node] = OPEN) /\ chan_driven_by_chan = {}
  /\ SourceOnce /\ Expected /\ pc = "walk" => OnList /\ Marked /\ Driven

-----------------------------------------------------------------------------
(* The lists rebuilt are kept *)

\* The traceback of a routed net: from a source, along the edges of the graph but after a sink.
LEMMA TraceShape ==
  ASSUME routing \in Routings, NEW n \in Nets, Kind(n) = "routed"
  PROVE  /\ Trace(n) \in Seq(Nodes) /\ Len(Trace(n)) \in Nat \ {0} /\ Size(n) = Len(Trace(n)) + 1
         /\ RRType[Trace(n)[1]] = "SOURCE" /\ RRType[Trace(n)[Len(Trace(n))]] = "SINK"
         /\ \A i \in 1 .. Len(Trace(n)) : Trace(n)[i] \in Nodes
         /\ \A i \in 1 .. Len(Trace(n)) - 1 :
              SwitchAfter(n, i) = IF <<Trace(n)[i], Trace(n)[i + 1]>> \in Edges
                                  THEN Switch[<<Trace(n)[i], Trace(n)[i + 1]>>] ELSE OPEN
<1>. DEFINE t == Trace(n)
<1>1. t \in Seq(Nodes) /\ Len(t) \in Nat /\ Size(n) = Len(t) + 1
  BY KindOfNet DEF Trace
<1>2. /\ t # <<>> /\ RRType[t[1]] = "SOURCE" /\ RRType[t[Len(t)]] = "SINK"
      /\ \A i \in 1 .. Len(t) - 1 : RRType[t[i]] # "SINK" => <<t[i], t[i + 1]>> \in Edges
  BY RoutingsAssumption DEF Trace, Kind
<1>3. \A i \in 1 .. Len(t) - 1 : RRType[t[i]] = "SINK" => <<t[i], t[i + 1]>> \notin Edges
  <2>1. \A a, b : RRType[a] = "SINK" => <<a, b>> \notin Edges
    BY GraphAssumption
  <2>2. QED
    BY <2>1
<1>4. \A i \in 1 .. Len(t) - 1 : SwitchAfter(n, i) = IF <<t[i], t[i + 1]>> \in Edges
                                                    THEN Switch[<<t[i], t[i + 1]>>] ELSE OPEN
  BY <1>2, <1>3 DEF SwitchAfter
<1>. HIDE DEF t
<1>5. Len(t) # 0 /\ \A i \in 1 .. Len(t) : t[i] \in Nodes
  BY <1>1, <1>2
<1>6. QED
  BY <1>1, <1>2, <1>4, <1>5 DEF t

\* A cell that leads to another, or that ends a list, is never written again.
LEMMA Frozen ==
  ASSUME ListInv, [Next]_vars, NEW c \in Cells, heap[c].next # Garbage
  PROVE  c \in Cells' /\ heap'[c] = heap[c]
<1>. USE DEF ListInv
<1>1. CASE (\E how \in Final : Stop(how)) \/ SkipLine \/ MarkCell \/ NextNet \/ Charge \/ Header \/ UNCHANGED vars
  BY <1>1 DEF Stop, SkipLine, MarkCell, NextNet, Charge, Header, vars, store, Cells
<1>2. CASE NetLine \/ GlobalLine
  <2>1. pc = "line" /\ heap' \in Seq(Cell) /\ Len(heap') = Len(heap) + 1 /\ heap'[c] = ClosedHeap[c]
    BY <1>2, FirstLineHeap
  <2>2. QED
    BY <2>1, ClosingHeap, CellsGrow
<1>3. CASE NodeLine /\ ~ Stop("exit")
  <2>1. pc = "line" /\ linenum \in DOMAIN file /\ TheLine.kind = "node"
    BY <1>3 DEF NodeLine, AtLine
  <2>2. PICK n \in Nets : \E i \in 1 .. Size(n) - 1 : Reads(n, i) /\ Kind(n) \in {"routed", "foreign"}
    BY <2>1, RestOfNet
  <2>3. heap[trace].next = Garbage
    BY <2>2 DEF Reads, OnCell
  <2>4. heap' \in Seq(Cell) /\ Len(heap') = Len(heap) + 1 /\ heap'[c] = heap[c]
    BY <1>3, <2>3, NodeLineHeap
  <2>5. QED
    BY <2>4, CellsGrow
<1>4. CASE OtherLine /\ ~ Stop("exit") /\ ~ Stop("corrupt")
  <2>1. pc = "line" /\ linenum \in DOMAIN file /\ TheLine.kind = "other" /\ ~ skip_cur_net
    BY <1>4 DEF OtherLine, AtLine
  <2>2. PICK n \in Nets : \E i \in 1 .. Size(n) - 1 : Reads(n, i) /\ Kind(n) \in {"local", "global"} /\ i = 1
    BY <2>1, RestOfNet
  <2>3. heap[trace].next = Garbage
    BY <2>1, <2>2 DEF Reads, OnCell
  <2>4. heap' \in Seq(Cell) /\ Len(heap') = Len(heap) /\ heap'[c] = heap[c]
    BY <1>4, <2>3, OtherLineHeap
  <2>5. QED
    BY <2>4, CellsGrow
<1>5. CASE SourceLine
  <2>1. pc = "line" /\ linenum \in DOMAIN file /\ TheLine.kind = "node"
    BY <1>5 DEF SourceLine, AtLine
  <2>2. PICK n \in Nets : \E i \in 1 .. Size(n) - 1 : Reads(n, i) /\ Kind(n) \in {"routed", "foreign"}
    BY <2>1, RestOfNet
  <2>3. heap[trace].next = Garbage
    BY <2>2 DEF Reads, OnCell
  <2>4. heap' \in Seq(Cell) /\ Len(heap') = Len(heap) /\ heap'[c] = heap[c]
    BY <1>5, <2>3, SourceLineHeap
  <2>5. QED
    BY <2>4, CellsGrow
<1>6. CASE EndOfFile
  <2>1. pc = "line" /\ heap' = ClosedHeap
    BY <1>6 DEF EndOfFile
  <2>2. QED
    BY <2>1, ClosingHeap, CellsGrow
<1>7. QED
  BY <1>1, <1>2, <1>3, <1>4, <1>5, <1>6, NextSteps DEF Final

\* The steps that leave the heads and the tails alone, or only close the current list.
LEMMA OtherLists ==
  ASSUME [Next]_vars, ~ NetLine, ~ GlobalLine
  PROVE  /\ routing' = routing /\ file' = file /\ cur_net' = cur_net /\ trace_head' = trace_head
         /\ trace_tail' = trace_tail \/ (pc = "line" /\ trace_tail' = ClosedTails /\ EndOfFile)
<1>1. CASE (\E how \in Final : Stop(how)) \/ SkipLine \/ SourceLine \/ MarkCell \/ NextNet \/ Charge \/ Header \/ UNCHANGED vars
  BY <1>1 DEF Stop, SkipLine, SourceLine, MarkCell, NextNet, Charge, Header, NextLine, vars, input, lists, reader
<1>2. CASE NodeLine \/ OtherLine
  <2>1. \A h, to, type : LinkTo(h, to, type) => UNCHANGED <<routing, file, cur_net, trace_head, trace_tail>>
    BY DEF LinkTo, Stop, NextLine, input, lists, reader
  <2>2. Stop("corrupt") => UNCHANGED <<routing, file, cur_net, trace_head, trace_tail>>
    BY DEF Stop, input, lists, reader
  <2>3. QED
    BY <1>2, <2>1, <2>2 DEF NodeLine, OtherLine
<1>3. CASE EndOfFile
  BY <1>3 DEF EndOfFile, input, reader
<1>4. QED
  BY <1>1, <1>2, <1>3, NextSteps

\* What the first line of a net does to the heads and the tails.
LEMMA FirstLineLists ==
  ASSUME ListInv, NetLine \/ GlobalLine
  PROVE  \E m \in Nets :
           /\ Begins(m) /\ Unread(m) /\ m # cur_net /\ linenum' = linenum + 1
           /\ UNCHANGED <<routing, file, pc>>
           /\ cur_net' \in {OPEN, m} /\ (cur_net' = OPEN <=> Kind(m) = "global")
           /\ \A n \in Nets : n # m => trace_head'[n] = trace_head[n] /\ trace_tail'[n] = ClosedTails[n]
           /\ Kind(m) = "global" => trace_head'[m] = NULL
           /\ Kind(m) # "global" => trace_tail'[m] = Garbage
<1>. USE DEF ListInv
<1>1. pc = "line" /\ linenum \in DOMAIN file /\ TheLine.kind \in {"net", "global"}
  BY DEF NetLine, GlobalLine, AtLine
<1>2. PICK m \in Nets : /\ Begins(m) /\ TheLine.of = m
                        /\ TheLine.kind = "net" <=> Kind(m) \in {"routed", "foreign", "local"}
                        /\ TheLine.kind = "global" <=> Kind(m) = "global"
  BY <1>1, FirstOfNet
<1>3. Unread(m)
  BY <1>2, NetsRange DEF Begins
<1>4. m # cur_net
  BY <1>1, <1>3, CurrentNet, NoGarbage DEF Unread
<1>5. ClosedTails \in [Nets -> Pointers] /\ trace_head \in [Nets -> Pointers] /\ ClosedTails[m] = Garbage
  BY <1>3, <1>4 DEF Typed, ClosedTails, Unread
<1>6. linenum' = linenum + 1 /\ UNCHANGED <<routing, file, pc>>
  BY DEF NetLine, GlobalLine, NextLine, input
<1>7. CASE NetLine
  <2>1. /\ Kind(m) # "global" /\ cur_net' = m /\ trace_tail' = ClosedTails
        /\ trace_head' = [trace_head EXCEPT ![m] = NewCell]
    BY <1>2, <1>7 DEF NetLine, AtLine
  <2>2. \A n \in Nets : n # m => trace_head'[n] = trace_head[n]
    BY <1>5, <2>1
  <2>3. m # OPEN
    BY NoGarbage
  <2>4. QED
    BY <1>2, <1>3, <1>4, <1>5, <1>6, <2>1, <2>2, <2>3
<1>8. CASE GlobalLine
  <2>1. /\ Kind(m) = "global" /\ cur_net' = OPEN /\ trace_tail' = [ClosedTails EXCEPT ![m] = NULL]
        /\ trace_head' = [trace_head EXCEPT ![m] = NULL]
    BY <1>2, <1>8 DEF GlobalLine, AtLine, GlobalHead
  <2>2. trace_head'[m] = NULL /\ \A n \in Nets : n # m => trace_head'[n] = trace_head[n] /\ trace_tail'[n] = ClosedTails[n]
    BY <1>5, <2>1
  <2>3. QED
    BY <1>2, <1>3, <1>4, <1>5, <1>6, <2>1, <2>2
<1>9. QED
  BY <1>7, <1>8

\* A list that is closed stays as it is.
LEMMA ClosedKept ==
  ASSUME ListInv, [Next]_vars, NEW n \in Nets, Closed(n)
  PROVE  /\ trace_head'[n] = trace_head[n] /\ trace_tail'[n] = trace_tail[n]
         /\ routing' = routing /\ file' = file /\ (cur_net = n => cur_net' = n)
<1>. USE DEF ListInv
<1>1. pc = "line" => cur_net # n
  BY CurrentNet, NoGarbage DEF Closed
<1>2. pc = "line" => ClosedTails[n] = trace_tail[n]
  BY <1>1 DEF ClosedTails, Typed
<1>3. CASE NetLine \/ GlobalLine
  <2>1. pc = "line"
    BY <1>3 DEF NetLine, GlobalLine, AtLine
  <2>2. PICK m \in Nets : /\ Unread(m) /\ UNCHANGED <<routing, file>>
                          /\ n # m => trace_head'[n] = trace_head[n] /\ trace_tail'[n] = ClosedTails[n]
    BY <1>3, FirstLineLists
  <2>3. n # m
    BY <2>2 DEF Unread, Closed
  <2>4. QED
    BY <1>1, <1>2, <2>1, <2>2, <2>3
<1>4. CASE ~ NetLine /\ ~ GlobalLine
  BY <1>2, <1>4, OtherLists
<1>5. QED
  BY <1>3, <1>4

\* A whole list stays as it is.
LEMMA WholeKept ==
  ASSUME ListInv, [Next]_vars, NEW n \in Nets, Kind(n) = "routed", Closed(n), WholeList(n)
  PROVE  WholeList(n)'
<1>1. trace_head'[n] = trace_head[n] /\ trace_tail'[n] = trace_tail[n] /\ routing' = routing
  BY ClosedKept
<1>2. Trace(n)' = Trace(n) /\ Trace(n) \in Seq(Nodes) /\ Len(Trace(n)) \in Nat
  BY <1>1, KindOfNet DEF Trace, ListInv, Typed
<1>3. \A k : CellAt(n, k)' = CellAt(n, k)
  BY <1>1 DEF CellAt
<1>4. \A k : SwitchAfter(n, k)' = SwitchAfter(n, k)
  BY <1>2 DEF SwitchAfter
<1>5. ASSUME NEW c \in Cells, heap[c].next \in Cells \cup {NULL} PROVE c \in Cells' /\ heap'[c] = heap[c]
  BY <1>5, Frozen, NoGarbage DEF ListInv
<1>6. ASSUME NEW k \in 1 .. Len(Trace(n)) PROVE heap[CellAt(n, k)].next \in Cells \cup {NULL}
  <2>1. CASE k < Len(Trace(n))
    <3>1. k + 1 \in 1 .. Len(Trace(n))
      BY <1>2, <2>1
    <3>2. QED
      BY <2>1, <3>1 DEF WholeList, Chain
  <2>2. CASE k = Len(Trace(n))
    BY <2>2 DEF WholeList
  <2>3. QED
    BY <1>2, <2>1, <2>2
<1>7. ASSUME NEW k \in 1 .. Len(Trace(n))
      PROVE  CellAt(n, k) \in Cells /\ CellAt(n, k) \in Cells' /\ heap'[CellAt(n, k)] = heap[CellAt(n, k)]
  BY <1>5, <1>6 DEF WholeList, Chain
<1>8. Chain(n, Len(Trace(n)))'
  <2>1. ASSUME NEW k \in 1 .. Len(Trace(n))
        PROVE  /\ CellAt(n, k) \in Cells' /\ heap'[CellAt(n, k)].index = Trace(n)[k]
               /\ k < Len(Trace(n)) => heap'[CellAt(n, k)].next = CellAt(n, k + 1)
                                       /\ heap'[CellAt(n, k)].iswitch = SwitchAfter(n, k)
    BY <1>7 DEF WholeList, Chain
  <2>. HIDE DEF Cells
  <2>2. QED
    BY <1>2, <1>3, <1>4, <2>1 DEF Chain
<1>9. trace_head[n] \in Cells' /\ Len(Trace(n)) \in 1 .. Len(Trace(n))
  <2>1. 1 \in 1 .. Len(Trace(n)) /\ Len(Trace(n)) \in 1 .. Len(Trace(n))
    BY <1>2, TraceShape DEF ListInv, Typed
  <2>2. CellAt(n, 1) = trace_head[n]
    BY NoGarbage DEF CellAt, WholeList, ListInv
  <2>3. QED
    BY <2>1, <2>2, <1>7
<1>10. heap'[trace_tail[n]].next = NULL
  BY <1>7, <1>9 DEF WholeList
<1>11. trace_tail[n] = CellAt(n, Len(Trace(n)))
  BY DEF WholeList
<1>12. QED
  BY <1>1, <1>2, <1>3, <1>8, <1>9, <1>10, <1>11 DEF WholeList

\* A net whose list is being read, at the first line of the next one, was read to its end.
LEMMA ReadToTheEnd ==
  ASSUME ListInv, pc = "line", cur_net # OPEN, Kind(cur_net) = "routed",
         \/ linenum \in DOMAIN file /\ TheLine.kind \in {"net", "global"}
         \/ linenum \notin DOMAIN file /\ file = print_route(routing)
  PROVE  linenum = At(cur_net) + Size(cur_net) /\ trace \in Cells
<1>1. routing \in Routings /\ file \in FilesOf(routing) /\ linenum \in 1 .. Len(file) + 1
  BY DEF ListInv, Typed
<1>2. PICK n \in Nets : \E i \in 1 .. Size(n) : Reads(n, i)
  BY DEF ListInv, Place, Blank
<1>3. PICK i \in 1 .. Size(n) : Reads(n, i)
  BY <1>2
<1>4. n = cur_net /\ linenum = At(n) + i /\ trace \in Cells
  BY <1>3 DEF Reads
<1>5. At(n) \in Nat /\ Size(n) \in Nat /\ i \in Nat /\ At(n + 1) = At(n) + Size(n)
  BY <1>1, KindOfNet
<1>6. CASE linenum \in DOMAIN file /\ TheLine.kind \in {"net", "global"}
  <2>1. ASSUME i # Size(n) PROVE FALSE
    <3>1. i \in 1 .. Size(n) - 1 /\ i + 1 \in 1 .. Size(n) /\ linenum = At(n) + (i + 1) - 1
      BY <1>4, <1>5, <2>1
    <3>2. TheLine = NetLines(n, routing[n])[i + 1]
      BY <1>1, <1>6, <3>1, FileLines DEF TheLine, At, Size
    <3>3. QED
      BY <1>1, <1>6, <3>1, <3>2, OtherLineKind
  <2>2. QED
    BY <1>4, <2>1
<1>7. CASE linenum \notin DOMAIN file /\ file = print_route(routing)
  <2>1. DOMAIN file = 1 .. Len(file) /\ Len(file) \in Nat /\ Len(file) = At(num_nets) - 1
    BY <1>1, <1>7, FileLines DEF At
  <2>2. linenum = Len(file) + 1
    BY <1>1, <1>7, <2>1
  <2>3. At(n + 1) <= At(num_nets) /\ At(num_nets) \in Nat
    <3>1. HoldsNets(file, routing, num_nets - 1) /\ n \in 0 .. num_nets - 1 /\ (num_nets - 1) + 1 = num_nets
      BY <1>1, <1>7, PrintedFile, NetsRange DEF Nets
    <3>2. At(n + 1) <= At(num_nets)
      BY <3>1 DEF HoldsNets, At
    <3>3. At(num_nets) \in Nat
      BY <1>1, LineOfRec, NetsRange DEF At
    <3>4. QED
      BY <3>2, <3>3
  <2>4. linenum = At(num_nets)
    BY <2>1, <2>2, <2>3
  <2>5. i = Size(n)
    BY <1>4, <1>5, <2>3, <2>4
  <2>6. QED
    BY <1>4, <2>5
<1>8. QED
  BY <1>6, <1>7

\* Closing the list of a net that was read to its end makes it the whole traceback.
LEMMA WholeWhenClosed ==
  ASSUME ListInv, Partial, pc = "line", NEW n \in Nets, cur_net = n, Kind(n) = "routed",
         linenum = At(n) + Size(n), trace \in Cells,
         \A c \in Cells : heap'[c] = ClosedHeap[c], Cells \subseteq Cells',
         trace_head'[n] = trace_head[n], trace_tail'[n] = trace, routing' = routing
  PROVE  WholeList(n)'
<1>1. routing \in Routings /\ n # OPEN
  BY NoGarbage DEF ListInv, Typed
<1>. DEFINE z == Len(Trace(n))
<1>2. z \in Nat \ {0} /\ At(n) \in Nat /\ Size(n) = z + 1
  BY <1>1, TraceShape, KindOfNet
<1>3. Chain(n, z) /\ trace = CellAt(n, z)
  <2>1. linenum - At(n) - 1 = z
    BY <1>2
  <2>2. QED
    BY <1>1, <1>2, <2>1 DEF Partial
<1>4. Trace(n)' = Trace(n)
  BY DEF Trace
<1>. HIDE DEF z
<1>5. \A k : CellAt(n, k)' = CellAt(n, k) /\ SwitchAfter(n, k)' = SwitchAfter(n, k)
  BY <1>4 DEF CellAt, SwitchAfter
<1>6. \A c \in Cells : /\ heap'[c].index = heap[c].index /\ heap'[c].iswitch = heap[c].iswitch
                       /\ heap'[c].next = IF c = trace THEN NULL ELSE heap[c].next
  BY <1>1, ClosingHeap DEF ListInv
<1>7. trace_head[n] \in Cells
  BY <1>1, CurrentNet DEF ListInv
<1>8. ASSUME NEW k \in 1 .. z
      PROVE  /\ CellAt(n, k) \in Cells' /\ heap'[CellAt(n, k)].index = Trace(n)[k]
             /\ k < z => heap'[CellAt(n, k)].next = CellAt(n, k + 1) /\ heap'[CellAt(n, k)].iswitch = SwitchAfter(n, k)
  <2>1. /\ CellAt(n, k) \in Cells /\ heap[CellAt(n, k)].index = Trace(n)[k]
        /\ k < z => heap[CellAt(n, k)].next = CellAt(n, k + 1) /\ heap[CellAt(n, k)].iswitch = SwitchAfter(n, k)
    BY <1>3 DEF Chain
  <2>2. k < z => CellAt(n, k) # trace
    <3>1. trace_head[n] \in Nat /\ k \in Nat /\ z \in Nat
      BY <1>2, <1>7, NoGarbage DEF ListInv
    <3>2. QED
      BY <1>3, <3>1 DEF CellAt
  <2>. HIDE DEF Cells
  <2>3. QED
    BY <2>1, <2>2, <1>6
<1>9. Chain(n, z)'
  BY <1>4, <1>5, <1>8 DEF Chain, z
<1>10. z' = z
  BY <1>4 DEF z
<1>11. trace_tail'[n] = CellAt(n, z)'
  BY <1>3, <1>10 DEF CellAt
<1>12. trace_head'[n] \in Cells' /\ heap'[trace_tail'[n]].next = NULL
  BY <1>6, <1>7
<1>13. QED
  BY <1>9, <1>10, <1>11, <1>12 DEF WholeList, z

\* Every list that is closed after a step is the whole traceback of its net.
LEMMA WholeNext ==
  ASSUME ListInv, Loaded, SourceOnce, [Next]_vars, NEW n \in Nets,
         Kind(n)' = "routed", Closed(n)', cur_net' # n \/ (file = print_route(routing))'
  PROVE  WholeList(n)'
<1>1. CASE Closed(n)
  <2>1. routing' = routing /\ file' = file /\ (cur_net = n => cur_net' = n)
    BY <1>1, ClosedKept
  <2>2. Kind(n) = "routed" /\ (cur_net # n \/ file = print_route(routing))
    BY <2>1 DEF Kind
  <2>3. WholeList(n)
    BY <1>1, <2>2 DEF Loaded
  <2>4. QED
    BY <1>1, <2>2, <2>3, WholeKept
<1>2. CASE ~ Closed(n) /\ (NetLine \/ GlobalLine)
  <2>1. /\ pc = "line" /\ linenum \in DOMAIN file /\ TheLine.kind \in {"net", "global"}
        /\ heap' \in Seq(Cell) /\ Len(heap') = Len(heap) + 1 /\ \A c \in Cells : heap'[c] = ClosedHeap[c]
    BY <1>2, FirstLineHeap DEF ListInv
  <2>2. PICK m \in Nets : /\ Begins(m) /\ Unread(m) /\ m # cur_net
                          /\ UNCHANGED <<routing, file, pc>>
                          /\ n # m => trace_head'[n] = trace_head[n] /\ trace_tail'[n] = ClosedTails[n]
                          /\ Kind(m) # "global" => trace_tail'[m] = Garbage
    BY <1>2, FirstLineLists
  <2>3. n # m /\ Kind(n) = "routed"
    BY <2>2 DEF Kind, Closed
  <2>4. n = cur_net /\ n # OPEN /\ trace_tail'[n] = trace
    BY <1>2, <2>2, <2>3, NoGarbage DEF Closed, ClosedTails, ListInv, Typed
  <2>5. linenum = At(n) + Size(n) /\ trace \in Cells
    BY <2>1, <2>3, <2>4, ReadToTheEnd
  <2>6. Cells \subseteq Cells'
    BY <2>1, CellsGrow DEF ListInv
  <2>7. Partial
    BY DEF Loaded
  <2>8. QED
    BY <2>1, <2>2, <2>3, <2>4, <2>5, <2>6, <2>7, WholeWhenClosed
<1>3. CASE ~ Closed(n) /\ ~ NetLine /\ ~ GlobalLine
  <2>1. /\ routing' = routing /\ file' = file /\ cur_net' = cur_net /\ trace_head' = trace_head
        /\ pc = "line" /\ trace_tail' = ClosedTails /\ EndOfFile
    BY <1>3, OtherLists DEF Closed
  <2>2. n = cur_net /\ n # OPEN /\ trace_tail'[n] = trace
    BY <1>3, <2>1, NoGarbage DEF Closed, ClosedTails, ListInv, Typed
  <2>3. linenum \notin DOMAIN file /\ heap' = ClosedHeap /\ Kind(n) = "routed" /\ file = print_route(routing)
    BY <2>1, <2>2 DEF EndOfFile, Kind
  <2>4. linenum = At(n) + Size(n) /\ trace \in Cells
    BY <2>1, <2>2, <2>3, ReadToTheEnd
  <2>5. Cells' = Cells
    BY <2>1, <2>3, ClosingHeap, CellsGrow DEF ListInv
  <2>6. Partial
    BY DEF Loaded
  <2>7. QED
    BY <2>1, <2>2, <2>3, <2>4, <2>5, <2>6, WholeWhenClosed
<1>4. QED
  BY <1>1, <1>2, <1>3

\* Reading a node extends the chain of the current net by its cell.
LEMMA ChainGrows ==
  ASSUME ListInv, Loaded, SourceOnce, NodeLine, ~ Stop("exit"), Kind(cur_net) = "routed"
  PROVE  Partial'
<1>1. pc = "line" /\ linenum \in DOMAIN file /\ TheLine.kind = "node" /\ RRType[TheLine.of] # "SOURCE"
  BY DEF NodeLine, AtLine
<1>2. PICK n \in Nets : \E l \in 1 .. Size(n) - 1 :
        Reads(n, l) /\ Kind(n) \in {"routed", "foreign"} /\ l \in 1 .. Len(Trace(n)) /\ TheLine.of = Trace(n)[l]
  BY <1>1, RestOfNet DEF ListInv, Trace
<1>3. PICK l \in 1 .. Len(Trace(n)) : Reads(n, l) /\ TheLine.of = Trace(n)[l]
  BY <1>2
<1>4. routing \in Routings
  BY DEF ListInv, Typed
<1>5. cur_net = n /\ linenum = At(n) + l /\ trace = Len(heap) /\ n # OPEN /\ Kind(n) = "routed"
  BY <1>2, <1>3, NoGarbage DEF Reads, OnCell, ListInv
<1>6. Len(Trace(n)) \in Nat \ {0} /\ At(n) \in Nat /\ l \in Nat /\ RRType[Trace(n)[1]] = "SOURCE"
  BY <1>4, <1>5, TraceShape, KindOfNet
<1>7. l # 1
  BY <1>1, <1>3, <1>6
<1>8. l \in 2 .. Len(Trace(n)) /\ l - 1 \in 1 .. Len(Trace(n)) - 1 /\ (l - 1) + 1 = l /\ linenum - At(n) - 1 = l - 1
  BY <1>5, <1>6, <1>7
<1>9. Chain(n, l - 1) /\ trace = CellAt(n, l - 1)
  <2>1. Partial
    BY DEF Loaded
  <2>2. QED
    BY <1>1, <1>5, <1>6, <1>8, <2>1 DEF Partial
<1>10. trace_head[n] \in Nat /\ trace \in Nat /\ trace \in Cells
  BY <1>1, <1>3, <1>5, CurrentNet, NoGarbage DEF ListInv, Reads
<1>11. CellAt(n, l) = trace + 1 /\ NewCell = trace + 1
  BY <1>5, <1>6, <1>9, <1>10 DEF CellAt, NewCell
<1>12. /\ heap' \in Seq(Cell) /\ Len(heap') = Len(heap) + 1
       /\ \A c \in Cells : c # trace => heap'[c] = heap[c]
       /\ heap'[trace].index = heap[trace].index /\ heap'[trace].next = NewCell
       /\ heap[trace].index \in Nodes =>
            LET edge == <<heap[trace].index, TheLine.of>> IN
            heap'[trace].iswitch = IF edge \in Edges THEN Switch[edge] ELSE OPEN
       /\ heap'[NewCell].index = TheLine.of
       /\ trace' = NewCell /\ linenum' = linenum + 1
       /\ UNCHANGED <<input, lists, cur_net>>
  BY NodeLineHeap DEF ListInv
<1>13. Cells' = Cells \cup {NewCell}
  BY <1>12, CellsGrow DEF ListInv
<1>14. routing' = routing /\ trace_head' = trace_head /\ cur_net' = n /\ At(n)' = At(n) /\ Trace(n)' = Trace(n)
  BY <1>5, <1>12 DEF input, lists, At, Trace
<1>15. \A k : CellAt(n, k)' = CellAt(n, k) /\ SwitchAfter(n, k)' = SwitchAfter(n, k)
  BY <1>14 DEF CellAt, SwitchAfter
<1>16. /\ heap[trace].index = Trace(n)[l - 1]
       /\ \A k \in 1 .. l - 1 :
            /\ CellAt(n, k) \in Cells /\ heap[CellAt(n, k)].index = Trace(n)[k]
            /\ k < l - 1 => heap[CellAt(n, k)].next = CellAt(n, k + 1) /\ heap[CellAt(n, k)].iswitch = SwitchAfter(n, k)
  <2>1. l - 1 \in 1 .. l - 1
    BY <1>8
  <2>2. QED
    BY <1>9, <2>1 DEF Chain
<1>17. heap'[trace].iswitch = SwitchAfter(n, l - 1)
  <2>1. Trace(n)[l - 1] \in Nodes
    BY <1>4, <1>5, <1>6, <1>8, TraceShape
  <2>2. SwitchAfter(n, l - 1) = IF <<Trace(n)[l - 1], Trace(n)[l]>> \in Edges
                                THEN Switch[<<Trace(n)[l - 1], Trace(n)[l]>>] ELSE OPEN
    BY <1>4, <1>5, <1>8, TraceShape
  <2>3. QED
    BY <1>3, <1>5, <1>12, <1>16, <2>1, <2>2
<1>18. ASSUME NEW k \in 1 .. l
       PROVE  /\ CellAt(n, k) \in Cells' /\ heap'[CellAt(n, k)].index = Trace(n)[k]
              /\ k < l => heap'[CellAt(n, k)].next = CellAt(n, k + 1) /\ heap'[CellAt(n, k)].iswitch = SwitchAfter(n, k)
  <2>1. CASE k = l
    BY <2>1, <1>3, <1>5, <1>11, <1>12, <1>13
  <2>2. CASE k = l - 1
    <3>1. CellAt(n, k) = trace /\ CellAt(n, k + 1) = NewCell /\ k + 1 = l
      BY <2>2, <1>8, <1>9, <1>11
    <3>2. QED
      BY <2>2, <3>1, <1>10, <1>12, <1>13, <1>16, <1>17
  <2>3. CASE k \in 1 .. l - 2
    <3>1. k \in 1 .. l - 1 /\ k < l - 1
      BY <2>3, <1>6
    <3>2. CellAt(n, k) # trace
      BY <3>1, <1>6, <1>9, <1>10 DEF CellAt
    <3>3. heap'[CellAt(n, k)] = heap[CellAt(n, k)] /\ CellAt(n, k) \in Cells'
      BY <3>1, <3>2, <1>12, <1>13, <1>16
    <3>4. QED
      BY <3>1, <3>3, <1>16
  <2>4. QED
    BY <2>1, <2>2, <2>3, <1>6
<1>19. Chain(n, l)'
  BY <1>14, <1>15, <1>18 DEF Chain
<1>20. linenum' - At(n)' - 1 = l /\ trace' = CellAt(n, l)'
  BY <1>5, <1>6, <1>11, <1>12, <1>14, <1>15
<1>21. QED
  BY <1>14, <1>19, <1>20 DEF Partial

\* The first node of the current net is written to its head.
LEMMA ChainBegins ==
  ASSUME ListInv, SourceOnce, SourceLine, Kind(cur_net) = "routed"
  PROVE  Partial'
<1>1. pc = "line" /\ linenum \in DOMAIN file /\ TheLine.kind = "node" /\ RRType[TheLine.of] = "SOURCE"
  BY DEF SourceLine, AtLine
<1>2. PICK n \in Nets : \E l \in 1 .. Size(n) - 1 :
        Reads(n, l) /\ Kind(n) \in {"routed", "foreign"} /\ l \in 1 .. Len(Trace(n)) /\ TheLine.of = Trace(n)[l]
  BY <1>1, RestOfNet DEF ListInv, Trace
<1>3. PICK l \in 1 .. Len(Trace(n)) : Reads(n, l) /\ TheLine.of = Trace(n)[l]
  BY <1>2
<1>4. routing \in Routings
  BY DEF ListInv, Typed
<1>5. cur_net = n /\ linenum = At(n) + l /\ Kind(n) = "routed"
  BY <1>2, <1>3 DEF Reads
<1>6. Len(Trace(n)) \in Nat /\ At(n) \in Nat /\ l \in Nat
  BY <1>4, <1>5, TraceShape, KindOfNet
<1>7. l = 1
  <2>1. l \notin 2 .. Len(Trace(n))
    BY <1>1, <1>3, <1>5 DEF SourceOnce
  <2>2. QED
    BY <2>1, <1>3, <1>5, <1>6
<1>8. trace = trace_head[n] /\ trace_head[n] \in Cells /\ trace_head[n] \in Nat
  <2>1. trace = trace_head[n] /\ trace \in Cells
    BY <1>2, <1>3, <1>5, <1>7 DEF Reads, OnCell
  <2>2. QED
    BY <2>1, NoGarbage DEF ListInv
<1>9. /\ heap' \in Seq(Cell) /\ Len(heap') = Len(heap) /\ heap'[trace].index = Trace(n)[1]
      /\ linenum' = linenum + 1 /\ UNCHANGED <<routing, lists, cur_net, trace>>
  BY <1>3, <1>5, <1>7, SourceLineHeap DEF ListInv, SourceLine, NextLine, input
<1>10. Cells' = Cells
  BY <1>9, CellsGrow DEF ListInv
<1>11. At(n)' = At(n) /\ Trace(n)' = Trace(n) /\ cur_net' = n /\ trace_head' = trace_head
  BY <1>5, <1>9 DEF At, Trace, lists
<1>12. CellAt(n, 1)' = trace
  BY <1>8, <1>11 DEF CellAt
<1>13. Chain(n, 1)'
  <2>1. \A k \in 1 .. 1 : k = 1 /\ ~ (k < 1)
    OBVIOUS
  <2>2. (CellAt(n, 1) \in Cells /\ heap[CellAt(n, 1)].index = Trace(n)[1])'
    BY <1>8, <1>9, <1>10, <1>11, <1>12
  <2>3. QED
    BY <2>1, <2>2 DEF Chain
<1>14. linenum' - At(n)' - 1 = 1 /\ trace' = CellAt(n, 1)'
  BY <1>5, <1>6, <1>7, <1>9, <1>11, <1>12
<1>15. QED
  BY <1>11, <1>13, <1>14 DEF Partial

\* The list of the current net stays a chain.
LEMMA PartialNext ==
  ASSUME ListInv, Loaded, SourceOnce, [Next]_vars
  PROVE  Partial'
<1>1. CASE NetLine \/ GlobalLine
  <2>1. PICK m \in Nets : Begins(m) /\ linenum' = linenum + 1 /\ routing' = routing /\ cur_net' \in {OPEN, m}
    BY <1>1, FirstLineLists
  <2>2. At(m)' = At(m) /\ At(m) \in Nat /\ linenum' = At(m) + 1
    BY <2>1, KindOfNet DEF Begins, At, ListInv, Typed
  <2>3. linenum' - At(m)' - 1 = 0
    BY <2>2
  <2>4. Chain(m, 0)'
    BY DEF Chain
  <2>5. QED
    BY <2>1, <2>3, <2>4 DEF Partial
<1>2. CASE NodeLine /\ ~ Stop("exit")
  <2>1. UNCHANGED <<routing, cur_net>>
    BY <1>2, NodeLineHeap DEF ListInv, input
  <2>2. CASE Kind(cur_net) = "routed"
    BY <1>2, <2>2, ChainGrows
  <2>3. CASE Kind(cur_net) # "routed"
    BY <2>1, <2>3 DEF Partial, Kind
  <2>4. QED
    BY <2>2, <2>3
<1>3. CASE SourceLine
  <2>1. UNCHANGED <<routing, cur_net>>
    BY <1>3 DEF SourceLine, NextLine, input
  <2>2. CASE Kind(cur_net) = "routed"
    BY <1>3, <2>2, ChainBegins
  <2>3. CASE Kind(cur_net) # "routed"
    BY <2>1, <2>3 DEF Partial, Kind
  <2>4. QED
    BY <2>2, <2>3
<1>4. CASE (OtherLine /\ ~ Stop("exit") /\ ~ Stop("corrupt")) \/ SkipLine
  <2>1. pc = "line" /\ linenum \in DOMAIN file /\ UNCHANGED <<routing, cur_net>>
    BY <1>4, OtherLineHeap DEF OtherLine, SkipLine, AtLine, NextLine, ListInv, input, reader
  <2>2. cur_net # OPEN => Kind(cur_net) # "routed"
    <3>1. CASE OtherLine
      <4>1. TheLine.kind = "other"
        BY <3>1 DEF OtherLine, AtLine
      <4>2. PICK n \in Nets : \E i \in 1 .. Size(n) - 1 : Reads(n, i) /\ Kind(n) \in {"local", "global"}
        BY <2>1, <4>1, RestOfNet DEF ListInv
      <4>3. QED
        BY <4>2 DEF Reads
    <3>2. CASE SkipLine
      <4>1. TheLine.kind \in {"node", "other"} /\ skip_cur_net
        BY <3>2 DEF SkipLine, AtLine
      <4>2. PICK n \in Nets : \E i \in 1 .. Size(n) - 1 : Reads(n, i)
        BY <2>1, <4>1, RestOfNet DEF ListInv
      <4>3. QED
        BY <4>1, <4>2 DEF Reads
    <3>3. QED
      BY <1>4, <3>1, <3>2
  <2>3. QED
    BY <2>1, <2>2 DEF Partial, Kind
<1>5. CASE (\E how \in Final : Stop(how)) \/ EndOfFile \/ MarkCell \/ NextNet \/ Charge
  <2>1. pc' # "line"
    BY <1>5 DEF Stop, EndOfFile, MarkCell, NextNet, Charge, Final
  <2>2. QED
    BY <2>1 DEF Partial
<1>6. CASE Header
  <2>1. cur_net' = OPEN
    BY <1>6 DEF Header, reader, ListInv, Place, Blank
  <2>2. QED
    BY <2>1 DEF Partial
<1>7. CASE UNCHANGED vars
  <2>1. Partial
    BY DEF Loaded
  <2>2. QED
    BY <2>1, <1>7 DEF Partial, Chain, CellAt, SwitchAfter, Trace, Kind, At, Cells, vars, input, store, lists, reader
<1>8. QED
  BY <1>1, <1>2, <1>3, <1>4, <1>5, <1>6, <1>7, NextSteps DEF Final

\* The lists rebuilt, of the nets read and of the current one, are kept.
LEMMA LoadedNext ==
  ASSUME ListInv, Loaded, [Next]_vars
  PROVE  Loaded'
<1>. SUFFICES ASSUME SourceOnce'
              PROVE  Partial' /\ (\A n \in Nets : Kind(n) = "routed" /\ Closed(n)
                                    /\ (cur_net # n \/ file = print_route(routing)) => WholeList(n))'
  BY DEF Loaded
<1>1. SourceOnce
  <2>1. routing' = routing
    BY FirstLineLists, OtherLists
  <2>2. QED
    BY <2>1 DEF SourceOnce, Kind, Trace
<1>2. QED
  BY <1>1, PartialNext, WholeNext

\* Nothing is loaded at first.
LEMMA LoadedInit == Init => Loaded
<1>. SUFFICES ASSUME Init PROVE Loaded
  OBVIOUS
<1>1. \A n \in Nets : ~ Closed(n)
  BY DEF Init, Closed
<1>2. Partial
  BY DEF Init, Partial
<1>3. QED
  BY <1>1, <1>2 DEF Loaded

\* The list that power_routing follows from the head of a net is its chain of cells.
LEMMA WholeIsList ==
  ASSUME Typed, NEW n \in Nets, Kind(n) = "routed", WholeList(n)
  PROVE  ListOf(n) = [k \in 1 .. Len(Trace(n)) |-> CellAt(n, k)]
<1>. DEFINE z == Len(Trace(n))
            l == ListOf(n)
<1>1. z \in Nat \ {0}
  BY TraceShape DEF Typed
<1>2. PICK m : HasList(n, m)
  BY ListShape
<1>3. /\ m \in Nat /\ Len(heap) \in Nat /\ m <= Len(heap) /\ l \in [1 .. m -> Cells]
      /\ (m = 0 <=> trace_head[n] \notin Cells) /\ (m >= 1 => l[1] = trace_head[n])
      /\ \A i \in 1 .. m - 1 : l[i + 1] = heap[l[i]].next
      /\ (m >= 1 /\ m < Len(heap) => heap[l[m]].next \notin Cells)
  BY <1>2 DEF HasList, Typed
<1>4. /\ trace_head[n] \in Cells
      /\ \A k \in 1 .. z : CellAt(n, k) \in Cells
      /\ \A k \in 1 .. z : k < z => heap[CellAt(n, k)].next = CellAt(n, k + 1)
      /\ heap[CellAt(n, z)].next = NULL
  BY DEF WholeList, Chain
<1>. HIDE DEF z, l
<1>5. NULL \notin Cells /\ Cells = 1 .. Len(heap) /\ trace_head[n] \in Nat
  BY <1>4, NoGarbage DEF Cells
<1>6. m # 0 /\ l[1] = CellAt(n, 1)
  <2>1. m # 0 /\ l[1] = trace_head[n]
    BY <1>3, <1>4
  <2>2. QED
    BY <2>1, <1>5 DEF CellAt
<1>. DEFINE T == {i \in Nat : i + 1 <= m => i + 1 <= z /\ l[i + 1] = CellAt(n, i + 1)}
<1>7. 0 \in T
  BY <1>1, <1>6
<1>8. \A i \in Nat : i \in T => i + 1 \in T
  <2>. SUFFICES ASSUME NEW i \in Nat, i \in T, (i + 1) + 1 <= m
                PROVE  (i + 1) + 1 <= z /\ l[(i + 1) + 1] = CellAt(n, (i + 1) + 1)
    OBVIOUS
  <2>1. i + 1 \in 1 .. m - 1 /\ (i + 1) + 1 \in 1 .. m /\ i + 1 \in 1 .. z
    BY <1>1, <1>3
  <2>2. l[i + 1] = CellAt(n, i + 1)
    BY <2>1, <1>3
  <2>3. heap[CellAt(n, i + 1)].next \in Cells /\ l[(i + 1) + 1] = heap[CellAt(n, i + 1)].next
    BY <2>1, <2>2, <1>3
  <2>4. i + 1 # z
    BY <2>3, <1>4, <1>5
  <2>5. i + 1 < z
    BY <2>1, <2>4, <1>1
  <2>6. (i + 1) + 1 <= z
    BY <2>5, <1>1
  <2>7. QED
    BY <2>1, <2>3, <2>5, <2>6, <1>4
<1>9. Nat \subseteq T
  <2>. HIDE DEF T
  <2>1. QED
    BY <1>7, <1>8, SetInduction
<1>10. \A i \in 1 .. m : i <= z /\ l[i] = CellAt(n, i)
  <2>. SUFFICES ASSUME NEW i \in 1 .. m PROVE i <= z /\ l[i] = CellAt(n, i)
    OBVIOUS
  <2>1. i - 1 \in Nat /\ (i - 1) + 1 = i /\ i <= m
    BY <1>3
  <2>2. i - 1 \in T
    BY <2>1, <1>9
  <2>3. QED
    BY <2>1, <2>2
<1>11. m = z
  <2>1. m \in 1 .. m /\ m <= z /\ l[m] = CellAt(n, m)
    BY <1>3, <1>6, <1>10
  <2>2. SUFFICES ASSUME m < z PROVE FALSE
    BY <2>1, <1>1, <1>3
  <2>3. m \in 1 .. z /\ m + 1 \in 1 .. z
    BY <2>2, <1>1, <1>3, <1>6
  <2>4. heap[l[m]].next = CellAt(n, m + 1) /\ CellAt(n, m + 1) \in Cells
    BY <2>1, <2>2, <2>3, <1>4
  <2>5. m = Len(heap)
    BY <2>1, <2>4, <1>3, <1>6
  <2>6. CellAt(n, m + 1) >= m + 1
    <3>1. trace_head[n] \in Nat \ {0}
      BY <1>4, <1>5 DEF NULL
    <3>2. \A h \in Nat \ {0} : h + (m + 1) - 1 >= m + 1
      BY <1>3
    <3>3. QED
      BY <3>1, <3>2 DEF CellAt
  <2>7. QED
    BY <2>4, <2>5, <2>6, <1>3, <1>5
<1>12. QED
  BY <1>3, <1>10, <1>11 DEF z, l

\* The list rebuilt for a net whose lines were all read is its traceback, with the
\* switches, when no net returns to its source (route.c:130-190).
THEOREM LoadedTraces == Spec => [](SourceOnce => LoadedTraceIsRouting)
<1>1. ListInv /\ Loaded => (SourceOnce => LoadedTraceIsRouting)
  <2>. SUFFICES ASSUME ListInv, Loaded, SourceOnce, NEW n \in Nets,
                       Closed(n), Kind(n) = "routed", MayBeCut => cur_net # n
                PROVE  LET t == Trace(n)
                           l == ListOf(n)
                       IN /\ [i \in DOMAIN l |-> heap[l[i]].index] = t
                          /\ trace_tail[n] = l[Len(l)]
                          /\ \A i \in 1 .. Len(l) - 1 :
                               heap[l[i]].iswitch = IF RRType[t[i]] = "SINK" THEN OPEN ELSE Switch[<<t[i], t[i + 1]>>]
    BY DEF LoadedTraceIsRouting, Trace, Kind
  <2>. DEFINE z == Len(Trace(n))
              l == ListOf(n)
              t == Trace(n)
  <2>1. ~ MayBeCut => file = print_route(routing)
    BY DEF ListInv, Typed, FilesOf
  <2>2. WholeList(n)
    BY <2>1 DEF Loaded
  <2>3. l = [k \in 1 .. z |-> CellAt(n, k)]
    BY <2>2, WholeIsList DEF ListInv
  <2>4. z \in Nat \ {0} /\ t \in Seq(Nodes)
    BY TraceShape DEF ListInv, Typed
  <2>5. /\ \A k \in 1 .. z : heap[CellAt(n, k)].index = t[k] /\ (k < z => heap[CellAt(n, k)].iswitch = SwitchAfter(n, k))
        /\ trace_tail[n] = CellAt(n, z)
    BY <2>2 DEF WholeList, Chain
  <2>. HIDE DEF l
  <2>6. DOMAIN l = 1 .. z /\ Len(l) = z /\ \A k \in 1 .. z : l[k] = CellAt(n, k)
    BY <2>3, <2>4
  <2>7. t = [k \in 1 .. z |-> t[k]]
    BY <2>4
  <2>. HIDE DEF t, z
  <2>8. [i \in DOMAIN l |-> heap[l[i]].index] = t
    BY <2>5, <2>6, <2>7
  <2>9. trace_tail[n] = l[Len(l)]
    BY <2>4, <2>5, <2>6
  <2>10. ASSUME NEW i \in 1 .. Len(l) - 1
         PROVE  heap[l[i]].iswitch = IF RRType[t[i]] = "SINK" THEN OPEN ELSE Switch[<<t[i], t[i + 1]>>]
    <3>1. i \in 1 .. z /\ i < z
      BY <2>4, <2>6
    <3>2. heap[l[i]].iswitch = SwitchAfter(n, i)
      BY <3>1, <2>5, <2>6
    <3>3. QED
      BY <3>2 DEF SwitchAfter, t
  <2>11. QED
    BY <2>8, <2>9, <2>10 DEF l, t
<1>2. Init => ListInv /\ Loaded
  BY ListInit, LoadedInit
<1>3. ListInv /\ Loaded /\ [Next]_vars => ListInv' /\ Loaded'
  BY ListStep, LoadedNext
<1>4. QED
  BY <1>1, <1>2, <1>3, PTL DEF Spec

-----------------------------------------------------------------------------
(* The nets read are kept *)

\* The nets come in the file in their order.
LEMMA AtIncreases ==
  ASSUME routing \in Routings, NEW n \in Nets, NEW m \in 0 .. num_nets, n < m
  PROVE  At(n) < At(m) /\ At(n) \in Nat /\ At(m) \in Nat
<1>. DEFINE at == LineOf(routing)
            S == {d \in Nat : n + d <= num_nets => at[n + d] \in Nat /\ at[n + d] >= at[n] + d}
<1>1. n \in Nat /\ num_nets \in Nat /\ at[n] \in Nat /\ \A k \in Nets : at[k + 1] \in Nat /\ at[k + 1] > at[k] /\ at[k] \in Nat
  <2>1. \A k \in Nets : at[k] \in Nat /\ at[k + 1] \in Nat /\ at[k + 1] > at[k]
    <3>. SUFFICES ASSUME NEW k \in Nets PROVE at[k] \in Nat /\ at[k + 1] \in Nat /\ at[k + 1] > at[k]
      OBVIOUS
    <3>1. at[k] \in Nat /\ at[k + 1] \in Nat /\ Len(NetLines(k, routing[k])) \in Nat \ {0}
          /\ at[k + 1] = at[k] + Len(NetLines(k, routing[k]))
      BY LineOfNet
    <3>. HIDE DEF at
    <3>2. QED
      BY <3>1
  <2>2. QED
    BY <2>1, NetsRange
<1>. HIDE DEF at
<1>2. 0 \in S
  BY <1>1
<1>3. \A d \in Nat : d \in S => d + 1 \in S
  <2>. SUFFICES ASSUME NEW d \in Nat, d \in S, n + (d + 1) <= num_nets
                PROVE  at[n + (d + 1)] \in Nat /\ at[n + (d + 1)] >= at[n] + (d + 1)
    OBVIOUS
  <2>1. n + d \in Nat /\ n + d < num_nets /\ n + (d + 1) = (n + d) + 1
    BY <1>1
  <2>2. n + d \in Nets
    BY <2>1, NetsRange
  <2>3. at[n + d] >= at[n] + d /\ at[n + d] \in Nat
    BY <2>1, <1>1
  <2>4. at[(n + d) + 1] \in Nat /\ at[(n + d) + 1] > at[n + d]
    BY <2>2, <1>1
  <2>5. QED
    BY <2>1, <2>3, <2>4, <1>1
<1>4. m - n \in S
  <2>1. m - n \in Nat
    BY <1>1
  <2>. HIDE DEF S
  <2>2. QED
    BY <2>1, <1>2, <1>3, SetInduction
<1>5. n + (m - n) = m /\ m <= num_nets /\ m - n > 0 /\ m - n \in Nat
  BY <1>1
<1>6. at[m] \in Nat /\ at[m] >= at[n] + (m - n)
  BY <1>4, <1>5
<1>7. at[n] < at[m]
  BY <1>1, <1>5, <1>6
<1>8. QED
  BY <1>1, <1>6, <1>7 DEF At, at

\* Two nets do not begin at the same line.
LEMMA AtOnce ==
  ASSUME routing \in Routings, NEW n \in Nets, NEW m \in Nets, At(n) = At(m)
  PROVE  n = m
<1>1. n \in Nat /\ m \in Nat /\ n \in 0 .. num_nets /\ m \in 0 .. num_nets
  BY NetsRange
<1>2. n < m => At(n) < At(m) /\ At(n) \in Nat
  BY <1>1, AtIncreases
<1>3. m < n => At(m) < At(n) /\ At(n) \in Nat
  BY <1>1, AtIncreases
<1>4. ~ (n < m) /\ ~ (m < n)
  BY <1>2, <1>3
<1>5. QED
  BY <1>1, <1>4

\* A net is listed when its lines are begun, and its list is closed before those of the next.
LEMMA AllListedNext ==
  ASSUME ListInv, AllListed, [Next]_vars
  PROVE  AllListed'
<1>. USE DEF ListInv
<1>1. routing \in Routings /\ file \in FilesOf(routing)
  BY DEF Typed
<1>2. pc = "line" /\ cur_net # OPEN => trace # Garbage
  <2>. SUFFICES ASSUME pc = "line", cur_net # OPEN PROVE trace # Garbage
    OBVIOUS
  <2>1. PICK n \in Nets : \E i \in 1 .. Size(n) : Reads(n, i)
    BY DEF Place, Blank
  <2>2. QED
    BY <2>1, NoGarbage DEF Reads
<1>3. ASSUME NEW n \in Nets, pc = "line", Kind(n) = "routed", Listed(n) PROVE ClosedTails[n] # Garbage
  BY <1>2, <1>3, NoGarbage DEF Listed, Closed, ClosedTails, Typed
<1>4. CASE NetLine \/ GlobalLine
  <2>1. pc = "line"
    BY <1>4 DEF NetLine, GlobalLine, AtLine
  <2>2. PICK m \in Nets :
           /\ Begins(m) /\ linenum' = linenum + 1
           /\ UNCHANGED <<routing, file, pc>>
           /\ cur_net' \in {OPEN, m} /\ (cur_net' = OPEN <=> Kind(m) = "global")
           /\ \A n \in Nets : n # m => trace_head'[n] = trace_head[n] /\ trace_tail'[n] = ClosedTails[n]
           /\ Kind(m) = "global" => trace_head'[m] = NULL
    BY <1>4, FirstLineLists
  <2>3. linenum = At(m)
    BY <2>2 DEF Begins
  <2>4. ASSUME NEW n \in Nets, At(n) < linenum' PROVE Listed(n)'
    <3>1. CASE n = m
      BY <3>1, <2>1, <2>2 DEF Listed, Kind
    <3>2. CASE n # m
      <4>1. At(n) \in Nat /\ At(m) \in Nat
        BY <1>1, KindOfNet
      <4>2. At(n) # At(m)
        BY <3>2, <1>1, AtOnce
      <4>3. At(n) < linenum
        BY <2>2, <2>3, <2>4, <4>1, <4>2
      <4>4. Listed(n)
        BY <2>1, <4>3 DEF AllListed
      <4>5. trace_head'[n] = trace_head[n] /\ trace_tail'[n] = ClosedTails[n] /\ Kind(n)' = Kind(n)
        BY <2>2, <3>2 DEF Kind
      <4>6. Kind(n) = "routed" => ClosedTails[n] # Garbage
        BY <1>3, <2>1, <4>4
      <4>7. QED
        BY <4>4, <4>5, <4>6 DEF Listed, Closed
    <3>3. QED
      BY <3>1, <3>2
  <2>5. pc' = "line" /\ \A n \in Nets : At(n)' = At(n)
    BY <2>1, <2>2 DEF At
  <2>6. QED
    BY <2>4, <2>5 DEF AllListed
<1>5. CASE (NodeLine \/ OtherLine \/ SourceLine \/ SkipLine) /\ pc' = "line"
  <2>1. pc = "line" /\ linenum \in DOMAIN file /\ TheLine.kind \in {"node", "other"}
    BY <1>5 DEF NodeLine, OtherLine, SourceLine, SkipLine, AtLine
  <2>2. linenum' = linenum + 1 /\ UNCHANGED <<routing, trace_head, trace_tail, cur_net>>
    <3>1. \A h, to, type : LinkTo(h, to, type) =>
            Stop("exit") \/ (linenum' = linenum + 1 /\ UNCHANGED <<routing, trace_head, trace_tail, cur_net>>)
      BY DEF LinkTo, NextLine, input, lists
    <3>2. ~ Stop("exit") /\ ~ Stop("corrupt")
      BY <1>5 DEF Stop
    <3>3. QED
      BY <1>5, <3>1, <3>2 DEF NodeLine, OtherLine, SourceLine, SkipLine, NextLine, input, lists, reader
  <2>3. ASSUME NEW n \in Nets, At(n) = linenum PROVE FALSE
    <3>1. At(n) \in Nat /\ 1 \in 1 .. Size(n) /\ At(n) + 1 - 1 = At(n)
      BY <1>1, KindOfNet
    <3>2. TheLine = NetLines(n, routing[n])[1]
      BY <1>1, <2>1, <2>3, <3>1, FileLines DEF TheLine, At, Size
    <3>3. QED
      BY <1>1, <2>1, <3>2, FirstLineKind
  <2>4. ASSUME NEW n \in Nets, At(n) < linenum' PROVE Listed(n)'
    <3>1. At(n) \in Nat /\ linenum \in Nat
      BY <1>1, KindOfNet DEF Typed
    <3>2. At(n) < linenum
      BY <2>2, <2>3, <2>4, <3>1
    <3>3. Listed(n)
      BY <2>1, <3>2 DEF AllListed
    <3>4. QED
      BY <1>5, <2>2, <3>3 DEF Listed, Closed, Kind
  <2>5. \A n \in Nets : At(n)' = At(n)
    BY <2>2 DEF At
  <2>6. QED
    BY <1>5, <2>4, <2>5 DEF AllListed
<1>6. CASE EndOfFile
  <2>1. /\ pc = "line" /\ linenum \notin DOMAIN file /\ pc' = "walk" /\ trace_tail' = ClosedTails
        /\ UNCHANGED <<routing, file, trace_head>>
    BY <1>6 DEF EndOfFile, input
  <2>2. ASSUME file = print_route(routing), NEW n \in Nets PROVE Listed(n)'
    <3>1. DOMAIN file = 1 .. Len(file) /\ Len(file) \in Nat /\ Len(file) = At(num_nets) - 1
      BY <1>1, <2>2, FileLines DEF At
    <3>2. linenum = Len(file) + 1
      BY <2>1, <3>1 DEF Typed
    <3>3. At(n) < At(num_nets) /\ At(num_nets) \in Nat
      <4>1. num_nets \in 0 .. num_nets /\ n < num_nets
        BY NetsRange
      <4>2. QED
        BY <1>1, <4>1, AtIncreases
    <3>4. At(n) < linenum
      BY <3>1, <3>2, <3>3
    <3>5. Listed(n)
      BY <2>1, <3>4 DEF AllListed
    <3>6. Kind(n) = "routed" => trace_tail'[n] # Garbage
      BY <1>3, <2>1, <3>5
    <3>7. QED
      BY <2>1, <3>5, <3>6 DEF Listed, Closed, Kind
  <2>3. QED
    BY <2>1, <2>2 DEF AllListed
<1>7. CASE MarkCell \/ NextNet
  <2>1. pc = "walk" /\ pc' = "walk" /\ UNCHANGED <<input, lists>>
    BY <1>7 DEF MarkCell, NextNet
  <2>2. QED
    BY <2>1 DEF AllListed, Listed, Closed, Kind, input, lists
<1>8. CASE pc' \notin {"line", "walk"}
  BY <1>8 DEF AllListed
<1>9. CASE Header
  <2>1. pc' = "line" /\ linenum' = 2 /\ routing' = routing
    BY <1>9 DEF Header, input
  <2>2. ASSUME NEW n \in Nets PROVE ~ (At(n)' < 2)
    <3>1. At(0) = 2
      BY <1>1, LineOfRec DEF At
    <3>2. n # 0 => At(0) < At(n) /\ At(n) \in Nat
      <4>1. 0 \in Nets /\ n \in 0 .. num_nets /\ (n # 0 => 0 < n)
        BY NetsRange
      <4>2. QED
        BY <1>1, <4>1, AtIncreases
    <3>3. At(n)' = At(n)
      BY <2>1 DEF At
    <3>4. QED
      BY <3>1, <3>2, <3>3
  <2>3. QED
    BY <2>1, <2>2 DEF AllListed
<1>10. CASE UNCHANGED vars
  BY <1>10 DEF AllListed, Listed, Closed, Kind, At, vars, input, lists, reader
<1>11. CASE (\E how \in Final : Stop(how)) \/ Charge
  BY <1>8, <1>11 DEF Stop, Charge, Final
<1>12. CASE (NodeLine \/ OtherLine \/ SourceLine \/ SkipLine) /\ pc' # "line"
  <2>1. pc' # "walk"
    <3>1. \A h, to, type : LinkTo(h, to, type) => pc' \in {pc, "exit"}
      BY DEF LinkTo, Stop, NextLine
    <3>2. pc = "line" /\ pc' \in {pc, "exit", "corrupt"}
      BY <1>12, <3>1 DEF NodeLine, OtherLine, SourceLine, SkipLine, AtLine, NextLine, Stop
    <3>3. QED
      BY <3>2
  <2>2. QED
    BY <1>8, <1>12, <2>1
<1>13. QED
  BY <1>4, <1>5, <1>6, <1>7, <1>9, <1>10, <1>11, <1>12, NextSteps

-----------------------------------------------------------------------------
(* The walk of power_routing *)

\* In the walk of an expected file every net has its list, or none when it is global.
LEMMA ListsOfWalk ==
  ASSUME ListInv, Loaded, AllListed, SourceOnce, Expected, pc = "walk", NEW n \in Nets
  PROVE  /\ Kind(n) \in {"routed", "global"}
         /\ Kind(n) = "routed" => WholeList(n) /\ trace_head[n] \in Cells /\ trace_head[n] \in Nat /\ trace_head[n] # NULL
         /\ Kind(n) = "global" => trace_head[n] = NULL
<1>1. Kind(n) \in {"routed", "global"} /\ file = print_route(routing)
  BY DEF Expected, Kind
<1>2. Listed(n)
  BY <1>1 DEF AllListed
<1>3. Kind(n) = "routed" => WholeList(n)
  BY <1>1, <1>2 DEF Listed, Loaded
<1>4. QED
  BY <1>1, <1>2, <1>3, NoGarbage DEF Listed, WholeList, ListInv

\* The walk begins a list before all its cells.
LEMMA NoneWalked ==
  ASSUME NEW n \in Nets, NEW k \in Nat \ {0}, trace_head[n] \in Nat, trace_head[n] # NULL
  PROVE  ~ (trace_head[n] = NULL \/ CellAt(n, k) < trace_head[n]) /\ CellAt(n, 1) = trace_head[n]
<1>1. \A h \in Nat : ~ (h + k - 1 < h) /\ h + 1 - 1 = h
  OBVIOUS
<1>2. QED
  BY <1>1 DEF CellAt

\* Nothing is marked when the walk begins.
LEMMA WalkBegins ==
  ASSUME ListInv, Loaded, Walk, EndOfFile, AllListed'
  PROVE  Walk'
<1>1. /\ pc = "line" /\ pc' = "walk" /\ net_idx' = 0 /\ cell' = trace_head[0] /\ trace_tail' = ClosedTails
      /\ routing' = routing /\ file' = file /\ trace_head' = trace_head /\ UNCHANGED marks
  BY DEF EndOfFile, input
<1>2. (\A node \in Nodes : net_num'[node] = OPEN) /\ chan_driven_by_chan' = {}
  BY <1>1 DEF Walk, marks
<1>3. (SourceOnce' <=> SourceOnce) /\ (Expected' <=> Expected)
  BY <1>1 DEF SourceOnce, Expected, Kind, Trace
<1>. SUFFICES ASSUME SourceOnce, Expected PROVE OnList' /\ Marked' /\ Driven'
  BY <1>1, <1>3 DEF Walk
<1>4. \A n \in Nets : Kind(n)' = Kind(n) /\ Trace(n)' = Trace(n) /\ \A k : CellAt(n, k)' = CellAt(n, k)
  BY <1>1 DEF Kind, Trace, CellAt
<1>5. ASSUME NEW n \in Nets
      PROVE  /\ Kind(n) \in {"routed", "global"}
             /\ Kind(n) = "routed" => trace_head[n] \in Nat /\ trace_head[n] # NULL /\ Len(Trace(n)) \in Nat \ {0}
             /\ Kind(n) = "global" => trace_head[n] = NULL
  <2>1. Kind(n) \in {"routed", "global"} /\ file = print_route(routing)
    BY DEF Expected, Kind
  <2>2. /\ Kind(n) = "routed" => trace_tail'[n] # Garbage
        /\ Kind(n) = "global" => trace_head[n] = NULL
    BY <1>1, <1>4, <2>1 DEF AllListed, Listed, Closed
  <2>3. ASSUME Kind(n) = "routed" PROVE trace_head[n] \in Cells
    <3>1. CASE cur_net = n
      BY <1>1, <3>1, CurrentNet, NoGarbage DEF ListInv
    <3>2. CASE cur_net # n
      <4>1. Closed(n)
        BY <1>1, <2>2, <2>3, <3>2 DEF Closed, ClosedTails, ListInv, Typed
      <4>2. WholeList(n)
        BY <2>3, <3>2, <4>1 DEF Loaded
      <4>3. QED
        BY <4>2 DEF WholeList
    <3>3. QED
      BY <3>1, <3>2
  <2>4. QED
    BY <2>1, <2>2, <2>3, NoGarbage, TraceShape DEF ListInv, Typed
<1>6. 0 \in Nets /\ \A n \in Nets : ~ (n < 0)
  BY NetsRange
<1>7. ASSUME NEW n \in Nets, Kind(n) = "routed", NEW k \in 1 .. Len(Trace(n)) PROVE ~ Walked(n, k)'
  <2>1. k \in Nat \ {0} /\ trace_head[n] \in Nat /\ trace_head[n] # NULL
    BY <1>5, <1>7
  <2>2. ~ (trace_head[n] = NULL \/ CellAt(n, k) < trace_head[n])
    BY <2>1, NoneWalked
  <2>3. n = 0 => cell' = trace_head[n]
    BY <1>1
  <2>4. QED
    BY <1>1, <1>4, <1>6, <2>2, <2>3 DEF Walked
<1>8. OnList'
  <2>1. SUFFICES ASSUME cell' # NULL
                 PROVE  Kind(0) = "routed" /\ \E k \in 1 .. Len(Trace(0)) : cell' = CellAt(0, k)
    BY <1>1, <1>4, <1>6 DEF OnList
  <2>2. Kind(0) = "routed" /\ 1 \in 1 .. Len(Trace(0)) /\ trace_head[0] \in Nat /\ cell' = trace_head[0]
    BY <1>1, <1>5, <1>6, <2>1
  <2>3. CellAt(0, 1) = trace_head[0]
    BY <2>2 DEF CellAt
  <2>4. QED
    BY <2>2, <2>3
<1>9. Marked'
  BY <1>2, <1>4, <1>7 DEF Marked
<1>10. Driven'
  <2>1. ASSUME NEW n \in Nets, Kind(n) = "routed", NEW k \in 1 .. Len(Trace(n)) - 1 PROVE ~ Walked(n, k)'
    <3>1. k \in 1 .. Len(Trace(n))
      BY <1>5, <2>1
    <3>2. QED
      BY <1>7, <2>1, <3>1
  <2>2. QED
    BY <1>2, <1>4, <2>1 DEF Driven
<1>11. QED
  BY <1>8, <1>9, <1>10

\* The walk goes to the list of the next net when that of a net is done.
LEMMA WalkGoesOn ==
  ASSUME ListInv, Loaded, AllListed, Walk, NextNet
  PROVE  Walk'
<1>1. /\ pc = "walk" /\ pc' = "walk" /\ cell = NULL /\ net_idx + 1 \in Nets
      /\ net_idx' = net_idx + 1 /\ cell' = trace_head[net_idx + 1]
      /\ routing' = routing /\ file' = file /\ trace_head' = trace_head /\ UNCHANGED marks
  BY DEF NextNet, WalkNext, input, lists
<1>. DEFINE m == net_idx + 1
<1>2. \A n \in Nets : n \in Nat
  BY NetsRange
<1>3. net_idx \in Nat
  BY <1>2 DEF ListInv, Typed
<1>4. (SourceOnce' <=> SourceOnce) /\ (Expected' <=> Expected)
  BY <1>1 DEF SourceOnce, Expected, Kind, Trace
<1>. SUFFICES ASSUME SourceOnce, Expected PROVE OnList' /\ Marked' /\ Driven'
  BY <1>1, <1>4 DEF Walk
<1>5. OnList /\ Marked /\ Driven
  BY <1>1 DEF Walk
<1>6. \A n \in Nets : Kind(n)' = Kind(n) /\ Trace(n)' = Trace(n) /\ \A k : CellAt(n, k)' = CellAt(n, k)
  BY <1>1 DEF Kind, Trace, CellAt
<1>7. \A n \in Nets : /\ Kind(n) \in {"routed", "global"}
                      /\ Kind(n) = "routed" => trace_head[n] \in Nat /\ trace_head[n] # NULL /\ Len(Trace(n)) \in Nat \ {0}
                      /\ Kind(n) = "global" => trace_head[n] = NULL
  BY <1>1, ListsOfWalk, TraceShape DEF ListInv, Typed
<1>8. ASSUME NEW n \in Nets, Kind(n) = "routed", NEW k \in 1 .. Len(Trace(n)) PROVE Walked(n, k)' <=> Walked(n, k)
  <2>1. CASE n = m
    <3>1. k \in Nat \ {0} /\ trace_head[n] \in Nat /\ trace_head[n] # NULL
      BY <1>7, <1>8
    <3>2. ~ (trace_head[n] = NULL \/ CellAt(n, k) < trace_head[n])
      BY <3>1, NoneWalked
    <3>3. ~ (n < net_idx) /\ n # net_idx /\ ~ (n < net_idx')
      BY <1>1, <1>3, <2>1
    <3>4. cell' = trace_head[n]
      BY <1>1, <2>1
    <3>5. QED
      BY <1>6, <3>2, <3>3, <3>4 DEF Walked
  <2>2. CASE n # m
    <3>1. n < net_idx' <=> (n < net_idx \/ n = net_idx)
      BY <1>1, <1>2, <1>3, <2>2
    <3>2. n # net_idx'
      BY <1>1, <2>2
    <3>3. QED
      BY <1>1, <3>1, <3>2 DEF Walked
  <2>3. QED
    BY <2>1, <2>2
<1>9. OnList'
  <2>1. SUFFICES ASSUME cell' # NULL
                 PROVE  Kind(m) = "routed" /\ \E k \in 1 .. Len(Trace(m)) : cell' = CellAt(m, k)
    <3>1. net_idx' = m /\ m \in Nets
      BY <1>1
    <3>. HIDE DEF m
    <3>2. QED
      BY <2>1, <3>1, <1>6 DEF OnList
  <2>2. Kind(m) = "routed" /\ 1 \in 1 .. Len(Trace(m)) /\ trace_head[m] \in Nat /\ cell' = trace_head[m]
    BY <1>1, <1>7, <2>1
  <2>3. CellAt(m, 1) = trace_head[m]
    BY <2>2 DEF CellAt
  <2>4. QED
    BY <2>2, <2>3
<1>10. Marked'
  <2>1. (\A node \in Nodes : net_num[node] # OPEN => Uses(net_num[node], node))'
    BY <1>1, <1>5 DEF Marked, Uses, marks
  <2>2. ASSUME NEW n \in Nets, Kind(n)' = "routed", NEW k \in 1 .. Len(Trace(n))', Walked(n, k)'
        PROVE  net_num'[Trace(n)'[k]] # OPEN
    <3>1. Kind(n) = "routed" /\ k \in 1 .. Len(Trace(n)) /\ Walked(n, k) /\ Trace(n)' = Trace(n)
      BY <1>6, <1>8, <2>2
    <3>2. QED
      BY <1>1, <1>5, <3>1 DEF Marked, marks
  <2>3. QED
    BY <2>1, <2>2 DEF Marked
<1>11. Driven'
  <2>1. ASSUME NEW n \in Nets, Kind(n) = "routed", NEW k \in 1 .. Len(Trace(n)) - 1 PROVE Walked(n, k)' <=> Walked(n, k)
    <3>1. k \in 1 .. Len(Trace(n))
      BY <1>7, <2>1
    <3>2. QED
      BY <1>8, <2>1, <3>1
  <2>2. \A n \in Nets : \A k, b : DrivenBy(n, k, b)' <=> DrivenBy(n, k, b)
    BY <1>6 DEF DrivenBy, ChanDriven, IsChannel
  <2>3. QED
    BY <1>1, <1>5, <1>6, <2>1, <2>2 DEF Driven, marks
<1>12. QED
  BY <1>9, <1>10, <1>11

\* The walk marks the node of a cell and, of the one after it, the node and whether
\* a wire drives it, and goes there.
LEMMA WalkMarks ==
  ASSUME ListInv, Loaded, AllListed, Walk, MarkCell
  PROVE  Walk'
<1>. DEFINE after == heap[cell].next
            a == heap[cell].index
            b == heap[after].index
<1>1. /\ pc = "walk" /\ pc' = "walk" /\ cell \in Cells /\ cell' = after
      /\ routing' = routing /\ file' = file /\ trace_head' = trace_head /\ net_idx' = net_idx
      /\ after = NULL => net_num' = [net_num EXCEPT ![a] = net_idx] /\ chan_driven_by_chan' = chan_driven_by_chan
      /\ after # NULL => /\ net_num' = [net_num EXCEPT ![a] = net_idx, ![b] = net_idx]
                         /\ chan_driven_by_chan' = chan_driven_by_chan \cup (IF ChanDriven(a, b) THEN {b} ELSE {})
  BY DEF MarkCell, input, lists
<1>2. (SourceOnce' <=> SourceOnce) /\ (Expected' <=> Expected)
  BY <1>1 DEF SourceOnce, Expected, Kind, Trace
<1>. SUFFICES ASSUME SourceOnce, Expected PROVE OnList' /\ Marked' /\ Driven'
  BY <1>1, <1>2 DEF Walk
<1>3. OnList /\ Marked /\ Driven
  BY <1>1 DEF Walk
<1>4. \A n \in Nets : Kind(n)' = Kind(n) /\ Trace(n)' = Trace(n) /\ \A k : CellAt(n, k)' = CellAt(n, k)
  BY <1>1 DEF Kind, Trace, CellAt
<1>5. PICK m \in Nets : m = net_idx
  BY DEF ListInv, Typed
<1>. DEFINE t == Trace(m)
            z == Len(Trace(m))
<1>6. Kind(m) = "routed" /\ m # OPEN
  BY <1>1, <1>3, <1>5, NoGarbage DEF OnList, ListInv
<1>7. PICK k \in 1 .. z : cell = CellAt(m, k)
  BY <1>1, <1>3, <1>5, NoGarbage DEF OnList, ListInv
<1>8. z \in Nat \ {0} /\ \A i \in 1 .. z : t[i] \in Nodes
  BY <1>6, TraceShape DEF ListInv, Typed
<1>9. WholeList(m) /\ trace_head[m] \in Nat
  BY <1>1, <1>6, ListsOfWalk
<1>10. /\ \A i \in 1 .. z : CellAt(m, i) \in Cells /\ heap[CellAt(m, i)].index = t[i]
                            /\ (i < z => heap[CellAt(m, i)].next = CellAt(m, i + 1))
       /\ heap[CellAt(m, z)].next = NULL
  BY <1>9 DEF WholeList, Chain
<1>11. ASSUME NEW n \in Nets, Kind(n) = "routed", NEW i \in 1 .. Len(Trace(n))
       PROVE  Uses(n, Trace(n)[i]) /\ Len(Trace(n)) \in Nat
  <2>1. DOMAIN Trace(n) = 1 .. Len(Trace(n)) /\ Len(Trace(n)) \in Nat
    BY <1>11, TraceShape DEF ListInv, Typed
  <2>2. QED
    BY <1>11, <2>1 DEF Uses, Kind, Trace
<1>. HIDE DEF a, b, after, z, t
<1>12. a = t[k] /\ a \in Nodes
  BY <1>7, <1>8, <1>10 DEF a
<1>13. \A i \in 1 .. z : \A j \in 1 .. z : CellAt(m, i) < CellAt(m, j) <=> i < j
  <2>1. \A h \in Nat : \A i, j \in 1 .. z : h + i - 1 < h + j - 1 <=> i < j
    BY <1>8
  <2>2. QED
    BY <2>1, <1>9 DEF CellAt
<1>14. k < z => after = CellAt(m, k + 1) /\ after # NULL /\ b = t[k + 1] /\ b \in Nodes /\ k + 1 \in 1 .. z
  <2>. SUFFICES ASSUME k < z PROVE after = CellAt(m, k + 1) /\ after # NULL /\ b = t[k + 1] /\ b \in Nodes /\ k + 1 \in 1 .. z
    OBVIOUS
  <2>1. k + 1 \in 1 .. z
    BY <1>8
  <2>2. after = CellAt(m, k + 1) /\ CellAt(m, k + 1) \in Cells
    BY <2>1, <1>7, <1>10 DEF after
  <2>3. after # NULL
    BY <2>2, NoGarbage DEF ListInv
  <2>4. b = t[k + 1]
    BY <2>1, <2>2, <1>10 DEF b
  <2>5. QED
    BY <2>1, <2>2, <2>3, <2>4, <1>8
<1>15. k = z => after = NULL
  BY <1>7, <1>10 DEF after
<1>16. cell # NULL
  BY <1>1, NoGarbage DEF ListInv
<1>17. ASSUME NEW n \in Nets, Kind(n) = "routed", NEW i \in 1 .. Len(Trace(n))
       PROVE  Walked(n, i)' <=> (Walked(n, i) \/ (n = m /\ i = k))
  <2>1. CASE n # m
    BY <2>1, <1>1, <1>5 DEF Walked
  <2>2. CASE n = m
    <3>1. i \in 1 .. z /\ i \in Nat /\ k \in Nat /\ z \in Nat /\ k <= z /\ i <= z
      BY <2>2, <1>8, <1>17 DEF z
    <3>2. ~ (n < net_idx) /\ n = net_idx
      BY <2>2, <1>5, NetsRange
    <3>3. Walked(n, i) <=> i < k
      BY <2>2, <3>1, <3>2, <1>7, <1>13, <1>16 DEF Walked
    <3>4. Walked(n, i)' <=> (after = NULL \/ CellAt(m, i) < after)
      BY <2>2, <3>2, <1>1, <1>4, <1>5 DEF Walked
    <3>5. CASE k < z
      <4>1. CellAt(m, i) < after <=> i < k + 1
        BY <3>1, <3>5, <1>13, <1>14
      <4>2. QED
        BY <2>2, <3>1, <3>3, <3>4, <3>5, <4>1, <1>14
    <3>6. CASE k = z
      BY <2>2, <3>1, <3>3, <3>4, <3>6, <1>15
    <3>7. QED
      BY <3>1, <3>5, <3>6
  <2>3. QED
    BY <2>1, <2>2
<1>18. OnList'
  <2>1. SUFFICES ASSUME after # NULL PROVE \E i \in 1 .. z : after = CellAt(m, i)
    BY <1>1, <1>4, <1>5, <1>6 DEF OnList, z
  <2>2. k < z
    BY <2>1, <1>8, <1>15
  <2>3. QED
    BY <2>2, <1>14
<1>19. /\ net_num'[a] = m /\ (k < z => net_num'[b] = m)
       /\ \A node \in Nodes : net_num'[node] \in {net_num[node], m}
       /\ \A node \in Nodes : net_num'[node] # net_num[node] => node = a \/ (k < z /\ node = b)
  <2>1. net_num \in [Nodes -> Nets \cup {OPEN}]
    BY DEF ListInv, Typed
  <2>2. CASE k < z
    BY <2>1, <2>2, <1>1, <1>5, <1>12, <1>14
  <2>3. CASE k = z
    BY <2>1, <2>3, <1>1, <1>5, <1>8, <1>12, <1>15
  <2>4. QED
    BY <2>2, <2>3, <1>8
<1>20. Uses(m, a) /\ (k < z => Uses(m, b))
  <2>1. Uses(m, t[k])
    BY <1>6, <1>11 DEF t, z
  <2>2. k < z => Uses(m, t[k + 1])
    BY <1>6, <1>11, <1>14 DEF t, z
  <2>3. QED
    BY <2>1, <2>2, <1>12, <1>14
<1>21. Marked'
  <2>1. \A n, node : Uses(n, node)' <=> Uses(n, node)
    BY <1>1 DEF Uses
  <2>2. ASSUME NEW node \in Nodes, net_num'[node] # OPEN PROVE Uses(net_num'[node], node)
    <3>1. CASE net_num'[node] = net_num[node]
      BY <2>2, <3>1, <1>3 DEF Marked
    <3>2. CASE net_num'[node] # net_num[node]
      BY <3>2, <1>19, <1>20
    <3>3. QED
      BY <3>1, <3>2
  <2>3. (\A node \in Nodes : net_num[node] # OPEN => Uses(net_num[node], node))'
    BY <2>2, <1>1 DEF Uses
  <2>4. ASSUME NEW n \in Nets, Kind(n) = "routed", NEW i \in 1 .. Len(Trace(n)), Walked(n, i)'
        PROVE  net_num'[Trace(n)[i]] # OPEN
    <3>1. CASE n = m /\ i = k
      BY <3>1, <1>6, <1>12, <1>19 DEF t
    <3>2. CASE Walked(n, i)
      <4>1. net_num[Trace(n)[i]] # OPEN /\ Trace(n)[i] \in Nodes
        BY <2>4, <3>2, <1>3, TraceShape DEF Marked, ListInv, Typed
      <4>2. QED
        BY <4>1, <1>6, <1>19
    <3>3. QED
      BY <2>4, <3>1, <3>2, <1>17
  <2>5. QED
    BY <2>3, <2>4, <1>4 DEF Marked
<1>22. Driven'
  <2>1. \A n \in Nets : \A i, d : DrivenBy(n, i, d)' <=> DrivenBy(n, i, d)
    BY <1>4 DEF DrivenBy, ChanDriven, IsChannel
  <2>2. ASSUME NEW n \in Nets, Kind(n) = "routed", NEW i \in 1 .. Len(Trace(n)) - 1
        PROVE  Walked(n, i)' <=> (Walked(n, i) \/ (n = m /\ i = k))
    <3>1. i \in 1 .. Len(Trace(n))
      BY <2>2, TraceShape DEF ListInv, Typed
    <3>2. QED
      BY <2>2, <3>1, <1>17
  <2>3. ASSUME NEW d \in Nodes
        PROVE  d \in chan_driven_by_chan' <=> (d \in chan_driven_by_chan \/ (k \in 1 .. z - 1 /\ DrivenBy(m, k, d)))
    <3>1. CASE k < z
      <4>1. k \in 1 .. z - 1
        BY <3>1, <1>8
      <4>2. DrivenBy(m, k, d) <=> ChanDriven(a, b) /\ d = b
        BY <3>1, <1>12, <1>14 DEF DrivenBy, t
      <4>3. QED
        BY <3>1, <4>1, <4>2, <1>1, <1>14
    <3>2. CASE k = z
      <4>1. k \notin 1 .. z - 1
        BY <3>2, <1>8
      <4>2. QED
        BY <3>2, <4>1, <1>1, <1>15
    <3>3. QED
      BY <3>1, <3>2, <1>8
  <2>4. ASSUME NEW d \in Nodes
        PROVE  d \in chan_driven_by_chan' <=>
                 \E n \in Nets : Kind(n) = "routed" /\ \E i \in 1 .. Len(Trace(n)) - 1 : Walked(n, i)' /\ DrivenBy(n, i, d)
    <3>1. d \in chan_driven_by_chan <=>
            \E n \in Nets : Kind(n) = "routed" /\ \E i \in 1 .. Len(Trace(n)) - 1 : Walked(n, i) /\ DrivenBy(n, i, d)
      BY <1>3 DEF Driven
    <3>2. CASE d \in chan_driven_by_chan'
      <4>1. CASE d \in chan_driven_by_chan
        BY <4>1, <3>1, <3>2, <2>2
      <4>2. CASE k \in 1 .. z - 1 /\ DrivenBy(m, k, d)
        BY <4>2, <3>2, <2>2, <1>6 DEF z
      <4>3. QED
        BY <4>1, <4>2, <3>2, <2>3
    <3>3. CASE \E n \in Nets : Kind(n) = "routed" /\ \E i \in 1 .. Len(Trace(n)) - 1 : Walked(n, i)' /\ DrivenBy(n, i, d)
      <4>1. PICK n \in Nets : Kind(n) = "routed" /\ \E i \in 1 .. Len(Trace(n)) - 1 : Walked(n, i)' /\ DrivenBy(n, i, d)
        BY <3>3
      <4>2. PICK i \in 1 .. Len(Trace(n)) - 1 : Walked(n, i)' /\ DrivenBy(n, i, d)
        BY <4>1
      <4>3. Walked(n, i) \/ (n = m /\ i = k)
        BY <4>1, <4>2, <2>2
      <4>4. CASE Walked(n, i)
        BY <4>1, <4>2, <4>4, <3>1, <3>3, <2>3
      <4>5. CASE n = m /\ i = k
        BY <4>2, <4>5, <3>3, <2>3 DEF z
      <4>6. QED
        BY <4>3, <4>4, <4>5
    <3>4. QED
      BY <3>2, <3>3
  <2>5. QED
    BY <2>1, <2>4, <1>4 DEF Driven
<1>23. QED
  BY <1>18, <1>21, <1>22

\* The other steps are not of the walk, or end it.
LEMMA WalkNextStep ==
  ASSUME ListInv, Loaded, AllListed, Walk, [Next]_vars, AllListed'
  PROVE  Walk'
<1>1. CASE EndOfFile
  BY <1>1, WalkBegins
<1>2. CASE MarkCell
  BY <1>2, WalkMarks
<1>3. CASE NextNet
  BY <1>3, WalkGoesOn
<1>4. CASE Charge \/ \E how \in Final : Stop(how)
  <2>1. pc' \in Final
    BY <1>4 DEF Charge, Stop, Final
  <2>2. QED
    BY <2>1 DEF Walk, Final
<1>5. CASE NetLine \/ GlobalLine \/ SourceLine \/ SkipLine \/ Header \/ NodeLine \/ OtherLine
  <2>1. UNCHANGED marks /\ pc \in {"header", "line"} /\ pc' # "walk"
    <3>1. \A h, to, type : LinkTo(h, to, type) => UNCHANGED marks /\ pc' \in {pc, "exit"}
      BY DEF LinkTo, Stop, NextLine
    <3>2. CASE NodeLine \/ OtherLine
      BY <3>1, <3>2 DEF NodeLine, OtherLine, AtLine, Stop
    <3>3. CASE NetLine \/ GlobalLine \/ SourceLine \/ SkipLine \/ Header
      BY <3>3 DEF NetLine, GlobalLine, SourceLine, SkipLine, Header, AtLine, NextLine
    <3>4. QED
      BY <1>5, <3>2, <3>3
  <2>2. QED
    BY <2>1 DEF Walk, marks
<1>6. CASE UNCHANGED vars
  BY <1>6 DEF Walk, OnList, Marked, Driven, DrivenBy, Walked, SourceOnce, Expected, Uses, CellAt, Kind, Trace,
              vars, input, lists, walk, marks
<1>7. QED
  BY <1>1, <1>2, <1>3, <1>4, <1>5, <1>6, NextSteps

\* What the walk marked is what the routing of an expected file uses, when it is charged.
LEMMA ChargedNext ==
  ASSUME ListInv, Loaded, AllListed, Walk, [Next]_vars, SourceOnce => ChargesAreTheRouting
  PROVE  (SourceOnce => ChargesAreTheRouting)'
<1>. SUFFICES ASSUME SourceOnce', pc' = "done", Expected' PROVE ChargesAreTheRouting'
  BY DEF ChargesAreTheRouting
<1>1. CASE UNCHANGED vars
  <2>1. SourceOnce
    BY <1>1 DEF SourceOnce, Kind, Trace, vars, input
  <2>2. ChargesAreTheRouting
    BY <2>1
  <2>3. QED
    BY <2>2, <1>1 DEF ChargesAreTheRouting, Expected, Uses, OnTrace, vars, input, marks, estimate
<1>2. CASE Charge
  <2>1. /\ pc = "walk" /\ cell = NULL /\ net_idx + 1 \notin Nets
        /\ active_fanin' = [n \in Nodes |-> {m \in Nodes : <<m, n>> \in Edges /\ net_num[m] # OPEN}]
        /\ charged' = [n \in {m \in Nodes : IsChannel(m)} |-> net_num[n]]
        /\ routing' = routing /\ file' = file /\ chan_driven_by_chan' = chan_driven_by_chan
    BY <1>2 DEF Charge, WalkNext, input, marks
  <2>2. SourceOnce /\ Expected
    BY <2>1 DEF SourceOnce, Expected, Kind, Trace
  <2>3. Marked /\ Driven
    BY <2>1, <2>2 DEF Walk
  <2>4. ASSUME NEW n \in Nets, NEW k PROVE Walked(n, k)
    <3>1. n \in Nat /\ net_idx \in Nat /\ n < num_nets /\ num_nets \in Nat /\ ~ (net_idx + 1 < num_nets)
      BY <2>1, NetsRange DEF ListInv, Typed
    <3>2. n < net_idx \/ n = net_idx
      BY <3>1
    <3>3. QED
      BY <2>1, <3>2 DEF Walked
  <2>5. ASSUME NEW n \in Nets, Kind(n) = "routed"
        PROVE  Len(Trace(n)) \in Nat /\ DOMAIN Trace(n) = 1 .. Len(Trace(n)) /\ \A i \in 1 .. Len(Trace(n)) : Trace(n)[i] \in Nodes
    BY <2>5, TraceShape DEF ListInv, Typed
  <2>6. ASSUME NEW node \in Nodes, NEW n \in Nets, Uses(n, node) PROVE net_num[node] # OPEN
    <3>1. Kind(n) = "routed" /\ \E i \in DOMAIN Trace(n) : Trace(n)[i] = node
      BY <2>6 DEF Uses, Kind, Trace
    <3>2. PICK i \in 1 .. Len(Trace(n)) : Trace(n)[i] = node
      BY <3>1, <2>5
    <3>3. QED
      BY <3>1, <3>2, <2>3, <2>4 DEF Marked
  <2>7. ASSUME NEW node \in Nodes, net_num[node] # OPEN PROVE net_num[node] \in Nets /\ Uses(net_num[node], node)
    BY <2>3, <2>7 DEF Marked, ListInv, Typed
  <2>8. \A node \in DOMAIN charged' : IF charged'[node] = OPEN THEN \A n \in Nets : ~ Uses(n, node) ELSE Uses(charged'[node], node)
    <3>1. ASSUME NEW node \in {m \in Nodes : IsChannel(m)}
          PROVE  IF net_num[node] = OPEN THEN \A n \in Nets : ~ Uses(n, node) ELSE Uses(net_num[node], node)
      BY <2>6, <2>7
    <3>2. QED
      BY <2>1, <3>1
  <2>9. chan_driven_by_chan =
          {b \in Nodes : \E n \in Nets, a \in Nodes : IsChannel(a) /\ IsChannel(b) /\ OnTrace(n, a, b)}
    <3>1. chan_driven_by_chan \subseteq Nodes
      BY DEF ListInv, Typed
    <3>2. ASSUME NEW b \in Nodes
          PROVE  b \in chan_driven_by_chan <=> \E n \in Nets, a \in Nodes : IsChannel(a) /\ IsChannel(b) /\ OnTrace(n, a, b)
      <4>1. b \in chan_driven_by_chan <=>
              \E n \in Nets : Kind(n) = "routed" /\ \E k \in 1 .. Len(Trace(n)) - 1 : Walked(n, k) /\ DrivenBy(n, k, b)
        BY <2>3 DEF Driven
      <4>2. ASSUME b \in chan_driven_by_chan
            PROVE  \E n \in Nets, a \in Nodes : IsChannel(a) /\ IsChannel(b) /\ OnTrace(n, a, b)
        <5>1. PICK n \in Nets : Kind(n) = "routed" /\ \E k \in 1 .. Len(Trace(n)) - 1 : Walked(n, k) /\ DrivenBy(n, k, b)
          BY <4>1, <4>2
        <5>2. PICK k \in 1 .. Len(Trace(n)) - 1 : DrivenBy(n, k, b)
          BY <5>1
        <5>3. Trace(n)[k] \in Nodes
          <6>1. k \in 1 .. Len(Trace(n))
            BY <5>1, <2>5
          <6>2. QED
            BY <5>1, <6>1, <2>5
        <5>4. IsChannel(Trace(n)[k]) /\ IsChannel(b) /\ b = Trace(n)[k + 1]
          BY <5>2 DEF DrivenBy, ChanDriven
        <5>5. OnTrace(n, Trace(n)[k], b)
          BY <5>1, <5>2, <5>4 DEF OnTrace, Kind, Trace
        <5>6. QED
          BY <5>3, <5>4, <5>5
      <4>3. ASSUME NEW n \in Nets, NEW a \in Nodes, IsChannel(a), IsChannel(b), OnTrace(n, a, b)
            PROVE  b \in chan_driven_by_chan
        <5>1. Kind(n) = "routed" /\ \E k \in 1 .. Len(Trace(n)) - 1 : Trace(n)[k] = a /\ Trace(n)[k + 1] = b
          BY <4>3 DEF OnTrace, Kind, Trace
        <5>2. PICK k \in 1 .. Len(Trace(n)) - 1 : Trace(n)[k] = a /\ Trace(n)[k + 1] = b
          BY <5>1
        <5>3. DrivenBy(n, k, b) /\ Walked(n, k)
          BY <5>2, <4>3, <2>4 DEF DrivenBy, ChanDriven
        <5>4. QED
          BY <5>1, <5>3, <4>1
      <4>4. QED
        BY <4>2, <4>3
    <3>3. QED
      BY <3>1, <3>2
  <2>10. \A node \in Nodes :
           active_fanin'[node] = {m \in Nodes : <<m, node>> \in Edges /\ \E n \in Nets : Uses(n, m)}
    <3>1. \A m \in Nodes : net_num[m] # OPEN <=> \E n \in Nets : Uses(n, m)
      BY <2>6, <2>7
    <3>2. QED
      BY <2>1, <3>1
  <2>11. \A n, a, b : (OnTrace(n, a, b)' <=> OnTrace(n, a, b)) /\ (Uses(n, a)' <=> Uses(n, a))
    BY <2>1 DEF OnTrace, Uses
  <2>12. (\A node \in DOMAIN charged : IF charged[node] = OPEN THEN \A n \in Nets : ~ Uses(n, node) ELSE Uses(charged[node], node))'
    BY <2>1, <2>8 DEF Uses
  <2>13. QED
    BY <2>1, <2>9, <2>10, <2>11, <2>12 DEF ChargesAreTheRouting
<1>3. CASE ~ UNCHANGED vars /\ ~ Charge
  <2>1. Next
    BY <1>3
  <2>2. pc' \in {"exit", "corrupt", "line", "walk"}
    <3>1. \A h, to, type : LinkTo(h, to, type) => pc' \in {pc, "exit"}
      BY DEF LinkTo, Stop, NextLine
    <3>2. CASE NodeLine \/ OtherLine
      BY <3>1, <3>2 DEF NodeLine, OtherLine, AtLine, Stop
    <3>3. CASE BadHeader \/ Header \/ NetLine \/ GlobalLine \/ RenamedLine \/ SkipLine \/ SourceLine
      BY <3>3 DEF BadHeader, Header, NetLine, GlobalLine, RenamedLine, SkipLine, SourceLine, AtLine, NextLine, Stop
    <3>4. CASE EndOfFile \/ MarkCell \/ BadCell \/ NextNet
      BY <3>4 DEF EndOfFile, MarkCell, BadCell, NextNet, Stop
    <3>5. CASE Stopped
      BY <1>3, <3>5 DEF Stopped
    <3>6. QED
      BY <1>3, <2>1, <3>2, <3>3, <3>4, <3>5 DEF Next
  <2>3. QED
    BY <2>2
<1>4. QED
  BY <1>1, <1>2, <1>3

\* The inductive invariant of the walk holds at first.
LEMMA WalkInit == Init => AllListed /\ Walk /\ (SourceOnce => ChargesAreTheRouting)
<1>. SUFFICES ASSUME Init PROVE AllListed /\ Walk /\ ChargesAreTheRouting
  OBVIOUS
<1>1. pc = "header" /\ net_num = [n \in Nodes |-> OPEN] /\ chan_driven_by_chan = {}
  BY DEF Init
<1>2. QED
  BY <1>1 DEF AllListed, Walk, ChargesAreTheRouting

\* When the file is as VPR prints it for routed and global nets, and no net returns to
\* its source, every wire is charged with the net routed over it, for every routing and
\* every graph (power.c:640-690, power.c:845-860).
THEOREM ChargesRight == Spec => [](SourceOnce => ChargesAreTheRouting)
<1>1. Init => ListInv /\ Loaded /\ AllListed /\ Walk /\ (SourceOnce => ChargesAreTheRouting)
  BY ListInit, LoadedInit, WalkInit
<1>2. ListInv /\ Loaded /\ AllListed /\ Walk /\ (SourceOnce => ChargesAreTheRouting) /\ [Next]_vars
        => (ListInv /\ Loaded /\ AllListed /\ Walk /\ (SourceOnce => ChargesAreTheRouting))'
  BY ListStep, LoadedNext, AllListedNext, WalkNextStep, ChargedNext
<1>3. QED
  BY <1>1, <1>2, PTL DEF Spec
=============================================================================
