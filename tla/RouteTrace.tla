----------------------------- MODULE RouteTrace -----------------------------
(***************************************************************************)
(* The routing that VPR printed, read back and charged by HPower.          *)
(* print_route (vpr/SRC/route/route_common.c) writes the traceback of each *)
(* net, read_trace_file (HPower/route.c) rebuilds it as a linked list of   *)
(* heap cells, and power_routing (HPower/power.c) walks the lists to find  *)
(* the net of every node of the routing graph, and charges the wires.      *)
(*                                                                         *)
(* A line that names a node is that node: the lookup by coordinates and    *)
(* pin, pad, class or track is one to one.  Garbage is what malloc or an   *)
(* unset local variable leaves; a read or a write through it may do        *)
(* anything, which ends the model in the state "corrupt".                  *)
(***************************************************************************)
EXTENDS Integers, Sequences, FiniteSets

CONSTANTS
  num_nets,  \* the nets are 0 .. num_nets - 1
  RRType,    \* the type of each node of the routing graph
  Switch,    \* the switch of each edge of the graph
  Routings,  \* the routings VPR may print
  MayBeCut,  \* whether the file may end before all was printed
  OPEN,      \* no net, no switch
  Garbage    \* what memory holds before it is written

Nets  == 0 .. num_nets - 1
Nodes == DOMAIN RRType
Edges == DOMAIN Switch
NULL  == 0

\* What VPR made of a net: its traceback, if the net was routed.
\* A foreign net was routed on the graph of another architecture.
NetRouting == [kind : {"routed", "foreign", "global", "local", "renamed"}, trace : Seq(Nodes)]

ASSUME NetsAssumption == num_nets \in Nat \ {0} /\ MayBeCut \in BOOLEAN
ASSUME GraphAssumption ==
  /\ RRType \in [Nodes -> {"SOURCE", "OPIN", "CHANX", "CHANY", "IPIN", "SINK"}]
  /\ Edges \subseteq Nodes \X Nodes /\ Switch \in [Edges -> Nat]
  /\ \A e \in Edges : RRType[e[1]] # "SINK"  \* rr_graph.c:1249
  /\ OPEN \notin Nat /\ Garbage \notin Nat /\ OPEN # Garbage /\ Garbage \notin Nodes
\* Tracebacks as update_traceback builds them.
ASSUME RoutingsAssumption ==
  \A r \in Routings : r \in [Nets -> NetRouting] /\
    \A n \in Nets : LET t == r[n].trace IN r[n].kind = "routed" =>
      /\ t # <<>> /\ RRType[t[1]] = "SOURCE" /\ RRType[t[Len(t)]] = "SINK"
      /\ \A i \in 1 .. Len(t) - 1 : RRType[t[i]] # "SINK" => <<t[i], t[i + 1]>> \in Edges

VARIABLES
  routing, file,           \* what was routed, and what the file says
  pc, linenum,             \* what is done, and the line to be read
  heap, freed,             \* the cells allocated, and those freed
  trace_head, trace_tail,
  cur_net, skip_cur_net, trace, next, rr_type, prev_rr_type,
  net_idx, cell,           \* the walk of power_routing
  net_num, chan_driven_by_chan,
  charged, active_fanin    \* the net whose activity a wire is charged with; the
                           \* nodes whose activity reaches a multiplexer
input    == <<routing, file>>
store    == <<heap, freed>>
lists    == <<trace_head, trace_tail>>
reader   == <<cur_net, skip_cur_net, trace, next, rr_type, prev_rr_type>>
marks    == <<net_num, chan_driven_by_chan>>
estimate == <<charged, active_fanin>>
walk     == <<net_idx, cell>>
vars == <<input, pc, linenum, store, lists, reader, walk, marks, estimate>>

Cells == 1 .. Len(heap)
Final == {"done", "exit", "corrupt"}

-----------------------------------------------------------------------------
(* print_route: a line is the node it names, or the Net line of a net; "other" *)
(* stands for the sentence on a net that never left its block and the blocks  *)
(* of a global net.                                                           *)

NodeLines(t) == [i \in DOMAIN t |-> [kind |-> "node", of |-> t[i]]]

NetLines(n, r) ==
  CASE r.kind \in {"routed", "foreign"} -> <<[kind |-> "net", of |-> n]>> \o NodeLines(r.trace)
    [] r.kind = "local" -> <<[kind |-> "net", of |-> n], [kind |-> "other", of |-> n]>>
    [] r.kind = "global" -> <<[kind |-> "global", of |-> n], [kind |-> "other", of |-> n]>>
    [] r.kind = "renamed" -> <<[kind |-> "renamed", of |-> n]>>

print_route(r) ==
  LET upto[n \in Nets] == (IF n = 0 THEN <<[kind |-> "header", of |-> 0]>> ELSE upto[n - 1])
                             \o NetLines(n, r[n])
  IN upto[num_nets - 1]

FilesOf(r) ==
  {print_route(r)} \cup
    {f \in {SubSeq(print_route(r), 1, k) : k \in 0 .. Len(print_route(r))} : MayBeCut}

Init ==
  /\ routing \in Routings
  /\ file \in FilesOf(routing)
  /\ pc = "header" /\ linenum = 1
  /\ heap = <<>> /\ freed = {}
  /\ trace_head = [n \in Nets |-> Garbage] /\ trace_tail = [n \in Nets |-> Garbage]
  /\ cur_net = OPEN /\ skip_cur_net = FALSE
  /\ trace = Garbage /\ next = Garbage /\ rr_type = "?" /\ prev_rr_type = "?"
  /\ net_idx = 0 /\ cell = NULL
  /\ net_num = [n \in Nodes |-> OPEN] /\ chan_driven_by_chan = {}
  /\ charged = <<>> /\ active_fanin = <<>>

Stop(how) == pc' = how /\ UNCHANGED <<input, linenum, store, lists, reader, walk, marks, estimate>>

-----------------------------------------------------------------------------
(* read_trace_file *)

TheLine == file[linenum]
AtLine(kind) == pc = "line" /\ linenum \in DOMAIN file /\ TheLine.kind = kind
NextLine == linenum' = linenum + 1 /\ UNCHANGED <<input, pc, walk, marks, estimate>>
\* Mutant: the cell after the one allocated.
NewCellBeyond == Len(heap) + 2
NewCell == Len(heap) + 1
Malloc(index) ==
  Append(heap, [index |-> index, iswitch |-> IF RRType[index] = "SINK" THEN OPEN ELSE Garbage,
                next |-> Garbage])

\* The array size or the headings do not match.
BadHeader ==
  /\ pc = "header"
  /\ ~ \E l \in DOMAIN file : l = 1 /\ file[l].kind = "header"
  /\ Stop("exit")

Header ==
  /\ pc = "header"
  /\ \E l \in DOMAIN file : l = 1 /\ file[l].kind = "header"
  /\ pc' = "line" /\ linenum' = 2
  /\ UNCHANGED <<input, store, lists, reader, walk, marks, estimate>>

\* The heap and the tails once the list of the current net is closed.
ClosedHeap  == IF cur_net = OPEN THEN heap ELSE [heap EXCEPT ![trace].next = NULL]
\* Mutant: the tail of a net is its head.
ClosedTailsHead == IF cur_net = OPEN THEN trace_tail ELSE [trace_tail EXCEPT ![cur_net] = trace_head[cur_net]]
ClosedTails == IF cur_net = OPEN THEN trace_tail ELSE [trace_tail EXCEPT ![cur_net] = trace]

NetLine ==
  /\ AtLine("net")
  /\ heap' = Append(ClosedHeap, [index |-> Garbage, iswitch |-> Garbage, next |-> Garbage])
  /\ trace_tail' = ClosedTails
  /\ cur_net' = TheLine.of /\ skip_cur_net' = FALSE
  /\ trace' = NewCell
  /\ trace_head' = [trace_head EXCEPT ![TheLine.of] = NewCell]
  /\ NextLine
  /\ UNCHANGED <<freed, next, rr_type, prev_rr_type>>

\* Mutant: the head of a net that is not read keeps the cell just freed.
GlobalHeadKept(n) == [trace_head EXCEPT ![n] = NewCell]
GlobalHead(n) == [trace_head EXCEPT ![n] = NULL]

\* A global net was never routed: its cell is freed and its lines are skipped.
GlobalLine ==
  /\ AtLine("global")
  /\ heap' = Append(ClosedHeap, [index |-> Garbage, iswitch |-> Garbage, next |-> Garbage])
  /\ freed' = freed \cup {NewCell}
  /\ trace_tail' = [ClosedTails EXCEPT ![TheLine.of] = NULL]
  /\ trace_head' = GlobalHead(TheLine.of)
  /\ cur_net' = OPEN /\ skip_cur_net' = TRUE /\ trace' = NewCell
  /\ NextLine
  /\ UNCHANGED <<next, rr_type, prev_rr_type>>

\* The net has another name, and there is no fourth word to compare with "global".
RenamedLine == AtLine("renamed") /\ Stop("corrupt")

SkipLine ==
  /\ \E kind \in {"node", "other"} : AtLine(kind)
  /\ skip_cur_net
  /\ NextLine
  /\ UNCHANGED <<store, lists, reader>>

SourceLine ==
  /\ AtLine("node") /\ ~ skip_cur_net
  /\ RRType[TheLine.of] = "SOURCE"
  /\ heap' = [heap EXCEPT ![trace].index = TheLine.of]
  /\ rr_type' = "SOURCE" /\ prev_rr_type' = "SOURCE"
  /\ NextLine
  /\ UNCHANGED <<freed, lists, cur_net, skip_cur_net, trace, next>>

\* The switch from the current cell to a cell of h; from a cell never written, any.
SwitchesTo(h, to) ==
  LET edge == <<h[trace].index, h[to].index>>
  IN  IF h[trace].index = Garbage THEN {OPEN} \cup {Switch[e] : e \in Edges}
      ELSE {IF edge \in Edges THEN Switch[edge] ELSE OPEN}

\* Only the nodes that follow a sink need not be linked by an edge.
Unlinked(s) == s = OPEN /\ prev_rr_type # "SINK"

\* The cell to of the heap h becomes the next of the current cell.
LinkTo(h, to, type) ==
  \E s \in SwitchesTo(h, to) :
    \/ Unlinked(s) /\ Stop("exit")
    \/ /\ ~ Unlinked(s)
       /\ heap' = [h EXCEPT ![trace].iswitch = s, ![trace].next = to]
       /\ trace' = to /\ next' = to
       /\ rr_type' = type /\ prev_rr_type' = type
       /\ NextLine
       /\ UNCHANGED <<freed, lists, cur_net, skip_cur_net>>

NodeLine ==
  /\ AtLine("node") /\ ~ skip_cur_net
  /\ RRType[TheLine.of] # "SOURCE"
  /\ LinkTo(Malloc(TheLine.of), NewCell, RRType[TheLine.of])

\* A line of no known kind links the cell of the line before once more.
OtherLine ==
  /\ AtLine("other") /\ ~ skip_cur_net
  /\ \/ next # Garbage /\ LinkTo(heap, next, rr_type)
     \/ (next = Garbage \/ heap[trace].index = Garbage) /\ Stop("corrupt")

EndOfFile ==
  /\ pc = "line" /\ linenum \notin DOMAIN file
  /\ heap' = ClosedHeap /\ trace_tail' = ClosedTails
  /\ pc' = "walk" /\ net_idx' = 0 /\ cell' = trace_head[0]
  /\ UNCHANGED <<input, linenum, freed, trace_head, reader, marks, estimate>>

-----------------------------------------------------------------------------
(* power_routing *)

IsChannel(n) == RRType[n] \in {"CHANX", "CHANY"}

\* Mutant: whatever drives the channel.
ChanDrivenByAny(n, m) == IsChannel(m)
ChanDriven(n, m) == IsChannel(n) /\ IsChannel(m)

MarkCell ==
  /\ pc = "walk" /\ cell \in Cells /\ heap[cell].index # Garbage
  /\ LET n == heap[cell].index
         after == heap[cell].next
     IN IF after = NULL
        THEN /\ net_num' = [net_num EXCEPT ![n] = net_idx]
             /\ UNCHANGED chan_driven_by_chan
        ELSE LET m == heap[after].index IN
             /\ net_num' = [net_num EXCEPT ![n] = net_idx, ![m] = net_idx]
             /\ chan_driven_by_chan' = chan_driven_by_chan \cup (IF ChanDriven(n, m) THEN {m} ELSE {})
  /\ cell' = heap[cell].next
  /\ UNCHANGED <<input, pc, linenum, store, lists, reader, net_idx, estimate>>

\* A head, or the index of its cell, that was never written.
BadCell ==
  /\ pc = "walk"
  /\ cell = Garbage \/ (cell \in Cells /\ heap[cell].index = Garbage)
  /\ Stop("corrupt")

\* Mutant: the walk of a net starts over when it has ended.
WalkAgain == net_idx
WalkNext == net_idx + 1
NextNet ==
  /\ pc = "walk" /\ cell = NULL /\ WalkNext \in Nets
  /\ net_idx' = WalkNext /\ cell' = trace_head[WalkNext]
  /\ UNCHANGED <<input, pc, linenum, store, lists, reader, marks, estimate>>

\* Every node of a net multiplies the average fan-in activity of those it drives.
Charge ==
  /\ pc = "walk" /\ cell = NULL /\ WalkNext \notin Nets
  /\ active_fanin' = [n \in Nodes |-> {m \in Nodes : <<m, n>> \in Edges /\ net_num[m] # OPEN}]
  /\ charged' = [n \in {m \in Nodes : IsChannel(m)} |-> net_num[n]]
  /\ pc' = "done"
  /\ UNCHANGED <<input, linenum, store, lists, reader, walk, marks>>

Stopped == pc \in Final /\ UNCHANGED vars

Next ==
  \/ BadHeader \/ Header
  \/ NetLine \/ GlobalLine \/ RenamedLine \/ SkipLine
  \/ SourceLine \/ NodeLine \/ OtherLine \/ EndOfFile
  \/ MarkCell \/ BadCell \/ NextNet \/ Charge
  \/ Stopped

Spec == Init /\ [][Next]_vars
FairSpec == Spec /\ WF_vars(Next)

-----------------------------------------------------------------------------
(* Properties *)

Pointers == {Garbage, NULL} \cup Cells
IndexOK(i) == i \in Nodes \cup {Garbage}

\* The type invariant: every pointer of read_trace_file is garbage, null or a
\* cell that was allocated, and every index is a node or was never written.
TypeOK ==
  /\ routing \in Routings /\ file \in FilesOf(routing)
  /\ pc \in Final \cup {"header", "line", "walk"} /\ linenum \in 1 .. Len(file) + 1
  /\ \A c \in Cells : IndexOK(heap[c].index) /\ heap[c].iswitch \in Nat \cup {OPEN, Garbage}
                      /\ heap[c].next \in Pointers
  /\ freed \subseteq Cells
  /\ \A n \in Nets : trace_head[n] \in Pointers /\ trace_tail[n] \in Pointers
  /\ cur_net \in Nets \cup {OPEN} /\ skip_cur_net \in BOOLEAN
  /\ trace \in Pointers /\ next \in Pointers /\ cell \in Pointers
  /\ net_idx \in Nets
  /\ net_num \in [Nodes -> Nets \cup {OPEN}] /\ chan_driven_by_chan \subseteq Nodes

\* The cells of the list of n, in order; there are at most Len(heap) of them.
ListOf(n) ==
  LET from[i \in 1 .. Len(heap)] ==
        LET before == from[i - 1]
            c == IF i = 1 THEN trace_head[n]
                 ELSE IF before = <<>> THEN NULL ELSE heap[before[1]].next
        IN  IF c \in Cells THEN <<c>> ELSE <<>>
      size == Cardinality({i \in 1 .. Len(heap) : from[i] # <<>>})
  IN  [i \in 1 .. size |-> from[i][1]]
CellsOf(n) == {ListOf(n)[i] : i \in DOMAIN ListOf(n)}

\* The Net line of n was read and its list closed.
Closed(n) == trace_tail[n] # Garbage

\* The list rebuilt for a routed net is the traceback VPR printed: the same
\* nodes in the same order, each with the switch to the next, OPEN after a
\* sink; the tail is the last cell (route.c:147-151).
LoadedTraceIsRouting ==
  \A n \in Nets : (Closed(n) /\ routing[n].kind = "routed" /\ (MayBeCut => cur_net # n)) =>
    LET t == routing[n].trace
        l == ListOf(n)
    IN /\ [i \in DOMAIN l |-> heap[l[i]].index] = t
       /\ trace_tail[n] = l[Len(l)]
       /\ \A i \in 1 .. Len(l) - 1 :
            heap[l[i]].iswitch = IF RRType[t[i]] = "SINK" THEN OPEN ELSE Switch[<<t[i], t[i + 1]>>]

\* No list reaches a cell that was freed, and the lists of two routed nets
\* share no cell (route.c:167 frees the cell of a global net).
ListsOwnTheirCells ==
  \A n \in {m \in Nets : trace_head[m] # Garbage} :
    /\ freed \cap CellsOf(n) = {}
    /\ \A m \in Nets \ {n} :
         (trace_head[m] # Garbage /\ routing[n].kind = "routed" /\ routing[m].kind = "routed") =>
           CellsOf(n) \cap CellsOf(m) = {}

Uses(n, node) == routing[n].kind = "routed" /\ \E i \in DOMAIN routing[n].trace : routing[n].trace[i] = node
OnTrace(n, a, b) ==
  /\ routing[n].kind = "routed"
  /\ \E i \in 1 .. Len(routing[n].trace) - 1 : routing[n].trace[i] = a /\ routing[n].trace[i + 1] = b

\* The file is whole, and every net of it was routed or is global.
Expected == file = print_route(routing) /\ \A n \in Nets : routing[n].kind \in {"routed", "global"}

\* When the file is as expected, at the end a wire is charged with the activity of
\* the net routed over it, and of none when there is no such net; a wire counts as
\* driven by a wire when the routing says so; the activities at a multiplexer are
\* those of the used nodes that drive it (power.c:653-673).
ChargesAreTheRouting ==
  pc = "done" /\ Expected =>
    /\ \A node \in DOMAIN charged :
         IF charged[node] = OPEN THEN \A n \in Nets : ~ Uses(n, node) ELSE Uses(charged[node], node)
    /\ chan_driven_by_chan =
         {b \in Nodes : \E n \in Nets, a \in Nodes : IsChannel(a) /\ IsChannel(b) /\ OnTrace(n, a, b)}
    /\ \A node \in Nodes :
         active_fanin[node] = {m \in Nodes : <<m, node>> \in Edges /\ \E n \in Nets : Uses(n, m)}

\* Reading and charging come to an end, whatever the file: no list is circular,
\* although a line of no known kind links a cell that is already linked.
Terminates == <>(pc \in Final)

\* A line after the Net line is an "rr_resource node of the current net"
\* (route.c:170): the files print_route writes are read without harm.
PrintedFilesAreRead == pc # "corrupt"

\* "if (node->net_num != OPEN) The wire is active" (power.c:850): only a wire of
\* a net is charged with an activity.
OnlyActiveWiresCharged == \A node \in DOMAIN charged : charged[node] # OPEN
=============================================================================
