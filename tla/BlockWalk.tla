----------------------------- MODULE BlockWalk ------------------------------
(***************************************************************************)
(* The recursions of HPower/power.c: over an entry of the power library as *)
(* it is read, and over the tree of a complex block with its entry.        *)
(***************************************************************************)
EXTENDS LogicPower

RECURSIVE power_pb(_, _, _, _)
power_pb(node, pb, instance, size) ==
  CASE instance.method = "ignore" -> <<>>
    [] instance.method = "macro" ->
         << [kind |-> IF pb = NoPb THEN "idle" ELSE "used", bits |-> instance.bits, muxes |-> 0] >>
    [] instance.method = "sum_of_children" ->
         LET mode == ModeOf(node, pb)
             Child(c) ==
               LET type == mode.children[c]
                   e == EntryFor(type.node.name, instance.children)
               IN IF e = 0 THEN <<>>
                  ELSE FlattenSeq([k \in 1 .. type.num |->
                         power_pb(type.node, ChildPb(pb, c, k), instance.children[e], size)])
         IN FlattenSeq([c \in DOMAIN mode.children |-> Child(c)]) \o MuxParts(mode.muxes, size)
    [] OTHER -> << [kind |-> "abort", bits |-> 0, muxes |-> 0] >>

\* ProcessPbPower leaves the type, the number of the children and the children of an entry
\* with an unknown method unset: the type may be any. As a sum it has no children that fit,
\* or a pointer that cannot be followed; the program ends there as it does when it asserts
\* that the type is a sum.
RECURSIVE ProcessPbPower(_, _)
ProcessPbPower(entry, garbage) ==
  [entry EXCEPT
     !.method = IF @ \in {"ignore", "macro", "sum_of_children"} THEN @ ELSE garbage,
     !.bits = IF entry.method = "macro" THEN @ ELSE 0,
     !.children = IF entry.method = "sum_of_children"
                  THEN [i \in DOMAIN @ |-> ProcessPbPower(@[i], garbage)] ELSE <<>>]

\* What is left of an entry once it is read: FreeNode stops at an attribute or a child that
\* its method has no use for, and CountChildren at a sum without children.
RECURSIVE Refused(_)
Refused(entry) ==
  \/ entry.method = "sum_of_children" <=> entry.children = <<>>
  \/ entry.method # "macro" /\ entry.bits # 0
  \/ \E i \in DOMAIN entry.children : Refused(entry.children[i])

\* Does the walk of a block meet the loop that is never left?
RECURSIVE Endless(_, _, _, _)
Endless(node, pb, instance, size) ==
  /\ size = 1
  /\ instance.method = "sum_of_children"
  /\ LET mode == ModeOf(node, pb)
     IN \/ \E m \in ToSet(mode.muxes) : ~m.clock /\ m.inputs > 1 /\ m.outputs > 0
        \/ \E c \in DOMAIN mode.children :
             LET type == mode.children[c]
                 e == EntryFor(type.node.name, instance.children)
             IN e # 0 /\ \E k \in 1 .. type.num :
                  Endless(type.node, ChildPb(pb, c, k), instance.children[e], size)
=============================================================================
