---------------------------- MODULE MCRouteTrace ----------------------------
(***************************************************************************)
(* A small routing graph for RouteTrace: two sources, four wires, and      *)
(* three sinks of which one is shared, with the routings of three nets.    *)
(***************************************************************************)
EXTENDS RouteTrace

TypeOf == [s |-> "SOURCE", s2 |-> "SOURCE", o |-> "OPIN", p |-> "OPIN", q |-> "OPIN",
           x |-> "CHANX", y |-> "CHANY", v |-> "CHANX", w |-> "CHANY",
           i |-> "IPIN", j |-> "IPIN", k |-> "IPIN", t |-> "SINK", u |-> "SINK"]

EdgesDef ==
  {<<"s", "o">>, <<"s", "p">>, <<"s2", "q">>,
   <<"o", "x">>, <<"o", "v">>, <<"p", "v">>, <<"p", "y">>, <<"q", "w">>, <<"q", "v">>,
   <<"x", "y">>, <<"x", "v">>, <<"v", "w">>, <<"w", "v">>,
   <<"x", "i">>, <<"y", "i">>, <<"y", "j">>, <<"v", "j">>, <<"v", "k">>, <<"w", "k">>,
   <<"i", "t">>, <<"j", "u">>, <<"k", "u">>}
SwitchDef == [e \in EdgesDef |-> IF TypeOf[e[2]] = "IPIN" THEN 0 ELSE IF TypeOf[e[1]] = "OPIN" THEN 2 ELSE 1]

Routed(path) == [kind |-> "routed", trace |-> path]
Unrouted(kind) == [kind |-> kind, trace |-> <<>>]

\* One sink; a branch from a wire, from a pin; two wires in a row before the branch.
FirstNet ==
  {Routed(<<"s", "o", "x", "i", "t">>),
   Routed(<<"s", "o", "x", "i", "t", "x", "y", "j", "u">>),
   Routed(<<"s", "p", "y", "j", "u", "y", "i", "t">>),
   Routed(<<"s", "o", "x", "y", "j", "u", "x", "i", "t">>)}
SecondNet ==
  {Routed(<<"s2", "q", "w", "k", "u">>), Routed(<<"s2", "q", "v", "w", "k", "u">>),
   Routed(<<"s2", "q", "v", "k", "u">>)}

RoutingsOf(first, second, third) ==
  {[n \in 0 .. 2 |-> CASE n = 0 -> f [] n = 1 -> g [] OTHER -> h] :
     f \in first, g \in second, h \in third}
Turned(rs) == rs \cup {[n \in 0 .. 2 |-> r[(n + 1) % 3]] : r \in rs}

\* Routed and global nets, and the kinds of net the reader does not expect.
Odd == {Unrouted(kind) : kind \in {"global", "local", "renamed"}} \cup
       {[kind |-> "foreign", trace |-> <<"s", "o", "y", "i", "t">>]}
AnyRoutings == Turned(RoutingsOf(FirstNet \cup Odd, SecondNet \cup {Unrouted("local")}, Odd))

PlainRoutings == RoutingsOf(FirstNet, SecondNet, {Unrouted("global")})
LocalRoutings == RoutingsOf(FirstNet, SecondNet, {Unrouted("local")})
=============================================================================
