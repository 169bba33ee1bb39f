----------------------------- MODULE MCCliVerbs -----------------------------
(* An instance of CliVerbs for TLC. *)
EXTENDS CliVerbs, TLC

CONSTANTS a, b, c, na, nb   \* addresses of hops and their names

Service(h, p, w) == [host |-> h, port |-> p, wants |-> w]

Scan(verb, addr, prefix, spec, services) ==
  [verb |-> verb, addr |-> addr, prefix |-> prefix, spec |-> spec,
   services |-> services, route |-> <<>>, ptr |-> "off"]

Trace(route, ptr) ==
  [verb |-> "traceroute", addr |-> 0, prefix |-> NoPrefix, spec |-> NoSpec,
   services |-> {}, route |-> route, ptr |-> ptr]

Commands ==
  {Scan("ports", 5, 2, <<<<2, 3>>>>, {Service(4, 3, "byte"), Service(5, 2, "own")}),
   Scan("ports", 6, 3, <<<<3, 3>>, <<1, 2>>>>, {Service(6, 2, "byte")})}
    \cup {Scan("udp", 3, NoPrefix, NoSpec, s) :
            s \in {{Service(3, 1, "own"), Service(3, 2, "byte")},
                   {Service(3, 1, "own"), Service(3, 3, "own")}}}
    \cup {Scan("hosts", 7, 1, NoSpec, s) :
            s \in {{Service(4, 2, "byte"), Service(6, 1, "byte"),
                    Service(6, 2, "byte")}}}
    \cup {Scan("hosts", 2, 0, NoSpec, {Service(0, 1, "byte")}),
          Scan("ports", Malformed, 2, NoSpec, {}),
          Scan("udp", 1, 4, NoSpec, {}),
          Scan("ports", 1, 3, <<<<3, 2>>>>, {}),
          Scan("ports", 1, 3, <<<<1, 4>>>>, {})}
    \cup {Trace(r, p) : r \in {<<a, NoName, b, a, c, b>>, <<b, b, c, a>>},
                        p \in {"off", "ask", "wait"}}

Defaults == <<1, 2, 3>>
Sweep == <<1, 2>>
Names == (a :> na) @@ (b :> nb) @@ (c :> NoName)
=============================================================================
