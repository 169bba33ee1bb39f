--------------------------- MODULE MCTraceroutes ----------------------------
(***************************************************************************)
(* Two destinations two hops away (d4 over two load-balanced first hops),  *)
(* one IPv6 destination, one name that does not resolve.                   *)
(***************************************************************************)
EXTENDS Traceroutes

MCFamily == [d \in Dests |-> IF d = "d6" THEN 6 ELSE 4]
MCRoutes == [d \in Dests |->
  CASE d = "d4" -> [k \in 0 .. 1 |-> IF k = 0 THEN <<"r1", "d4">> ELSE <<"r2", "d4">>]
    [] d = "e4" -> [k \in 0 .. 1 |-> <<"r3", "e4">>]
    [] d = "d6" -> [k \in 0 .. 1 |-> <<"s1", "d6">>]]
MCHash == [d \in Dests |-> CASE d = "d4" -> 0 [] d = "e4" -> 65535 [] d = "d6" -> 2]

AllSocks == {"icmp4", "icmp6", "usend4", "urecv4", "usend6", "urecv6",
             "tcp4", "ticmp4", "ticmp6", "dsend4", "drecv4"}
MCSocketSets == {AllSocks, {"icmp6", "usend4", "tcp4", "dsend4"}}

Payload(m, d, af) == [method |-> m, use_tcp |-> FALSE, dest |-> d, af |-> af,
                      max_hops |-> IF m = "dublin" THEN HopLimit ELSE 2]

Legacy == [Payload("", "d4", 0) EXCEPT !.use_tcp = TRUE, !.max_hops = 1]

JobsOnly(a, b) == [jobs |-> <<a, b>>, walk |-> NoOpts, dest |-> "d4"]

\* Every method, both families where a module takes them, the legacy flag, and
\* requests that are dropped; Dublin beside the other UDP module only.
AgentScenarios ==
  {JobsOnly(a, b) : a \in {Payload("icmp", "d4", 0), Payload("paris", "d4", 0),
                           Payload("tcp", "d4", 0), Payload("paris6", "d6", 6)},
                    b \in {Payload("icmp", "e4", 0), Payload("paris", "e4", 0),
                           Payload("udp", "d6", 6), Legacy}}
  \cup {JobsOnly(Payload("dublin", "d4", 0), b) : b \in {Payload("udp", "nx", 0),
                                                        Payload("tcp", "d6", 6)}}
  \cup {JobsOnly([Payload("dublin", "d4", 0) EXCEPT !.max_hops = 2], Payload("udp", "e4", 0)),
        JobsOnly(Payload("udp", "e4", 0), Payload("icmp", "d6", 0))}

Walking(p, m, hops, gap) ==
  [proto |-> p, mode |-> m, max_hops |-> hops, max_gap |-> gap, flows |-> 2]

\* The command line's traceroute, alone or beside a trace of the agent.
WalkScenarios ==
  {[jobs |-> <<>>, walk |-> Walking(p, m, 3, 0), dest |-> d] :
     p \in {"udp", "tcp"}, m \in {"classic", "paris", "dublin"}, d \in {"d4", "nx"}}
  \cup {[jobs |-> <<Payload("icmp", "e4", 0)>>, walk |-> Walking("icmp", "classic", 0, 1),
         dest |-> "d4"],
        [jobs |-> <<Payload("tcp", "e4", 0)>>, walk |-> Walking("udp", "paris", 4, 2),
         dest |-> "d4"]}

MCScenarios == AgentScenarios \cup WalkScenarios

Stray == [job |-> 0, hop |-> 0, probe |-> 0, sum |-> 0]
MCNoise ==
  {[type |-> "echo_reply", inner |-> "icmp", a |-> 99, b |-> 1, af |-> 4,
    from |-> "x", hdr |-> FALSE, of |-> Stray],
   [type |-> "time_exceeded", inner |-> "udp", a |-> 53, b |-> 33435, af |-> 4,
    from |-> "x", hdr |-> FALSE, of |-> Stray],
   [type |-> "ack", inner |-> "tcp", a |-> 20563, b |-> 1, af |-> 4,
    from |-> "x", hdr |-> FALSE, of |-> Stray]}
=============================================================================
