-------------------------- MODULE MCNetflowExport ---------------------------
(* A small instance of NetflowExport: arrays on either side of the limits. *)
EXTENDS NetflowExport

Flows(v4, v6) ==
  [i \in 1 .. v4 + v6 |-> [af |-> IF i <= v4 THEN 4 ELSE 6, start |-> i % 4, last |-> (i % 4) + 1]]
Mixed(n) ==
  [i \in 1 .. n |-> [af |-> IF i % 3 = 0 THEN 6 ELSE 4, start |-> i % 4, last |-> (i % 4) + 1]]

\* full: more than one datagram holds in any version; edge: the IPv4 set of an IPFIX
\* datagram with templates ends as close to its end as it can.
MCBatches ==
  [b \in {"one", "mixed", "edge", "six", "full"} |->
     CASE b = "one" -> Flows(1, 0) [] b = "mixed" -> Mixed(5) [] b = "edge" -> Flows(27, 1)
       [] b = "six" -> Flows(0, 25) [] b = "full" -> Mixed(46)]
=============================================================================
