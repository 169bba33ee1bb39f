----------------------------- MODULE TraceWalk ------------------------------
(***************************************************************************)
(* lib/traceroute.c, the command line's own traceroute: one probe per TTL, *)
(* blocking, each hop handed to a callback through a sink that decides     *)
(* when to stop.  A walk is a record; it waits for an answer between its   *)
(* steps.                                                                  *)
(***************************************************************************)
EXTENDS TraceBase

CONSTANT WalkMax   \* PS_TRACEROUTE_MAX_HOPS (64 in the code)

ASSUME WalkMaxAssumption == WalkMax \in Nat \ {0}

ps_tr_sink_init(max_gap) ==
  [max_gap |-> max_gap, seen_live |-> FALSE, consec_dead |-> 0, stopped |-> FALSE]

NoWalk == [pc |-> "off", proto |-> "none", ttl |-> 0, flow |-> 0, sent |-> {}, log |-> << >>]

\* The gap counts from the start, answered or not: a mutant.
SinkCountsAnyGap(s, hop) ==
  LET live == hop.addr # ""
      dead == IF live THEN 0 ELSE s.consec_dead + 1
  IN  [s EXCEPT !.seen_live = @ \/ live, !.consec_dead = dead,
                !.stopped = hop.reached_dst \/ (s.max_gap > 0 /\ dead >= s.max_gap)]

\* The sink after a hop the consumer took: the destination stops it, and so do
\* max_gap dead hops in a row once something has answered.
ps_tr_sink_emit(s, hop) ==
  LET live == hop.addr # ""
      dead == IF live THEN 0 ELSE s.consec_dead + 1
      any  == s.seen_live \/ live
  IN  [s EXCEPT !.seen_live = any, !.consec_dead = dead,
                !.stopped = hop.reached_dst
                            \/ (s.max_gap > 0 /\ any /\ dead >= s.max_gap)]

\* Keeps the hop; refuses it when the result array is full.
collect_cb(log, hop) == IF Len(log) >= WalkMax THEN log ELSE Append(log, hop)

\* Every hop of every flow is forwarded: a mutant.
DublinForwardsAll(w, hop) ==
  IF Len(w.log) >= WalkMax THEN [w EXCEPT !.stop = TRUE, !.sink.stopped = TRUE]
  ELSE [w EXCEPT !.log = collect_cb(w.log, hop),
                 !.sink = ps_tr_sink_emit(w.sink, hop)]

\* Dublin's callback: a (ttl, address) pair seen before is swallowed, a full
\* table stops the run, anything else goes straight to the consumer.
dublin_cb(w, hop) ==
  LET key == <<hop.ttl, hop.addr>> IN
  IF key \in w.seen THEN [w EXCEPT !.sink = ps_tr_sink_emit(w.sink, hop)]
  ELSE IF Cardinality(w.seen) >= WalkMax \/ Len(w.log) >= WalkMax
  THEN [w EXCEPT !.stop = TRUE, !.sink.stopped = TRUE]
  ELSE [w EXCEPT !.seen = @ \cup {key}, !.log = collect_cb(w.log, hop),
                 !.sink = ps_tr_sink_emit(w.sink, hop)]

\* A classic or Paris walk goes through the caller's sink.
PlainCb(w, hop) ==
  IF Len(w.log) >= WalkMax THEN [w EXCEPT !.sink.stopped = TRUE]
  ELSE [w EXCEPT !.log = collect_cb(w.log, hop), !.sink = ps_tr_sink_emit(w.sink, hop)]

-----------------------------------------------------------------------------
MaxTtl(w) == LET m == IF w.max_hops > 0 THEN w.max_hops ELSE 30
             IN  IF m > WalkMax THEN WalkMax ELSE m

\* Paris and Dublin pin the source port, so that the flow keeps one route.
WalkPort(w) == IF w.mode = "classic" THEN 0 ELSE 33500 + w.flow

\* The probe of the current TTL; a classic UDP walk moves the destination port.
WalkProbe(w) ==
  [proto |-> w.proto, a |-> IF w.proto = "icmp" THEN w.ident ELSE WalkPort(w),
   b |-> IF w.proto = "udp"
         THEN IF w.mode = "classic" THEN 33434 + w.ttl - 1 ELSE 33434
         ELSE w.ttl,
   dest |-> w.dest, ttl |-> w.ttl, af |-> 4,
   of |-> [job |-> 0, hop |-> w.ttl, probe |-> w.flow, sum |-> 0]]

SendProbe(w) == [w EXCEPT !.pc = "wait", !.sent = {WalkProbe(w)}]

\* The flow number is not advanced: a mutant.
SameFlowAgain(w) ==
  IF w.mode = "dublin" /\ w.flow + 1 < w.flows /\ ~w.stop
  THEN SendProbe([w EXCEPT !.ttl = 1, !.sink = ps_tr_sink_init(0)])
  ELSE [w EXCEPT !.pc = "done", !.sent = {}]

\* The walk of one flow is over: Dublin goes on with the next flow unless the
\* run was stopped, the others are done.
EndFlow(w) ==
  IF w.mode = "dublin" /\ w.flow + 1 < w.flows /\ ~w.stop
  THEN SendProbe([w EXCEPT !.flow = @ + 1, !.ttl = 1, !.sink = ps_tr_sink_init(0)])
  ELSE [w EXCEPT !.pc = "done", !.sent = {}]

\* Hands the hop over and goes on with the next TTL unless the sink stopped.
EmitHop(w, addr, reached) ==
  LET hop == [ttl |-> w.ttl, addr |-> addr, reached_dst |-> reached]
      e   == IF w.mode = "dublin" THEN dublin_cb(w, hop) ELSE PlainCb(w, hop)
  IN  IF e.sink.stopped \/ w.ttl + 1 > MaxTtl(w) THEN EndFlow(e)
      ELSE SendProbe([e EXCEPT !.ttl = @ + 1])

DestAddr(w) == Last(Routes[w.dest][0])

-----------------------------------------------------------------------------
\* Any ICMP error will do; another message ends the wait with nothing.
recv_icmp_for(pkt) == pkt.type \in {"time_exceeded", "port_unreachable"}

udp_flow_walk(w, pkt) ==
  IF recv_icmp_for(pkt)
  THEN EmitHop(w, pkt.from, pkt.type = "port_unreachable" \/ pkt.from = DestAddr(w))
  ELSE EmitHop(w, "", FALSE)

\* select() reports the ICMP socket readable, the connection settled, or both;
\* settled is "none", "reached" (SYN-ACK or RST) or "error".
tcp_flow_walk(w, pkt, settled) ==
  LET heard == pkt # <<>> /\ recv_icmp_for(pkt[1])
      addr  == IF heard THEN pkt[1].from ELSE ""
  IN  IF heard /\ addr = DestAddr(w) THEN EmitHop(w, addr, TRUE)
      ELSE IF settled = "reached" THEN EmitHop(w, DestAddr(w), TRUE)
      ELSE EmitHop(w, addr, FALSE)

\* Any echo reply or quoted echo request answers the hop: a mutant.
WalkTakesAnyEcho(w, pkt) ==
  IF pkt.inner = "icmp" /\ pkt.type \in {"echo_reply", "time_exceeded"}
  THEN EmitHop(w, pkt.from, pkt.type = "echo_reply" /\ pkt.from = DestAddr(w))
  ELSE w

\* Only an answer with this walk's id and the current TTL counts; the walk goes
\* on waiting after any other.
icmp_flow_walk(w, pkt) ==
  IF /\ pkt.inner = "icmp" /\ pkt.type \in {"echo_reply", "time_exceeded"}
     /\ pkt.a = w.ident /\ pkt.b = w.ttl
  THEN EmitHop(w, pkt.from, pkt.type = "echo_reply" /\ pkt.from = DestAddr(w))
  ELSE w

\* opts: [proto, mode, max_hops, max_gap, flows]; ICMP has one mode only.
ps_traceroute_run_cb(opts, dest, ident) ==
  IF dest \notin Dests \/ Family[dest] # 4
  THEN [NoWalk EXCEPT !.pc = "failed"]
  ELSE SendProbe(
         [pc |-> "wait", proto |-> opts.proto, sent |-> {}, dest |-> dest, ident |-> ident,
          mode |-> IF opts.proto = "icmp" THEN "classic" ELSE opts.mode,
          max_hops |-> opts.max_hops, flows |-> opts.flows, flow |-> 0, ttl |-> 1,
          sink |-> ps_tr_sink_init(IF opts.mode = "dublin" /\ opts.proto # "icmp"
                                  THEN 0 ELSE opts.max_gap),
          seen |-> {}, stop |-> FALSE, log |-> << >>])
=============================================================================
