---------------------------- MODULE TraceDublin -----------------------------
(***************************************************************************)
(* agent/src/modules/dublin_traceroute.c: several UDP flows to one         *)
(* destination, probed one (hop, flow) at a time, and the diamond analysis *)
(* of the paths they took.                                                 *)
(***************************************************************************)
EXTENDS TraceBase

CONSTANT Flows   \* DUBLIN_DEFAULT_FLOWS (6 in the code)

ASSUME FlowsAssumption == Flows \in Nat \ {0}

DUBLIN_BASE_SRC_PORT == 33000
DUBLIN_PORT_STRIDE   == 1024
DUBLIN_BASE_DST_PORT == 33434
DUBLIN_DEFAULT_HOPS  == 30

FlowIds == 0 .. Flows - 1

\* random_ports is never set, so the spread branch is the one that runs.
dublin_generate_ports ==
  [f \in FlowIds |-> DUBLIN_BASE_SRC_PORT + f * DUBLIN_PORT_STRIDE]

build_dublin_udpv4_probe(job) ==
  [proto |-> "udp", a |-> job.src_port[job.cur_flow],
   b |-> DUBLIN_BASE_DST_PORT + job.cur_hop,
   dest |-> job.dest, ttl |-> job.cur_hop, af |-> 4,
   of |-> [job |-> job.id, hop |-> job.cur_hop, probe |-> job.cur_flow, sum |-> 0]]

parse_dublin_icmpv4(pkt) ==
  IF pkt.type \in {"time_exceeded", "port_unreachable"} /\ pkt.inner = "udp"
  THEN [valid |-> TRUE, is_time_exceeded |-> pkt.type = "time_exceeded",
        src_port |-> pkt.a, dst_port |-> pkt.b, src_addr |-> pkt.from]
  ELSE [valid |-> FALSE]

-----------------------------------------------------------------------------
(* The analysis.  ips[f] is the address sequence flow f recorded.           *)

SamePath(p, q) ==
  \A h \in 1 .. (IF Len(p) < Len(q) THEN Len(p) ELSE Len(q)) : p[h] = q[h]

\* The seen[] marking: every flow that is not marked counts as a path and marks
\* the later flows that agree with it on the hops both have.
Marked(ips) ==
  LET mark[f \in FlowIds] ==
        LET before == IF f = 0 THEN {} ELSE mark[f - 1]
        IN  IF f \in before THEN before
            ELSE before \cup {g \in f + 1 .. Flows - 1 : SamePath(ips[f], ips[g])}
  IN  mark[Flows - 1]

\* Flows whose recorded paths differ in length count as different: a mutant.
UniqueByLength(ips) == Cardinality({ips[f] : f \in FlowIds})

unique_paths(ips) == Cardinality(FlowIds \ Marked(ips))

\* A hop some flow has no data for counts as disagreement.
AllSame(ips, h) ==
  \A f \in 1 .. Flows - 1 :
    /\ h <= Len(ips[f]) /\ h <= Len(ips[0])
    /\ ips[0][h] = ips[f][h]

DeepestHop(ips) == CHOOSE m \in {Len(ips[f]) : f \in FlowIds} :
                     \A f \in FlowIds : Len(ips[f]) <= m

divergence_hops(ips) ==
  {h \in 1 .. DeepestHop(ips) : ~AllSame(ips, h) /\ (h = 1 \/ AllSame(ips, h - 1))}

convergence_hops(ips) ==
  {h \in 2 .. DeepestHop(ips) : AllSame(ips, h) /\ ~AllSame(ips, h - 1)}

dublin_publish_complete(st, s) ==
  LET job == st.jobs[s] IN
  Publish(st, job.id,
          [kind |-> "complete", reached |-> \E f \in FlowIds : job.reached[f],
           hops |-> DeepestHop(job.hop_ips), ips |-> job.hop_ips,
           unique |-> unique_paths(job.hop_ips),
           div |-> divergence_hops(job.hop_ips), conv |-> convergence_hops(job.hop_ips)])

-----------------------------------------------------------------------------
find_free_dublin_job(st) == FreeSlot(st)

dublin_publish_hop(st, s, addr, rtts, is_filtered) ==
  LET job == st.jobs[s] IN
  Publish(st, job.id, [kind |-> "hop", hop |-> job.cur_hop, flow |-> job.cur_flow,
                       addr |-> addr, rtts |-> rtts, filtered |-> is_filtered])

dublin_send_probe(st, s) ==
  [st EXCEPT !.jobs[s].age = 0, !.jobs[s].probe_replied = FALSE,
             !.tx = @ \cup {build_dublin_udpv4_probe(st.jobs[s])}]

\* Records the hop for the flow, publishes it, and moves to the next flow, the
\* next hop, or the end: when every flow has reached the destination, or past
\* max_hops.
dublin_advance(st, s, addr, is_filtered) ==
  LET job   == st.jobs[s]
      shown == [dublin_publish_hop(st, s, addr, IF is_filtered THEN 0 ELSE 1, is_filtered)
                EXCEPT !.jobs[s].hop_ips[job.cur_flow] =
                         Append(@, IF is_filtered THEN "timeout" ELSE addr)]
      done  == \A f \in FlowIds : job.reached[f]
      wrap  == job.cur_flow + 1 >= Flows
  IN  IF done \/ (wrap /\ job.cur_hop + 1 > job.max_hops)
      THEN [dublin_publish_complete(shown, s) EXCEPT !.jobs[s] = Free]
      ELSE dublin_send_probe(
             [shown EXCEPT !.jobs[s].cur_flow = IF wrap THEN 0 ELSE @ + 1,
                           !.jobs[s].cur_hop = IF wrap THEN @ + 1 ELSE @], s)

-----------------------------------------------------------------------------
dublin_init(opened) == {k \in {"dsend4", "drecv4"} : k \in opened}

dublin_on_job(st, req, socks) ==
  LET s == find_free_dublin_job(st) IN
  IF \/ req.method # "dublin"
     \/ ~({"dsend4", "drecv4"} \subseteq socks)
     \/ s = -1
     \/ req.dest \notin Dests
     \/ Family[req.dest] # 4
  THEN Quiet(st)
  ELSE dublin_send_probe(
         [Quiet(st) EXCEPT !.jobs[s] =
            [id |-> req.id, dest |-> req.dest, af |-> 4,
             max_hops |-> IF req.max_hops > 0 THEN req.max_hops ELSE HopLimit,
             cur_hop |-> 1, cur_flow |-> 0, probe_replied |-> FALSE, age |-> 0,
             src_port |-> dublin_generate_ports,
             hop_ips |-> [f \in FlowIds |-> << >>],
             reached |-> [f \in FlowIds |-> FALSE]]],
         s)

DublinMatch(st, pr) ==
  FirstSlot(LAMBDA s : /\ Active(st, s)
                       /\ pr.dst_port - DUBLIN_BASE_DST_PORT = st.jobs[s].cur_hop
                       /\ ~st.jobs[s].probe_replied
                       /\ pr.src_port = st.jobs[s].src_port[st.jobs[s].cur_flow])

dublin_on_response(st, pkt) ==
  LET pr == parse_dublin_icmpv4(pkt)
      s  == DublinMatch(st, pr)
  IN  IF \/ pkt.af # 4 \/ ~pr.valid
         \/ pr.dst_port - DUBLIN_BASE_DST_PORT \notin 1 .. DUBLIN_DEFAULT_HOPS
         \/ s = -1
      THEN Quiet(st)
      ELSE dublin_advance(
             [Quiet(st) EXCEPT
                !.jobs[s].probe_replied = TRUE,
                !.jobs[s].reached[st.jobs[s].cur_flow] = @ \/ ~pr.is_time_exceeded],
             s, pr.src_addr, FALSE)

dublin_tick(st) ==
  ForSlots(LAMBDA t, s :
             IF Active(t, s) /\ ~t.jobs[s].probe_replied /\ t.jobs[s].age = 1
             THEN dublin_advance(t, s, "", TRUE) ELSE t,
           Quiet(st))
=============================================================================
