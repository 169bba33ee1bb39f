------------------------------ MODULE TraceUdp ------------------------------
(***************************************************************************)
(* agent/src/modules/udp_traceroute.c: UDP traces.  The hop number travels *)
(* in the destination port; the source port is the same for every job.     *)
(***************************************************************************)
EXTENDS TraceBase

UDP_TR_SRC_PORT      == 20563   \* 0x5053
UDP_TR_BASE_DST_PORT == 33434
UDP_TR_DEFAULT_HOPS  == 30

UdpNoResult == [valid |-> FALSE]

UdpResult(pkt, addr) ==
  [valid |-> TRUE, is_time_exceeded |-> pkt.type = "time_exceeded",
   src_port |-> pkt.a, dst_port |-> pkt.b, src_addr |-> addr]

QuotesUdp(pkt) ==
  pkt.type \in {"time_exceeded", "port_unreachable"} /\ pkt.inner = "udp"

parse_udpv4_icmp_response(pkt) ==
  IF QuotesUdp(pkt) THEN UdpResult(pkt, pkt.from) ELSE UdpNoResult

\* An outer IPv6 header is skipped, and gives the sender when it is there.
parse_udpv6_icmp_response(pkt) ==
  IF QuotesUdp(pkt)
  THEN UdpResult(pkt, IF pkt.hdr THEN pkt.from ELSE "unknown")
  ELSE UdpNoResult

-----------------------------------------------------------------------------
\* The two header words a router quotes back, and the probe's addressing.
build_udpv4_probe(job, k) ==
  [proto |-> "udp", a |-> UDP_TR_SRC_PORT, b |-> UDP_TR_BASE_DST_PORT + job.cur_hop,
   dest |-> job.dest, ttl |-> job.cur_hop, af |-> 4,
   of |-> [job |-> job.id, hop |-> job.cur_hop, probe |-> k, sum |-> 0]]

build_udpv6_probe(job, k) == [build_udpv4_probe(job, k) EXCEPT !.af = 6]

find_free_udp_job(st) == FreeSlot(st)

udp_publish_hop(st, s, addr, is_filtered) ==
  LET job == st.jobs[s]
  IN  Publish(st, job.id, HopMsg(job.cur_hop, addr, job.probes_replied, is_filtered))

udp_publish_complete(st, s) ==
  LET job == st.jobs[s]
  IN  Publish(st, job.id,
              [kind |-> "complete", reached |-> job.reached, hops |-> job.cur_hop])

udp_send_probes(st, s) ==
  LET job == st.jobs[s] IN
  [st EXCEPT
    !.jobs[s].age = 0,
    !.tx = @ \cup {IF job.af = 4 THEN build_udpv4_probe(job, k)
                                 ELSE build_udpv6_probe(job, k) : k \in 1 .. Probes}]

udp_advance_hop(st, s, addr, is_filtered) ==
  LET shown == udp_publish_hop(st, s, addr, is_filtered)
      job   == st.jobs[s]
  IN  IF job.reached \/ job.cur_hop >= job.max_hops
      THEN [udp_publish_complete(shown, s) EXCEPT !.jobs[s] = Free]
      ELSE udp_send_probes([shown EXCEPT !.jobs[s].cur_hop = @ + 1,
                                         !.jobs[s].probes_replied = 0], s)

-----------------------------------------------------------------------------
\* Each family needs a UDP socket to send on and an ICMP socket to hear on.
udp_tr_init(opened) == {k \in {"usend4", "urecv4", "usend6", "urecv6"} : k \in opened}

udp_tr_on_job(st, req, socks) ==
  LET s == find_free_udp_job(st) IN
  IF \/ req.method # "udp"
     \/ s = -1
     \/ req.dest \notin Dests
     \/ req.af \notin {0, Family[req.dest]}
     \/ Family[req.dest] = 4 /\ ~({"usend4", "urecv4"} \subseteq socks)
     \/ Family[req.dest] = 6 /\ ~({"usend6", "urecv6"} \subseteq socks)
  THEN Quiet(st)
  ELSE udp_send_probes(
         [Quiet(st) EXCEPT !.jobs[s] =
            [id |-> req.id, dest |-> req.dest, af |-> Family[req.dest], job_index |-> s,
             max_hops |-> IF req.max_hops > 0 THEN req.max_hops ELSE HopLimit,
             cur_hop |-> 1, probes_replied |-> 0, reached |-> FALSE, age |-> 0]],
         s)

\* The hop number is all that selects a job.
UdpMatch(st, hop, af) ==
  FirstSlot(LAMBDA s : /\ Active(st, s)
                       /\ st.jobs[s].af = af
                       /\ st.jobs[s].cur_hop = hop
                       /\ st.jobs[s].probes_replied < Probes)

UdpTaken(st, pr, af) ==
  LET s == UdpMatch(st, pr.dst_port - UDP_TR_BASE_DST_PORT, af) IN
  IF s = -1 THEN Quiet(st)
  ELSE udp_advance_hop([Quiet(st) EXCEPT
                          !.jobs[s].probes_replied = @ + 1,
                          !.jobs[s].reached = @ \/ ~pr.is_time_exceeded],
                       s, pr.src_addr, FALSE)

\* The source port is not compared: a mutant.
UdpAnySource(st, pkt) ==
  LET pr == IF pkt.af = 4 THEN parse_udpv4_icmp_response(pkt)
                          ELSE parse_udpv6_icmp_response(pkt)
  IN  IF \/ ~pr.valid
         \/ pr.dst_port - UDP_TR_BASE_DST_PORT \notin 1 .. UDP_TR_DEFAULT_HOPS
      THEN Quiet(st) ELSE UdpTaken(st, pr, pkt.af)

udp_tr_on_response(st, pkt) ==
  LET pr == IF pkt.af = 4 THEN parse_udpv4_icmp_response(pkt)
                          ELSE parse_udpv6_icmp_response(pkt)
  IN  IF \/ ~pr.valid
         \/ pr.src_port # UDP_TR_SRC_PORT
         \/ pr.dst_port - UDP_TR_BASE_DST_PORT \notin 1 .. UDP_TR_DEFAULT_HOPS
      THEN Quiet(st) ELSE UdpTaken(st, pr, pkt.af)

udp_tr_tick(st) ==
  ForSlots(LAMBDA t, s :
             IF /\ Active(t, s)
                /\ t.jobs[s].probes_replied = 0
                /\ t.jobs[s].age = 1
             THEN udp_advance_hop(t, s, "", TRUE) ELSE t,
           Quiet(st))
=============================================================================
