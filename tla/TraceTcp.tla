------------------------------ MODULE TraceTcp ------------------------------
(***************************************************************************)
(* agent/src/modules/tcp_traceroute.c: TCP SYN traces.  The source port    *)
(* names the slot, the sequence number the hop; a SYN-ACK or RST carries   *)
(* the port only.                                                          *)
(***************************************************************************)
EXTENDS TraceBase

TCP_TR_BASE_SRC_PORT == 20563   \* 0x5053

TcpNoResult == [valid |-> FALSE]

parse_icmp_time_exceeded_v4(pkt) ==
  IF pkt.type = "time_exceeded" /\ pkt.inner = "tcp"
  THEN [valid |-> TRUE, job_src_port |-> pkt.a, hop_seq |-> pkt.b,
        src_addr |-> pkt.from]
  ELSE TcpNoResult

\* A segment of a kind other than SYN-ACK or RST is not an answer.
parse_tcp_reply_v4(pkt) ==
  IF pkt.type \in {"syn_ack", "rst"}
  THEN [valid |-> TRUE, job_src_port |-> pkt.a, hop_seq |-> 0, src_addr |-> pkt.from]
  ELSE TcpNoResult

build_tcpv4_probe(job, k) ==
  [proto |-> "tcp", a |-> TCP_TR_BASE_SRC_PORT + job.job_index, b |-> job.cur_hop,
   dest |-> job.dest, ttl |-> job.cur_hop, af |-> 4,
   of |-> [job |-> job.id, hop |-> job.cur_hop, probe |-> k, sum |-> 0]]

-----------------------------------------------------------------------------
tcp_find_free_job(st) == FreeSlot(st)

tcp_publish_hop(st, s, addr, is_filtered) ==
  LET job == st.jobs[s]
  IN  Publish(st, job.id, HopMsg(job.cur_hop, addr, job.probes_replied, is_filtered))

tcp_publish_complete(st, s) ==
  LET job == st.jobs[s]
  IN  Publish(st, job.id,
              [kind |-> "complete", reached |-> job.reached, hops |-> job.cur_hop])

tcp_send_probes(st, s) ==
  [st EXCEPT
    !.jobs[s].age = 0,
    !.tx = @ \cup {build_tcpv4_probe(st.jobs[s], k) : k \in 1 .. Probes}]

\* The slot is not freed after the completion is published: a mutant.
TcpAdvanceKeepsSlot(st, s, addr, is_filtered) ==
  LET shown == tcp_publish_hop(st, s, addr, is_filtered)
      job   == st.jobs[s]
  IN  IF job.reached \/ job.cur_hop >= job.max_hops
      THEN [tcp_publish_complete(shown, s) EXCEPT !.jobs[s].probes_replied = 0]
      ELSE tcp_send_probes([shown EXCEPT !.jobs[s].cur_hop = @ + 1,
                                         !.jobs[s].probes_replied = 0], s)

tcp_advance_hop(st, s, addr, is_filtered) ==
  LET shown == tcp_publish_hop(st, s, addr, is_filtered)
      job   == st.jobs[s]
  IN  IF job.reached \/ job.cur_hop >= job.max_hops
      THEN [tcp_publish_complete(shown, s) EXCEPT !.jobs[s] = Free]
      ELSE tcp_send_probes([shown EXCEPT !.jobs[s].cur_hop = @ + 1,
                                         !.jobs[s].probes_replied = 0], s)

-----------------------------------------------------------------------------
tcp_tr_init(opened) == {k \in {"tcp4", "ticmp4", "ticmp6"} : k \in opened}

\* IPv6 destinations are refused after the socket check.
tcp_tr_on_job(st, req, socks) ==
  LET s == tcp_find_free_job(st) IN
  IF \/ req.method # "tcp"
     \/ s = -1
     \/ req.dest \notin Dests
     \/ req.af \notin {0, Family[req.dest]}
     \/ Family[req.dest] = 6
     \/ "tcp4" \notin socks
  THEN Quiet(st)
  ELSE tcp_send_probes(
         [Quiet(st) EXCEPT !.jobs[s] =
            [id |-> req.id, dest |-> req.dest, af |-> 4, job_index |-> s,
             max_hops |-> IF req.max_hops > 0 THEN req.max_hops ELSE HopLimit,
             cur_hop |-> 1, probes_replied |-> 0, reached |-> FALSE, age |-> 0]],
         s)

\* A router's answer must quote the current hop; an end-to-end one need not.
TcpMatch(st, pr, fromRouter) ==
  FirstSlot(LAMBDA s : /\ Active(st, s)
                       /\ pr.job_src_port = TCP_TR_BASE_SRC_PORT + st.jobs[s].job_index
                       /\ fromRouter => pr.hop_seq = st.jobs[s].cur_hop
                       /\ st.jobs[s].probes_replied < Probes)

\* ICMP comes in on icmp_sock4, TCP segments on tcp_sock4.
tcp_tr_on_response(st, pkt, socks) ==
  LET segment == pkt.inner = "tcp" /\ pkt.type # "time_exceeded"
      pr == IF segment THEN parse_tcp_reply_v4(pkt)
                       ELSE parse_icmp_time_exceeded_v4(pkt)
      s  == TcpMatch(st, pr, ~segment)
  IN  IF \/ pkt.af # 4
         \/ ~segment /\ "ticmp4" \notin socks
         \/ ~pr.valid
         \/ s = -1
      THEN Quiet(st)
      ELSE tcp_advance_hop([Quiet(st) EXCEPT
                              !.jobs[s].probes_replied = @ + 1,
                              !.jobs[s].reached = @ \/ segment],
                           s, pr.src_addr, FALSE)

tcp_tr_tick(st) ==
  ForSlots(LAMBDA t, s :
             IF /\ Active(t, s)
                /\ t.jobs[s].probes_replied = 0
                /\ t.jobs[s].age = 1
             THEN tcp_advance_hop(t, s, "", TRUE) ELSE t,
           Quiet(st))
=============================================================================
