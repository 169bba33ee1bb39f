----------------------------- MODULE TraceIcmp ------------------------------
(***************************************************************************)
(* agent/src/modules/icmp_traceroute.c: classic and Paris ICMP echo traces. *)
(***************************************************************************)
EXTENDS TraceBase

CONSTANT ParisHash   \* [Dests -> 0 .. 65535]: the low 16 bits of the DJB hash

Word == 65536

\* One's complement sum: carries are folded back in.
Folded(sum) == LET once == (sum % Word) + (sum \div Word)
               IN  (once % Word) + (once \div Word)

icmp_checksum(words) ==
  Word - 1 - Folded(FoldLeft(LAMBDA x, y : x + y, 0, words))

\* The echo request's words: type and code, identifier, sequence, payload.
build_icmpv4_probe(id, seq) == icmp_checksum(<<8 * 256, id, seq>>)

\* A Paris probe without the compensating word: a mutant.
ParisUncompensated(id, seq) == icmp_checksum(<<8 * 256, id, seq, 0, 0>>)

build_icmpv4_probe_paris(id, seq) ==
  icmp_checksum(<<8 * 256, id, seq, Word - 1 - seq, 0>>)

\* The pseudo-header adds the source (unspecified) and destination addresses,
\* the length and the next header to the sum; the address enters as one word.
icmpv6_checksum(dst, words) == 
  icmp_checksum(<<0, dst, 2 * (Len(words) + 1), 58>> \o words)

build_icmpv6_probe(dst, id, seq) == icmpv6_checksum(dst, <<128 * 256, id, seq>>)

build_icmpv6_probe_paris(dst, id, seq) ==
  icmpv6_checksum(dst, <<128 * 256, id, seq, Word - 1 - seq, 0>>)

-----------------------------------------------------------------------------
NoResult == [valid |-> FALSE]

\* Echo replies carry id and sequence themselves, Time Exceeded quotes them
\* from the embedded echo request; everything else is not for this module.
parse_icmpv4_response(pkt) ==
  IF \/ pkt.type = "echo_reply"
     \/ pkt.type = "time_exceeded" /\ pkt.inner = "icmp"
  THEN [valid |-> TRUE, is_time_exceeded |-> pkt.type = "time_exceeded",
        id |-> pkt.a, seq |-> pkt.b, src_addr |-> pkt.from]
  ELSE NoResult

\* The type is read from the first byte, so a packet that still has its IPv6
\* header is no result; without the header the sender is not known.
parse_icmpv6_response(pkt) ==
  IF ~pkt.hdr /\ parse_icmpv4_response(pkt).valid
  THEN [parse_icmpv4_response(pkt) EXCEPT !.src_addr = "unknown"]
  ELSE NoResult

-----------------------------------------------------------------------------
find_free_job(st) == FreeSlot(st)

publish_hop(st, s, addr, is_filtered) ==
  LET job == st.jobs[s]
  IN  Publish(st, job.id, HopMsg(job.cur_hop, addr, job.probes_replied, is_filtered))

publish_complete(st, s) ==
  LET job == st.jobs[s]
  IN  Publish(st, job.id,
              [kind |-> "complete", reached |-> job.reached, hops |-> job.cur_hop])

EffectiveId(job) == IF job.paris THEN job.paris_id ELSE job.probe_id

ProbeSum(job) ==
  LET id == EffectiveId(job) IN
  CASE job.af = 4 /\ job.paris  -> build_icmpv4_probe_paris(id, job.cur_hop)
    [] job.af = 4 /\ ~job.paris -> build_icmpv4_probe(id, job.cur_hop)
    [] job.af = 6 /\ job.paris  ->
         build_icmpv6_probe_paris(ParisHash[job.dest], id, job.cur_hop)
    [] job.af = 6 /\ ~job.paris ->
         build_icmpv6_probe(ParisHash[job.dest], id, job.cur_hop)

send_probes(st, s) ==
  LET job == st.jobs[s] IN
  [st EXCEPT
    !.jobs[s].age = 0,
    !.tx = @ \cup {[proto |-> "icmp", a |-> EffectiveId(job), b |-> job.cur_hop,
                    dest |-> job.dest, ttl |-> job.cur_hop, af |-> job.af,
                    of |-> [job |-> job.id, hop |-> job.cur_hop, probe |-> k,
                            sum |-> ProbeSum(job)]] : k \in 1 .. Probes}]

\* Publishes the hop, then ends the job or probes the next hop.
advance_hop(st, s, addr, is_filtered) ==
  LET shown == publish_hop(st, s, addr, is_filtered)
      job   == st.jobs[s]
  IN  IF job.reached \/ job.cur_hop >= job.max_hops
      THEN [publish_complete(shown, s) EXCEPT !.jobs[s] = Free]
      ELSE send_probes([shown EXCEPT !.jobs[s].cur_hop = @ + 1,
                                     !.jobs[s].probes_replied = 0], s)

-----------------------------------------------------------------------------
\* Which of the two raw sockets the worker opened.
tr_init(opened) == {k \in {"icmp4", "icmp6"} : k \in opened}

IsParis(method) == method \in {"paris", "paris4", "paris6"}

\* The family asked of getaddrinfo; 0 leaves it open.
AfHint(req) == IF req.method \in {"icmp6", "paris6"} THEN 6 ELSE req.af

Resolves(dest, hint) == dest \in Dests /\ hint \in {0, Family[dest]}

\* Returns the table unchanged when the job is dropped.  pid is the random
\* probe id drawn for the job, never zero.
tr_on_job(st, req, socks, pid) ==
  LET s == find_free_job(st) IN
  IF \/ req.method \notin {"", "icmp", "icmp4", "icmp6"} /\ ~IsParis(req.method)
     \/ s = -1
     \/ ~Resolves(req.dest, AfHint(req))
     \/ Family[req.dest] = 4 /\ "icmp4" \notin socks
     \/ Family[req.dest] = 6 /\ "icmp6" \notin socks
  THEN Quiet(st)
  ELSE send_probes(
         [Quiet(st) EXCEPT !.jobs[s] =
            [id |-> req.id, dest |-> req.dest, af |-> Family[req.dest],
             max_hops |-> IF req.max_hops > 0 THEN req.max_hops ELSE HopLimit,
             cur_hop |-> 1, probes_replied |-> 0, reached |-> FALSE, age |-> 0,
             paris |-> IsParis(req.method), probe_id |-> pid,
             paris_id |-> IF ParisHash[req.dest] = 0 THEN 1 ELSE ParisHash[req.dest]]],
         s)

\* The id is not compared: a mutant.
MatchingAnyId(st, pr, af) ==
  FirstSlot(LAMBDA s : /\ Active(st, s)
                       /\ st.jobs[s].af = af
                       /\ st.jobs[s].cur_hop = pr.seq
                       /\ st.jobs[s].probes_replied < Probes)

\* The job a parsed reply belongs to: same family, same id, current hop, and a
\* probe that is still unanswered.
MatchingJob(st, pr, af) ==
  FirstSlot(LAMBDA s : /\ Active(st, s)
                       /\ st.jobs[s].af = af
                       /\ EffectiveId(st.jobs[s]) = pr.id
                       /\ st.jobs[s].cur_hop = pr.seq
                       /\ st.jobs[s].probes_replied < Probes)

tr_on_response(st, pkt) ==
  LET pr == IF pkt.af = 4 THEN parse_icmpv4_response(pkt)
                          ELSE parse_icmpv6_response(pkt)
      s  == MatchingJob(st, pr, pkt.af)
  IN  IF pkt.type = "syn_ack" \/ ~pr.valid \/ s = -1
      THEN Quiet(st)
      ELSE advance_hop(
             [Quiet(st) EXCEPT
                !.jobs[s].probes_replied = @ + 1,
                !.jobs[s].reached = @ \/ ~pr.is_time_exceeded],
             s, pr.src_addr, FALSE)

\* Only the first slot is looked at: a mutant.
TickFirstSlot(st) ==
  IF Active(st, 0) /\ st.jobs[0].probes_replied = 0 /\ st.jobs[0].age = 1
  THEN advance_hop(Quiet(st), 0, "", TRUE) ELSE Quiet(st)

\* Every job whose probes have all timed out moves on with a filtered hop.
tr_tick(st) ==
  ForSlots(LAMBDA t, s :
             IF /\ Active(t, s)
                /\ t.jobs[s].probes_replied = 0
                /\ t.jobs[s].age = 1
             THEN advance_hop(t, s, "", TRUE) ELSE t,
           Quiet(st))
=============================================================================
