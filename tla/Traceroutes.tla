---------------------------- MODULE Traceroutes -----------------------------
(***************************************************************************)
(* The agent's traceroute modules at work together: the main loop hands    *)
(* every traceroute.request to all of them and every packet of a raw       *)
(* socket to all of them, and each must pick what is its own.  The network *)
(* answers late, out of order, twice or not at all, and carries packets    *)
(* that belong to other programs.  A traceroute of the command line may    *)
(* run on the same host; its sockets see the agent's answers too.          *)
(***************************************************************************)
EXTENDS TraceIcmp, TraceUdp, TraceTcp, TraceDublin, TraceWalk

CONSTANTS
  Scenarios,     \* [jobs : [JobIds -> payload], walk : options or NoOpts, dest]
  WalkIdent,     \* the ICMP id of the command line's process
  ProbeIds,      \* the random ICMP ids a job may draw
  SocketSets,    \* which raw sockets the worker managed to open
  Noise          \* packets of other programs that the raw sockets also deliver

VARIABLES
  icmp, udp, tcp, dublin,   \* the four modules' tables
  walk,                     \* the command line's traceroute
  asked,                    \* job id -> the job as dispatched, or NotAsked
  net,                      \* answers under way, to be delivered never, once or again
  plat,                     \* [socks, hdr6, plan]: fixed for a behaviour
  beat                      \* flips with every tick of the main loop

agent == <<icmp, udp, tcp, dublin, asked>>
vars == <<icmp, udp, tcp, dublin, walk, asked, net, plat, beat>>

NotAsked == [method |-> "none"]
NoOpts == [proto |-> "none"]

Init ==
  /\ icmp = NoTable /\ udp = NoTable /\ tcp = NoTable /\ dublin = NoTable
  /\ asked = [j \in JobIds |-> NotAsked]
  /\ net = {}
  /\ beat = FALSE /\ walk = NoWalk
  /\ plat \in [socks : SocketSets, hdr6 : BOOLEAN, plan : Scenarios]

Answers(st) == {Reply(p, plat.hdr6) : p \in st.tx}

\* The tables after a call, and the network with the answers to what it sent.
Becomes(i, u, t, d, rest) ==
  /\ icmp' = Quiet(i) /\ udp' = Quiet(u) /\ tcp' = Quiet(t) /\ dublin' = Quiet(d)
  /\ net' = rest \cup Answers(i) \cup Answers(u) \cup Answers(t) \cup Answers(d)

\* What main.c makes of the payload: a legacy use_tcp stands for a missing
\* method, a missing address family means IPv4.
ParseRequest(j, raw) ==
  [id       |-> j, dest |-> raw.dest, max_hops |-> raw.max_hops,
   method   |-> IF raw.method = "" /\ raw.use_tcp THEN "tcp" ELSE raw.method,
   af       |-> IF raw.af = 0 THEN 4 ELSE raw.af, pid |-> 0]

\* Every traceroute module sees the job.
TracerouteRequest(j) ==
  /\ asked[j] = NotAsked
  /\ j \in DOMAIN plat.plan.jobs /\ \A i \in JobIds : asked[i] = NotAsked => j <= i
  /\ \E pid \in ProbeIds :
       LET req == ParseRequest(j, plat.plan.jobs[j]) IN
       /\ asked' = [asked EXCEPT ![j] =
                      [req EXCEPT !.pid = IF req.method = "icmp" THEN pid ELSE 0]]
       /\ Becomes(tr_on_job(icmp, req, tr_init(plat.socks), pid),
                  udp_tr_on_job(udp, req, udp_tr_init(plat.socks)),
                  tcp_tr_on_job(tcp, req, tcp_tr_init(plat.socks)),
                  dublin_on_job(dublin, req, dublin_init(plat.socks)), net)
  /\ UNCHANGED <<walk, plat, beat>>

\* A packet is read from every raw socket it matches; dispatch_response offers
\* each copy to every module, which keeps only those of its own sockets.
Deliver(pkt) ==
  /\ Becomes(tr_on_response(icmp, pkt), udp_tr_on_response(udp, pkt),
             tcp_tr_on_response(tcp, pkt, plat.socks), dublin_on_response(dublin, pkt),
             net)
  /\ UNCHANGED <<walk, asked, plat, beat>>

Response == \E pkt \in net \cup Noise : Deliver(pkt)

\* Three seconds pass for the probes of a job.
Aged(st, s) == [st EXCEPT !.jobs[s].age = 1]
CanAge(st, s) == Active(st, s) /\ st.jobs[s].age = 0

Elapse ==
  /\ \E s \in Slots :
       \/ CanAge(icmp, s) /\ icmp' = Aged(icmp, s) /\ UNCHANGED <<udp, tcp, dublin>>
       \/ CanAge(udp, s) /\ udp' = Aged(udp, s) /\ UNCHANGED <<icmp, tcp, dublin>>
       \/ CanAge(tcp, s) /\ tcp' = Aged(tcp, s) /\ UNCHANGED <<icmp, udp, dublin>>
       \/ CanAge(dublin, s) /\ dublin' = Aged(dublin, s) /\ UNCHANGED <<icmp, udp, tcp>>
  /\ UNCHANGED <<walk, asked, net, plat, beat>>

Tick ==
  /\ Becomes(tr_tick(icmp), udp_tr_tick(udp), tcp_tr_tick(tcp), dublin_tick(dublin), net)
  /\ beat' = ~beat
  /\ UNCHANGED <<walk, asked, plat>>

-----------------------------------------------------------------------------
(* The command line's traceroute.                                           *)

WalkGoes(w) == /\ walk' = w
               /\ net' = net \cup {Reply(p, plat.hdr6) : p \in w.sent}
               /\ UNCHANGED <<agent, plat, beat>>

WalkStart ==
  /\ walk.pc = "off" /\ plat.plan.walk # NoOpts
  /\ WalkGoes(ps_traceroute_run_cb(plat.plan.walk, plat.plan.dest, WalkIdent))

\* ICMP messages its socket may deliver: answers to anyone on this host.
Audible == {pkt \in net \cup Noise : pkt.af = 4 /\ pkt.type \notin {"syn_ack", "ack"}}

WalkHears ==
  /\ walk.pc = "wait"
  /\ \E pkt \in Audible :
       CASE walk.proto = "udp"  -> WalkGoes(udp_flow_walk(walk, pkt))
         [] walk.proto = "icmp" -> WalkGoes(icmp_flow_walk(walk, pkt))
         [] walk.proto = "tcp"  -> WalkGoes(tcp_flow_walk(walk, <<pkt>>, "none"))

\* The connection of the current TTL settles, alone or together with an ICMP
\* message; connect() may also fail at once.
WalkConnects ==
  /\ walk.pc = "wait" /\ walk.proto = "tcp"
  /\ \E settled \in {"reached", "error"}, pkt \in {<<>>} \cup {<<p>> : p \in Audible} :
       /\ settled = "reached" =>
            \E p \in net : /\ p.type = "syn_ack" /\ p.of.job = 0
                           /\ p.of.hop = walk.ttl /\ p.of.probe = walk.flow
       /\ WalkGoes(tcp_flow_walk(walk, pkt, settled))

WalkTimeout == walk.pc = "wait" /\ WalkGoes(EmitHop(walk, "", FALSE))

Next ==
  \/ WalkStart
  \/ WalkHears
  \/ WalkConnects
  \/ WalkTimeout
  \/ \E j \in JobIds : TracerouteRequest(j)
  \/ Response
  \/ Elapse
  \/ Tick

\* Clocks do not stop, and the main loop ticks for ever: Tick is always enabled,
\* so its fairness is that the beat never stops.  Nothing is assumed of the
\* network.
Spec == Init /\ [][Next]_vars /\ WF_vars(Elapse) /\ WF_vars(WalkTimeout)
        /\ []<>beat /\ []<>~beat

-----------------------------------------------------------------------------
(* What was published for a job, and by whom.                               *)

Tables == {icmp, udp, tcp, dublin}
Taken(j) == {st \in Tables : \E s \in Slots : Active(st, s) /\ st.jobs[s].id = j}
Log(j)   == icmp.out[j] \o udp.out[j] \o tcp.out[j] \o dublin.out[j]
Hops(j)  == SelectSeq(Log(j), LAMBDA m : m.kind = "hop")
Done(j)  == \E i \in DOMAIN Log(j) : Log(j)[i].kind = "complete"

IsDublin(j) == asked[j].method = "dublin"
FlowCount(j) == IF IsDublin(j) THEN Flows ELSE 1

\* The type invariant: every slot of every table is free or holds a job that
\* was asked for, with its hop in range.
TypeOK ==
  /\ \A st \in Tables : \A s \in Slots :
       Active(st, s) => /\ st.jobs[s].id \in JobIds
                        /\ asked[st.jobs[s].id] # NotAsked
                        /\ st.jobs[s].cur_hop \in 1 .. st.jobs[s].max_hops
                        /\ st.jobs[s].age \in 0 .. 1
  /\ \A pkt \in net : pkt.of.job \in JobIds \/ pkt.of.probe <= walk.flow

\* advance_hop and dublin_advance: the hops of a job come out in order, without
\* gaps or repeats (for Dublin flow by flow within a hop), at most max_hops of
\* them, the completion comes last and only once, it tells the last hop, and
\* the job's slot is free from then on.
HopsInOrder ==
  \A j \in JobIds :
    LET n == FlowCount(j) IN
    /\ \A i \in DOMAIN Hops(j) :
         /\ Hops(j)[i].hop = ((i - 1) \div n) + 1
         /\ IsDublin(j) => Hops(j)[i].flow = (i - 1) % n
         /\ Hops(j)[i].hop <= asked[j].max_hops
         /\ Hops(j)[i].rtts = IF Hops(j)[i].filtered THEN 0 ELSE 1
    /\ Done(j) => /\ Last(Log(j)).kind = "complete"
                  /\ Len(Log(j)) = Len(Hops(j)) + 1
                  /\ Last(Log(j)).hops = Last(Hops(j)).hop
                  /\ Taken(j) = {}
    /\ Log(j) # << >> /\ ~Done(j) => Cardinality(Taken(j)) = 1

\* What the network would answer to the job's probe of this hop (and flow).
TrueNode(j, m) ==
  CASE IsDublin(j) -> NodeAt(asked[j].dest, "udp", dublin_generate_ports[m.flow], m.hop)
    [] asked[j].method = "udp" -> NodeAt(asked[j].dest, "udp", UDP_TR_SRC_PORT, m.hop)
    [] OTHER -> NodeAt(asked[j].dest, "icmp", 0, m.hop)

TrueTo(j) ==
  /\ \A i \in DOMAIN Hops(j) :
       Hops(j)[i].filtered \/ Hops(j)[i].addr \in {TrueNode(j, Hops(j)[i]), "unknown"}
  /\ Done(j) /\ Last(Log(j)).reached /\ ~IsDublin(j) =>
       Last(Hops(j)).hop >= Len(Route(asked[j].dest, asked[j].method, UDP_TR_SRC_PORT))

\* The id the probes of an ICMP job carry.
CarriedId(j) == IF IsParis(asked[j].method)
                THEN IF ParisHash[asked[j].dest] = 0 THEN 1 ELSE ParisHash[asked[j].dest]
                ELSE asked[j].pid

IcmpMethods == {"", "icmp", "icmp4", "icmp6", "paris", "paris4", "paris6"}

\* on_response of the four modules: when a module works on one job only, every
\* hop it publishes is the address of the node at that distance on the job's
\* own route, whatever answers come late, from the other modules' probes or
\* from other programs; a destination is not reported reached before the hop
\* it lives at.
LoneTracesTrue ==
  \A j \in JobIds :
    (\A i \in JobIds \ {j} : asked[i].method # asked[j].method
                             /\ ~({asked[i].method, asked[j].method} \subseteq IcmpMethods))
    => TrueTo(j)

\* tr_on_response of the ICMP module: its traces are true even when several run
\* at once or reuse a slot, because each carries an id of its own (Paris jobs
\* share one per destination).
IcmpTracesTrue ==
  \A j \in JobIds :
    /\ asked[j].method \in IcmpMethods
    /\ \A i \in JobIds \ {j} :
         asked[i].method \in IcmpMethods =>
           asked[i].dest = asked[j].dest \/ CarriedId(i) # CarriedId(j)
    => TrueTo(j)

\* build_icmpv4_probe_paris and build_icmpv6_probe_paris: the probes of a Paris
\* trace carry one checksum, so that routers keep them on one path.
ParisChecksumConstant ==
  \A p, q \in net :
    p.of.job = q.of.job /\ p.of.job \in JobIds /\ IsParis(asked[p.of.job].method) => p.of.sum = q.of.sum

\* dublin_publish_complete: the number of paths is the number of recorded
\* paths that no other flow's path extends, and the hops where the flows part
\* and meet again alternate, starting with a parting.
DiamondsSound ==
  \A j \in JobIds :
    IsDublin(j) /\ Done(j) =>
      LET c == Last(Log(j))
          paths == {c.ips[f] : f \in FlowIds}
      IN  /\ c.unique = Cardinality({p \in paths :
                          ~\E q \in paths : p # q /\ Len(p) <= Len(q) /\ SamePath(p, q)})
          /\ c.div \cap c.conv = {}
          /\ \A h \in c.conv : \E d \in c.div :
               d < h /\ \A x \in d + 1 .. h - 1 : x \notin c.div \cup c.conv
          /\ \A d, e \in c.div : d < e => \E h \in c.conv : d < h /\ h < e

\* tick and the hop limit: every job a module accepted completes, even when no
\* probe is ever answered.
JobsComplete == \A j \in JobIds : (Taken(j) # {}) ~> Done(j)

\* icmp_flow_walk: "the strict id+seq match is the real guarantee": each hop of
\* an ICMP walk is the node at that distance, although its socket hears the
\* answers to the agent's probes and to its own earlier ones.
WalkIcmpTrue ==
  walk.proto = "icmp" =>
    \A i \in DOMAIN walk.log :
      /\ walk.log[i].addr \in {"", NodeAt(walk.dest, "icmp", 0, walk.log[i].ttl)}
      /\ walk.log[i].reached_dst => walk.log[i].ttl >= Len(Routes[walk.dest][0])

\* ps_tr_sink_emit: a walk that is not Dublin's reports TTL 1, 2, 3 and so on; it
\* goes on past a hop only while the destination has not answered and no
\* max_gap dead hops in a row follow a live one, and it stops no earlier.
DeadAt(i) == walk.log[i].addr = ""
GapEndsAt(k) ==
  /\ walk.sink.max_gap > 0 /\ k >= walk.sink.max_gap
  /\ \A i \in k - walk.sink.max_gap + 1 .. k : DeadAt(i)
  /\ \E i \in 1 .. k : ~DeadAt(i)

SinkStops ==
  walk.pc \in {"wait", "done"} /\ walk.mode # "dublin" =>
    LET n == Len(walk.log) IN
    /\ \A i \in 1 .. n : walk.log[i].ttl = i
    /\ \A i \in 1 .. n : walk.log[i].reached_dst \/ GapEndsAt(i) => i = n /\ walk.pc = "done"
    /\ walk.pc = "done" => walk.log[n].reached_dst \/ GapEndsAt(n) \/ n = MaxTtl(walk)

\* dublin_cb: no (ttl, address) pair is reported twice, and the table's limit
\* is the only thing short of the last flow that ends the enumeration.
DublinEnumerates ==
  walk.pc \in {"wait", "done"} /\ walk.mode = "dublin" =>
    /\ \A i, k \in DOMAIN walk.log :
         i # k => <<walk.log[i].ttl, walk.log[i].addr>> # <<walk.log[k].ttl, walk.log[k].addr>>
    /\ walk.pc = "done" => walk.flow + 1 = walk.flows \/ Len(walk.log) = WalkMax

\* The timeouts of lib/traceroute.c: a walk ends whatever the network does.
WalkEnds == (walk.pc = "wait") ~> (walk.pc = "done")

\* Every trace, the agent's and the command line's, reports its hops in order
\* and stops where it should (advance_hop, dublin_advance, ps_tr_sink_emit).
TracesInOrder == TypeOK /\ HopsInOrder /\ SinkStops

\* A hop that is reported is on the route of the trace that reports it, as far
\* as the answers can be told apart (on_response, icmp_flow_walk).
TracesTrue == LoneTracesTrue /\ IcmpTracesTrue /\ WalkIcmpTrue

\* The methods that tell paths apart do so: Paris probes stay on one path, and
\* both Dublin enumerations report each path, and each hop, once
\* (build_icmpv4_probe_paris, dublin_publish_complete, dublin_cb).
PathsToldApart == ParisChecksumConstant /\ DiamondsSound /\ DublinEnumerates

\* Every trace ends, whatever the network does (the ticks and timeouts).
TracesEnd == JobsComplete /\ WalkEnds
=============================================================================
