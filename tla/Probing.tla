------------------------------ MODULE Probing -------------------------------
(***************************************************************************)
(* Active probing in the agent: requests from control clients, the probe   *)
(* modules they are dispatched to, the sweep processes the agent starts,   *)
(* and the event loop that ticks the modules and drains the sweeps.        *)
(*                                                                         *)
(* A behaviour follows one plan: the requests that come, in order.         *)
(***************************************************************************)
EXTENDS AgentProbes, Sweep

CONSTANTS
  Plans,
  Requests,      \* [Plans -> Seq(requests)]
  Service,       \* [ports -> how the port behaves under each protocol]
  Known,         \* names that resolve
  Answering,     \* hosts that answer an echo
  Strays,        \* packets on the raw sockets that are no answers to us
  ReadSizes,     \* how much of a pipe one drain finds
  Sockets,       \* [Plans -> the socket kinds a sweep may get]
  RawOpens,      \* [Plans -> whether raw sockets may be had]
  MaxTime, LastRequest   \* [Plans -> Nat]

VARIABLES
  plan, now, beat,
  asked,         \* requests handled
  tcp, udp, tls, \* states of the probe modules
  syns,          \* SYNs sent: the answers to them may come at any time
  results,       \* published on probe.result
  traces,        \* jobs the traceroute modules accepted as well
  sweeps,        \* g_sweeps
  kids,          \* sweep processes: [run, pipe, ended, cast], cast being the
                 \* lines of this process broadcast on probe.sweep
  echoes         \* echo replies on their way, which may be repeated

agent == <<tcp, udp, tls, syns, results, traces>>
sweeping == <<sweeps, kids, echoes>>
vars == <<plan, now, beat, asked, agent, sweeping>>

Ports == DOMAIN Service

Init ==
  /\ plan \in Plans
  /\ now = 1 /\ beat = FALSE /\ asked = 0
  /\ \E t, i \in RawOpens[plan] : tcp = probe_init(t, i)
  /\ udp = udp_probe_init
  /\ tls = tls_init(TRUE)
  /\ syns = {} /\ results = << >> /\ traces = {}
  /\ sweeps = [s \in SweepSlots |-> FreeSlot]
  /\ kids = << >> /\ echoes = {}

-----------------------------------------------------------------------------
\* The traceroute modules look at the method only.
Traced(job) ==
  IF job.method \in {"tcp", "udp", "icmp", "paris", "dublin"}
  THEN {<<job.method, job.id, job.port>>} ELSE {}

\* A UDP service answers what it understands.
Heard(port) ==
  IF Service[port].hears \in {"any", Payload(port).kind} THEN Service[port].datagram ELSE NoAnswer

\* Every module with a job handler gets every job.
dispatch_job(r, job, e) ==
  LET ok == job.dest \in Known
      a == probe_on_job(r.tcp, job, ok, e.sends, now)
      u == udp_probe_on_job(r.udp, job, ok, e.fails, Heard(job.port))
      t == tls_on_job(r.tls, job, ok, Service[job.port].peer)
  IN  [tcp |-> a.st, udp |-> u.st, tls |-> t.st, syns |-> r.syns \cup a.sent,
       results |-> r.results \o u.out \o t.out, traces |-> r.traces \cup Traced(job)]

\* The ports up to the first one that is out of range.
ValidPorts(ports) ==
  LET bad == {i \in DOMAIN ports : ports[i] \notin 1 .. 65535}
  IN  IF bad = {} THEN ports ELSE SubSeq(ports, 1, Min(bad) - 1)

JobOf(req, port) ==
  [id |-> req.id, dest |-> req.address, port |-> port,
   method |-> IF req.proto = "" THEN "tcp" ELSE req.proto]

\* e: how the calls of this request go; took: the time its probes block.
OnProbeRequest(req, e) ==
  LET start == [tcp |-> tcp, udp |-> udp, tls |-> tls, syns |-> syns,
                results |-> results, traces |-> traces]
      r == IF req.id = "" \/ req.address = "" THEN start
           ELSE FoldLeft(LAMBDA x, port : dispatch_job(x, JobOf(req, port), e),
                         start, ValidPorts(req.ports))
  IN  /\ req.channel = "probe.request"
      /\ tcp' = r.tcp /\ udp' = r.udp /\ tls' = r.tls
      /\ syns' = r.syns /\ results' = r.results /\ traces' = r.traces
      /\ UNCHANGED sweeping

OnSweepRequest(req, e) ==
  LET targets == SubSeq(req.targets, 1, IF Len(req.targets) < PS_SWEEP_MAX_TARGETS
                                        THEN Len(req.targets) ELSE PS_SWEEP_MAX_TARGETS)
      pid == Len(kids) + 1
  IN  /\ req.channel = "sweep.request"
      /\ sweeps' = ps_sweep_launch(sweeps, targets, pid, e.sends)
      /\ \E socks \in Sockets[plan] :
           kids' = IF sweeps' = sweeps THEN kids
                   ELSE Append(kids, [run |-> SweepStart(targets, socks), pipe |-> << >>,
                                      ended |-> "no", cast |-> << >>])
      /\ UNCHANGED <<agent, echoes>>

\* ps_ipc_server_poll hands the next frame to on_ipc_frame.
on_ipc_frame ==
  /\ asked < Len(Requests[plan]) /\ now <= LastRequest[plan]
  /\ asked' = asked + 1
  /\ \E sends \in BOOLEAN, fails \in {"", "socket", "send", "select", "recv"}, took \in {0, 3} :
       /\ now' = now + took
       /\ LET req == Requests[plan][asked + 1]
              e == [sends |-> sends, fails |-> fails]
          IN  /\ req.proto # "udp" => fails = "" /\ took = 0
              /\ OnProbeRequest(req, e) \/ OnSweepRequest(req, e)
  /\ UNCHANGED <<plan, beat>>

-----------------------------------------------------------------------------
\* What a port answers to a SYN, as it arrives on one of the raw sockets.
AnswerTo(syn) ==
  LET how == Service[syn.dport].stream
      from(flags) == [NoPacket EXCEPT !.flags = flags, !.port = syn.sport]
  IN  CASE how = "open"     -> {from({"syn", "ack"})}
        [] how = "closed"   -> {from({"rst", "ack"})}
        [] how = "filtered" -> {[NoPacket EXCEPT !.sock = "icmp", !.len = 56, !.type = 3,
                                                 !.port = syn.sport]}
        [] how = "silent"   -> {}

\* The raw sockets of the module are readable: one packet is handed to it.  An
\* answer may be late and may come again.
RawResponse ==
  /\ \E p \in UNION {AnswerTo(syn) : syn \in syns} \cup Strays :
     \E g \in {Service[port].greeting : port \in Ports} :
       LET i == find_job_by_src_port(tcp, p.port)
           r == probe_on_response(tcp, p, g)
       IN  /\ IF p.sock = "tcp" THEN tcp.tcp_sock4 ELSE tcp.icmp_sock4
           /\ g = Service[IF i = NoSlot THEN Min(Ports) ELSE tcp.jobs[i].port].greeting
           /\ tcp' = r.st /\ results' = results \o r.out
  /\ UNCHANGED <<plan, now, beat, asked, udp, tls, syns, traces, sweeping>>

\* The once-a-second tick of the modules.  It goes on when the clock stops.
Tick ==
  /\ now' = IF now < MaxTime[plan] THEN now + 1 ELSE now
  /\ beat' = ~beat
  /\ LET r == probe_tick(tcp, now')
     IN  tcp' = r.st /\ results' = results \o r.out
  /\ UNCHANGED <<plan, asked, udp, tls, syns, traces, sweeping>>

-----------------------------------------------------------------------------
\* A reply to target i of process pid.
EchoOf(pid, i) ==
  [to |-> pid, family |-> kids[pid].run.t[i].family, seq |-> i, type |-> "reply"]

SweepSend(pid) ==
  /\ kids[pid].run.phase = "send"
  /\ \E ok \in SUBSET Sendable(kids[pid].run) :
       /\ kids' = [kids EXCEPT ![pid].run = SendAll(@, ok)]
       /\ echoes' = echoes \cup
            {EchoOf(pid, i) : i \in {j \in ok : kids[pid].run.t[j].host \in Answering}}
  /\ UNCHANGED <<plan, now, beat, asked, agent, sweeps>>

\* The kernel gives a datagram socket only the replies to its own echoes; a
\* raw socket gets every one.
SweepRecv(pid) ==
  /\ Waiting(kids[pid].run)
  /\ \E r \in echoes :
       LET kind == IF r.family = 4 THEN kids[pid].run.socks.v4 ELSE kids[pid].run.socks.v6
       IN  /\ kind = "raw" \/ (kind = "dgram" /\ r.to = pid)
           /\ kids' = [kids EXCEPT ![pid].run = recv_one(@, r)]
  /\ UNCHANGED <<plan, now, beat, asked, agent, sweeps, echoes>>

\* The window ends when nothing is missing, or at its deadline; the findings
\* are written and the process exits.
SweepEnd(pid) ==
  /\ kids[pid].run.phase = "recv"
  /\ kids' = [kids EXCEPT ![pid] =
                [run |-> SweepDone(@.run), cast |-> @.cast,
                 pipe |-> FlattenSeq([i \in DOMAIN Findings(@.run) |-> Line(Findings(@.run)[i])]),
                 ended |-> IF Waiting(@.run) THEN "deadline" ELSE "complete"]]
  /\ UNCHANGED <<plan, now, beat, asked, agent, sweeps, echoes>>

\* One call: every busy slot is drained of what is there, which may be any
\* part of what its process writes.
Drain ==
  /\ \E s \in SweepSlots : sweeps[s].pid # NoPid
  /\ \E size \in [SweepSlots -> ReadSizes] :
       LET busy == {s \in SweepSlots : sweeps[s].pid # NoPid}
           kid(s) == kids[sweeps[s].pid]
           cut(s) == IF size[s] < Len(kid(s).pipe) THEN size[s] ELSE Len(kid(s).pipe)
           eof(s) == kid(s).ended # "no" /\ cut(s) = Len(kid(s).pipe)
           d(s) == ps_sweep_drain(sweeps[s], SubSeq(kid(s).pipe, 1, cut(s)), eof(s))
           of(pid) == {s \in busy : sweeps[s].pid = pid}
       IN  /\ sweeps' = [s \in SweepSlots |-> IF s \in busy THEN d(s).slot ELSE sweeps[s]]
           /\ kids' = [p \in DOMAIN kids |->
                IF of(p) = {} THEN kids[p]
                ELSE LET s == Min(of(p))
                     IN  [kids[p] EXCEPT !.pipe = SubSeq(@, cut(s) + 1, Len(@)),
                                         !.cast = @ \o d(s).out]]
  /\ UNCHANGED <<plan, now, beat, asked, agent, echoes>>

Next ==
  \/ on_ipc_frame \/ RawResponse \/ Tick \/ Drain
  \/ \E pid \in DOMAIN kids : SweepSend(pid) \/ SweepRecv(pid) \/ SweepEnd(pid)

\* The loop keeps ticking.
Fairness == []<>beat /\ []<>~beat

Spec == Init /\ [][Next]_vars /\ Fairness

-----------------------------------------------------------------------------
\* The values the state may take.
TypeOK ==
  /\ plan \in Plans /\ now \in 1 .. MaxTime[plan] + 3 /\ asked \in 0 .. Len(Requests[plan])
  /\ \A i \in JobSlots : /\ tcp.jobs[i].state \in {"idle", "waiting"}
                         /\ tcp.jobs[i].slot \in JobSlots
                         /\ tcp.jobs[i].sent \in 0 .. MaxTime[plan] + 3
  /\ \A i \in UdpSlots : udp.jobs[i] \in BOOLEAN
  /\ tls.ctx \in BOOLEAN /\ tls.held \in Nat
  /\ \A i \in DOMAIN results : results[i].port \in Ports
  /\ \A s \in SweepSlots : sweeps[s].pid \in 0 .. Len(kids)
  /\ \A p \in DOMAIN kids : kids[p].ended \in {"no", "deadline", "complete"}

\* The jobs of the requests handled so far.
Handled ==
  UNION {{JobOf(Requests[plan][i], p) : p \in Range(ValidPorts(Requests[plan][i].ports))} :
          i \in {j \in 1 .. asked : /\ Requests[plan][j].channel = "probe.request"
                                    /\ Requests[plan][j].id # "" /\ Requests[plan][j].address # ""}}

ResultsOf(job) ==
  {i \in DOMAIN results : results[i].id = job.id /\ results[i].port = job.port}

\* A probed port is reported once, whatever order answers, repeated answers and
\* the timeout come in: complete_job publishes only for a job that waits and
\* has not been published.
ReportedOnce ==
  /\ \A job \in Handled : Cardinality(ResultsOf(job)) <= 1
  /\ \A i \in DOMAIN results :
       \E job \in Handled : results[i].id = job.id /\ results[i].port = job.port

\* A result says what its own port did: "closed" or "open" belongs to a port
\* that behaves so, unless an earlier job in the same slot, and so with the
\* same source port, got its answer too late.
OnlyLateAnswersMislead ==
  \A i \in DOMAIN results :
    results[i].by = "tcp" /\ results[i].state \in {"open", "closed"} =>
      \/ Service[results[i].port].stream = results[i].state
      \/ \E s \in syns : /\ s.sport = TCP_PROBE_BASE_SRC_PORT + results[i].slot
                         /\ s.dport # results[i].port
                         /\ Service[s.dport].stream = results[i].state

TooLong(job) ==
  \/ ~ResultFits(512, job.port, "open", grab_banner(Service[job.port].greeting))
  \/ /\ job.method = "tls"
     /\ ~TlsFits(job.port, "open", Negotiated(Service[job.port].peer))

\* No probe is lost without a trace: a SYN that went out belongs to a waiting
\* job or to a published result, and a UDP or TLS probe has published before
\* its handler returned.  What is not reported is a text too long for its
\* buffer and a name that does not resolve.
NoProbeLost ==
  \A job \in Handled :
    \/ ResultsOf(job) # {} \/ TooLong(job)
    \/ job.method = "tcp" /\ ~\E s \in syns : s.dport = job.port
    \/ \E i \in JobSlots : /\ tcp.jobs[i].state = "waiting" /\ tcp.jobs[i].id = job.id
                          /\ tcp.jobs[i].port = job.port
    \/ job.method = "udp" /\ job.dest \notin Known
    \/ job.method \notin {"tcp", "udp", "tls"}

\* The blocking probes give back what they take on every way out: after a job
\* handler no UDP slot is claimed and no TLS socket or session is open.
NothingHeld ==
  /\ \A i \in UdpSlots : ~udp.jobs[i]
  /\ tls.held = 0

\* Every TCP job ends: its slot becomes free by an answer or by the timeout
\* in probe_tick, so the table never stays full.
TcpJobsEnd ==
  \A i \in JobSlots : tcp.jobs[i].state = "waiting" ~> tcp.jobs[i].state = "idle"

\* However the pipe cuts them, clients get the findings of a sweep whole and in
\* order, and all of them once its slot is free again.
SweepLinesWhole ==
  \A pid \in DOMAIN kids :
    LET got == kids[pid].cast
        all == Findings(kids[pid].run)
    IN  /\ got # << >> => kids[pid].run.phase = "done" /\ Len(got) <= Len(all)
        /\ \A i \in DOMAIN got : got[i] = SubSeq(Line(all[i]), 1, 2)
        /\ (\A s \in SweepSlots : sweeps[s].pid # pid) => Len(got) = Len(all)

\* A sweep that stops before its deadline has an answer from every target it
\* reached, repeated replies notwithstanding, as long as its sockets show it
\* only its own replies.
NoEarlyStop ==
  \A pid \in DOMAIN kids :
    LET run == kids[pid].run
    IN  kids[pid].ended = "complete" /\ "raw" \notin {run.socks.v4, run.socks.v6} =>
          \A i \in DOMAIN run.t : run.t[i].sent_ok => run.t[i].replied

\* Two sweeps do not disturb each other: with datagram sockets a target is
\* "up" only if it answers.
UpMeansAnswered ==
  \A pid \in DOMAIN kids :
    \A i \in DOMAIN kids[pid].run.t :
      Status(kids[pid].run.t[i]) = "up" /\ SocketFor(kids[pid].run, i) = "dgram" =>
        kids[pid].run.t[i].host \in Answering

\* Each port asked for is reported once and truly, and nothing is held for it
\* afterwards (complete_job, the handlers of UDP and TLS probes).
ProbesTrue ==
  /\ TypeOK
  /\ ReportedOnce /\ OnlyLateAnswersMislead /\ NoProbeLost /\ NothingHeld

\* A sweep's findings are true, complete and reach the clients whole
\* (recv_one, ps_probe_sweep_run, ps_sweep_drain).
SweepsTrue == SweepLinesWhole /\ NoEarlyStop /\ UpMeansAnswered
=============================================================================
