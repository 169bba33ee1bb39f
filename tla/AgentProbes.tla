---------------------------- MODULE AgentProbes -----------------------------
(***************************************************************************)
(* The probe modules of the agent: TCP, UDP and TLS.                       *)
(*                                                                         *)
(* The TCP SYN probe is a table of jobs, each known on the wire by its     *)
(* source port, which is a base plus its slot.                             *)
(***************************************************************************)
EXTENDS JsonWriter, FiniteSets, FiniteSetsExt, SequencesExt

CONSTANTS
  TCP_PROBE_MAX_JOBS,
  TCP_PROBE_TIMEOUT

ASSUME TcpProbeAssumption ==
  /\ TCP_PROBE_MAX_JOBS \in Nat \ {0}
  /\ TCP_PROBE_TIMEOUT \in Nat \ {0}

TCP_PROBE_BASE_SRC_PORT == 20592
BANNER_PORTS == {21, 22, 25, 80, 110, 143, 443, 465, 587, 993, 995, 3306, 5432,
                 6379, 8080, 8443}

JobSlots == 0 .. TCP_PROBE_MAX_JOBS - 1
NoSlot == -1

\* A job that was cleared with memset: its slot number is gone as well.
NoJob == [state |-> "idle", slot |-> 0, id |-> "", addr |-> "", port |-> 0,
          sent |-> 0, published |-> FALSE]

build_syn_probe_v4(addr, sport, dport) == [to |-> addr, sport |-> sport, dport |-> dport]

is_banner_port(port) == port \in BANNER_PORTS

\* g: the service's first text, or that it refused or stayed quiet.  Control
\* characters at its end are stripped; those inside it stay.
grab_banner(g) == IF g.connects /\ g.speaks THEN g.text ELSE NoChars

\* A result as the probe modules publish it.  Module and slot are not part
\* of the message.
Result(by, id, addr, port, state) ==
  [by |-> by, slot |-> NoSlot, id |-> id, addr |-> addr, port |-> port, state |-> state]

\* The head all results share.  Identifiers and addresses are short, and the
\* protocol is "tcp" or "udp".
ResultHead(port, state) ==
  <<ps_json_key_string(6, Chars(8)), ps_json_key_string(7, Chars(9)),
    ps_json_key_int(4, Digits(port)), ps_json_key_string(5, Chars(3)),
    ps_json_key_string(5, Chars(Len(state)))>>

ResultFits(cap, port, state, banner) ==
  ps_json_finish(cap, Object(Append(ResultHead(port, state), ps_json_key_string(6, banner)))) > 0

tcp_publish_result(job, state, banner) ==
  IF ResultFits(512, job.port, state, banner)
  THEN <<[Result("tcp", job.id, job.addr, job.port, state) EXCEPT !.slot = job.slot]>>
  ELSE << >>

-----------------------------------------------------------------------------
\* A packet from a raw socket.  port: the destination port of a TCP packet,
\* or the source port of the TCP packet quoted in an ICMP error.
NoPacket == [sock |-> "tcp", len |-> 40, ihl |-> 20, proto |-> 6, flags |-> {},
             type |-> 0, inner |-> 20, port |-> 0]

parse_tcp_response_v4(p) ==
  IF \/ p.len < 40 \/ p.ihl + 20 > p.len \/ p.proto # 6
     \/ ~({"syn", "ack"} \subseteq p.flags) /\ "rst" \notin p.flags
  THEN [port |-> 0, is_rst |-> FALSE]
  ELSE [port |-> p.port, is_rst |-> "rst" \in p.flags]

\* inner: the header length of the quoted packet.
parse_icmp_unreach_v4(p) ==
  IF \/ p.len < 20 \/ p.ihl > p.len \/ p.len - p.ihl < 36 \/ p.type # 3
     \/ 16 + p.inner > p.len - p.ihl \/ p.proto # 6
  THEN 0 ELSE p.port

-----------------------------------------------------------------------------
find_free_job(st) ==
  LET free == {i \in JobSlots : st.jobs[i].state = "idle"}
  IN  IF free = {} THEN NoSlot ELSE Min(free)

\* The first waiting job, whatever its port: a mutant.
FindAnyWaiting(st, sport) ==
  LET hit == {i \in JobSlots : st.jobs[i].state = "waiting"}
  IN  IF hit = {} THEN NoSlot ELSE Min(hit)

find_job_by_src_port(st, sport) ==
  LET hit == {i \in JobSlots : /\ st.jobs[i].state = "waiting"
                               /\ TCP_PROBE_BASE_SRC_PORT + st.jobs[i].slot = sport}
  IN  IF hit = {} THEN NoSlot ELSE Min(hit)

Quiet(st) == [st |-> st, out |-> << >>]

\* The job stays in the table after its result: a mutant.
CompleteWithoutClearing(st, i, state, g) ==
  LET job == st.jobs[i]
      banner == IF state = "open" /\ is_banner_port(job.port) THEN grab_banner(g) ELSE NoChars
  IN  [st |-> [st EXCEPT !.jobs[i].published = TRUE],
       out |-> IF job.published THEN << >> ELSE tcp_publish_result(job, state, banner)]

\* The job neither is cleared nor remembers its result: a mutant.
CompleteKeepsJob(st, i, state, g) ==
  [st |-> st, out |-> tcp_publish_result(st.jobs[i], state, NoChars)]

complete_job(st, i, state, g) ==
  LET job == st.jobs[i]
      banner == IF state = "open" /\ is_banner_port(job.port) THEN grab_banner(g) ELSE NoChars
  IN  IF job.published THEN Quiet(st)
      ELSE [st |-> [st EXCEPT !.jobs[i] = NoJob],
            out |-> tcp_publish_result(job, state, banner)]

-----------------------------------------------------------------------------
\* The two raw sockets may fail to open.
probe_init(tcp, icmp) ==
  [tcp_sock4 |-> tcp, icmp_sock4 |-> icmp,
   jobs |-> [i \in JobSlots |-> [NoJob EXCEPT !.slot = i]]]

\* resolves, sends: the outcome of getaddrinfo and of send_raw.
probe_on_job(st, job, resolves, sends, now) ==
  LET i == find_free_job(st)
      pj == [NoJob EXCEPT !.slot = i, !.id = job.id, !.addr = job.dest,
                          !.port = IF job.port > 0 THEN job.port ELSE 80]
      syn == build_syn_probe_v4(pj.addr, TCP_PROBE_BASE_SRC_PORT + i, pj.port)
  IN
  IF job.method \notin {"", "probe", "tcp"} \/ ~st.tcp_sock4 \/ i = NoSlot \/ ~resolves
  THEN [st |-> st, sent |-> {}]
  ELSE IF ~sends THEN [st |-> [st EXCEPT !.jobs[i] = pj], sent |-> {}]
  ELSE [st |-> [st EXCEPT !.jobs[i] = [pj EXCEPT !.sent = now, !.state = "waiting"]],
        sent |-> {syn}]

OurPort(sport) ==
  /\ sport >= TCP_PROBE_BASE_SRC_PORT
  /\ sport < TCP_PROBE_BASE_SRC_PORT + TCP_PROBE_MAX_JOBS

probe_on_response(st, p, g) ==
  LET tcp == parse_tcp_response_v4(p)
      sport == IF p.sock = "tcp" THEN tcp.port ELSE parse_icmp_unreach_v4(p)
      i == find_job_by_src_port(st, sport)
  IN
  IF ~OurPort(sport) \/ i = NoSlot THEN Quiet(st)
  ELSE complete_job(st, i, IF p.sock = "icmp" THEN "filtered"
                           ELSE IF tcp.is_rst THEN "closed" ELSE "open", g)

probe_tick(st, now) ==
  FoldLeft(LAMBDA r, i :
             LET pj == r.st.jobs[i]
                 c == complete_job(r.st, i, "filtered", [connects |-> FALSE])
             IN  IF pj.state = "waiting" /\ pj.sent # 0 /\ now - pj.sent >= TCP_PROBE_TIMEOUT
                 THEN [st |-> c.st, out |-> r.out \o c.out]
                 ELSE r,
           Quiet(st), [k \in 1 .. TCP_PROBE_MAX_JOBS |-> k - 1])
-----------------------------------------------------------------------------
(***************************************************************************)
(* The UDP probe module of the agent.  A probe runs inside the job         *)
(* handler and holds a slot and a socket until it returns.                 *)
(***************************************************************************)

CONSTANT UDP_PROBE_MAX_JOBS

PORT_DNS == 53
PORT_SNMP == 161

UdpSlots == 1 .. UDP_PROBE_MAX_JOBS

\* What is sent: the identifier the answer is compared with, if any.
build_dns_query == [kind |-> "dns", id |-> 20563]
build_snmp_query == [kind |-> "snmp", id |-> 20563]
UDP_PROBE_GENERIC == [kind |-> "generic", id |-> 0]

Payload(port) ==
  CASE port = PORT_DNS -> build_dns_query
    [] port = PORT_SNMP -> build_snmp_query
    [] OTHER -> UDP_PROBE_GENERIC

\* An answer r: its length, and what its first bytes are.
parse_dns_banner(r) ==
  IF r.len < 12 \/ (r.id = build_dns_query.id /\ r.qr)
  THEN "DNS responding" ELSE "UDP port open"

\* tag: the first position from 2 on of a response tag, 0 if there is none.
parse_snmp_banner(r) ==
  IF r.len < 8 \/ (r.sequence /\ r.tag >= 2 /\ r.tag < 64 /\ r.tag < r.len)
  THEN "SNMP responding" ELSE "UDP port open"

Banner(port, r) ==
  CASE port = PORT_DNS -> parse_dns_banner(r)
    [] port = PORT_SNMP -> parse_snmp_banner(r)
    [] OTHER -> "UDP port open"

udp_publish_result(job, state, banner) ==
  IF ResultFits(512, job.port, state, Chars(Len(banner)))
  THEN <<Result("udp", job.id, job.dest, job.port, state)>> ELSE << >>

NoAnswer == [len |-> 0, id |-> 0, qr |-> FALSE, sequence |-> FALSE, tag |-> 0]

\* Without an answer nothing is said: a mutant.
ProbeSilent(job, fails, answer) ==
  IF fails # "" \/ answer = NoAnswer THEN << >>
  ELSE udp_publish_result(job, "open", Banner(job.port, answer))

\* fails: the call that fails, if one does; answer: what came in time.
probe_udp_port(job, fails, answer) ==
  IF fails \in {"socket", "send", "select"}
  THEN udp_publish_result(job, "no_response", fails \o " error")
  ELSE IF answer = NoAnswer THEN udp_publish_result(job, "no_response", "")
  ELSE IF fails = "recv" THEN udp_publish_result(job, "no_response", "recv error")
  ELSE udp_publish_result(job, "open", Banner(job.port, answer))

udp_probe_init == [jobs |-> [i \in UdpSlots |-> FALSE]]

\* A failed look-up keeps the slot: a mutant.
UdpJobKeepsSlot(st, job, resolves, fails, answer) ==
  LET free == {i \in UdpSlots : ~st.jobs[i]}
      ours == job.method \in {"", "udp_probe", "udp"} /\ free # {}
  IN  [st |-> IF ours /\ ~resolves THEN [st EXCEPT !.jobs[Min(free)] = TRUE] ELSE st,
       out |-> IF ours /\ resolves THEN probe_udp_port(job, fails, answer) ELSE << >>]

\* The slot is claimed, and released on both ways out.
udp_probe_on_job(st, job, resolves, fails, answer) ==
  LET free == {i \in UdpSlots : ~st.jobs[i]}
      claimed == [st EXCEPT !.jobs[Min(free)] = TRUE]
      ours == /\ job.method \in {"", "udp_probe", "udp"}
              /\ job.dest # "" /\ job.port \in 1 .. 65535 /\ free # {}
  IN
  IF ~ours THEN Quiet(st)
  ELSE [st |-> [claimed EXCEPT !.jobs[Min(free)] = FALSE],
        out |-> IF resolves THEN probe_udp_port(job, fails, answer) ELSE << >>]
-----------------------------------------------------------------------------
(***************************************************************************)
(* The TLS probe module of the agent.  A probe runs inside the job handler *)
(* and holds a socket and a TLS object, counted here, until it returns.    *)
(***************************************************************************)

CONSTANTS
  DEADLINE_LOOPS,       \* waits of a handshake
  TLS_PROBE_SAN_MAX,
  TLS_BUFFER            \* bytes for the text of a result

\* A peer s: the call on which it fails, if any; how many times the handshake
\* has to wait and how it ends; and its certificate.  A name of a
\* certificate is [dns |-> BOOLEAN, len |-> Nat].

\* Returns a connected socket or nothing; every failure closes the socket.
tls_tcp_connect(s) ==
  IF s.fails \in {"socket", "fcntl", "connect", "select", "error"} THEN 0 ELSE 1

tls_do_handshake(s) ==
  s.fails # "handshake" /\ s.waits < DEADLINE_LOOPS

extract_cert_cn(cert) == IF cert.cn < 256 THEN cert.cn ELSE 255

extract_cert_sans(cert, max) ==
  LET dns == SelectSeq(cert.sans, LAMBDA n : n.dns /\ n.len > 0)
  IN  [i \in 1 .. (IF Len(dns) < max THEN Len(dns) ELSE max) |->
         IF dns[i].len < 256 THEN dns[i].len ELSE 255]

NoTls == [version |-> 0, cn |-> 0, sans |-> << >>, alpn |-> 0]

\* The sub-object with the TLS details.
TlsText(t) ==
  LET str(key, n) == IF n > 0 THEN <<ps_json_key_string(key, Chars(n))>> ELSE << >>
      list(key, ns) ==
        IF ns = << >> THEN << >>
        ELSE <<ps_json_array(key, [i \in DOMAIN ns |-> ps_json_array_string(Chars(ns[i]))])>>
  IN  ps_json_key_object(3, str(7, t.version) \o str(7, t.cn) \o list(8, t.sans)
                              \o list(4, IF t.alpn = 0 THEN << >> ELSE <<t.alpn>>))

TlsFits(port, state, t) ==
  ps_json_finish(TLS_BUFFER,
    Object(ResultHead(port, state) \o (IF t = NoTls THEN << >> ELSE <<TlsText(t)>>))) > 0

tls_publish_result(job, port, state, t) ==
  IF TlsFits(port, state, t)
  THEN <<Result("tls", job.id, job.dest, port, state)>> ELSE << >>

tls_init(ctx) == [ctx |-> ctx, held |-> 0]

Negotiated(s) ==
  [version |-> 7, cn |-> extract_cert_cn(s.cert),
   sans |-> extract_cert_sans(s.cert, TLS_PROBE_SAN_MAX),
   alpn |-> IF s.alpn < 64 THEN s.alpn ELSE 0]

\* held: sockets and TLS objects that exist.
tls_on_job(st, job, resolves, s) ==
  LET port == IF job.port > 0 THEN job.port ELSE 443
      say(state, t) == tls_publish_result(job, port, state, t)
      fd == tls_tcp_connect(s)
      connected == [st EXCEPT !.held = @ + fd]
      session == [connected EXCEPT !.held = @ + 1]
      freed(x, n) == [x EXCEPT !.held = @ - n]
  IN
  IF ~st.ctx \/ job.method \notin {"", "tls"} THEN Quiet(st)
  ELSE IF ~resolves THEN [st |-> st, out |-> say("error", NoTls)]
  ELSE IF fd = 0 THEN [st |-> connected, out |-> say("closed", NoTls)]
  ELSE IF s.fails = "ssl" THEN [st |-> freed(connected, 1), out |-> say("error", NoTls)]
  ELSE IF ~tls_do_handshake(s) THEN [st |-> freed(session, 2), out |-> say("tls_failed", NoTls)]
  ELSE [st |-> freed(session, 2), out |-> say("open", Negotiated(s))]
=============================================================================
