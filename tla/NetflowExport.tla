--------------------------- MODULE NetflowExport ----------------------------
(***************************************************************************)
(* The NetFlow v5, NetFlow v9 and IPFIX exporter of the agent: a call gets *)
(* an array of flows and sends them to the collector in datagrams, any of  *)
(* which the kernel may refuse.  Lengths are the real ones.  A second is   *)
(* SEC units of time; the clock may move on between any two datagrams and  *)
(* between any two readings of it.                                         *)
(***************************************************************************)
EXTENDS Integers, Sequences, FiniteSets

CONSTANTS
  SEC,
  Word,                  \* 2^32
  TEMPLATE_RESEND_PKTS, TEMPLATE_RESEND_SEC,
  IPFIX_MAX_FLOWS,
  Versions,
  Batches,               \* [names -> sequences of flows [af, start, last]]
  MaxTime, MaxCalls      \* bounds

ASSUME NetflowAssumption ==
  /\ SEC \in Nat \ {0} /\ Word \in Nat \ {0} /\ {MaxTime, MaxCalls} \subseteq Nat /\ SEC <= MaxTime
  /\ {TEMPLATE_RESEND_PKTS, TEMPLATE_RESEND_SEC, IPFIX_MAX_FLOWS} \subseteq Nat \ {0}
  /\ Versions \subseteq {5, 9, 10}
  /\ \A b \in DOMAIN Batches : Batches[b] \in Seq([af : {4, 6}, start : Nat, last : Nat])

VARIABLES
  now,
  exp,       \* struct ps_nf_exporter
  call,      \* the locals of a call of ps_nf_exporter_send
  out,       \* the datagram built last, and whether it was sent
  hist       \* history: what went out so far

vars == <<now, exp, call, out, hist>>

-----------------------------------------------------------------------------
NFV5_HEADER_LEN == 24
NFV5_RECORD_LEN == 48
NFV5_MAX_RECORDS == 30
NFV9_HEADER_LEN == 20
IPFIX_HEADER_LEN == 16
NF_MAX_PACKET == 1400

\* Fields with their lengths: as the templates announce them, and as the
\* records are written.
Key(addr, len) == <<<<addr \o "SRC", len>>, <<addr \o "DST", len>>, <<"SRC_PORT", 2>>, <<"DST_PORT", 2>>, <<"PROTO", 1>>>>

tmpl_v4_fields ==
  Key("V4_", 4) \o <<<<"BYTES", 4>>, <<"PKTS", 4>>, <<"FLAGS", 1>>, <<"TOS", 1>>, <<"FIRST", 4>>, <<"LAST", 4>>>>
tmpl_v6_fields ==
  Key("V6_", 16) \o <<<<"BYTES", 4>>, <<"PKTS", 4>>, <<"FLAGS", 1>>, <<"LABEL", 4>>, <<"FIRST", 4>>, <<"LAST", 4>>>>
ipfix_v4_fields ==
  Key("V4_", 4) \o <<<<"FLAGS", 1>>, <<"TOS", 1>>, <<"BYTES", 8>>, <<"PKTS", 8>>, <<"FIRST", 8>>, <<"LAST", 8>>>>
ipfix_v6_fields ==
  Key("V6_", 16) \o <<<<"FLAGS", 1>>, <<"LABEL", 4>>, <<"BYTES", 8>>, <<"PKTS", 8>>, <<"FIRST", 8>>, <<"LAST", 8>>>>

V5Record ==
  <<<<"V4_SRC", 4>>, <<"V4_DST", 4>>, <<"NEXTHOP", 4>>, <<"INPUT", 2>>, <<"OUTPUT", 2>>,
    <<"PKTS", 4>>, <<"BYTES", 4>>, <<"FIRST", 4>>, <<"LAST", 4>>, <<"SRC_PORT", 2>>, <<"DST_PORT", 2>>,
    <<"PAD", 1>>, <<"FLAGS", 1>>, <<"PROTO", 1>>, <<"TOS", 1>>, <<"AS", 4>>, <<"MASKS", 2>>, <<"PAD", 2>>>>
write_v4_data_record ==
  Key("V4_", 4) \o <<<<"BYTES", 4>>, <<"PKTS", 4>>, <<"FLAGS", 1>>, <<"TOS", 1>>, <<"FIRST", 4>>, <<"LAST", 4>>>>
write_v6_data_record ==
  Key("V6_", 16) \o <<<<"BYTES", 4>>, <<"PKTS", 4>>, <<"FLAGS", 1>>, <<"LABEL", 4>>, <<"FIRST", 4>>, <<"LAST", 4>>>>
write_ipfix_v4_record ==
  Key("V4_", 4) \o <<<<"FLAGS", 1>>, <<"TOS", 1>>, <<"BYTES", 8>>, <<"PKTS", 8>>, <<"FIRST", 8>>, <<"LAST", 8>>>>

\* The counters come before the label: a mutant.
IpfixV6LabelLate ==
  Key("V6_", 16) \o <<<<"FLAGS", 1>>, <<"BYTES", 8>>, <<"PKTS", 8>>, <<"LABEL", 4>>, <<"FIRST", 8>>, <<"LAST", 8>>>>

write_ipfix_v6_record ==
  Key("V6_", 16) \o <<<<"FLAGS", 1>>, <<"LABEL", 4>>, <<"BYTES", 8>>, <<"PKTS", 8>>, <<"FIRST", 8>>, <<"LAST", 8>>>>

Width(fields) ==
  LET upto[i \in 0 .. Len(fields)] == IF i = 0 THEN 0 ELSE upto[i - 1] + fields[i][2]
  IN  upto[Len(fields)]

TMPL_V4_RECORD_LEN == 31
TMPL_V6_RECORD_LEN == 58
IPFIX_V4_REC_LEN == 47
IPFIX_V6_REC_LEN == 74

Smaller(a, b) == IF a < b THEN a ELSE b
Padded(n) == ((n + 3) \div 4) * 4

now_sec(t) == t \div SEC
sys_uptime_ms(t) == ((now_sec(t) - exp.boot) * SEC) % Word

\* The part of a second is dropped: a mutant.
UptimeOfSecond(ts) ==
  IF now_sec(ts) < exp.boot THEN 0 ELSE ((now_sec(ts) - exp.boot) * SEC) % Word

flow_ts_to_uptime(ts) ==
  IF now_sec(ts) < exp.boot THEN 0
  ELSE ((now_sec(ts) - exp.boot) * SEC + (ts % SEC)) % Word

need_template(e, t) ==
  \/ e.since >= TEMPLATE_RESEND_PKTS
  \/ (now_sec(t) - e.last) % Word >= TEMPLATE_RESEND_SEC
  \/ e.last = 0

\* The records of a length that fit behind an offset.
Fitting(off, len, left) ==
  IF off + len > NF_MAX_PACKET THEN 0 ELSE Smaller(left, (NF_MAX_PACKET - off) \div len)

write_template_flowset(off, fields) ==
  LET len == Padded(8 + 4 * Len(fields)) IN IF len > NF_MAX_PACKET - off THEN 0 ELSE len

write_ipfix_template(fields) == 8 + 4 * Len(fields)

-----------------------------------------------------------------------------
\* The places of the flows of an address family among the first so many.
Indices(b, af, upto) ==
  {i \in 1 .. Smaller(Len(Batches[b]), upto) : Batches[b][i].af = af}

Upto(b) == IF exp.version = 10 THEN IPFIX_MAX_FLOWS ELSE Len(Batches[b])

LeftV4 == call.n4 - call.sent4
LeftV6 == call.n6 - call.sent6

\* A datagram: its templates, its numbers of records, its length and the
\* highest offset written on the way.
Datagram(tmpl, k4, k6, len, high) ==
  [tmpl |-> tmpl, k4 |-> k4, k6 |-> k6, len |-> len, high |-> high]

\* IPv6 flows are passed over.
export_v5 ==
  LET k == Smaller(LeftV4, NFV5_MAX_RECORDS)
      len == NFV5_HEADER_LEN + k * NFV5_RECORD_LEN
  IN  Datagram({}, k, 0, len, len)

\* The header of the second set is not counted: a mutant.
V9HeaderForgotten ==
  LET t == IF need_template(exp, now) THEN 2 * write_template_flowset(NFV9_HEADER_LEN, tmpl_v4_fields) ELSE 0
      a == NFV9_HEADER_LEN + t
      k4 == IF LeftV4 > 0 THEN Fitting(a + 4, TMPL_V4_RECORD_LEN, LeftV4) ELSE 0
      b == IF k4 > 0 THEN a + Padded(4 + k4 * TMPL_V4_RECORD_LEN) ELSE a
      k6 == IF LeftV6 > 0 THEN Fitting(b, TMPL_V6_RECORD_LEN, LeftV6) ELSE 0
      len == IF k6 > 0 THEN b + Padded(4 + k6 * TMPL_V6_RECORD_LEN) ELSE b
  IN  Datagram((IF t > 0 THEN {4, 6} ELSE {}), k4, k6, len, len)

\* Templates when they are due, the one for IPv6 only if the call has such
\* flows; then a set of IPv4 records and, if one still fits, of IPv6 records.
export_v9 ==
  LET due == need_template(exp, now)
      t4 == IF due THEN write_template_flowset(NFV9_HEADER_LEN, tmpl_v4_fields) ELSE 0
      t6 == IF due /\ call.n6 > 0
            THEN write_template_flowset(NFV9_HEADER_LEN + t4, tmpl_v6_fields) ELSE 0
      a == NFV9_HEADER_LEN + t4 + t6
      k4 == IF LeftV4 > 0 THEN Fitting(a + 4, TMPL_V4_RECORD_LEN, LeftV4) ELSE 0
      b == IF k4 > 0 THEN a + Padded(4 + k4 * TMPL_V4_RECORD_LEN) ELSE a
      k6 == IF LeftV6 > 0 THEN Fitting(b + 4, TMPL_V6_RECORD_LEN, LeftV6) ELSE 0
      len == IF k6 > 0 THEN b + Padded(4 + k6 * TMPL_V6_RECORD_LEN) ELSE b
  IN  Datagram((IF t4 > 0 THEN {4} ELSE {}) \cup (IF t6 > 0 THEN {6} ELSE {}), k4, k6, len, len)

\* The header of a set is written before it is known whether a record fits.
export_ipfix ==
  LET due == need_template(exp, now)
      a == IPFIX_HEADER_LEN + (IF due THEN write_ipfix_template(ipfix_v4_fields)
                                           + write_ipfix_template(ipfix_v6_fields) ELSE 0)
      k4 == IF LeftV4 > 0 THEN Fitting(a + 4, IPFIX_V4_REC_LEN, LeftV4) ELSE 0
      b == IF k4 > 0 THEN a + 4 + k4 * IPFIX_V4_REC_LEN ELSE a
      k6 == IF LeftV6 > 0 THEN Fitting(b + 4, IPFIX_V6_REC_LEN, LeftV6) ELSE 0
      len == IF k6 > 0 THEN b + 4 + k6 * IPFIX_V6_REC_LEN ELSE b
      high == IF LeftV6 > 0 /\ k6 = 0 THEN b + 4 ELSE len
  IN  Datagram((IF due THEN {4, 6} ELSE {}), k4, k6, len, high)

-----------------------------------------------------------------------------
NoExporter == [open |-> FALSE, version |-> 0, seq |-> 0, pktseq |-> 0, since |-> 0, last |-> 0, boot |-> 0]
NoCall == [busy |-> FALSE, batch |-> "none", n4 |-> 0, n6 |-> 0, sent4 |-> 0, sent6 |-> 0,
           uptime |-> 0, secs |-> 0, told |-> {}, count |-> 0, failed |-> FALSE]
NoDatagram == [tmpl |-> {}, k4 |-> 0, k6 |-> 0, len |-> 0, high |-> 0,
               ok |-> FALSE, seq |-> 0, secs |-> 0, uptime |-> 0, times |-> {}]

Init ==
  /\ now = SEC
  /\ exp = NoExporter /\ call = NoCall /\ out = NoDatagram
  /\ hist = [records |-> 0, dgrams |-> 0, known |-> {}, lost |-> FALSE, calls |-> 0]

\* The moments at which the clock may be read next.
Soon == {t \in {now, now + 1} : t <= MaxTime}

Tick == now < MaxTime /\ now' = now + 1 /\ UNCHANGED <<exp, call, out, hist>>

\* The exporter remembers the second it was made in.  Without a socket or an
\* address for the collector there is none.
ps_nf_exporter_create(version) ==
  /\ exp.version = 0
  /\ exp' = [NoExporter EXCEPT !.open = TRUE, !.version = version, !.boot = now_sec(now)]
  /\ UNCHANGED <<now, call, out, hist>>

ps_nf_exporter_send(b, t) ==
  /\ exp.open /\ ~call.busy /\ hist.calls < MaxCalls
  /\ Batches[b] # << >> /\ \A i \in DOMAIN Batches[b] : Batches[b][i].last <= now
  /\ call' = [NoCall EXCEPT !.busy = TRUE, !.batch = b,
                            !.n4 = Cardinality(Indices(b, 4, Upto(b))),
                            !.n6 = IF exp.version = 5 THEN 0 ELSE Cardinality(Indices(b, 6, Upto(b))),
                            !.uptime = IF exp.version = 9 THEN sys_uptime_ms(now) ELSE 0,
                            !.secs = IF exp.version = 9 THEN now_sec(t) ELSE 0]
  /\ now' = t
  /\ hist' = [hist EXCEPT !.calls = @ + 1]
  /\ UNCHANGED <<exp, out>>

-----------------------------------------------------------------------------
\* How the exporter's counters go on after a datagram.
After_v5(d, ok) == [exp EXCEPT !.seq = IF ok THEN (@ + d.k4) % Word ELSE @]

\* The sequence counts datagrams that were refused: a mutant.
After_v9_counts_all(d, ok) ==
  [exp EXCEPT !.pktseq = (@ + 1) % Word,
              !.since = (IF d.tmpl # {} THEN 0 ELSE @) + (IF ok THEN 1 ELSE 0),
              !.last = IF d.tmpl # {} THEN call.secs ELSE @]

\* Templates count as sent before they are.
After_v9(d, ok) ==
  [exp EXCEPT !.pktseq = IF ok THEN (@ + 1) % Word ELSE @,
              !.since = (IF d.tmpl # {} THEN 0 ELSE @) + (IF ok THEN 1 ELSE 0),
              !.last = IF d.tmpl # {} THEN call.secs ELSE @]

\* Templates count as sent before they are: a mutant.
After_ipfix_early(d, ok, t) ==
  [exp EXCEPT !.since = IF d.tmpl # {} THEN 0 ELSE IF ok THEN @ + 1 ELSE @,
              !.last = IF d.tmpl # {} THEN now_sec(t) ELSE @]

After_ipfix(d, ok, t) ==
  IF ~ok THEN exp
  ELSE [exp EXCEPT !.since = IF d.tmpl # {} THEN 0 ELSE @ + 1,
                   !.last = IF d.tmpl # {} THEN now_sec(t) ELSE @]

\* The flows of a family that come after the first so many of them.
Following(af, sent, k) ==
  LET of == Indices(call.batch, af, Upto(call.batch))
  IN  {i \in of : Cardinality({j \in of : j <= i}) \in sent + 1 .. sent + k}

Ids(d) == Following(4, call.sent4, d.k4) \cup Following(6, call.sent6, d.k6)

\* The flow at the end of a full datagram is in the next one too: a mutant.
AdvanceOneShort(d) ==
  [call EXCEPT !.sent4 = @ + d.k4 - (IF d.k4 > 1 /\ d.k4 < LeftV4 THEN 1 ELSE 0), !.sent6 = @ + d.k6,
               !.told = @ \cup Ids(d), !.count = @ + d.k4 + d.k6]

Advance(d) ==
  [call EXCEPT !.sent4 = @ + d.k4, !.sent6 = @ + d.k6,
               !.told = @ \cup Ids(d), !.count = @ + d.k4 + d.k6]

\* One round of the loop; t is the moment of the second look at the clock.
\* Only IPFIX gives up when a datagram is refused.
SendDatagram(d, ok, t) ==
  /\ call.busy /\ LeftV4 + LeftV6 > 0
  /\ now' = t
  /\ out' = [tmpl |-> d.tmpl, k4 |-> d.k4, k6 |-> d.k6, len |-> d.len, high |-> d.high, ok |-> ok,
             seq |-> IF exp.version = 9 THEN exp.pktseq ELSE exp.seq,
             secs |-> IF exp.version = 9 THEN call.secs ELSE now_sec(t),
             uptime |-> IF exp.version = 9 THEN call.uptime ELSE sys_uptime_ms(now),
             times |-> {<<Batches[call.batch][i].start, flow_ts_to_uptime(Batches[call.batch][i].start)>> : i \in Ids(d)}]
  /\ exp' = CASE exp.version = 5 -> After_v5(d, ok)
              [] exp.version = 9 -> After_v9(d, ok)
              [] exp.version = 10 -> After_ipfix(d, ok, t)
  /\ call' = IF exp.version = 10 /\ ~ok THEN [Advance(d) EXCEPT !.busy = FALSE, !.failed = TRUE]
             ELSE Advance(d)
  /\ hist' = IF ok THEN [hist EXCEPT !.records = (@ + d.k4 + d.k6) % Word, !.dgrams = (@ + 1) % Word,
                                     !.known = @ \cup d.tmpl]
             ELSE [hist EXCEPT !.lost = @ \/ d.tmpl # {}]

Step_v5(ok, t) == exp.version = 5 /\ SendDatagram(export_v5, ok, t)
Step_v9(ok, t) == exp.version = 9 /\ SendDatagram(export_v9, ok, t)
Step_ipfix(ok, t) == exp.version = 10 /\ SendDatagram(export_ipfix, ok, t)

\* The flows handed over are counted, whatever became of them.
Return ==
  /\ call.busy /\ LeftV4 + LeftV6 = 0
  /\ call' = [call EXCEPT !.busy = FALSE]
  /\ exp' = IF exp.version = 5 THEN exp
            ELSE [exp EXCEPT !.seq = (@ + Len(Batches[call.batch])) % Word]
  /\ UNCHANGED <<now, out, hist>>

ps_nf_exporter_destroy ==
  /\ exp.open /\ ~call.busy
  /\ exp' = [exp EXCEPT !.open = FALSE]
  /\ UNCHANGED <<now, call, out, hist>>

Next ==
  \/ Tick \/ Return \/ ps_nf_exporter_destroy
  \/ \E v \in Versions : ps_nf_exporter_create(v)
  \/ \E t \in Soon : \/ \E b \in DOMAIN Batches : ps_nf_exporter_send(b, t)
                     \/ \E ok \in BOOLEAN : Step_v5(ok, t) \/ Step_v9(ok, t) \/ Step_ipfix(ok, t)

Spec == Init /\ [][Next]_vars

-----------------------------------------------------------------------------
\* The values the state may take.
TypeOK ==
  /\ now \in SEC .. MaxTime
  /\ exp.version \in Versions \cup {0} /\ {exp.seq, exp.pktseq} \subseteq 0 .. Word - 1
  /\ exp.since \in 0 .. TEMPLATE_RESEND_PKTS /\ exp.last \in Nat /\ exp.boot \in Nat
  /\ call.sent4 \in 0 .. call.n4 /\ call.sent6 \in 0 .. call.n6

\* No datagram outgrows the buffer it is put together in, not even by the
\* header of a set that is taken back (export_v9, export_ipfix).
DatagramsFit ==
  out.high <= (IF exp.version = 5 THEN NFV5_HEADER_LEN + NFV5_MAX_RECORDS * NFV5_RECORD_LEN
               ELSE NF_MAX_PACKET)

Eligible ==
  {i \in DOMAIN Batches[call.batch] :
     /\ exp.version = 5 => Batches[call.batch][i].af = 4
     /\ exp.version = 10 => i <= IPFIX_MAX_FLOWS}

\* A call puts every flow it can carry into exactly one datagram; only an
\* IPFIX call that was refused a datagram stops short (the export loops).
EachFlowOnce ==
  /\ call.count = Cardinality(call.told)
  /\ call.batch # "none" /\ ~call.busy /\ ~call.failed => call.told = Eligible

\* A collector counts what it lost from the headers: the sequence of a v5
\* datagram is the number of records sent before it, that of a v9 datagram
\* the number of datagrams (flow_sequence, v9_pkt_sequence).
SequencesCount ==
  /\ exp.version = 5 => (out.seq + (IF out.ok THEN out.k4 ELSE 0)) % Word = hist.records
  /\ exp.version = 9 => (out.seq + (IF out.ok THEN 1 ELSE 0)) % Word = hist.dgrams

\* Records go out with or after their template: in IPFIX always, in v9 for
\* IPv4 as long as no datagram with templates was refused (need_template).
TemplatesFirst ==
  out.ok => /\ exp.version = 10 => (out.k4 > 0 => 4 \in hist.known) /\ (out.k6 > 0 => 6 \in hist.known)
            /\ exp.version = 9 /\ ~hist.lost => (out.k4 > 0 => 4 \in hist.known)

\* A record is laid out as its template says and takes the room that was
\* reckoned with (the template tables and the write_ functions).
RecordsDescribed ==
  /\ exp.version = 5 => Width(V5Record) = NFV5_RECORD_LEN
  /\ exp.version = 9 /\ out.k4 > 0 =>
       write_v4_data_record = tmpl_v4_fields /\ Width(write_v4_data_record) = TMPL_V4_RECORD_LEN
  /\ exp.version = 9 /\ out.k6 > 0 =>
       write_v6_data_record = tmpl_v6_fields /\ Width(write_v6_data_record) = TMPL_V6_RECORD_LEN
  /\ exp.version = 10 /\ out.k4 > 0 =>
       write_ipfix_v4_record = ipfix_v4_fields /\ Width(write_ipfix_v4_record) = IPFIX_V4_REC_LEN
  /\ exp.version = 10 /\ out.k6 > 0 =>
       write_ipfix_v6_record = ipfix_v6_fields /\ Width(write_ipfix_v6_record) = IPFIX_V6_REC_LEN

\* A collector gets back the time of a flow from the header's two clocks and
\* the record's uptime, or a second more when the clock moved between the two
\* readings (sys_uptime_ms, flow_ts_to_uptime).
TimesRecovered ==
  exp.version \in {5, 9} =>
    \A p \in out.times :
      now_sec(p[1]) >= exp.boot => (out.secs * SEC - out.uptime + p[2] - p[1]) % Word \in {0, SEC % Word}

\* A collector reads back what the call was given: every flow once, laid out
\* as described, with its times (export_v5, export_v9, export_ipfix).
CollectorReads == TypeOK /\ EachFlowOnce /\ RecordsDescribed /\ TimesRecovered
=============================================================================
