---------------------------- MODULE ListenNames -----------------------------
(***************************************************************************)
(* The listeners that read names: DNS and mDNS (dns_listener.c), NetBIOS   *)
(* and LLMNR (netbios_listener.c).                                         *)
(*                                                                         *)
(* The names of a message are bytes: 0 ends a name, 1 .. 63 start a label, *)
(* 192 followed by a byte points to that offset, other values from 64 up   *)
(* are reserved.  The records of a message are parts; the value of a part  *)
(* is the offset of its name within `wire' (c) and its data (v).           *)
(* Numbers of questions, answers, authority and additional records are     *)
(* f.counts; f.qr is the response bit.                                     *)
(***************************************************************************)
EXTENDS ListenFrames

CONSTANTS
  NameMax,      \* DNS_MAX_NAME (256): size of the buffer a name is written to
  HopMax,       \* DNS_DECOMP_LIMIT (10): pointers followed in one name
  AnswerMax,    \* DNS_MAX_ANSWERS (32)
  JsonAnswers   \* answers that fit into the 4096 bytes of the event

ASSUME NamesAssumption ==
  NameMax \in Nat \ {0} /\ HopMax \in Nat /\ AnswerMax \in Nat \ {0} /\ JsonAnswers \in Nat

DOT == 46
Failed == [n |-> -1, name |-> << >>]

At(pkt, i) == pkt[i + 1]
Reserved(b) == b >= 64 /\ b < 192
Pointer(b) == b >= 192
Target(pkt, cur) == (At(pkt, cur) % 64) * 256 + At(pkt, cur + 1)

\* A label appended to what is already written, with a dot before it unless
\* it is the first.
WithLabel(out, pkt, cur, n) ==
  (IF out = << >> THEN out ELSE Append(out, DOT)) \o SubSeq(pkt, cur + 2, cur + 1 + n)

RECURSIVE Decompress(_, _, _, _, _, _)
Decompress(pkt, off, cur, used, hops, out) ==
  IF cur >= Len(pkt)
  THEN IF used = -1 THEN Failed ELSE [n |-> used, name |-> out]
  ELSE
  LET b == At(pkt, cur) IN
  CASE b = 0 ->
         [n |-> IF used = -1 THEN cur - off + 1 ELSE used, name |-> out]
    [] Pointer(b) ->
         IF cur + 1 >= Len(pkt) \/ hops + 1 > HopMax \/ Target(pkt, cur) >= Len(pkt)
         THEN Failed
         ELSE Decompress(pkt, off, Target(pkt, cur),
                         IF used = -1 THEN cur - off + 2 ELSE used, hops + 1, out)
    [] Reserved(b) -> Failed
    [] OTHER ->
         IF cur + 1 + b > Len(pkt) \/ Len(WithLabel(out, pkt, cur, b)) >= NameMax
         THEN Failed
         ELSE Decompress(pkt, off, cur + 1 + b, used, hops, WithLabel(out, pkt, cur, b))

\* The bytes behind a pointer count as well: a mutant.
DecompressCountsTarget(pkt, off) ==
  LET r == Decompress(pkt, off, off, -1, 0, << >>) IN
  IF r.n = -1 THEN r ELSE [r EXCEPT !.n = IF Len(r.name) + 2 > @ THEN Len(r.name) + 2 ELSE @]

dns_decompress_name(pkt, off) == Decompress(pkt, off, off, -1, 0, << >>)

RECURSIVE Skip(_, _, _)
Skip(pkt, off, cur) ==
  IF cur >= Len(pkt) THEN -1
  ELSE LET b == At(pkt, cur) IN
       CASE b = 0        -> cur - off + 1
         [] Pointer(b)   -> IF cur + 1 >= Len(pkt) THEN -1 ELSE cur - off + 2
         [] Reserved(b)  -> -1
         [] OTHER        -> Skip(pkt, off, cur + 1 + b)

dns_skip_name(pkt, off) == Skip(pkt, off, off)

\* The decoder of netbios_listener.c: a pointer out of the message ends the
\* name, reserved labels are read as long ones, a long name is cut.
RECURSIVE Decode(_, _, _, _, _, _)
Decode(pkt, off, cur, used, hops, out) ==
  IF cur >= Len(pkt) THEN [n |-> used, name |-> out]
  ELSE
  LET b    == At(pkt, cur)
      long == WithLabel(out, pkt, cur, b)
  IN
  CASE b = 0 ->
         [n |-> IF used < 0 THEN cur - off + 1 ELSE used, name |-> out]
    [] Pointer(b) ->
         IF cur + 1 >= Len(pkt) \/ hops + 1 > HopMax THEN Failed
         ELSE Decode(pkt, off, Target(pkt, cur),
                     IF used < 0 THEN cur - off + 2 ELSE used, hops + 1, out)
    [] OTHER ->
         IF cur + 1 + b > Len(pkt) THEN Failed
         ELSE Decode(pkt, off, cur + 1 + b, used, hops,
                     SubSeq(long, 1, IF Len(long) < NameMax THEN Len(long) ELSE NameMax - 1))

dns_decode_name(pkt, off) == Decode(pkt, off, off, -1, 0, << >>)

-----------------------------------------------------------------------------
\* Offset of the payload behind the extension headers of an IPv6 frame; the
\* type of an f.ext part is the header that follows it.
RECURSIVE StripIpv6(_, _, _, _)
StripIpv6(f, next, cur, i) ==
  CASE cur >= f.len -> -1
    [] cur < f.len /\ next = 17 ->
         IF cur + UDP_HDR_LEN > f.len THEN -1 ELSE cur + UDP_HDR_LEN
    [] cur < f.len /\ next \in {0, 43, 60} ->
         IF cur + 2 > f.len THEN -1
         ELSE StripIpv6(f, f.ext[i].t, cur + (f.ext[i].n + 1) * 8, i + 1)
    [] cur < f.len /\ next = 44 ->
         IF cur + 8 > f.len THEN -1 ELSE StripIpv6(f, f.ext[i].t, cur + 8, i + 1)
    [] OTHER -> -1

strip_headers(f) ==
  LET v4 == ETH_HDR_LEN + f.ihl + UDP_HDR_LEN IN
  CASE f.eth = "ip4" ->
         IF f.len >= ETH_HDR_LEN + 20 /\ f.ihl >= 20 /\ v4 <= f.len /\ f.proto = 17
         THEN v4 ELSE -1
    [] f.eth = "ip6" ->
         IF f.len >= ETH_HDR_LEN + IPV6_HDR_LEN
         THEN StripIpv6(f, f.proto, ETH_HDR_LEN + IPV6_HDR_LEN, 1) ELSE -1
    [] OTHER -> -1

Answer(name, p, data, target) ==
  [name |-> name, t |-> p.t, data |-> data, target |-> target]

\* Keeps the record of an answer section; a PTR is kept if its name decodes.
KeepAnswer(answers, f, p, name) ==
  LET ptr == dns_decompress_name(f.wire, p.sub[1].c) IN
  CASE Len(answers) >= AnswerMax -> answers
    [] Len(answers) < AnswerMax /\ (<<p.t, p.n>> \in {<<1, 4>>, <<28, 16>>}) ->
         Append(answers, Answer(name, p, p.v, << >>))
    [] Len(answers) < AnswerMax /\ p.t = 12 ->
         IF ptr.n < 0 THEN answers ELSE Append(answers, Answer(name, p, "", ptr.name))
    [] OTHER -> Append(answers, Answer(name, p, "", << >>))

\* Client subnet and server identity of an OPT record; an address of another
\* family than its length leaves no subnet.
EdnsOptions(w, p) ==
  Walk(p.sub, p.n, LAMBDA o : 4 + o.n, LAMBDA o : FALSE,
       LAMBDA x, o :
         CASE o.t = 8 /\ o.n >= 4 ->
                [x EXCEPT !.has_ecs = TRUE, !.ecs = IF o.v = "" THEN @ ELSE o.v]
           [] o.t = 3 /\ o.n > 0 -> [x EXCEPT !.has_nsid = TRUE, !.nsid = o.v]
           [] OTHER -> x,
       w)

QuestionStep(w, f, p, first) ==
  LET nm == dns_decompress_name(f.wire, p.c) IN
  IF nm.n < 0 \/ w.pos + nm.n + 4 > w.end THEN [w EXCEPT !.go = "abort"]
  ELSE [w EXCEPT !.pos = @ + nm.n + 4, !.query = IF first THEN nm.name ELSE @]

\* Authority records are kept like answers: a mutant.
RecordStepAll(w, f, p, inAnswers) ==
  LET nm == dns_decompress_name(f.wire, p.c) IN
  IF nm.n < 0 \/ w.pos + nm.n + 10 + p.n > w.end THEN [w EXCEPT !.go = "abort"]
  ELSE [w EXCEPT !.pos = @ + nm.n + 10 + p.n,
                 !.answers = KeepAnswer(@, f, p, nm.name)]

RecordStep(w, f, p, inAnswers) ==
  LET nm == dns_decompress_name(f.wire, p.c) IN
  IF nm.n < 0 \/ w.pos + nm.n + 10 + p.n > w.end THEN [w EXCEPT !.go = "abort"]
  ELSE [w EXCEPT !.pos = @ + nm.n + 10 + p.n,
                 !.answers = IF inAnswers THEN KeepAnswer(@, f, p, nm.name) ELSE @]

AdditionalStep(w, f, p) ==
  LET n == dns_skip_name(f.wire, p.c) IN
  IF n < 0 \/ w.pos + n + 10 + p.n > w.end THEN [w EXCEPT !.go = "stop"]
  ELSE [w EXCEPT !.pos = @ + n + 10 + p.n,
                 !.edns = IF p.t = 41 THEN EdnsOptions(@, p) ELSE @]

\* The k-th part of the message, in the section its position puts it.
MessageStep(w, f, k) ==
  LET qd == f.counts[1]
      an == qd + f.counts[2]
      ns == an + f.counts[3]
      ar == ns + f.counts[4]
  IN
  CASE w.go # "go" \/ w.pos >= w.end \/ k > ar -> w
    [] w.go = "go" /\ w.pos < w.end /\ k <= qd -> QuestionStep(w, f, f.parts[k], k = 1)
    [] w.go = "go" /\ w.pos < w.end /\ qd < k /\ k <= ns ->
         RecordStep(w, f, f.parts[k], k <= an)
    [] w.go = "go" /\ w.pos < w.end /\ ns < k /\ k <= ar ->
         IF w.answers = << >> THEN [w EXCEPT !.go = "abort"]
         ELSE AdditionalStep(w, f, f.parts[k])

\* The value written for the key "edns": an empty string of which only the
\* closing quote is taken back, then the object.
QUOTE == "quote"
EdnsJson(e) ==
  IF ~e.has_ecs /\ ~e.has_nsid THEN << >>
  ELSE SubSeq(<<QUOTE, QUOTE>>, 1, 1) \o <<"{">>
       \o (IF e.has_ecs THEN <<e.ecs>> ELSE << >>)
       \o (IF e.has_nsid THEN <<e.nsid>> ELSE << >>) \o <<"}">>

TypeStr(t) ==
  CASE t = 1 -> "A" [] t = 28 -> "AAAA" [] t = 12 -> "PTR" [] t = 5 -> "CNAME"
    [] t = 2 -> "NS" [] OTHER -> "OTHER"

DnsEvent(w) ==
  [Event("discovery.dns", << >>) EXCEPT
     !.device_type = TypeStr(w.answers[1].t),
     !.query = IF w.query # << >> THEN w.query ELSE w.answers[1].name,
     !.list  = w.answers, !.edns = EdnsJson(w.edns)]

dns_parse_and_publish(f, off) ==
  LET w == FoldLeft(LAMBDA x, k : MessageStep(x, f, k),
             [go |-> "go", pos |-> 12, end |-> f.len - off, query |-> << >>,
              answers |-> << >>,
              edns |-> [has_ecs |-> FALSE, ecs |-> "", has_nsid |-> FALSE, nsid |-> ""]],
             [k \in 1 .. Len(f.parts) |-> k])
  IN  IF f.len - off < 12 \/ f.qr = 0 \/ w.go = "abort" \/ w.answers = << >>
         \/ Len(w.answers) > JsonAnswers
      THEN << >> ELSE <<DnsEvent(w)>>

\* Any UDP frame is tried: the port is not looked at.
dns_on_packet(st, f) ==
  LET off == strip_headers(f) IN
  IF off < 0 THEN << >> ELSE dns_parse_and_publish(f, off)

-----------------------------------------------------------------------------
(* NetBIOS.  sub[1] of a part is its name: t the label's length byte, v the  *)
(* decoded name, n the suffix, c = 1 if it has bytes outside A .. Z;         *)
(* sub[2] of an NBSTAT record holds its name table: c entries are announced, *)
(* each [t: suffix, n: group bit, v: name].                                  *)

NetbiosEvent(kind, ip, name, sfx, workgroup) ==
  [Event("discovery.netbios", <<kind, ip, name, sfx, workgroup>>)
   EXCEPT !.device_type = kind]

\* Name and suffix, both empty when the letters do not decode.
decode_nb_name(label) == IF label.c = 1 THEN <<"", 0>> ELSE <<label.v, label.n>>

Workgroup(p) ==
  LET tbl  == p.sub[2]
      read == {i \in 1 .. Len(tbl.sub) : i <= tbl.c /\ 1 + 18 * i <= p.n}
      hits == {i \in read : tbl.sub[i].n = 1 /\ tbl.sub[i].t = 0 /\ tbl.sub[i].v # ""}
  IN  IF hits = {} THEN "" ELSE tbl.sub[CHOOSE i \in hits : \A j \in hits : i <= j].v

NbnsAnswer(f, p) ==
  LET nm == decode_nb_name(p.sub[1]) IN
  CASE p.sub[1].t = 32 /\ p.t = 33 /\ p.n >= 1 ->
         <<NetbiosEvent("netbios_ns", f.sip, nm[1], ToString(nm[2]), Workgroup(p))>>
    [] p.sub[1].t = 32 /\ p.t = 32 ->
         <<NetbiosEvent("netbios_ns", f.sip, nm[1], ToString(nm[2]), "")>>
    [] OTHER -> << >>

\* A name is a label and a zero byte: a compression pointer counts as a label
\* of 192 bytes and runs out of the message.
NbSize(p) == 2 + p.sub[1].t + 10 + p.n

parse_nbns(f, len) ==
  LET qd == f.counts[1]
      an == f.counts[2]
      asked == FoldLeft(LAMBDA n, p : n + 2 + p.sub[1].t + 4, 0, SubSeq(f.parts, 1, qd))
  IN
  IF len < 12 \/ f.qr = 0 \/ an = 0 THEN << >>
  ELSE Walk(SubSeq(f.parts, qd + 1, IF qd + an < Len(f.parts) THEN qd + an ELSE Len(f.parts)),
            len - 12 - asked, NbSize, LAMBDA p : FALSE,
            LAMBDA evs, p : evs \o NbnsAnswer(f, p), << >>)

parse_llmnr(f, len) ==
  LET nm == dns_decode_name(f.wire, f.parts[1].c) IN
  IF len < 12 \/ f.counts[1] = 0 THEN << >>
  ELSE IF nm.n < 0 \/ nm.name = << >> THEN << >>
  ELSE <<[NetbiosEvent("llmnr", f.sip, "", "", "") EXCEPT !.query = nm.name]>>

\* f.flag: the name is closed by a zero byte.
parse_nbdg(f, len) ==
  LET label == f.parts[1].sub[1] IN
  IF len < 14 + 34 \/ label.t # 32 \/ f.flag # 1 \/ label.c = 1 THEN << >>
  ELSE <<NetbiosEvent("netbios_dg", f.sip, label.v, ToString(label.n), "")>>

netbios_on_packet(st, f) ==
  LET len == UdpPayload(f) IN
  CASE len >= 0 /\ f.dport = 137  -> parse_nbns(f, len)
    [] len >= 0 /\ f.dport = 138  -> parse_nbdg(f, len)
    [] len >= 0 /\ f.dport = 5355 -> parse_llmnr(f, len)
    [] OTHER -> << >>
=============================================================================
