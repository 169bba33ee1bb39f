---------------------------- MODULE ListenFrames ----------------------------
(***************************************************************************)
(* A captured Ethernet frame as the passive listeners of the agent see it. *)
(*                                                                         *)
(* Lengths are bytes, as in the code.  A body made of typed, counted parts *)
(* is the sequence of the parts its bytes spell, each [t, n, v, c, sub]:   *)
(* type, declared length, value, declared count and nested parts; `len'    *)
(* bytes of the frame were captured, so that the last parts may be missing *)
(* or cut short.                                                           *)
(* Names in DNS form stay bytes: `wire' is the part of the message that    *)
(* holds them.                                                             *)
(***************************************************************************)
EXTENDS Integers, Sequences, FiniteSets, SequencesExt

ETH_HDR_LEN  == 14
IPV6_HDR_LEN == 40
UDP_HDR_LEN  == 8

\* A frame that no listener takes; frames are built from it with EXCEPT.
NoFrame ==
  [handle |-> 0, eth |-> "other", llc |-> "", dst |-> "ucast", src |-> "m0", len |-> 0,
   ver |-> 4, ihl |-> 20, proto |-> 0, sip |-> "", dport |-> 0, ulen |-> 0,
   ext |-> << >>, type |-> 0, n |-> 0, plen |-> 0, flag |-> 0,
   mac |-> "", ip |-> "", qr |-> 0, counts |-> <<0, 0, 0, 0>>,
   parts |-> << >>, wire |-> << >>]

\* `end': the bytes of the frame up to the end of the part.
Part(t, n, v) == [t |-> t, n |-> n, v |-> v, c |-> 0, sub |-> << >>, end |-> 0]

\* A published event: the keys ctx_publish looks for, and the others in the
\* order of the JSON object; `query', `list' and `edns' are those of names.
Event(ch, fields) ==
  [ch |-> ch, ip |-> "", mac |-> "", hostname |-> "", device_type |-> "",
   fields |-> fields, query |-> << >>, list |-> << >>, edns |-> << >>]

\* Walks the parts that fit into cap bytes, up to one that Stop rejects.
Walk(parts, cap, Size(_), Stop(_), Take(_, _), start) ==
  LET step(w, p) ==
        IF ~w.go \/ Stop(p) \/ w.off + Size(p) > cap
        THEN [w EXCEPT !.go = FALSE]
        ELSE [go |-> TRUE, off |-> w.off + Size(p), acc |-> Take(w.acc, p)]
  IN  FoldLeft(step, [go |-> TRUE, off |-> 0, acc |-> start], parts).acc

\* Bytes captured behind the first n bytes of the frame; -1 if fewer than n.
Behind(f, n) == IF f.len < n THEN -1 ELSE f.len - n

\* The UDP payload behind an IPv4 header, as the listeners that read the
\* length of the UDP header clamp it; -1 if the frame is not one.
UdpPayload(f) ==
  LET avail == Behind(f, ETH_HDR_LEN + f.ihl + UDP_HDR_LEN) IN
  IF f.len < ETH_HDR_LEN + 20 + UDP_HDR_LEN + 1 \/ f.eth # "ip4" \/ f.ver # 4
     \/ f.ihl < 20 \/ f.proto # 17 \/ avail < 0 \/ f.ulen < UDP_HDR_LEN
  THEN -1
  ELSE IF f.ulen - UDP_HDR_LEN > avail THEN avail ELSE f.ulen - UDP_HDR_LEN

Blank(n) == [i \in 1 .. n |-> ""]

\* Bit i of a flag byte.
Bit(x, i) == (x \div 2 ^ i) % 2
-----------------------------------------------------------------------------
(***************************************************************************)
(* The listeners below IP: neighbours (ARP and NDP), any broadcast, LLDP,  *)
(* CDP and spanning tree.  Each on_packet is an operator from the module's *)
(* state and a frame to the events it publishes.                           *)
(***************************************************************************)

Neighbor(ip, mac, fields) ==
  [Event("discovery.neighbor", fields) EXCEPT !.ip = ip, !.mac = mac]

\* f.flag tells whether hardware, protocol and address sizes are those of
\* IPv4 over Ethernet; f.type is the operation.
parse_arp(f) ==
  IF /\ f.len >= ETH_HDR_LEN + 28 /\ f.flag = 1 /\ f.type \in {1, 2}
     /\ f.mac # "zero" /\ f.ip # "0.0.0.0"
  THEN <<Neighbor(f.ip, f.mac, <<"arp", "", "host">>)>>
  ELSE << >>

\* The option walk reads past a part that does not fit: a mutant.
NdpOptionsUncut(opts, cap, want) ==
  Walk(opts, cap, LAMBDA p : 1, LAMBDA p : p.n = 0,
       LAMBDA mac, p : IF p.t = want THEN p.v ELSE mac, "")

\* The link-layer address of the last option of the wanted type.
ndp_walk_options(opts, cap, want) ==
  Walk(opts, cap, LAMBDA p : p.n * 8, LAMBDA p : p.n = 0,
       LAMBDA mac, p : IF p.t = want THEN p.v ELSE mac, "")

RS == 133
RA == 134
NS == 135
NA == 136
RD == 137

\* Bytes before the options of a message.
NdpFixed(type) ==
  CASE type = RS -> 8 [] type = RA -> 16 [] type \in {NS, NA} -> 24 [] OTHER -> 0

NdpName(type) ==
  CASE type = RS -> "rs" [] type = RA -> "ra" [] type = NS -> "ns"
    [] type = NA -> "na" [] OTHER -> "rd"

\* The message's own address and link-layer option; a neighbour solicitation
\* sent before its address is chosen comes from "::".
NdpMessage(f, plen) ==
  LET opts  == plen - NdpFixed(f.type)
      ll    == IF f.type = RD \/ opts <= 0 THEN ""
               ELSE ndp_walk_options(f.parts, opts, IF f.type = NA THEN 2 ELSE 1)
      mac   == IF ll # "" THEN ll ELSE f.src
      role  == IF f.type \in {RA, RD} \/ (f.type = NA /\ f.flag = 1)
               THEN "router" ELSE "host"
      known == IF f.type = NA THEN f.ip ELSE f.sip
  IN  IF opts < 0 THEN << >> ELSE <<Neighbor(known, mac, <<"ndp", NdpName(f.type), role>>)>>

parse_ndp(f) ==
  LET room == Behind(f, ETH_HDR_LEN + IPV6_HDR_LEN) IN
  IF room < 4 \/ f.ver # 6 \/ f.proto # 58 \/ f.plen < 4 \/ f.type \notin RS .. RD
  THEN << >> ELSE NdpMessage(f, IF f.plen > room THEN room ELSE f.plen)

neighbor_on_packet(st, f) ==
  CASE f.len < ETH_HDR_LEN -> << >>
    [] f.len >= ETH_HDR_LEN /\ f.eth = "arp" -> parse_arp(f)
    [] f.len >= ETH_HDR_LEN /\ f.eth = "ip6" -> parse_ndp(f)
    [] OTHER -> << >>

is_broadcast_or_multicast(dst) == dst \in {"bcast", "mcast", "stp"}

broadcast_on_packet(st, f) ==
  IF /\ f.len >= ETH_HDR_LEN + 20
     /\ is_broadcast_or_multicast(f.dst)
     /\ \/ f.eth = "ip4" /\ f.sip # "0.0.0.0"
        \/ f.eth = "ip6" /\ f.len >= ETH_HDR_LEN + IPV6_HDR_LEN /\ f.sip # "::"
  THEN <<Neighbor(f.sip, f.src, <<"broadcast", "", "host">>)>>
  ELSE << >>

-----------------------------------------------------------------------------
\* The value of an LLDP part is taken when it is long enough; a management
\* address that is not IPv4 has no value.
LldpTakes(p) ==
  \/ p.t \in {1, 2} /\ p.n >= 1
  \/ p.t = 3 /\ p.n >= 2
  \/ p.t \in {5, 6}
  \/ p.t = 7 /\ p.n >= 4
  \/ p.t = 8 /\ p.n >= 6 /\ p.v # ""

LldpTlvs(parts, cap) ==
  Walk(parts, cap, LAMBDA p : 2 + p.n, LAMBDA p : p.t = 0,
       LAMBDA fs, p : IF LldpTakes(p) THEN [fs EXCEPT ![p.t] = p.v] ELSE fs,
       Blank(8))

lldp_on_packet(st, f) ==
  IF f.len >= ETH_HDR_LEN + 2 /\ f.eth = "lldp"
  THEN <<[Event("discovery.lldp", LldpTlvs(f.parts, f.len - ETH_HDR_LEN))
          EXCEPT !.device_type = "lldp"]>>
  ELSE << >>

\* The first IPv4 address of an address block that has none yet.
parse_cdp_addresses(p, ip) ==
  IF p.n - 4 < 4 THEN ip
  ELSE Walk(SubSeq(p.sub, 1, IF p.c < Len(p.sub) THEN p.c ELSE Len(p.sub)),
            p.n - 8, LAMBDA q : q.n, LAMBDA q : FALSE,
            LAMBDA a, q : IF q.t = 1 /\ a = "" THEN q.v ELSE a, ip)

\* device, management address, port, capabilities, version, platform, VLAN
CdpTake(fs, p) ==
  CASE p.t \in {1, 3, 5, 6} -> [fs EXCEPT ![p.t] = p.v]
    [] p.t \in {2, 22} -> IF fs[2] = "" THEN [fs EXCEPT ![2] = parse_cdp_addresses(p, "")]
                          ELSE fs
    [] p.t = 4  -> IF p.n - 4 >= 4 THEN [fs EXCEPT ![4] = p.v] ELSE fs
    [] p.t = 10 -> IF p.n - 4 >= 2 THEN [fs EXCEPT ![7] = p.v] ELSE fs
    [] OTHER -> fs

CdpTlvs(parts, cap) ==
  Walk(parts, cap, LAMBDA p : p.n, LAMBDA p : p.n < 4, CdpTake, Blank(7))

cdp_on_packet(st, f) ==
  IF f.len >= 26 + 4 /\ f.llc = "cisco"
  THEN <<[Event("discovery.cdp", CdpTlvs(f.parts, f.len - 26))
          EXCEPT !.device_type = "cdp"]>>
  ELSE << >>

-----------------------------------------------------------------------------
RstpState(flags) ==
  CASE Bit(flags, 5) = 1 -> "forwarding"
    [] Bit(flags, 5) = 0 /\ Bit(flags, 4) = 1 -> "learning"
    [] Bit(flags, 5) = 0 /\ Bit(flags, 4) = 0 /\ (flags \div 4) % 4 = 3 -> "blocking"
    [] OTHER -> "discarding"

\* A module whose handle never gets assigned takes packets from none.
HandleMatches(st, f) == f.handle = st.pcap_handle

\* f.flag: the protocol id is zero; f.n: the flags.
stp_on_packet(st, f) ==
  LET bpdu == Behind(f, ETH_HDR_LEN + 3)
      change(b) == IF b = 1 THEN "change" ELSE "" IN
  IF ~HandleMatches(st, f) \/ bpdu < 4 \/ f.dst # "stp"
     \/ f.llc # "stp" \/ f.flag # 1 THEN << >>
  ELSE CASE f.type = 128 ->
              <<Event("discovery.stp", <<f.src, "", "tcn", "change">>)>>
         [] f.type \in {0, 2} /\ bpdu >= 35 ->
              <<Event("discovery.stp",
                  <<f.mac, f.ip, IF f.ver = 2 THEN RstpState(f.n) ELSE "forwarding",
                    change(Bit(f.n, 0))>>)>>
         [] OTHER -> << >>

stp_init == [pcap_handle |-> -1]

\* The state of the listeners that take frames from every handle: a name.
lldp_init == [iface |-> "eth0"]
-----------------------------------------------------------------------------
(***************************************************************************)
(* The listeners of single IP protocols: DHCP, multicast listener          *)
(* discovery, SSDP, OSPF and VRRP.                                         *)
(***************************************************************************)

Item(v) == [name |-> << >>, t |-> 0, data |-> v, target |-> << >>]

FirstOf(parts, n) == SubSeq(parts, 1, IF n < Len(parts) THEN n ELSE Len(parts))

-----------------------------------------------------------------------------
\* Options of a DHCPv4 message: type, host name, lease time, server.
Dhcp4Take(o, p) ==
  CASE p.t = 53 /\ p.n >= 1 -> [o EXCEPT ![1] = p.v]
    [] p.t = 12             -> [o EXCEPT ![2] = p.v]
    [] p.t = 51 /\ p.n >= 4 -> [o EXCEPT ![3] = p.v]
    [] p.t = 54 /\ p.n >= 4 -> [o EXCEPT ![4] = p.v]
    [] OTHER -> o

\* f.flag: the magic cookie is right; f.mac and f.ip: chaddr and yiaddr.
parse_dhcp4(f, len) ==
  LET o == Walk(f.parts, len - 240, LAMBDA p : IF p.t = 0 THEN 1 ELSE 2 + p.n,
                LAMBDA p : p.t = 255, Dhcp4Take, Blank(4))
  IN  IF len < 241 \/ f.flag # 1 \/ o[1] # "ack" THEN << >>
      ELSE <<[Event("discovery.dhcp", <<f.ip, o[3], o[4], "v4">>)
              EXCEPT !.mac = f.mac, !.hostname = o[2]]>>

\* The address of the last complete IAADDR of an IA_NA.
Dhcp6Address(ia, addr) ==
  Walk(ia.sub, ia.n - 12, LAMBDA p : 4 + p.n, LAMBDA p : FALSE,
       LAMBDA a, p : IF p.t = 5 /\ p.n >= 24 THEN p.v ELSE a, addr)

\* c: the type of the DUID; with a link address only types 1 and 3.
Dhcp6Take(o, p) ==
  CASE p.t = 3 /\ p.n >= 12 -> [o EXCEPT ![1] = Dhcp6Address(p, @)]
    [] p.t = 1 /\ <<p.c, p.n>> \in ({1} \X (14 .. 65535)) \cup ({3} \X (10 .. 65535)) -> [o EXCEPT ![2] = p.v]
    [] OTHER -> o

parse_dhcp6(f, len) ==
  LET o == Walk(f.parts, len - 4, LAMBDA p : 4 + p.n, LAMBDA p : FALSE,
                Dhcp6Take, Blank(2))
  IN  IF len < 4 \/ f.type # 7 \/ o[1] = "" THEN << >>
      ELSE <<[Event("discovery.dhcp", <<o[1], "v6">>) EXCEPT !.mac = o[2]]>>

dhcp_init == [pcap_handle |-> -1]

\* The handle is the one init stored, which nothing replaces afterwards.
dhcp_on_packet(st, f) ==
  LET len4 == Behind(f, ETH_HDR_LEN + f.ihl + UDP_HDR_LEN)
      len6 == Behind(f, ETH_HDR_LEN + IPV6_HDR_LEN + UDP_HDR_LEN)
  IN
  CASE f.handle # st.pcap_handle \/ f.proto # 17 -> << >>
    [] f.handle = st.pcap_handle /\ f.eth = "ip4" /\ f.proto = 17 ->
         IF f.len >= 42 /\ len4 > 0 /\ f.dport \in {67, 68}
         THEN parse_dhcp4(f, len4) ELSE << >>
    [] f.handle = st.pcap_handle /\ f.eth = "ip6" /\ f.proto = 17 ->
         IF len6 > 0 /\ f.dport \in {546, 547} THEN parse_dhcp6(f, len6) ELSE << >>
    [] OTHER -> << >>

-----------------------------------------------------------------------------
publish_mld_event(f, group, kind) ==
  [Event("discovery.mld", <<group, f.sip>>) EXCEPT !.device_type = kind]

\* <<bytes left, complete>> behind the extension headers; the size of a
\* header is kept in one byte.
MldHeaders(f) ==
  LET step(w, i) ==
        LET p    == f.ext[i]
            size == ((p.n + 1) * 8) % 256
        IN  IF ~w.go \/ w.next = 58 \/ w.left < 8 THEN w
            ELSE IF w.next \notin {0, 43, 44, 60} \/ size > w.left
                 THEN [w EXCEPT !.go = FALSE]
                 ELSE [w EXCEPT !.next = p.t, !.left = @ - size]
      w == FoldLeft(step, [go |-> TRUE, next |-> f.proto,
                           left |-> f.len - ETH_HDR_LEN - IPV6_HDR_LEN],
                    [i \in 1 .. Len(f.ext) |-> i])
  IN  IF w.go /\ w.next = 58 /\ w.left >= 1 THEN w.left ELSE -1

\* A record is published once its 20 bytes of header are there; n counts its
\* sources, c its auxiliary words.
MldV2(f, left) ==
  LET step(w, p) ==
        IF ~w.go \/ w.off + 20 > left THEN [w EXCEPT !.go = FALSE]
        ELSE [w EXCEPT !.off = @ + 20 + p.n * 16 + p.c * 4,
                       !.evs = Append(@, publish_mld_event(f, p.v, "v2report"))]
  IN  FoldLeft(step, [go |-> TRUE, off |-> 8, evs |-> << >>], FirstOf(f.parts, f.n)).evs

mld_init == [pcap_handle |-> -1, iface |-> "eth0"]

mld_on_packet(st, f) ==
  LET left == MldHeaders(f) IN
  IF f.handle # st.pcap_handle \/ f.len < ETH_HDR_LEN + IPV6_HDR_LEN + 1
     \/ f.eth # "ip6" \/ f.ver # 6 \/ left < 0 THEN << >>
  ELSE CASE f.type \in {130, 131, 132} /\ left >= 24 ->
              <<publish_mld_event(f, f.ip, CASE f.type = 130 -> "query"
                                             [] f.type = 131 -> "report"
                                             [] OTHER -> "done")>>
         [] f.type = 143 /\ left >= 10 -> MldV2(f, left)
         [] OTHER -> << >>

-----------------------------------------------------------------------------
\* Headers of an SSDP message (NT, USN, LOCATION, SERVER are 1 .. 4, an empty
\* line is 0).  c: bytes of the header's name; n: bytes of the line with its
\* end.  The last line counts although the capture cut it.
SsdpLine(w, p, len) ==
  LET room == len - w.off IN
  IF ~w.go \/ room <= 0 \/ (p.t = 0 /\ room >= 2) THEN [w EXCEPT !.go = FALSE]
  ELSE [w EXCEPT !.off = @ + p.n,
                 !.fs = IF p.t \in 1 .. 4 /\ room >= p.c
                        THEN [@ EXCEPT ![p.t] = IF room >= p.n \/ room = p.n - 2
                                                THEN p.v ELSE "cut"]
                        ELSE @]

\* f.flag: the message starts with NOTIFY, HTTP/1. or M-SEAR; f.n: the length
\* of its first line.
ssdp_on_packet(st, f) ==
  LET len == UdpPayload(f)
      w   == FoldLeft(LAMBDA x, p : SsdpLine(x, p, len),
                      [go |-> TRUE, off |-> f.n, fs |-> Blank(4)], f.parts)
  IN  IF len < 6 \/ f.dport # 1900 \/ f.flag # 1 THEN << >>
      ELSE <<[Event("discovery.ssdp", <<f.sip>> \o w.fs) EXCEPT !.device_type = "ssdp"]>>

-----------------------------------------------------------------------------
\* The header is complete and of the protocol.
Ip4Proto(f, proto, need) ==
  /\ f.len >= ETH_HDR_LEN + 20 + need /\ f.eth = "ip4" /\ f.ver = 4 /\ f.ihl >= 20
  /\ f.proto = proto /\ ETH_HDR_LEN + f.ihl + need <= f.len

\* Neighbours fill the rest of the capture: the length in the OSPF header is
\* not looked at.
ospf_on_packet(st, f) ==
  LET hello == Behind(f, ETH_HDR_LEN + f.ihl + 24)
      count == IF (hello - 20) \div 4 < 32 THEN (hello - 20) \div 4 ELSE 32
  IN  IF ~Ip4Proto(f, 89, 24) \/ f.type # 1 \/ hello < 20 THEN << >>
      ELSE <<[Event("discovery.ospf", <<f.ip, f.sip>>) EXCEPT
                !.device_type = "ospf_hello",
                !.list = [i \in 1 .. Len(FirstOf(f.parts, count)) |-> Item(f.parts[i].v)]]>>

\* Trusts the announced number of addresses: a mutant.
VrrpCountTrusted(f, avail) == IF f.n > 16 THEN 16 ELSE f.n

\* The announced number of addresses, cut to those captured and to MAX_VIPS.
VrrpCount(f, avail) ==
  LET c == IF 8 + f.n * 4 > avail THEN (avail - 8) \div 4 ELSE f.n
  IN  IF c > 16 THEN 16 ELSE c

vrrp_on_packet(st, f) ==
  LET n == VrrpCount(f, f.len - ETH_HDR_LEN - f.ihl) IN
  IF ~Ip4Proto(f, 112, 8) THEN << >>
  ELSE <<[Event("discovery.vrrp", <<f.sip>>) EXCEPT
            !.device_type = "vrrp",
            !.list = [i \in 1 .. n |->
                        Item(IF i <= Len(f.parts) THEN f.parts[i].v ELSE "beyond")]]>>
=============================================================================
