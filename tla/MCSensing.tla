----------------------------- MODULE MCSensing ------------------------------
(***************************************************************************)
(* Four plans: the frames of three hosts that share addresses; names of up *)
(* to five bytes and DNS messages; one frame of every other protocol, cut  *)
(* at every length; and interfaces that come, go and change.               *)
(***************************************************************************)
EXTENDS Sensing

\* Sets where the parts of a body end, given the bytes before and each size.
Lay(start, Size(_), parts) ==
  FoldLeft(LAMBDA out, p :
             Append(out, [p EXCEPT !.end = (IF out = << >> THEN start ELSE Last(out).end) + Size(p)]),
           << >>, parts)

Cut(f) == {[f EXCEPT !.len = n] : n \in 0 .. f.len}

Udp4(dport, n) ==
  [NoFrame EXCEPT !.eth = "ip4", !.dst = "mcast", !.proto = 17, !.sip = "10.0.0.9",
                  !.dport = dport, !.ulen = 8 + n, !.len = 42 + n]
Udp6(dport, n) ==
  [NoFrame EXCEPT !.eth = "ip6", !.ver = 6, !.dst = "mcast", !.proto = 17, !.sip = "fe80::9",
                  !.dport = dport, !.ulen = 8 + n, !.len = 62 + n]
Icmp6(type, n) ==
  [NoFrame EXCEPT !.eth = "ip6", !.ver = 6, !.dst = "mcast", !.proto = 58, !.sip = "fe80::9",
                  !.type = type, !.plen = n, !.len = 54 + n]

-----------------------------------------------------------------------------
Arp(mac, ip) ==
  [NoFrame EXCEPT !.eth = "arp", !.dst = "bcast", !.src = mac, !.len = 42, !.flag = 1,
                  !.type = 1, !.mac = mac, !.ip = ip]
Solicit(mac, sip) == [Icmp6(NS, 24) EXCEPT !.src = mac, !.sip = sip]

HostFrames ==
  {Arp("m1", "ipA"), Arp("m1", "ipB"), Arp("m2", "ipA"), Arp("m2", "ipC"), Arp("m3", "ipB"),
   Solicit("m2", "::"), Solicit("m3", "::"), [Udp4(9, 4) EXCEPT !.src = "m3", !.sip = "ipC"]}

-----------------------------------------------------------------------------
Wires ==
  UNION {[1 .. n -> {0, 1, 2, 64, 192}] : n \in 1 .. 4}
  \cup {w \in [1 .. 5 -> {0, 1, 192}] : w[1] = 1} \cup {<<3, 97, 97, 97, 192, 0>>}

Llmnr(wire) ==
  [Udp4(5355, 12 + Len(wire) + 4) EXCEPT !.counts = <<1, 0, 0, 0>>, !.wire = wire,
     !.parts = <<Part(0, 0, "")>>]

At0(p, off) == [p EXCEPT !.c = off]
Ptr(off) == [Part(12, 2, "") EXCEPT !.c = 3, !.sub = <<At0(Part(0, 0, ""), off)>>]
Opt(opts) == [Part(41, 24, "") EXCEPT !.c = 5, !.sub = opts]
Ecs == Part(8, 8, "10.1.0.0/16")
Nsid == Part(3, 4, "ns1")
DnsSize(p) == IF p.t = 0 THEN 7 ELSE (IF p.t = 41 THEN 1 ELSE 2) + 10 + p.n

\* name "a" at 0, a pointer to it at 3, the root at 5, a bad name at 6.
DnsWire == <<1, 97, 0, 192, 0, 0, 64>>
Dns(counts, parts) ==
  LET laid == Lay(54, DnsSize, parts) IN
  [Udp4(5353, 12) EXCEPT !.qr = 1, !.counts = counts, !.wire = DnsWire, !.parts = laid,
     !.len = Last(laid).end, !.ulen = Last(laid).end - 34]

Q == Part(0, 0, "")
A4(v) == At0(Part(1, 4, v), 3)
NsRecord == At0(Part(2, 3, ""), 3)
DnsFrames ==
  Cut(Dns(<<1, 2, 1, 1>>, <<Q, A4("1.1.1.1"), Ptr(0), NsRecord, Opt(<<Ecs, Nsid>>)>>))
  \cup {Dns(<<0, 3, 0, 0>>, <<A4("1.1.1.1"), A4("2.2.2.2"), A4("3.3.3.3")>>),
        Dns(<<0, 1, 1, 1>>, <<Ptr(6), NsRecord, Opt(<<Nsid>>)>>),
        Dns(<<1, 1, 0, 1>>, <<Q, NsRecord, Opt(<<[Ecs EXCEPT !.n = 21]>>)>>)}
  \cup {[Dns(<<1, 1, 0, 0>>, <<Q, At0(Part(28, 16, "::7"), 3)>>) EXCEPT !.eth = "ip6", !.ver = 6,
           !.proto = h, !.ext = x, !.sip = "::", !.len = 14 + 40 + y + 8 + 12 + 7 + 28] :
           <<h, x, y>> \in {<<17, << >>, 0>>, <<0, <<Part(44, 0, ""), Part(17, 0, "")>>, 16>>,
                            <<43, <<Part(6, 0, "")>>, 8>>}}

NbLabel(v, sfx) == [Part(32, sfx, v) EXCEPT !.sub = << >>]
NbEntry(sfx, grp, v) == [Part(sfx, grp, v) EXCEPT !.c = 0]
NbTable == [Part(0, 0, "") EXCEPT !.c = 2, !.sub = <<NbEntry(32, 0, "PC"), NbEntry(0, 1, "WG")>>]
Nbns(type, n, label) ==
  [Udp4(137, 12 + 34 + 10 + n) EXCEPT !.qr = 1, !.counts = <<0, 1, 0, 0>>,
     !.wire = <<32>> \o [i \in 1 .. 32 |-> 65] \o <<0>>,
     !.parts = <<[Part(type, n, "") EXCEPT !.sub = <<label, NbTable>>]>>]
NetbiosFrames ==
  Cut(Nbns(33, 37, NbLabel("PC", 0)))
  \cup {Nbns(32, 6, NbLabel("PC", 32)), Nbns(32, 6, [NbLabel("", 0) EXCEPT !.c = 1]),
        Nbns(33, 6, [NbLabel("PC", 0) EXCEPT !.t = 192])}
  \cup {[Udp4(138, n) EXCEPT !.flag = k, !.parts = <<[Part(0, 0, "") EXCEPT !.sub = <<NbLabel("PC", 0)>>]>>] :
          n \in {47, 48}, k \in {0, 1}}

NameFrames == {Llmnr(w) : w \in Wires} \cup DnsFrames \cup NetbiosFrames

-----------------------------------------------------------------------------
Body(f, start, Size(_), parts) ==
  LET laid == Lay(start, Size, parts) IN
  [f EXCEPT !.parts = laid, !.len = Last(laid).end, !.ulen = Last(laid).end - 34]

TwoMore(p) == 2 + p.n
FourMore(p) == 4 + p.n
Four(p) == 4
Own(p) == p.n

LldpFrame ==
  Body([NoFrame EXCEPT !.eth = "lldp", !.dst = "mcast"], 14, TwoMore,
       <<Part(1, 7, "chassis"), Part(2, 1, "port"), Part(3, 2, "ttl"), Part(5, 0, ""),
         Part(5, 3, "sysname"), Part(7, 4, "caps"), Part(8, 5, "short"), Part(8, 12, "mgmt"),
         Part(0, 0, ""), Part(6, 4, "descr")>>)

CdpAddr == [Part(2, 21, "") EXCEPT !.c = 1, !.sub = <<Part(1, 13, "cdp4")>>]
CdpFrame ==
  Body([NoFrame EXCEPT !.llc = "cisco", !.dst = "mcast"], 26, Own,
       <<Part(1, 6, "device"), CdpAddr, Part(3, 7, "portid"), Part(4, 6, "bad"),
         Part(4, 8, "cdpcaps"), Part(6, 5, "platform"), Part(10, 6, "vlan"),
         Part(5, 3, "stopped"), Part(5, 9, "version")>>)

\* A router advertisement whose option the capture may cut.
NdpFrames ==
  {[Body([Icmp6(t, 0) EXCEPT !.src = "m1", !.flag = 1, !.ip = "fe80::a"], 54 + NdpFixed(t),
         LAMBDA p : 8 * p.n, <<Part(5, 1, "mtu"), Part(IF t = NA THEN 2 ELSE 1, 1, "lladdr")>>)
    EXCEPT !.plen = NdpFixed(t) + 16] : t \in {RS, RA, NS, NA}}
  \cup {[Icmp6(RD, 40) EXCEPT !.src = "m2"], Icmp6(200, 8)}

DhcpFrames ==
  {[Body([Udp4(68, 240) EXCEPT !.flag = 1, !.mac = "m1", !.ip = "10.0.0.7"], 282,
         LAMBDA p : IF p.t \in {0, 255} THEN 1 ELSE 2 + p.n,
         <<Part(53, 1, m), Part(0, 0, ""), Part(12, 6, "laptop"), Part(51, 4, "lease"),
           Part(54, 4, "server"), Part(255, 0, "")>>) EXCEPT !.dst = "bcast"] : m \in {"ack", "offer"}}
  \cup {Body([Udp6(546, 4) EXCEPT !.type = 7], 66, FourMore,
             <<[Part(1, 10, "duid") EXCEPT !.c = 3],
               [Part(3, 40, "") EXCEPT !.sub = <<Part(5, 24, "addr6")>>]>>)}

MldFrames ==
  {[Icmp6(131, 24) EXCEPT !.ip = "ff02::1"],
   [Icmp6(132, 24) EXCEPT !.proto = 0, !.ext = <<Part(58, 0, "")>>, !.len = 54 + 8 + 24, !.ip = "ff02::2"],
   [Icmp6(143, 8 + 36 + 20) EXCEPT !.n = 2,
      !.parts = <<[Part(4, 1, "group1") EXCEPT !.end = 54 + 8 + 20],
                  [Part(4, 0, "group2") EXCEPT !.end = 54 + 8 + 56]>>]}

SsdpFrame ==
  Body([Udp4(1900, 17) EXCEPT !.flag = 1, !.n = 17], 42 + 17, LAMBDA p : p.n - 2,
       <<[Part(1, 12, "nt") EXCEPT !.c = 3]>>)
SsdpFrames ==
  {[SsdpFrame EXCEPT !.len = 42 + 17 + 12 + 20 + 2, !.ulen = 8 + 17 + 12 + 20 + 2,
      !.parts = @ \o <<[Part(3, 20, "location") EXCEPT !.c = 9, !.end = 42 + 17 + 12 + 18],
                       [Part(0, 2, "") EXCEPT !.end = 42 + 17 + 34]>>]}

OspfFrame ==
  Body([NoFrame EXCEPT !.eth = "ip4", !.dst = "mcast", !.proto = 89, !.sip = "10.0.0.2",
                       !.type = 1, !.ip = "router"], 34 + 24 + 20, Four,
       <<Part(0, 4, "nbr1"), Part(0, 4, "nbr2")>>)

VrrpFrames ==
  {Body([NoFrame EXCEPT !.eth = "ip4", !.dst = "mcast", !.proto = 112, !.sip = "10.0.0.3",
                        !.n = n], 34 + 8, Four, <<Part(0, 4, "vip1"), Part(0, 4, "vip2")>>) :
     n \in {1, 2, 3}}

StpFrames ==
  {[NoFrame EXCEPT !.dst = "stp", !.llc = "stp", !.len = 17 + n, !.flag = 1, !.type = t, !.ver = v,
                   !.n = b, !.mac = "root", !.ip = "bridge"] :
     <<n, t, v, b>> \in {<<4, 128, 0, 0>>, <<35, 0, 0, 1>>, <<35, 2, 2, 60>>, <<35, 2, 2, 12>>,
                         <<35, 2, 2, 16>>, <<20, 0, 0, 0>>}}

PartFrames ==
  UNION {Cut(f) : f \in {LldpFrame, CdpFrame, OspfFrame} \cup NdpFrames \cup DhcpFrames
                        \cup MldFrames \cup SsdpFrames \cup VrrpFrames}
  \cup StpFrames

-----------------------------------------------------------------------------
Link(up, running, addrs) == [up |-> up, running |-> running, addrs |-> addrs]
Steady == [n \in {"eth0"} |-> Link(TRUE, TRUE, {"a"})]

Links == {Link(TRUE, TRUE, {"a"}), Link(TRUE, TRUE, {"a", "b"}), Link(TRUE, FALSE, {"b"}),
          Link(FALSE, FALSE, {})}
Changing ==
  {<< >>} \cup [{"eth0"} -> Links] \cup [{"lo"} -> {Link(TRUE, TRUE, {"b"})}]
  \cup {w \in [{"eth0", "eth1"} -> Links] : w["eth1"].running = w["eth1"].up}

MCPlans == {"hosts", "names", "parts", "ifaces"}
MCTraffic == [p \in MCPlans |->
  CASE p = "hosts" -> HostFrames [] p = "names" -> NameFrames
    [] p = "parts" -> PartFrames [] p = "ifaces" -> {}]
MCWorlds == [p \in MCPlans |-> IF p = "ifaces" THEN Changing ELSE {Steady}]
MCFirstWorld == [p \in MCPlans |-> Steady]
MCMaxPackets == [p \in MCPlans |-> CASE p = "hosts" -> 4 [] p = "ifaces" -> 0 [] OTHER -> 1]
MCBroken == [p \in MCPlans |->
  CASE p = "ifaces" -> {{}, {"iface_monitor"}} [] p = "parts" -> {{}, {"neighbor"}} [] OTHER -> {{}}]
MCExcluded == {"lo"}
=============================================================================
