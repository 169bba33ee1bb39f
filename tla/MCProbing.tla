----------------------------- MODULE MCProbing ------------------------------
(* Small instances of Probing. *)
EXTENDS Probing

MCPlans == {"tcp", "udp", "tls", "sweep"}

Probe(id, ports, proto, address) ==
  [channel |-> "probe.request", id |-> id, address |-> address, ports |-> ports,
   proto |-> proto, targets |-> << >>]
Sweep(targets) ==
  [channel |-> "sweep.request", id |-> "", address |-> "", ports |-> << >>, proto |-> "",
   targets |-> targets]

MCRequests ==
  [p \in MCPlans |->
     CASE p = "tcp"   -> <<Probe("j1", <<80, 22, 7>>, "tcp", "h"), Probe("", <<81>>, "tcp", "h"),
                           Probe("j2", <<81, 0, 25>>, "", "h"), Probe("j3", <<9, 25>>, "tcp", "h")>>
       [] p = "udp"   -> <<Probe("j0", <<9>>, "tcp", "h"), Probe("j1", <<53, 161, 7>>, "udp", "h"),
                           Probe("j2", <<7>>, "udp", "nohost"), Probe("j3", <<9>>, "udp", "h"),
                           Probe("j4", <<80>>, "sctp", "h")>>
       [] p = "tls"   -> <<Probe("j1", <<80, 22, 81>>, "tls", "h"), Probe("j2", <<7>>, "tls", "nohost"),
                           Probe("j3", <<9, 25, 53, 161>>, "tls", "h")>>
       [] p = "sweep" -> <<Sweep(<<"up", "mute">>), Sweep(<<"mute", "six", "gone">>),
                           Sweep(<<"up">>)>>]

Cert(cn, n, len) == [cn |-> cn, sans |-> [i \in 1 .. n |-> [dns |-> i # 2, len |-> len]]]
Peer(fails, waits, cert) == [fails |-> fails, waits |-> waits, cert |-> cert, alpn |-> 2]

Says(text) == [connects |-> TRUE, speaks |-> TRUE, text |-> text]
Refuses == [connects |-> FALSE, speaks |-> FALSE, text |-> NoChars]

Port(stream, greeting, datagram, peer) ==
  [stream |-> stream, greeting |-> greeting, datagram |-> datagram, peer |-> peer,
   hears |-> IF datagram.tag > 0 THEN "snmp" ELSE "any"]
Data(len, id, tag) ==
  [len |-> len, id |-> id, qr |-> TRUE, sequence |-> tag > 0, tag |-> tag]

MCService ==
  [p \in {7, 9, 22, 25, 53, 80, 81, 161} |->
     CASE p = 80  -> Port("open", Says(Chars(20)), NoAnswer, Peer("", 1, Cert(20, 3, 30)))
       [] p = 22  -> Port("closed", Refuses, NoAnswer, Peer("connect", 0, Cert(0, 0, 0)))
       [] p = 81  -> Port("silent", Refuses, NoAnswer, Peer("", 2, Cert(300, 2, 300)))
       [] p = 25  -> Port("open", Says(Controls(120)), NoAnswer, Peer("ssl", 0, Cert(0, 0, 0)))
       [] p = 7   -> Port("filtered", Refuses, Data(4, 0, 0), Peer("handshake", 0, Cert(0, 0, 0)))
       [] p = 53  -> Port("silent", Refuses, Data(30, 20563, 0), Peer("", 0, Cert(20, 6, 100)))
       [] p = 161 -> Port("silent", Refuses, Data(30, 0, 20), Peer("", 1, Cert(0, 0, 0)))
       [] p = 9   -> Port("open", Refuses, NoAnswer, Peer("select", 0, Cert(0, 0, 0)))]

MCStrays ==
  {[NoPacket EXCEPT !.flags = {"syn", "ack"}, !.port = 443],
   [NoPacket EXCEPT !.flags = {"ack"}, !.port = TCP_PROBE_BASE_SRC_PORT],
   [NoPacket EXCEPT !.flags = {"rst"}, !.len = 30, !.port = TCP_PROBE_BASE_SRC_PORT],
   [NoPacket EXCEPT !.sock = "icmp", !.len = 56, !.type = 11, !.port = TCP_PROBE_BASE_SRC_PORT]}

MCFamily == [h \in {"up", "mute", "six", "gone"} |->
               CASE h = "six" -> 6 [] h = "gone" -> -1 [] OTHER -> 4]
MCKnown == {"h"}
MCAnswering == {"up", "six"}
Kinds(a, b) == [v4 |-> a, v6 |-> b]
MCSockets == [p \in MCPlans |-> {Kinds("dgram", "dgram"), Kinds("raw", "none")}]
MCRawOpens == [p \in MCPlans |-> IF p = "tcp" THEN BOOLEAN ELSE {TRUE}]
MCMaxTime == [p \in MCPlans |-> IF p \in {"tcp", "udp"} THEN 5 ELSE 1]
MCLastRequest == [p \in MCPlans |-> IF p \in {"tcp", "udp"} THEN 3 ELSE 1]
=============================================================================
