--------------------------- MODULE MCFlowTracker ----------------------------
(* FlowTracker on two interfaces, with three conversations: a TCP one that *)
(* is refused, a UDP one of a host with itself, and an ICMP one.            *)
EXTENDS FlowTracker, TLC

MCPacket(src, dst, sport, dport, proto, flags) ==
  [src |-> src, dst |-> dst, sport |-> sport, dport |-> dport,
   proto |-> proto, flags |-> flags]

MCPackets ==
  {MCPacket(2, 1, 5, 7, "tcp", {"SYN", "RST"}),
   MCPacket(1, 1, 5, 7, "udp", {}),
   MCPacket(1, 1, 7, 5, "udp", {}),
   MCPacket(3, 2, 0, 0, "icmp", {})}

\* A host whose clock was never set, and one whose clock was.
MCAhead == {0, 20}
MCIfaceSymmetry == Permutations(Ifaces)
MCDelays == {0, 1}
=============================================================================
