----------------------------- MODULE MCPrivLink -----------------------------
(* Instances of PrivLink for TLC. *)
EXTENDS PrivLink

Boot(opens, socks) ==
  [i \in 1 .. opens |-> Command("OPEN_PCAP", 0, CHOOSE f \in Ifaces : TRUE)]
    \o [i \in 1 .. socks |-> Command("CREATE_RAW", 0, NoIface)]

BootSteady == Boot(1, 2)

\* Probes only; probes only, with larger packets; every command at run
\* time, with a packet of every size.
SteadyLoad == [ops |-> {"SEND_RAW"}, sizes |-> {"small"}, pkts |-> 3]
MixedLoad == [ops |-> {"SEND_RAW"}, sizes |-> {"small", "large"}, pkts |-> 2]
FullLoad == [ops |-> Opcode, sizes |-> Size, pkts |-> 1]
AllLoads == {SteadyLoad, MixedLoad, FullLoad}
=============================================================================
