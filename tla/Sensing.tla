------------------------------ MODULE Sensing -------------------------------
(***************************************************************************)
(* Passive sensing in the agent: start-up with the shared captures, the    *)
(* module registry, the dispatch of captured frames to the listeners, the  *)
(* host table their events feed, and the interface monitor.                *)
(*                                                                         *)
(* A behaviour follows one plan: what the network sends, and how the       *)
(* interfaces of the host may change.                                      *)
(***************************************************************************)
EXTENDS ListenNames, IfaceMonitor

CONSTANTS
  Plans,          \* names of plans
  Traffic,        \* [Plans -> SUBSET frames]
  Worlds,         \* [Plans -> SUBSET [interfaces -> link state]]
  FirstWorld,     \* [Plans -> the host's interfaces at start]
  Broken,         \* [Plans -> sets of modules whose init may fail together]
  MaxPackets,     \* [Plans -> number of frames dispatched in a behaviour]
  MaxHosts,       \* PS_MAX_HOSTS (4096)
  MaxHostIps,     \* PS_MAX_HOST_IPS (8)
  MaxHostSrcs     \* PS_MAX_HOST_SRCS (16)

ASSUME HostTableAssumption ==
  MaxHosts \in Nat \ {0} /\ MaxHostIps \in Nat \ {0} /\ MaxHostSrcs \in Nat \ {0}

VARIABLES
  plan,           \* the plan
  phase,          \* "start", "captures" (opened), "run", "done"
  live,           \* modules that are registered and enabled
  frame, events,  \* the last frame and the events published for it
  packets,        \* frames dispatched: the clock of the host table
  hosts,          \* g_hosts
  world,          \* the host's interfaces: name -> [up, running, addrs]
  mon,            \* the monitor and the capture set: [prev, caps, told]
  base, gone      \* world of the last snapshot; captures the first did not list

vars == <<plan, phase, live, frame, events, packets, hosts, world, mon, base, gone>>

-----------------------------------------------------------------------------
(* The table of hosts (host_table.c) and the way ctx_publish feeds it with *)
(* the addresses found in a published event.                               *)

\* Slots are taken in order and never given up, so the valid entries are a
\* sequence and count is its length.
NoHosts == << >>

\* An entry as memset and the allocation leave it.
NewEntry(now) ==
  [mac |-> "", ips |-> << >>, hostname |-> "", device_type |-> "",
   sources |-> << >>, first_seen |-> now, last_seen |-> now, event_count |-> 0]

\* The last entry is not looked at: a mutant.
FindByMacShort(ht, mac) ==
  SelectInSeq(SubSeq(ht, 1, Len(ht) - 1), LAMBDA e : e.mac # "" /\ e.mac = mac)

\* 0 where the code returns NULL.
find_by_mac(ht, mac) ==
  SelectInSeq(ht, LAMBDA e : e.mac # "" /\ e.mac = mac)

find_by_ip(ht, ip) ==
  IF ip = "" THEN 0 ELSE SelectInSeq(ht, LAMBDA e : Contains(e.ips, ip))

\* Appends x to a list of at most max distinct members.
AddTo(list, x, max) ==
  IF x = "" \/ Contains(list, x) \/ Len(list) >= max THEN list ELSE Append(list, x)

Fill(old, new) == IF old = "" THEN new ELSE old

Merge(e, ev, now) ==
  [e EXCEPT !.mac         = Fill(@, ev.mac),
            !.ips         = AddTo(@, ev.ip, MaxHostIps),
            !.hostname    = Fill(@, ev.hostname),
            !.device_type = Fill(@, ev.device_type),
            !.sources     = AddTo(@, ev.ch, MaxHostSrcs),
            !.last_seen   = now,
            !.event_count = @ + 1]

\* Address before MAC: a mutant.
SlotByIpFirst(ht, ev) ==
  LET i == find_by_ip(ht, ev.ip)
      m == IF i = 0 /\ ev.mac # "" THEN find_by_mac(ht, ev.mac) ELSE i
  IN  IF m # 0 THEN m ELSE IF Len(ht) >= MaxHosts THEN 0 ELSE Len(ht) + 1

\* The slot an event goes to; 0 when it is dropped.
SlotFor(ht, ev) ==
  LET m == IF ev.mac # "" THEN find_by_mac(ht, ev.mac) ELSE 0
      i == IF m = 0 THEN find_by_ip(ht, ev.ip) ELSE m
  IN  IF i # 0 THEN i ELSE IF Len(ht) >= MaxHosts THEN 0 ELSE Len(ht) + 1

\* A full table gives up its first entry: a mutant.
UpdateEvicts(ht, ev, now) ==
  LET s == SlotFor(ht, ev) IN
  CASE s = 0         -> [ht EXCEPT ![1] = Merge(NewEntry(now), ev, now)]
    [] s = Len(ht) + 1 -> Append(ht, Merge(NewEntry(now), ev, now))
    [] OTHER         -> [ht EXCEPT ![s] = Merge(@, ev, now)]

ps_host_table_update(ht, ev, now) ==
  LET s == SlotFor(ht, ev) IN
  CASE s = 0         -> ht
    [] s = Len(ht) + 1 -> Append(ht, Merge(NewEntry(now), ev, now))
    [] OTHER         -> [ht EXCEPT ![s] = Merge(@, ev, now)]

\* ctx_publish: only the keys "ip" and "mac" identify a host.
HostUpdate(ht, ev, now) ==
  IF ev.ip = "" /\ ev.mac = "" THEN ht ELSE ps_host_table_update(ht, ev, now)
-----------------------------------------------------------------------------
(* Start-up, dispatch and the interface monitor *)

\* The passive listeners in the order of their registration.
Listeners == <<"neighbor", "dhcp", "stp", "mld", "dns", "lldp", "cdp", "ssdp",
               "netbios", "ospf", "vrrp", "broadcast">>

on_packet(m, f) ==
  CASE m = "neighbor"  -> neighbor_on_packet(lldp_init, f)
    [] m = "dhcp"      -> dhcp_on_packet(dhcp_init, f)
    [] m = "stp"       -> stp_on_packet(stp_init, f)
    [] m = "mld"       -> mld_on_packet(mld_init, f)
    [] m = "dns"       -> dns_on_packet(lldp_init, f)
    [] m = "lldp"      -> lldp_on_packet(lldp_init, f)
    [] m = "cdp"       -> cdp_on_packet(lldp_init, f)
    [] m = "ssdp"      -> ssdp_on_packet(lldp_init, f)
    [] m = "netbios"   -> netbios_on_packet(lldp_init, f)
    [] m = "ospf"      -> ospf_on_packet(lldp_init, f)
    [] m = "vrrp"      -> vrrp_on_packet(lldp_init, f)
    [] m = "broadcast" -> broadcast_on_packet(lldp_init, f)

dispatch_packet(enabled, f) ==
  FlattenSeq([i \in 1 .. Len(Listeners) |->
                IF Listeners[i] \in enabled THEN on_packet(Listeners[i], f) ELSE << >>])

Init ==
  /\ plan \in Plans
  /\ phase = "start"
  /\ live = Range(Listeners) \cup {"iface_monitor"}
  /\ frame = NoFrame /\ events = << >> /\ packets = 0
  /\ hosts = NoHosts
  /\ world = FirstWorld[plan]
  /\ mon = [prev |-> << >>, caps |-> << >>, told |-> << >>]
  /\ base = FirstWorld[plan] /\ gone = {}

\* One entry per address, or one without address.
Entries(w) ==
  UNION {{[name |-> n, up |-> w[n].up, running |-> w[n].running, bcast |-> n # "lo",
           addr |-> a] : a \in IF w[n].addrs = {} THEN {""} ELSE w[n].addrs}
         : n \in DOMAIN w}

\* getifaddrs lists them in any order.
Lists(w) == SetToSeqs(Entries(w))

\* main: the captures are opened before the modules are initialised.
OpenCaptures ==
  /\ phase = "start"
  /\ \E list \in Lists(world), opens \in SUBSET DOMAIN world :
       mon' = [mon EXCEPT !.caps = FoldLeft(LAMBDA cs, n : ps_capture_open(cs, n, opens),
                                            << >>, ps_iface_enumerate(list))]
  /\ phase' = "captures"
  /\ UNCHANGED <<plan, live, frame, events, packets, hosts, world, base, gone>>

\* ps_module_registry_init_all: a module whose init fails is disabled.
InitAll ==
  /\ phase = "captures"
  /\ \E bad \in Broken[plan], list \in Lists(world), ok \in BOOLEAN :
       /\ live' = live \ bad
       /\ mon' = IF "iface_monitor" \in bad THEN mon
                 ELSE [mon EXCEPT !.prev = iface_monitor_init(list, ok)]
       /\ base' = IF ok THEN world ELSE << >>
  /\ gone' = Range(mon.caps) \ NamesIn(mon'.prev)
  /\ phase' = "run"
  /\ UNCHANGED <<plan, frame, events, packets, hosts, world>>

\* dispatch_priv_msg hands a captured frame to every enabled listener; each
\* event goes through ctx_publish.
OnPacket ==
  /\ phase = "run" /\ packets < MaxPackets[plan] /\ mon.caps # << >>
  /\ \E f \in Traffic[plan] :
       /\ frame' = f
       /\ events' = dispatch_packet(live, f)
  /\ packets' = packets + 1
  /\ hosts' = FoldLeft(LAMBDA ht, ev : HostUpdate(ht, ev, packets'), hosts, events')
  /\ UNCHANGED <<plan, phase, live, world, mon, base, gone>>

\* tick_all, when the monitor's interval has passed.
TickAll ==
  /\ phase = "run" /\ "iface_monitor" \in live
  /\ \E list \in Lists(world), ok \in BOOLEAN, opens \in SUBSET DOMAIN world :
       /\ mon' = iface_monitor_tick(mon, list, ok, opens)
       /\ base' = IF ok THEN world ELSE base
  /\ UNCHANGED <<plan, phase, live, frame, events, packets, hosts, world, gone>>

\* An interface appears, disappears or changes: the environment.
LinkChange ==
  /\ phase \in {"captures", "run"}
  /\ world' \in Worlds[plan] /\ world' # world
  /\ mon' = [mon EXCEPT !.told = << >>]
  /\ UNCHANGED <<plan, phase, live, frame, events, packets, hosts, base, gone>>

\* ps_module_registry_shutdown_all.
ShutdownAll ==
  /\ phase = "run"
  /\ phase' = "done" /\ live' = {}
  /\ UNCHANGED <<plan, frame, events, packets, hosts, world, mon, base, gone>>

Next == OpenCaptures \/ InitAll \/ OnPacket \/ TickAll \/ LinkChange \/ ShutdownAll

Spec == Init /\ [][Next]_vars

-----------------------------------------------------------------------------
HostEvents == SelectSeq(events, LAMBDA ev : ev.ip # "" \/ ev.mac # "")

\* Types: host table and capture set stay within their limits and the set
\* holds an interface once, however often it goes and comes back.
TypeOK ==
  /\ phase \in {"start", "captures", "run", "done"}
  /\ live \subseteq Range(Listeners) \cup {"iface_monitor"}
  /\ Len(hosts) <= MaxHosts
  /\ \A i \in DOMAIN hosts : /\ Len(hosts[i].ips) <= MaxHostIps
                             /\ Len(hosts[i].sources) <= MaxHostSrcs
                             /\ hosts[i].first_seen <= hosts[i].last_seen
                             /\ hosts[i].last_seen <= packets
  /\ Len(mon.caps) <= CaptureMax /\ IsInjective(mon.caps)
  /\ IsInjective([i \in DOMAIN mon.prev |-> mon.prev[i].name])

\* ps_host_table_update: a hardware address has one entry, in whatever order
\* its neighbour discovery, ARP and broadcast frames come.
OneEntryPerMac ==
  \A i, j \in DOMAIN hosts : hosts[i].mac # "" /\ hosts[i].mac = hosts[j].mac => i = j

\* ps_host_table_update: what is heard from a known hardware address is put
\* down to it, also when another entry holds the address it uses now.
MacOwnsItsEvents ==
  [][\A k \in DOMAIN hosts :
       hosts'[k] # hosts[k] =>
         \E i \in DOMAIN HostEvents' :
           LET ev == HostEvents'[i] IN
           \/ ev.mac = hosts[k].mac
           \/ hosts[k].mac = "" \/ \A j \in DOMAIN hosts : hosts[j].mac # ev.mac]_vars

\* ps_host_table_update never takes back what an entry says: its hardware
\* address, its addresses, its name and the time it was first seen stay, and
\* no entry disappears.
NothingForgotten ==
  [][/\ Len(hosts') >= Len(hosts)
     /\ \A k \in DOMAIN hosts :
          /\ hosts[k].mac # "" => hosts'[k].mac = hosts[k].mac
          /\ IsPrefix(hosts[k].ips, hosts'[k].ips)
          /\ hosts[k].hostname # "" => hosts'[k].hostname = hosts[k].hostname
          /\ hosts'[k].first_seen = hosts[k].first_seen
          /\ hosts'[k].event_count >= hosts[k].event_count]_vars

\* The three readers of DNS names agree: where dns_decompress_name succeeds,
\* dns_skip_name steps over as many bytes, and dns_decode_name of the NetBIOS
\* listener reads the same name and as many bytes, whatever the compression
\* pointers do.
NameDecodersAgree ==
  \A off \in 0 .. Len(frame.wire) - 1 :
    LET a == dns_decompress_name(frame.wire, off)
        b == dns_decode_name(frame.wire, off)
    IN  a.n >= 0 => /\ dns_skip_name(frame.wire, off) = a.n
                    /\ b.n = a.n /\ b.name = a.name

\* The parsers run on the frame as if every listener heard it.
Parsed(f) == dispatch_packet(Range(Listeners), [f EXCEPT !.handle = dhcp_init.pcap_handle])

Values(ev) == Range(ev.fields) \cup {ev.mac, ev.hostname} \cup {ev.list[i].data : i \in DOMAIN ev.list}

\* The parsers of typed, counted parts, on a frame cut anywhere: a value that
\* an event shows is that of a part captured to its last byte, never of bytes
\* behind the end of the frame.
OnlyWholeParts ==
  LET shown == UNION {Values(Parsed(frame)[k]) : k \in DOMAIN Parsed(frame)} IN
  /\ "beyond" \notin shown
  /\ \A i \in DOMAIN frame.parts :
       frame.parts[i].v # "" /\ frame.parts[i].v \in shown
         => frame.parts[i].end <= frame.len

\* dns_parse_and_publish: the answers of an event are the first records of
\* the message's answer section, none of the authority section among them.
AnswersOnly ==
  \A k \in DOMAIN events :
    events[k].ch = "discovery.dns" =>
      /\ Len(events[k].list) <= frame.counts[2]
      /\ \A i \in DOMAIN events[k].list :
           \E j \in frame.counts[1] + 1 .. frame.counts[1] + frame.counts[2] :
             events[k].list[i].t = frame.parts[j].t

\* iface_monitor_tick tells exactly the differences between the interfaces at
\* its last good snapshot and now: the order of getifaddrs makes no change, and
\* an address change is hidden only by a state change of the same interface.
ToldExactly ==
  [][TickAll /\ base' = world =>
       LET was == DOMAIN base
           is  == DOMAIN world
           both == was \cap is
           state(n) == <<base[n].up, base[n].running>> # <<world[n].up, world[n].running>>
       IN  \/ mon'.told = << >> /\ mon'.prev = mon.prev
           \/ {<<mon'.told[i].kind, mon'.told[i].name>> : i \in DOMAIN mon'.told} =
                 {<<"added", n>> : n \in is \ was} \cup {<<"removed", n>> : n \in was \ is}
                 \cup {<<"state_change", n>> : n \in {m \in both : state(m)}}
                 \cup {<<"addr_change", n>> :
                       n \in {m \in both : ~state(m) /\ base[m].addrs # world[m].addrs}}]_vars

\* Start-up, ctx_capture_add and ctx_capture_remove: an interface that the
\* monitor's last snapshot does not list is captured only if the first one
\* did not list it either (it vanished before it, or the snapshot failed).
CapturesFollowMonitor ==
  phase = "run" /\ "iface_monitor" \in live =>
    Range(mon.caps) \subseteq NamesIn(mon.prev) \cup gone

\* The host table keeps one entry per hardware address, gives each event to the
\* entry it is about and forgets nothing (ps_host_table_update).
HostsKept ==
  /\ [](TypeOK /\ OneEntryPerMac)
  /\ MacOwnsItsEvents
  /\ NothingForgotten

\* The parsers read what a frame holds and nothing else, cut and compressed as
\* it may be (the on_packet handlers, the readers of DNS names).
FramesReadTrue == NameDecodersAgree /\ OnlyWholeParts /\ AnswersOnly

\* The monitor tells every change of the interfaces once, and the captures
\* follow it (iface_monitor_tick, ctx_capture_add, ctx_capture_remove).
InterfacesFollowed == []CapturesFollowMonitor /\ ToldExactly
=============================================================================
