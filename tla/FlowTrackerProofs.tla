------------------------- MODULE FlowTrackerProofs --------------------------
(***************************************************************************)
(* Proofs about FlowTracker for every set of packets, interfaces, delays   *)
(* and clocks: a conversation is one flow, no flow expires early, the      *)
(* worker, the capture set and the tracker agree on every handle, and      *)
(* every packet is accounted for.  They rest on the shape of the table:    *)
(* its keys are in canonical order, its flows carry the stamps of packets, *)
(* and a sum over its flows is the size of a set.                          *)
(***************************************************************************)
EXTENDS FlowTracker, FiniteSetTheorems, TLAPS

Key == [proto : {"tcp", "udp", "icmp", "other"},
        src : Nat, dst : Nat, sport : Nat, dport : Nat]

Canonical(k) == k.src < k.dst \/ (k.src = k.dst /\ k.sport <= k.dport)

Flow == [packets : [{0, 1} -> Nat], flags : SUBSET {"SYN", "FIN", "RST"},
         start : Int, last : Int]

GoodTable(t) ==
  /\ DOMAIN t \subseteq {k \in Key : Canonical(k)}
  /\ \A k \in DOMAIN t : t[k] \in Flow

FlowInv ==
  /\ now \in Nat
  /\ ahead \in Nat
  /\ GoodTable(flows)

-----------------------------------------------------------------------------
(* Keys *)

\* make_flow_key puts the smaller end first.
LEMMA FlowKeyCanonical ==
  ASSUME NEW p \in Packet
  PROVE  FlowKey(p) \in Key /\ Canonical(FlowKey(p))
BY DEF Packet, FlowKey, Direction, Key, Canonical

\* A canonical key whose reverse is canonical is its own reverse: both ends
\* have one address and one port.
LEMMA CanonicalOnce ==
  ASSUME NEW k \in Key, Canonical(k), Canonical(Reversed(k))
  PROVE  Reversed(k) = k
<1>1. k.src \in Nat /\ k.dst \in Nat /\ k.sport \in Nat /\ k.dport \in Nat
  BY DEF Key
<1> DEFINE r == Reversed(k)
<1>2. r.src = k.dst /\ r.dst = k.src /\ r.sport = k.dport /\ r.dport = k.sport
  BY DEF Key, Reversed
<1>3. k.src = k.dst /\ k.sport = k.dport
  BY <1>1, <1>2 DEF Canonical
<1> QED BY <1>1, <1>3, Zenon DEF Key, Reversed

-----------------------------------------------------------------------------
(* The operations on the table *)

LEMMA NewFlowType ==
  ASSUME NEW p \in Packet, NEW ts \in Int
  PROVE  NewFlow(p, ts) \in Flow
BY DEF Packet, NewFlow, Direction, Flow

LEMMA UpdatedFlowType ==
  ASSUME NEW f \in Flow, NEW p \in Packet, NEW ts \in Int
  PROVE  UpdatedFlow(f, p, ts) \in Flow
<1>1. Direction(p) \in {0, 1}
  BY DEF Direction
<1>2. p.flags \in SUBSET {"SYN", "FIN", "RST"}
  BY DEF Packet
<1> DEFINE n == [f.packets EXCEPT ![Direction(p)] = @ + 1]
<1>3. n \in [{0, 1} -> Nat]
  BY <1>1 DEF Flow
<1>4. UpdatedFlow(f, p, ts) =
        [f EXCEPT !.packets = n, !.flags = @ \cup p.flags, !.last = ts]
  BY DEF UpdatedFlow, Flow
<1> HIDE DEF n
<1> QED BY <1>2, <1>3, <1>4, Zenon DEF Flow

LEMMA PutKeepsTable ==
  ASSUME NEW t, GoodTable(t), NEW k \in Key, Canonical(k), NEW f \in Flow
  PROVE  GoodTable(Put(t, k, f)) /\ DOMAIN t \subseteq DOMAIN Put(t, k, f)
BY DEF GoodTable, Put

LEMMA WithoutKeepsTable ==
  ASSUME NEW t, GoodTable(t), NEW S
  PROVE  GoodTable(Without(t, S))
BY DEF GoodTable, Without

\* A packet adds at most its own key, and removes none.
LEMMA ProcessPacketKeepsTable ==
  ASSUME NEW t, GoodTable(t), NEW p \in Packet, NEW ts \in Int
  PROVE  /\ GoodTable(ProcessPacket(t, p, ts))
         /\ DOMAIN t \subseteq DOMAIN ProcessPacket(t, p, ts)
<1> DEFINE k == FlowKey(p)
<1>1. k \in Key /\ Canonical(k)
  BY FlowKeyCanonical
<1>2. CASE k \in DOMAIN t
  <2>1. t[k] \in Flow
    BY <1>2 DEF GoodTable
  <2>2. UpdatedFlow(t[k], p, ts) \in Flow
    BY <2>1, UpdatedFlowType
  <2>3. ProcessPacket(t, p, ts) = Put(t, k, UpdatedFlow(t[k], p, ts))
    BY <1>2 DEF ProcessPacket
  <2> QED BY <1>1, <2>2, <2>3, PutKeepsTable
<1>3. CASE k \notin DOMAIN t /\ Full(t)
  BY <1>3 DEF ProcessPacket
<1>4. CASE k \notin DOMAIN t /\ ~Full(t)
  <2>1. NewFlow(p, ts) \in Flow
    BY NewFlowType
  <2>2. ProcessPacket(t, p, ts) = Put(t, k, NewFlow(p, ts))
    BY <1>4 DEF ProcessPacket
  <2> QED BY <1>1, <2>1, <2>2, PutKeepsTable
<1> QED BY <1>2, <1>3, <1>4

\* What the monotonic clock finds overdue, the wall clock does too.
LEMMA ElapsedBelowWall ==
  ASSUME NEW m \in Nat, NEW a \in Nat, NEW then \in Int, NEW limit \in Nat,
         Elapsed(m, then) > limit
  PROVE  m + a - then > limit
BY DEF Elapsed

LEMMA IdleTimeoutType ==
  ASSUME NEW k, NEW f
  PROVE  IdleTimeout(k, f) \in Nat
BY FlowTableAssumption DEF IdleTimeout

-----------------------------------------------------------------------------
(* The invariant *)

LEMMA InitFlowInv == Init => FlowInv
BY FlowTrackerAssumption DEF Init, FlowInv, GoodTable

\* Everything but a packet, a tick and the shutdown leaves the table alone.
TableUntouched == Clock \/ StopAllFlows \/ (\E h \in Handles : OnBadPacket(h))
  \/ \E i \in Ifaces : CaptureAdd(i) \/ CaptureRemove(i) \/ StartFlow(i) \/ StopFlow(i)

LEMMA Untouched ==
  ASSUME FlowInv, TableUntouched \/ UNCHANGED vars
  PROVE  flows' = flows /\ FlowInv'
<1>1. flows' = flows /\ ahead' = ahead /\ (now' = now \/ now' = now + 1)
  BY DEF TableUntouched, Clock, StopAllFlows, OnBadPacket, CaptureAdd, CaptureRemove,
         StartFlow, StopFlow, vars, clockVars, tableVars
<1> QED BY <1>1 DEF FlowInv, GoodTable

LEMMA PacketKeeps ==
  ASSUME FlowInv, NEW h \in Handles, NEW p \in Packets, NEW d \in Delays,
         OnPacket(h, p, d)
  PROVE  DOMAIN flows \subseteq DOMAIN flows' /\ FlowInv'
<1>1. p \in Packet /\ d \in Nat
  BY FlowTrackerAssumption
<1>2. Wall - d \in Int
  BY <1>1 DEF FlowInv, Wall
<1>3. flows' = ProcessPacket(flows, p, Wall - d) /\ now' = now /\ ahead' = ahead
  BY DEF OnPacket, clockVars
<1>4. GoodTable(flows') /\ DOMAIN flows \subseteq DOMAIN flows'
  BY <1>1, <1>2, <1>3, ProcessPacketKeepsTable DEF FlowInv
<1> QED BY <1>3, <1>4 DEF FlowInv

LEMMA RemovalKeeps ==
  ASSUME FlowInv, Tick \/ Shutdown
  PROVE  FlowInv'
<1>1. now' = now /\ ahead' = ahead
  BY DEF Tick, Shutdown, clockVars
<1>2. \E S : flows' = Without(flows, S)
  BY DEF Tick, Shutdown
<1>3. GoodTable(flows')
  BY <1>2, WithoutKeepsTable DEF FlowInv
<1> QED BY <1>1, <1>3 DEF FlowInv

LEMMA NextCases ==
  ASSUME [Next]_vars
  PROVE  \/ TableUntouched \/ UNCHANGED vars
         \/ \E h \in Handles, p \in Packets, d \in Delays : OnPacket(h, p, d)
         \/ Tick \/ Shutdown
BY DEF Next, TableUntouched

\* The table's keys are canonical and its flows well formed in every state.
THEOREM FlowInvariant == Spec => []FlowInv
<1>1. FlowInv /\ [Next]_vars => FlowInv'
  BY NextCases, Untouched, PacketKeeps, RemovalKeeps
<1> QED BY <1>1, InitFlowInv, PTL DEF Spec

\* Both directions of a conversation are one flow, whatever packets arrive
\* (make_flow_key, ps_flow_table_process_packet).
THEOREM ConversationsAreFlows == Spec => []OneFlowPerConversation
<1>1. FlowInv => OneFlowPerConversation
  BY CanonicalOnce DEF FlowInv, GoodTable, OneFlowPerConversation
<1> QED BY <1>1, FlowInvariant, PTL

-----------------------------------------------------------------------------
(* Expiry *)

\* What a tick removes is overdue by the wall clock as well.
LEMMA TickRemovesOverdue ==
  ASSUME FlowInv, Tick, NEW k \in DOMAIN flows \ DOMAIN flows'
  PROVE  \/ Wall - flows[k].last > IdleTimeout(k, flows[k])
         \/ Wall - flows[k].start > MaxLifetime
<1>1. k \in Due(flows, now)
  BY DEF Tick, Without, Expire, FirstInOrder
<1>2. flows[k].last \in Int /\ flows[k].start \in Int
  BY DEF FlowInv, GoodTable, Flow
<1>3. IdleTimeout(k, flows[k]) \in Nat /\ MaxLifetime \in Nat
  BY IdleTimeoutType, FlowTableAssumption
<1>4. now \in Nat /\ ahead \in Nat
  BY DEF FlowInv
<1>5. CASE Elapsed(now, flows[k].last) > IdleTimeout(k, flows[k])
  BY <1>2, <1>3, <1>4, <1>5, ElapsedBelowWall DEF Wall
<1>6. CASE Elapsed(now, flows[k].start) > MaxLifetime
  BY <1>2, <1>3, <1>4, <1>6, ElapsedBelowWall DEF Wall
<1> QED BY <1>1, <1>5, <1>6 DEF Due

\* No tick removes a flow before its time, for every lead of the wall clock
\* over the clock the tick uses (ps_flow_table_expire's guards against the
\* unsigned difference).
THEOREM FlowsLiveOut == Spec => NoEarlyExpiry
<1> DEFINE Timely == phase' = "run" =>
       \A k \in DOMAIN flows \ DOMAIN flows' :
         \/ Wall - flows[k].last > IdleTimeout(k, flows[k])
         \/ Wall - flows[k].start > MaxLifetime
<1>1. FlowInv /\ [Next]_vars => [Timely]_vars
  <2> SUFFICES ASSUME FlowInv, [Next]_vars PROVE Timely
    OBVIOUS
  <2>1. CASE TableUntouched \/ UNCHANGED vars
    BY <2>1, Untouched
  <2>2. CASE \E h \in Handles, p \in Packets, d \in Delays : OnPacket(h, p, d)
    BY <2>2, PacketKeeps
  <2>3. CASE Tick
    BY <2>3, TickRemovesOverdue
  <2>4. CASE Shutdown
    BY <2>4 DEF Shutdown
  <2> QED BY <2>1, <2>2, <2>3, <2>4, NextCases
<1> QED BY <1>1, FlowInvariant, PTL DEF Spec, NoEarlyExpiry

-----------------------------------------------------------------------------
(* Handles *)

HandleTypes ==
  /\ pcap \in [Handles -> Ifaces \cup {Closed}]
  /\ capture \in Seq(Capturing)
  /\ slots \in [Slots -> Capturing \cup {Inactive}]

HandleInv == HandleTypes /\ HandlesAgree

\* Compacting drops one entry and moves the later ones down.
LEMMA CompactedEntries ==
  ASSUME capture \in Seq(Capturing), NEW n \in DOMAIN capture
  PROVE  /\ Compacted(n) \in Seq(Capturing)
         /\ Len(Compacted(n)) = Len(capture) - 1
         /\ \A m \in 1 .. Len(capture) - 1 :
              Compacted(n)[m] = IF m < n THEN capture[m] ELSE capture[m + 1]
<1> DEFINE k == Len(capture) - 1
           c == [m \in 1 .. k |-> IF m < n THEN capture[m] ELSE capture[m + 1]]
<1>1. k \in Nat /\ Len(capture) = k + 1 /\ n \in 1 .. k + 1
  OBVIOUS
<1>2. \A m \in 1 .. k + 1 : capture[m] \in Capturing
  BY <1>1
<1> HIDE DEF k
<1>3. \A m \in 1 .. k : m \in 1 .. k + 1 /\ m + 1 \in 1 .. k + 1
  BY <1>1
<1>4. c \in [1 .. k -> Capturing]
  BY <1>2, <1>3, Zenon
<1>5. c \in Seq(Capturing) /\ Len(c) = k
  BY <1>1, <1>4
<1> QED
  BY <1>5 DEF k, Compacted

\* What the invariant says of each table, one fact at a time.
LEMMA HandleFacts ==
  ASSUME HandleInv
  PROVE  /\ \A s \in ActiveSlots : /\ slots[s].handle \in Handles
                                   /\ slots[s].iface \in Ifaces
                                   /\ pcap[slots[s].handle] = slots[s].iface
         /\ \A n \in DOMAIN capture : /\ capture[n].handle \in Handles
                                      /\ capture[n].iface \in Ifaces
                                      /\ pcap[capture[n].handle] = capture[n].iface
<1>1. \A s \in ActiveSlots : slots[s] \in Capturing
  BY DEF HandleInv, HandleTypes, ActiveSlots
<1>2. \A n \in DOMAIN capture : capture[n] \in Capturing
  BY DEF HandleInv, HandleTypes
<1>3. \A s \in ActiveSlots : slots[s].handle \in Handles /\ slots[s].iface \in Ifaces
  BY <1>1 DEF Capturing
<1>4. \A n \in DOMAIN capture : capture[n].handle \in Handles /\ capture[n].iface \in Ifaces
  BY <1>2 DEF Capturing
<1> QED BY <1>3, <1>4 DEF HandleInv, HandlesAgree

\* A handle the worker has closed is in neither table.
LEMMA ClosedUnused ==
  ASSUME HandleInv, NEW h, pcap[h] = Closed
  PROVE  /\ \A s \in ActiveSlots : slots[s].handle # h
         /\ \A n \in DOMAIN capture : capture[n].handle # h
BY HandleFacts, FlowTrackerAssumption

LEMMA SlotsApart ==
  ASSUME HandleInv, NEW s \in ActiveSlots, NEW t \in ActiveSlots, s # t
  PROVE  slots[s].iface # slots[t].iface /\ slots[s].handle # slots[t].handle
BY DEF HandleInv, HandlesAgree

LEMMA CaptureApart ==
  ASSUME HandleInv, NEW m \in DOMAIN capture, NEW n \in DOMAIN capture, m # n
  PROVE  capture[m].iface # capture[n].iface /\ capture[m].handle # capture[n].handle
BY DEF HandleInv, HandlesAgree

LEMMA TablesApart ==
  ASSUME HandleInv, NEW s \in ActiveSlots, NEW n \in DOMAIN capture
  PROVE  slots[s].handle # capture[n].handle
BY DEF HandleInv, HandlesAgree

LEMMA CaptureAddKeeps ==
  ASSUME HandleInv, NEW i \in Ifaces, CaptureAdd(i)
  PROVE  HandleInv'
<1>1. PICK h \in Handles :
        /\ pcap[h] = Closed
        /\ pcap' = [pcap EXCEPT ![h] = i]
        /\ capture' = Append(capture, [iface |-> i, handle |-> h])
  BY Zenon DEF CaptureAdd, CaptureOpen, OpenPcap, IsFirst, FreeHandles
<1>2. slots' = slots /\ ActiveSlots' = ActiveSlots
  BY DEF CaptureAdd, ActiveSlots
<1>3. \A n \in DOMAIN capture : capture[n].iface # i
  BY DEF CaptureAdd
<1>4. [iface |-> i, handle |-> h] \in Capturing
  BY DEF Capturing
<1>5. HandleTypes'
  BY <1>1, <1>2, <1>4 DEF HandleInv, HandleTypes
<1> DEFINE N == Len(capture)
<1>6. N \in Nat /\ DOMAIN capture = 1 .. N /\ DOMAIN capture' = 1 .. N + 1
  BY <1>1, <1>4 DEF HandleInv, HandleTypes
<1>7. /\ \A n \in 1 .. N : capture'[n] = capture[n]
      /\ capture'[N + 1].iface = i /\ capture'[N + 1].handle = h
  BY <1>1, <1>4 DEF HandleInv, HandleTypes
<1>8. \A g \in Handles : g # h => pcap'[g] = pcap[g]
  BY <1>1 DEF HandleInv, HandleTypes
<1>9. pcap'[h] = i
  BY <1>1 DEF HandleInv, HandleTypes
<1> HIDE DEF N
<1>10. \A n \in 1 .. N + 1 : n \in 1 .. N \/ n = N + 1
  BY <1>6
<1>a. /\ \A s \in ActiveSlots : slots[s].handle # h
      /\ \A n \in 1 .. N : capture[n].handle # h
  BY <1>1, <1>6, ClosedUnused
<1>b. /\ \A s \in ActiveSlots : /\ slots[s].handle \in Handles
                                /\ pcap[slots[s].handle] = slots[s].iface
      /\ \A n \in 1 .. N : /\ capture[n].handle \in Handles
                            /\ pcap[capture[n].handle] = capture[n].iface
  BY <1>6, HandleFacts
<1>11. HandlesAgree'
  <2>1. \A s \in ActiveSlots' : pcap'[slots'[s].handle] = slots'[s].iface
    BY <1>2, <1>8, <1>a, <1>b
  <2>2. ASSUME NEW n \in DOMAIN capture'
        PROVE  pcap'[capture'[n].handle] = capture'[n].iface
    <3>1. CASE n \in 1 .. N
      BY <1>7, <1>8, <1>a, <1>b, <3>1
    <3>2. CASE n = N + 1
      BY <1>7, <1>9, <3>2
    <3> QED BY <1>6, <1>10, <3>1, <3>2
  <2>3. ASSUME NEW m \in DOMAIN capture', NEW n \in DOMAIN capture', m # n
        PROVE  capture'[m].iface # capture'[n].iface /\ capture'[m].handle # capture'[n].handle
    <3>1. CASE m \in 1 .. N /\ n \in 1 .. N
      BY <1>6, <1>7, <2>3, <3>1, CaptureApart
    <3>2. CASE m \in 1 .. N /\ n = N + 1
      BY <1>3, <1>6, <1>7, <1>a, <3>2
    <3>3. CASE m = N + 1 /\ n \in 1 .. N
      BY <1>3, <1>6, <1>7, <1>a, <3>3
    <3> QED BY <1>6, <1>10, <2>3, <3>1, <3>2, <3>3
  <2>4. ASSUME NEW s \in ActiveSlots', NEW n \in DOMAIN capture'
        PROVE  slots'[s].handle # capture'[n].handle
    <3>1. CASE n \in 1 .. N
      BY <1>2, <1>6, <1>7, <3>1, TablesApart
    <3>2. CASE n = N + 1
      BY <1>2, <1>7, <1>a, <3>2
    <3> QED BY <1>6, <1>10, <3>1, <3>2
  <2>5. \A s, t \in ActiveSlots' : s # t =>
          slots'[s].iface # slots'[t].iface /\ slots'[s].handle # slots'[t].handle
    BY <1>2, SlotsApart
  <2> QED BY <2>1, <2>2, <2>3, <2>4, <2>5 DEF HandlesAgree
<1> QED BY <1>5, <1>11 DEF HandleInv

LEMMA CaptureRemoveKeeps ==
  ASSUME HandleInv, NEW i \in Ifaces, CaptureRemove(i)
  PROVE  HandleInv'
<1>1. PICK n \in DOMAIN capture :
        /\ pcap' = [pcap EXCEPT ![capture[n].handle] = Closed]
        /\ capture' = Compacted(n)
  BY Zenon DEF CaptureRemove, ClosePcap
<1>2. slots' = slots /\ ActiveSlots' = ActiveSlots
  BY DEF CaptureRemove, ActiveSlots
<1> DEFINE N == Len(capture)
           h == capture[n].handle
           Old(m) == IF m < n THEN m ELSE m + 1
<1>3. N \in Nat /\ DOMAIN capture = 1 .. N /\ n \in 1 .. N /\ capture \in Seq(Capturing)
  BY DEF HandleInv, HandleTypes
<1>4. /\ capture' \in Seq(Capturing)
      /\ DOMAIN capture' = 1 .. N - 1
      /\ \A m \in 1 .. N - 1 : capture'[m] = capture[Old(m)]
  <2>1. /\ capture' \in Seq(Capturing)
        /\ Len(capture') = N - 1
        /\ \A m \in 1 .. N - 1 :
             capture'[m] = IF m < n THEN capture[m] ELSE capture[m + 1]
    BY <1>1, <1>3, CompactedEntries, Zenon
  <2>2. DOMAIN capture' = 1 .. N - 1
    BY <2>1
  <2> QED BY <2>1, <2>2
<1>5. \A m \in 1 .. N - 1 : Old(m) \in 1 .. N /\ Old(m) # n
  BY <1>3
<1>6. \A m, k \in 1 .. N - 1 : m # k => Old(m) # Old(k)
  BY <1>3
<1>7. HandleTypes'
  BY <1>1, <1>2, <1>4, Zenon DEF HandleInv, HandleTypes
<1>8. h \in Handles
  BY HandleFacts
<1>9. \A g \in Handles : g # h => pcap'[g] = pcap[g]
  BY <1>1, <1>8 DEF HandleInv, HandleTypes
<1>10. \A s \in ActiveSlots : slots[s].handle # h
  BY TablesApart
<1>11. \A m \in 1 .. N : m # n => capture[m].handle # h
  BY <1>3, CaptureApart
<1> HIDE DEF N, h, Old
<1>12. HandlesAgree'
  <2>1. \A s \in ActiveSlots' : pcap'[slots'[s].handle] = slots'[s].iface
    BY <1>2, <1>9, <1>10, HandleFacts
  <2>2. ASSUME NEW m \in DOMAIN capture'
        PROVE  pcap'[capture'[m].handle] = capture'[m].iface
    <3>1. Old(m) \in DOMAIN capture /\ Old(m) # n /\ capture'[m] = capture[Old(m)]
      BY <1>3, <1>4, <1>5
    <3> QED BY <1>3, <1>9, <1>11, <3>1, HandleFacts
  <2>3. ASSUME NEW m \in DOMAIN capture', NEW k \in DOMAIN capture', m # k
        PROVE  capture'[m].iface # capture'[k].iface /\ capture'[m].handle # capture'[k].handle
    <3>1. /\ Old(m) \in DOMAIN capture /\ Old(k) \in DOMAIN capture /\ Old(m) # Old(k)
          /\ capture'[m] = capture[Old(m)] /\ capture'[k] = capture[Old(k)]
      BY <1>3, <1>4, <1>5, <1>6, <2>3
    <3> QED BY <3>1, CaptureApart
  <2>4. ASSUME NEW s \in ActiveSlots', NEW m \in DOMAIN capture'
        PROVE  slots'[s].handle # capture'[m].handle
    <3>1. Old(m) \in DOMAIN capture /\ capture'[m] = capture[Old(m)]
      BY <1>3, <1>4, <1>5
    <3> QED BY <1>2, <3>1, TablesApart
  <2>5. \A s, t \in ActiveSlots' : s # t =>
          slots'[s].iface # slots'[t].iface /\ slots'[s].handle # slots'[t].handle
    BY <1>2, SlotsApart
  <2> QED BY <2>1, <2>2, <2>3, <2>4, <2>5 DEF HandlesAgree
<1> QED BY <1>7, <1>12 DEF HandleInv

LEMMA StartFlowKeeps ==
  ASSUME HandleInv, NEW i \in Ifaces, StartFlow(i)
  PROVE  HandleInv'
<1>1. PICK z \in Slots, h \in Handles :
        /\ z \notin ActiveSlots
        /\ pcap[h] = Closed
        /\ pcap' = [pcap EXCEPT ![h] = i]
        /\ slots' = [slots EXCEPT ![z] = [iface |-> i, handle |-> h]]
  BY Zenon DEF StartFlow, OpenPcap, IsFirst, FreeHandles
<1>2. capture' = capture
  BY DEF StartFlow
<1>3. \A s \in ActiveSlots : slots[s].iface # i
  BY DEF StartFlow, SlotsOf
<1>4. [iface |-> i, handle |-> h] \in Capturing
  BY DEF Capturing
<1>5. HandleTypes'
  BY <1>1, <1>2, <1>4 DEF HandleInv, HandleTypes
<1>6. slots'[z] = [iface |-> i, handle |-> h]
  BY <1>1 DEF HandleInv, HandleTypes
<1>7. slots'[z].iface = i /\ slots'[z].handle = h
  BY SMTT(20), <1>6
<1>8. slots'[z] # Inactive
  BY <1>4, <1>6, FlowTrackerAssumption DEF Capturing, Handles
<1>9. \A s \in Slots : s # z => slots'[s] = slots[s]
  BY <1>1 DEF HandleInv, HandleTypes
<1>10. \A s \in ActiveSlots' : s = z \/ (s \in ActiveSlots /\ slots'[s] = slots[s])
  BY <1>9 DEF ActiveSlots
<1>11. pcap'[h] = i /\ \A g \in Handles : g # h => pcap'[g] = pcap[g]
  BY <1>1 DEF HandleInv, HandleTypes
<1>a. /\ \A s \in ActiveSlots : slots[s].handle # h
      /\ \A n \in DOMAIN capture : capture[n].handle # h
  BY <1>1, ClosedUnused
<1>b. /\ \A s \in ActiveSlots : /\ slots[s].handle \in Handles
                                /\ pcap[slots[s].handle] = slots[s].iface
      /\ \A n \in DOMAIN capture : /\ capture[n].handle \in Handles
                                   /\ pcap[capture[n].handle] = capture[n].iface
  BY HandleFacts
<1>12. HandlesAgree'
  <2>1. ASSUME NEW s \in ActiveSlots'
        PROVE  pcap'[slots'[s].handle] = slots'[s].iface
    <3>1. CASE s = z
      BY <1>7, <1>11, <3>1
    <3>2. CASE s \in ActiveSlots /\ slots'[s] = slots[s]
      BY <1>11, <1>a, <1>b, <3>2
    <3> QED BY <1>10, <3>1, <3>2
  <2>2. \A n \in DOMAIN capture' : pcap'[capture'[n].handle] = capture'[n].iface
    BY <1>2, <1>11, <1>a, <1>b
  <2>3. ASSUME NEW s \in ActiveSlots', NEW t \in ActiveSlots', s # t
        PROVE  slots'[s].iface # slots'[t].iface /\ slots'[s].handle # slots'[t].handle
    <3>1. CASE s # z /\ t # z
      BY <1>10, <2>3, <3>1, SlotsApart
    <3>2. CASE s = z
      BY <1>3, <1>7, <1>10, <1>a, <2>3, <3>2
    <3>3. CASE t = z
      BY <1>3, <1>7, <1>10, <1>a, <2>3, <3>3
    <3> QED BY <3>1, <3>2, <3>3
  <2>4. ASSUME NEW s \in ActiveSlots', NEW n \in DOMAIN capture'
        PROVE  slots'[s].handle # capture'[n].handle
    <3>1. CASE s = z
      BY <1>2, <1>7, <1>a, <3>1
    <3>2. CASE s \in ActiveSlots /\ slots'[s] = slots[s]
      BY <1>2, <3>2, TablesApart
    <3> QED BY <1>10, <3>1, <3>2
  <2>5. \A m, n \in DOMAIN capture' : m # n =>
          capture'[m].iface # capture'[n].iface /\ capture'[m].handle # capture'[n].handle
    BY <1>2, CaptureApart
  <2> QED BY <2>1, <2>2, <2>3, <2>4, <2>5 DEF HandlesAgree
<1> QED BY <1>5, <1>12 DEF HandleInv

\* Stopping only takes entries away from the tracker.
LEMMA StopKeeps ==
  ASSUME HandleInv, StopAllFlows \/ \E i \in Ifaces : StopFlow(i)
  PROVE  HandleInv'
<1>1. pcap' = pcap /\ capture' = capture
  BY DEF StopAllFlows, StopFlow
<1>2. /\ slots' \in [Slots -> Capturing \cup {Inactive}]
      /\ \A s \in Slots : slots'[s] = slots[s] \/ slots'[s] = Inactive
  BY DEF StopAllFlows, StopFlow, HandleInv, HandleTypes
<1>3. \A s \in ActiveSlots' : s \in ActiveSlots /\ slots'[s] = slots[s]
  BY <1>2 DEF ActiveSlots
<1>4. HandleTypes'
  BY <1>1, <1>2 DEF HandleInv, HandleTypes
<1>5. \A s, t \in ActiveSlots' : s # t =>
        slots'[s].iface # slots'[t].iface /\ slots'[s].handle # slots'[t].handle
  BY <1>3, SlotsApart
<1>6. \A s \in ActiveSlots', n \in DOMAIN capture' : slots'[s].handle # capture'[n].handle
  BY <1>1, <1>3, TablesApart
<1>7. \A m, n \in DOMAIN capture' : m # n =>
        capture'[m].iface # capture'[n].iface /\ capture'[m].handle # capture'[n].handle
  BY <1>1, CaptureApart
<1>8. /\ \A s \in ActiveSlots' : pcap'[slots'[s].handle] = slots'[s].iface
      /\ \A n \in DOMAIN capture' : pcap'[capture'[n].handle] = capture'[n].iface
  BY <1>1, <1>3, HandleFacts
<1> QED BY <1>4, <1>5, <1>6, <1>7, <1>8 DEF HandleInv, HandlesAgree

LEMMA OthersKeepHandles ==
  ASSUME HandleInv, UNCHANGED handleVars
  PROVE  HandleInv'
<1>1. pcap' = pcap /\ capture' = capture /\ slots' = slots
  BY DEF handleVars
<1>2. ActiveSlots' = ActiveSlots
  BY <1>1 DEF ActiveSlots
<1>3. HandleTypes'
  BY <1>1 DEF HandleInv, HandleTypes
<1>4. HandlesAgree'
  <2>1. \A s, t \in ActiveSlots' : s # t =>
          slots'[s].iface # slots'[t].iface /\ slots'[s].handle # slots'[t].handle
    BY <1>1, <1>2, SlotsApart
  <2>2. \A s \in ActiveSlots', n \in DOMAIN capture' : slots'[s].handle # capture'[n].handle
    BY <1>1, <1>2, TablesApart
  <2>3. \A m, n \in DOMAIN capture' : m # n =>
          capture'[m].iface # capture'[n].iface /\ capture'[m].handle # capture'[n].handle
    BY <1>1, CaptureApart
  <2>4. /\ \A s \in ActiveSlots' : pcap'[slots'[s].handle] = slots'[s].iface
        /\ \A n \in DOMAIN capture' : pcap'[capture'[n].handle] = capture'[n].iface
    BY <1>1, <1>2, HandleFacts
  <2> QED BY <2>1, <2>2, <2>3, <2>4 DEF HandlesAgree
<1> QED BY <1>3, <1>4 DEF HandleInv

\* Every step keeps the handles in agreement.
LEMMA NextHandles ==
  ASSUME HandleInv, [Next]_vars
  PROVE  HandleInv'
<1>1. CASE \E i \in Ifaces : CaptureAdd(i) \/ CaptureRemove(i) \/ StartFlow(i) \/ StopFlow(i)
  BY <1>1, CaptureAddKeeps, CaptureRemoveKeeps, StartFlowKeeps, StopKeeps
<1>2. CASE StopAllFlows
  BY <1>2, StopKeeps
<1>3. CASE \/ Clock \/ Tick \/ Shutdown \/ UNCHANGED vars
           \/ \E h \in Handles, p \in Packets, d \in Delays : OnPacket(h, p, d)
           \/ \E h \in Handles : OnBadPacket(h)
  <2>1. UNCHANGED handleVars
    BY <1>3 DEF Clock, Tick, Shutdown, vars, OnPacket, OnBadPacket
  <2> QED BY <2>1, OthersKeepHandles
<1> QED BY <1>1, <1>2, <1>3 DEF Next

\* At the start no handle is in use.
LEMMA InitHandles == Init => HandleInv
<1> SUFFICES ASSUME Init PROVE HandleInv
  OBVIOUS
<1>1. /\ pcap = [h \in Handles |-> Closed] /\ capture = <<>>
      /\ slots = [s \in Slots |-> Inactive]
  BY Zenon DEF Init
<1>2. HandleTypes
  BY <1>1 DEF HandleTypes
<1>3. ActiveSlots = {} /\ DOMAIN capture = {}
  BY <1>1 DEF ActiveSlots
<1>4. HandlesAgree
  BY <1>3, Zenon DEF HandlesAgree
<1> QED
  BY <1>2, <1>4, Zenon DEF HandleInv

\* The worker's open handles, the capture set and the tracker's slots agree in
\* every state, whatever is started, stopped, added and removed, and for every
\* number of handles, slots and interfaces.
THEOREM HandlesStayTrue == Spec => []HandlesAgree
<1>1. HandleInv /\ [Next]_vars => HandleInv'
  BY NextHandles
<1>2. HandleInv => HandlesAgree
  BY DEF HandleInv
<1> QED BY <1>1, <1>2, InitHandles, PTL DEF Spec

-----------------------------------------------------------------------------
(* Sums of packets.  A sum over a set of flows is the number of pairs of a *)
(* flow and one of its packets, so that facts about cardinalities are      *)
(* facts about sums.                                                       *)

Counted(t, S) == IsFiniteSet(S) /\ \A k \in S : PacketsOf(t[k]) \in Nat
UnitsOf(t, k) == {k} \X (1 .. PacketsOf(t[k]))
Units(t, S) == UNION {UnitsOf(t, k) : k \in S}

\* A flow has as many units as packets.
LEMMA UnitsOfOne ==
  ASSUME NEW t, NEW k, PacketsOf(t[k]) \in Nat
  PROVE  IsFiniteSet(UnitsOf(t, k)) /\ Cardinality(UnitsOf(t, k)) = PacketsOf(t[k])
<1> DEFINE n == PacketsOf(t[k])
<1>1. IsFiniteSet({k}) /\ Cardinality({k}) = 1
  BY FS_Singleton, Zenon
<1>2. n \in Nat
  OBVIOUS
<1> HIDE DEF n
<1>3. IsFiniteSet(1 .. n) /\ Cardinality(1 .. n) = n
  <2>1. 1 \in Int /\ n \in Int
    BY <1>2
  <2>2. IsFiniteSet(1 .. n)
    BY <2>1, FS_Interval, Zenon
  <2>3. Cardinality(1 .. n) = IF 1 > n THEN 0 ELSE n - 1 + 1
    BY <2>1, FS_Interval, Zenon
  <2>4. Cardinality(1 .. n) = n
    BY <1>2, <2>3
  <2> QED
    BY <2>2, <2>4, Zenon
<1>4. /\ IsFiniteSet({k} \X (1 .. n))
      /\ Cardinality({k} \X (1 .. n)) = Cardinality({k}) * Cardinality(1 .. n)
  BY <1>1, <1>3, FS_Product, Zenon
<1>5. Cardinality({k} \X (1 .. n)) = n
  BY <1>1, <1>2, <1>3, <1>4
<1> QED
  BY <1>4, <1>5, Zenon DEF UnitsOf, n

\* Finitely many flows have finitely many units.
LEMMA UnitsFinite ==
  ASSUME NEW t, NEW S, Counted(t, S)
  PROVE  IsFiniteSet(Units(t, S))
<1> DEFINE T == {UnitsOf(t, k) : k \in S}
           f == [k \in S |-> UnitsOf(t, k)]
<1>1. f \in Surjection(S, T)
  BY Zenon DEF Surjection
<1>2. IsFiniteSet(T)
  <2> HIDE DEF f, T
  <2> QED
    BY <1>1, FS_Surjection DEF Counted
<1>3. \A U \in T : IsFiniteSet(U)
  BY UnitsOfOne, Zenon DEF Counted
<1> QED
  BY <1>2, <1>3, FS_UNION, Zenon DEF Units

\* The units of two sets of flows without a common one.
LEMMA UnitsApart ==
  ASSUME NEW t, NEW S, NEW T, Counted(t, S), Counted(t, T), S \cap T = {}
  PROVE  Cardinality(Units(t, S \cup T)) = Cardinality(Units(t, S)) + Cardinality(Units(t, T))
<1>1. IsFiniteSet(Units(t, S)) /\ IsFiniteSet(Units(t, T))
  BY UnitsFinite
<1>2. Units(t, S \cup T) = Units(t, S) \cup Units(t, T)
  BY Zenon DEF Units
<1>3. Units(t, S) \cap Units(t, T) = {}
  <2>1. \A R : \A u \in Units(t, R) : u[1] \in R
    <3> SUFFICES ASSUME NEW R, NEW k \in R, NEW u \in UnitsOf(t, k)
                 PROVE  u[1] = k
      BY Zenon DEF Units
    <3> QED
      BY DEF UnitsOf
  <2> QED
    BY <2>1, Zenon
<1>4. Cardinality(Units(t, S) \cup Units(t, T)) =
        Cardinality(Units(t, S)) + Cardinality(Units(t, T))
          - Cardinality(Units(t, S) \cap Units(t, T))
  BY <1>1, FS_Union
<1>5. Cardinality(Units(t, S)) \in Nat /\ Cardinality(Units(t, T)) \in Nat
  BY <1>1, FS_CardinalityType
<1>6. Cardinality(Units(t, S) \cap Units(t, T)) = 0
  BY <1>3, FS_EmptySet, Zenon
<1>7. \A a, b \in Nat : a + b - 0 = a + b
  OBVIOUS
<1>8. Cardinality(Units(t, S \cup T)) =
        Cardinality(Units(t, S)) + Cardinality(Units(t, T)) - 0
  BY <1>2, <1>4, <1>6, Zenon
<1> QED
  BY <1>5, <1>7, <1>8, Zenon

\* The flow taken out of a sum.
LEMMA UnitsTakeOut ==
  ASSUME NEW t, NEW S, Counted(t, S), NEW x \in S
  PROVE  Cardinality(Units(t, S)) = PacketsOf(t[x]) + Cardinality(Units(t, S \ {x}))
<1>1. Counted(t, {x}) /\ Counted(t, S \ {x})
  BY FS_Singleton, FS_RemoveElement, Zenon DEF Counted
<1>2. {x} \cup (S \ {x}) = S /\ {x} \cap (S \ {x}) = {}
  BY Zenon
<1>3. Units(t, {x}) = UnitsOf(t, x)
  BY Zenon DEF Units
<1>4. Cardinality(UnitsOf(t, x)) = PacketsOf(t[x])
  BY UnitsOfOne DEF Counted
<1> QED
  BY <1>1, <1>2, <1>3, <1>4, UnitsApart

\* A set of naturals that is not empty has a least member.
LEMMA LeastNatural ==
  ASSUME NEW T, T \subseteq Nat, T # {}
  PROVE  \E x \in T : \A y \in T : x <= y
<1> DEFINE R == {p \in Nat \X Nat : p[1] < p[2]}
<1>1. IsWellFoundedOn(R, Nat)
  BY NatLessThanWellFounded, Zenon DEF OpToRel
<1>2. \E x \in T : \A y \in T : ~(<<y, x>> \in R)
  <2> HIDE DEF R
  <2> QED
    BY <1>1, WFMin, Zenon
<1>3. PICK x \in T : \A y \in T : ~(<<y, x>> \in R)
  BY <1>2
<1>4. ASSUME NEW y \in T
      PROVE  x <= y
  <2>1. x \in Nat /\ y \in Nat
    OBVIOUS
  <2>2. y < x => <<y, x>> \in R
    BY <2>1
  <2>3. ~(y < x)
    BY <1>3, <2>2
  <2> QED
    BY <2>1, <2>3
<1> QED
  BY <1>3, <1>4

\* The step of the fold that PacketsIn is.
FoldStep(t, S, g) ==
  [s \in SUBSET S |->
     IF s = {} THEN 0
     ELSE PacketsOf(t[CHOOSE x \in s : TRUE]) + g[s \ {CHOOSE x \in s : TRUE}]]

\* PacketsIn chooses a function that the step leaves as it is.
LEMMA PacketsInFold ==
  ASSUME NEW t, NEW S
  PROVE  PacketsIn(t, S) = (CHOOSE g : g = FoldStep(t, S, g))[S]
BY DEF PacketsIn, MapThenSumSet, MapThenFoldSet, FoldStep

\* The numbers of units are a fixed point of the fold's step.
LEMMA UnitsFold ==
  ASSUME NEW t, NEW S, Counted(t, S)
  PROVE  [s \in SUBSET S |-> Cardinality(Units(t, s))] =
           FoldStep(t, S, [s \in SUBSET S |-> Cardinality(Units(t, s))])
<1> DEFINE c == [s \in SUBSET S |-> Cardinality(Units(t, s))]
<1>1. ASSUME NEW s \in SUBSET S
      PROVE  c[s] = FoldStep(t, S, c)[s]
  <2>1. CASE s = {}
    <3>1. Units(t, {}) = {}
      BY Zenon DEF Units
    <3>2. c[s] = 0
      BY <2>1, <3>1, FS_EmptySet, Zenon
    <3>3. FoldStep(t, S, c)[s] = 0
      BY <2>1 DEF FoldStep
    <3> QED
      BY <3>2, <3>3
  <2>2. CASE s # {}
    <3> DEFINE x == CHOOSE x \in s : TRUE
    <3>1. x \in s
      BY <2>2, Zenon
    <3>2. FoldStep(t, S, c)[s] = PacketsOf(t[x]) + c[s \ {x}]
      <4> HIDE DEF c
      <4> QED
        BY <2>2 DEF FoldStep
    <3>3. Counted(t, s)
      BY FS_Subset DEF Counted
    <3>4. Cardinality(Units(t, s)) = PacketsOf(t[x]) + Cardinality(Units(t, s \ {x}))
      <4> HIDE DEF x
      <4> QED
        BY <3>1, <3>3, UnitsTakeOut
    <3>5. s \ {x} \in SUBSET S
      BY Zenon
    <3>6. c[s \ {x}] = Cardinality(Units(t, s \ {x})) /\ c[s] = Cardinality(Units(t, s))
      <4> HIDE DEF x
      <4> QED
        BY <3>5, Zenon
    <3> QED
      <4> HIDE DEF c, x
      <4> QED
        BY <3>2, <3>4, <3>6, Zenon
  <2> QED
    BY <2>1, <2>2, Zenon
<1> DEFINE b(s) == IF s = {} THEN 0
                   ELSE PacketsOf(t[CHOOSE x \in s : TRUE]) + c[s \ {CHOOSE x \in s : TRUE}]
<1>2. FoldStep(t, S, c) = [s \in SUBSET S |-> b(s)]
  <2> HIDE DEF c
  <2> QED
    BY Zenon DEF FoldStep
<1> HIDE DEF b
<1>3. \A s \in SUBSET S : Cardinality(Units(t, s)) = b(s)
  BY <1>1, <1>2, Zenon
<1>4. c = [s \in SUBSET S |-> b(s)]
  BY <1>3
<1> QED
  BY <1>2, <1>4, Zenon

\* It has no other: a least set on which two of them differ has an element
\* without which they agree.
LEMMA UnitsFoldOnly ==
  ASSUME NEW t, NEW S, Counted(t, S), NEW g, g = FoldStep(t, S, g)
  PROVE  \A s \in SUBSET S : g[s] = Cardinality(Units(t, s))
<1> DEFINE Bad == {s \in SUBSET S : g[s] # Cardinality(Units(t, s))}
           Sizes == {Cardinality(s) : s \in Bad}
<1>0. \A s \in SUBSET S : IsFiniteSet(s) /\ Cardinality(s) \in Nat
  BY FS_Subset, FS_CardinalityType DEF Counted
<1> SUFFICES ASSUME Sizes # {}
             PROVE  FALSE
  BY Zenon
<1>1. PICK n \in Sizes : \A m \in Sizes : n <= m
  <2>1. Sizes \subseteq Nat
    BY <1>0, Zenon
  <2> HIDE DEF Sizes
  <2> QED
    BY <2>1, LeastNatural, Zenon
<1>2. PICK s \in Bad : n = Cardinality(s)
  BY <1>1, Zenon
<1>3. s # {}
  <2> SUFFICES ASSUME s = {}
               PROVE  g[s] = Cardinality(Units(t, s))
    BY <1>2, Zenon
  <2>1. Units(t, {}) = {}
    BY Zenon DEF Units
  <2>2. Cardinality(Units(t, s)) = 0
    BY <2>1, FS_EmptySet, Zenon
  <2>3. FoldStep(t, S, g)[s] = 0
    BY DEF FoldStep
  <2> QED
    BY <2>2, <2>3
<1> DEFINE x == CHOOSE x \in s : TRUE
<1>4. x \in s
  BY <1>3, Zenon
<1>5. g[s] = PacketsOf(t[x]) + g[s \ {x}]
  <2>1. FoldStep(t, S, g)[s] = PacketsOf(t[x]) + g[s \ {x}]
    BY <1>3, Zenon DEF FoldStep
  <2> HIDE DEF x
  <2> QED
    BY <2>1, Zenon
<1> HIDE DEF x
<1>6. s \ {x} \in SUBSET S
  BY Zenon
<1>7. s \ {x} \notin Bad
  <2>1. Cardinality(s \ {x}) = n - 1 /\ n \in Nat
    BY <1>0, <1>2, <1>4, FS_RemoveElement
  <2>2. ~(n <= n - 1)
    BY <2>1
  <2>3. Cardinality(s \ {x}) \notin Sizes
    <3> HIDE DEF Sizes
    <3> QED
      BY <1>1, <2>1, <2>2, Zenon
  <2> QED
    BY <2>3, Zenon
<1>8. g[s \ {x}] = Cardinality(Units(t, s \ {x}))
  BY <1>6, <1>7, Zenon
<1>9. Counted(t, s)
  BY <1>0 DEF Counted
<1>10. Cardinality(Units(t, s)) = PacketsOf(t[x]) + Cardinality(Units(t, s \ {x}))
  BY <1>4, <1>9, UnitsTakeOut
<1> QED
  BY <1>2, <1>5, <1>8, <1>10, Zenon

\* The sum of the packets of some flows is the number of their units.
LEMMA SumIsUnits ==
  ASSUME NEW t, NEW S, Counted(t, S)
  PROVE  PacketsIn(t, S) = Cardinality(Units(t, S))
<1> DEFINE g == CHOOSE g : g = FoldStep(t, S, g)
<1>1. g = FoldStep(t, S, g)
  <2>1. \E h : h = FoldStep(t, S, h)
    BY UnitsFold, Zenon
  <2> QED
    BY <2>1, Zenon
<1>2. PacketsIn(t, S) = g[S]
  BY PacketsInFold
<1> HIDE DEF g
<1>3. g[S] = Cardinality(Units(t, S))
  <2>1. S \in SUBSET S
    BY Zenon
  <2> QED
    BY <1>1, <2>1, UnitsFoldOnly
<1> QED
  BY <1>2, <1>3

\* Sums add up over sets of flows without a common one.
LEMMA SumApart ==
  ASSUME NEW t, NEW S, NEW T, Counted(t, S), Counted(t, T), S \cap T = {}
  PROVE  /\ PacketsIn(t, S) \in Nat /\ PacketsIn(t, T) \in Nat
         /\ PacketsIn(t, S \cup T) = PacketsIn(t, S) + PacketsIn(t, T)
<1>1. Counted(t, S \cup T)
  BY FS_Union, Zenon DEF Counted
<1>2. /\ PacketsIn(t, S) = Cardinality(Units(t, S))
      /\ PacketsIn(t, T) = Cardinality(Units(t, T))
      /\ PacketsIn(t, S \cup T) = Cardinality(Units(t, S \cup T))
  BY <1>1, SumIsUnits
<1>3. Cardinality(Units(t, S)) \in Nat /\ Cardinality(Units(t, T)) \in Nat
  BY UnitsFinite, FS_CardinalityType
<1> QED
  BY <1>2, <1>3, UnitsApart

\* A sum looks only at the flows it is over.
LEMMA SumSame ==
  ASSUME NEW t, NEW u, NEW S, Counted(t, S), \A k \in S : u[k] = t[k]
  PROVE  PacketsIn(u, S) = PacketsIn(t, S)
<1>1. Counted(u, S)
  BY DEF Counted
<1>2. \A k \in S : UnitsOf(u, k) = UnitsOf(t, k)
  BY Zenon DEF UnitsOf
<1>3. Units(u, S) = Units(t, S)
  BY <1>2, Zenon DEF Units
<1> QED
  BY <1>1, <1>3, SumIsUnits

\* The sum over one flow, and over none.
LEMMA SumOne ==
  ASSUME NEW t, NEW k, PacketsOf(t[k]) \in Nat
  PROVE  PacketsIn(t, {k}) = PacketsOf(t[k]) /\ PacketsIn(t, {}) = 0
<1>1. Counted(t, {k}) /\ Counted(t, {})
  BY FS_Singleton, FS_EmptySet, Zenon DEF Counted
<1>2. Units(t, {k}) = UnitsOf(t, k) /\ Units(t, {}) = {}
  BY Zenon DEF Units
<1>3. Cardinality(UnitsOf(t, k)) = PacketsOf(t[k])
  BY UnitsOfOne
<1>4. Cardinality({}) = 0
  BY FS_EmptySet, Zenon
<1> QED
  BY <1>1, <1>2, <1>3, <1>4, SumIsUnits

-----------------------------------------------------------------------------
(* The walk of the tree *)

\* flow_compare is lexicographic in the five fields.
LEMMA KeyLessOpen ==
  ASSUME NEW j \in Key, NEW k \in Key
  PROVE  KeyLess(j, k) <=>
           \/ ProtoNumber[j.proto] < ProtoNumber[k.proto]
           \/ /\ j.proto = k.proto
              /\ \/ j.src < k.src
                 \/ j.src = k.src /\ j.dst < k.dst
                 \/ j.src = k.src /\ j.dst = k.dst /\ j.sport < k.sport
                 \/ /\ j.src = k.src /\ j.dst = k.dst /\ j.sport = k.sport
                    /\ j.dport < k.dport
<1>1. ProtoNumber[j.proto] = ProtoNumber[k.proto] <=> j.proto = k.proto
  BY DEF Key, ProtoNumber
<1> DEFINE a == KeyFields(j)
           b == KeyFields(k)
<1>2. /\ a[1] = ProtoNumber[j.proto] /\ a[2] = j.src /\ a[3] = j.dst
      /\ a[4] = j.sport /\ a[5] = j.dport
  BY DEF KeyFields
<1>3. /\ b[1] = ProtoNumber[k.proto] /\ b[2] = k.src /\ b[3] = k.dst
      /\ b[4] = k.sport /\ b[5] = k.dport
  BY DEF KeyFields
<1>4. KeyLess(j, k) <=> \E i \in 1 .. 5 : a[i] < b[i] /\ \A h \in 1 .. i - 1 : a[h] = b[h]
  BY DEF KeyLess
<1> HIDE DEF a, b
<1>5. (\E i \in 1 .. 5 : a[i] < b[i] /\ \A h \in 1 .. i - 1 : a[h] = b[h]) <=>
        \/ a[1] < b[1]
        \/ a[2] < b[2] /\ a[1] = b[1]
        \/ a[3] < b[3] /\ a[1] = b[1] /\ a[2] = b[2]
        \/ a[4] < b[4] /\ a[1] = b[1] /\ a[2] = b[2] /\ a[3] = b[3]
        \/ a[5] < b[5] /\ a[1] = b[1] /\ a[2] = b[2] /\ a[3] = b[3] /\ a[4] = b[4]
  <2>1. 1 .. 5 = {1, 2, 3, 4, 5}
    OBVIOUS
  <2>2. /\ 1 .. 1 - 1 = {} /\ 1 .. 2 - 1 = {1} /\ 1 .. 3 - 1 = {1, 2}
        /\ 1 .. 4 - 1 = {1, 2, 3} /\ 1 .. 5 - 1 = {1, 2, 3, 4}
    OBVIOUS
  <2> DEFINE Q(i) == a[i] < b[i] /\ \A h \in 1 .. i - 1 : a[h] = b[h]
  <2>3. (\E i \in 1 .. 5 : Q(i)) <=> Q(1) \/ Q(2) \/ Q(3) \/ Q(4) \/ Q(5)
    <3> HIDE DEF Q
    <3> QED
      BY <2>1, Zenon
  <2>4. Q(1) <=> a[1] < b[1]
    BY <2>2, Zenon
  <2>5. Q(2) <=> a[2] < b[2] /\ a[1] = b[1]
    BY <2>2, Zenon
  <2>6. Q(3) <=> a[3] < b[3] /\ a[1] = b[1] /\ a[2] = b[2]
    BY <2>2, Zenon
  <2>7. Q(4) <=> a[4] < b[4] /\ a[1] = b[1] /\ a[2] = b[2] /\ a[3] = b[3]
    BY <2>2, Zenon
  <2>8. Q(5) <=> a[5] < b[5] /\ a[1] = b[1] /\ a[2] = b[2] /\ a[3] = b[3] /\ a[4] = b[4]
    BY <2>2, Zenon
  <2> HIDE DEF Q
  <2>9. (\E i \in 1 .. 5 : Q(i)) <=>
        \/ a[1] < b[1]
        \/ a[2] < b[2] /\ a[1] = b[1]
        \/ a[3] < b[3] /\ a[1] = b[1] /\ a[2] = b[2]
        \/ a[4] < b[4] /\ a[1] = b[1] /\ a[2] = b[2] /\ a[3] = b[3]
        \/ a[5] < b[5] /\ a[1] = b[1] /\ a[2] = b[2] /\ a[3] = b[3] /\ a[4] = b[4]
    BY <2>3, <2>4, <2>5, <2>6, <2>7, <2>8
  <2> QED
    BY <2>9 DEF Q
<1> QED
  BY <1>1, <1>2, <1>3, <1>4, <1>5, Zenon

\* flow_compare orders the keys strictly and totally.
LEMMA KeyOrder ==
  /\ \A k \in Key : ~KeyLess(k, k)
  /\ \A j, k \in Key : j = k \/ KeyLess(j, k) \/ KeyLess(k, j)
  /\ \A i, j, k \in Key : KeyLess(i, j) /\ KeyLess(j, k) => KeyLess(i, k)
<1>1. \A k \in Key : /\ ProtoNumber[k.proto] \in Nat /\ k.src \in Nat /\ k.dst \in Nat
                     /\ k.sport \in Nat /\ k.dport \in Nat
  BY DEF Key, ProtoNumber
<1>2. \A j, k \in Key : ProtoNumber[j.proto] = ProtoNumber[k.proto] => j.proto = k.proto
  BY DEF Key, ProtoNumber
<1>3. \A k \in Key : ~KeyLess(k, k)
  BY <1>1, KeyLessOpen
<1>4. ASSUME NEW j \in Key, NEW k \in Key, ~KeyLess(j, k), ~KeyLess(k, j)
      PROVE  j = k
  <2>1. /\ j.proto = k.proto /\ j.src = k.src /\ j.dst = k.dst /\ j.sport = k.sport
        /\ j.dport = k.dport
    BY <1>1, <1>2, <1>4, KeyLessOpen
  <2> QED
    BY <2>1 DEF Key
<1>5. ASSUME NEW i \in Key, NEW j \in Key, NEW k \in Key, KeyLess(i, j), KeyLess(j, k)
      PROVE  KeyLess(i, k)
  BY <1>1, <1>2, <1>5, KeyLessOpen
<1> QED
  BY <1>3, <1>4, <1>5, Zenon

Below(S, k) == {j \in S : KeyLess(j, k)}

\* Of two keys, the one met first has fewer keys before it.
LEMMA RankGrows ==
  ASSUME NEW S, S \subseteq Key, IsFiniteSet(S), NEW j \in S, NEW k \in S, KeyLess(j, k)
  PROVE  Cardinality(Below(S, j)) < Cardinality(Below(S, k))
<1>1. /\ Below(S, j) \in SUBSET S /\ Below(S, k) \in SUBSET S
      /\ Below(S, j) \cup {j} \subseteq Below(S, k)
      /\ j \notin Below(S, j)
  BY KeyOrder, Zenon DEF Below
<1>2. IsFiniteSet(Below(S, j)) /\ IsFiniteSet(Below(S, k))
  BY <1>1, FS_Subset
<1>3. Cardinality(Below(S, j) \cup {j}) = Cardinality(Below(S, j)) + 1
  BY <1>1, <1>2, FS_AddElement, Zenon
<1>4. Cardinality(Below(S, j) \cup {j}) <= Cardinality(Below(S, k))
  BY <1>1, <1>2, FS_Subset
<1>5. Cardinality(Below(S, j)) \in Nat /\ Cardinality(Below(S, k)) \in Nat
  BY <1>2, FS_CardinalityType
<1> QED
  BY <1>3, <1>4, <1>5

\* One call hands over at most a buffer's worth: two keys of a walk have two
\* numbers of keys before them.
LEMMA FirstBounded ==
  ASSUME NEW S, S \subseteq Key, IsFiniteSet(S), NEW n \in Nat
  PROVE  /\ FirstInOrder(S, n) \subseteq S
         /\ IsFiniteSet(FirstInOrder(S, n))
         /\ Cardinality(FirstInOrder(S, n)) \in 0 .. n
<1> DEFINE F == FirstInOrder(S, n)
           rank == [k \in F |-> Cardinality(Below(S, k))]
<1>1. F \subseteq S
  BY DEF FirstInOrder
<1>2. \A k \in S : Cardinality(Below(S, k)) \in Nat
  <2> SUFFICES ASSUME NEW k \in S
               PROVE  Cardinality(Below(S, k)) \in Nat
    OBVIOUS
  <2>1. Below(S, k) \in SUBSET S
    BY DEF Below
  <2> QED
    BY <2>1, FS_Subset, FS_CardinalityType
<1>3. \A k \in F : Cardinality(Below(S, k)) \in 0 .. n - 1
  <2>1. \A k \in F : Cardinality(Below(S, k)) < n
    BY DEF FirstInOrder, Below
  <2> HIDE DEF F
  <2> QED
    BY <1>1, <1>2, <2>1
<1>4. \A j, k \in F : rank[j] = rank[k] => j = k
  <2> SUFFICES ASSUME NEW j \in F, NEW k \in F, j # k
               PROVE  Cardinality(Below(S, j)) # Cardinality(Below(S, k))
    BY Zenon
  <2> HIDE DEF F
  <2>1. j \in S /\ k \in S
    BY <1>1
  <2>2. KeyLess(j, k) \/ KeyLess(k, j)
    BY <2>1, KeyOrder, Zenon
  <2> QED
    BY <1>2, <2>1, <2>2, RankGrows
<1> HIDE DEF F
<1>5. rank \in Injection(F, 0 .. n - 1)
  BY <1>3, <1>4 DEF Injection, IsInjective
<1>6. IsFiniteSet(0 .. n - 1) /\ Cardinality(0 .. n - 1) = n
  BY FS_Interval
<1> HIDE DEF rank
<1>7. IsFiniteSet(F) /\ Cardinality(F) <= n
  BY <1>5, <1>6, FS_Injection
<1>8. Cardinality(F) \in Nat
  BY <1>7, FS_CardinalityType
<1> QED
  BY <1>1, <1>7, <1>8 DEF F

\* A call that did not fill the buffer has handed over everything: the first
\* key left out would have as few keys before it as were handed over.
LEMMA FirstAll ==
  ASSUME NEW S, S \subseteq Key, IsFiniteSet(S), NEW n \in Nat,
         Cardinality(FirstInOrder(S, n)) < n
  PROVE  FirstInOrder(S, n) = S
<1> DEFINE F == FirstInOrder(S, n)
           Ranks == {Cardinality(Below(S, k)) : k \in S \ F}
<1>1. F \subseteq S /\ IsFiniteSet(F) /\ Cardinality(F) \in Nat
  BY FirstBounded
<1> SUFFICES ASSUME Ranks # {}
             PROVE  FALSE
  BY <1>1, Zenon
<1>2. \A k \in S : Cardinality(Below(S, k)) \in Nat
  <2> SUFFICES ASSUME NEW k \in S
               PROVE  Cardinality(Below(S, k)) \in Nat
    OBVIOUS
  <2>1. Below(S, k) \in SUBSET S
    BY DEF Below
  <2> QED
    BY <2>1, FS_Subset, FS_CardinalityType, Zenon
<1>3. PICK r \in Ranks : \A m \in Ranks : r <= m
  <2>1. Ranks \subseteq Nat
    BY <1>2, Zenon
  <2> HIDE DEF Ranks
  <2> QED
    BY <2>1, LeastNatural, Zenon
<1>4. PICK k \in S \ F : r = Cardinality(Below(S, k))
  BY <1>3, Zenon
<1>5. ASSUME NEW j \in Below(S, k)
      PROVE  j \in F
  <2>1. j \in S /\ KeyLess(j, k)
    BY DEF Below
  <2>2. Cardinality(Below(S, j)) < r
    BY <1>4, <2>1, RankGrows
  <2>3. Cardinality(Below(S, j)) \in Nat /\ r \in Nat
    BY <1>2, <1>4, <2>1
  <2>4. ~(r <= Cardinality(Below(S, j)))
    BY <2>2, <2>3
  <2> QED
    BY <1>3, <2>1, <2>4, Zenon
<1>6. Cardinality(Below(S, k)) <= Cardinality(F)
  <2>1. Below(S, k) \in SUBSET F
    BY <1>5, Zenon
  <2> HIDE DEF F
  <2> QED
    BY <1>1, <2>1, FS_Subset
<1>7. ~(Cardinality(Below(S, k)) < n)
  BY <1>4 DEF FirstInOrder, Below
<1> QED
  <2> HIDE DEF F
  <2>1. Cardinality(F) < n
    BY DEF F
  <2> QED
    BY <1>1, <1>2, <1>4, <1>6, <1>7, <2>1

-----------------------------------------------------------------------------
(* What a packet and an expiry do to the sum over the table *)

BoundedTable(t) ==
  /\ GoodTable(t)
  /\ IsFiniteSet(DOMAIN t)
  /\ Cardinality(DOMAIN t) <= MaxFlows

\* The sum over any flows of a table is a number.
LEMMA TableCounted ==
  ASSUME NEW t, BoundedTable(t), NEW S \in SUBSET DOMAIN t
  PROVE  Counted(t, S)
<1>1. \A k \in DOMAIN t : PacketsOf(t[k]) \in Nat
  BY DEF BoundedTable, GoodTable, Flow, PacketsOf
<1>2. IsFiniteSet(S)
  BY FS_Subset DEF BoundedTable
<1> QED
  BY <1>1, <1>2, Zenon DEF Counted

\* A packet of a known flow adds one to it; of a new one, it is the first.
LEMMA FlowCounts ==
  ASSUME NEW p \in Packet, NEW ts \in Int, NEW f \in Flow
  PROVE  /\ PacketsOf(NewFlow(p, ts)) = 1
         /\ PacketsOf(UpdatedFlow(f, p, ts)) = PacketsOf(f) + 1
         /\ NewFlow(p, ts).start = ts
         /\ UpdatedFlow(f, p, ts).start = f.start
<1>1. Direction(p) \in {0, 1}
  BY DEF Direction
<1>2. NewFlow(p, ts).start = ts /\ UpdatedFlow(f, p, ts).start = f.start
  BY DEF NewFlow, UpdatedFlow, Flow
<1>3. NewFlow(p, ts).packets = [d \in {0, 1} |-> IF d = Direction(p) THEN 1 ELSE 0]
  BY DEF NewFlow
<1>4. PacketsOf(NewFlow(p, ts)) = 1
  BY <1>1, <1>3 DEF PacketsOf
<1> DEFINE n == [f.packets EXCEPT ![Direction(p)] = @ + 1]
<1>5. UpdatedFlow(f, p, ts).packets = n
  BY DEF UpdatedFlow, Flow
<1>6. f.packets \in [{0, 1} -> Nat]
  BY DEF Flow
<1>7. n[0] + n[1] = f.packets[0] + f.packets[1] + 1
  BY <1>1, <1>6
<1> QED
  BY <1>2, <1>4, <1>5, <1>7, Zenon DEF PacketsOf

\* Putting one flow under a key changes the sum by that flow.
LEMMA PutSum ==
  ASSUME NEW t, BoundedTable(t), NEW k, NEW f, PacketsOf(f) \in Nat
  PROVE  LET rest == DOMAIN t \ {k}
         IN /\ DOMAIN Put(t, k, f) = rest \cup {k}
            /\ PacketsIn(t, rest) \in Nat
            /\ PacketsIn(Put(t, k, f), DOMAIN Put(t, k, f)) = PacketsIn(t, rest) + PacketsOf(f)
            /\ k \in DOMAIN t => PacketsIn(t, DOMAIN t) = PacketsIn(t, rest) + PacketsOf(t[k])
            /\ k \notin DOMAIN t => PacketsIn(t, DOMAIN t) = PacketsIn(t, rest)
<1> DEFINE u == Put(t, k, f)
           rest == DOMAIN t \ {k}
<1>1. DOMAIN u = rest \cup {k} /\ u[k] = f /\ \A j \in rest : u[j] = t[j]
  BY DEF Put
<1> HIDE DEF u
<1>2. rest \in SUBSET DOMAIN t
  OBVIOUS
<1>3. Counted(t, rest)
  BY <1>2, TableCounted
<1>4. Counted(u, rest)
  BY <1>1, <1>3 DEF Counted
<1>5. PacketsIn(u, rest) = PacketsIn(t, rest)
  BY <1>1, <1>3, SumSame
<1>6. Counted(u, {k}) /\ PacketsIn(u, {k}) = PacketsOf(f)
  BY <1>1, SumOne, FS_Singleton, Zenon DEF Counted
<1>7. rest \cap {k} = {}
  BY Zenon
<1>8. PacketsIn(u, rest) \in Nat /\ PacketsIn(u, rest \cup {k}) = PacketsIn(u, rest) + PacketsIn(u, {k})
  <2> HIDE DEF rest
  <2> QED
    BY <1>4, <1>6, <1>7, SumApart
<1>9. ASSUME k \in DOMAIN t
      PROVE  PacketsIn(t, DOMAIN t) = PacketsIn(t, rest) + PacketsOf(t[k])
  <2>1. {k} \in SUBSET DOMAIN t
    BY <1>9
  <2>2. Counted(t, {k})
    BY <2>1, TableCounted
  <2>3. PacketsIn(t, {k}) = PacketsOf(t[k])
    BY <2>2, SumOne DEF Counted
  <2>4. rest \cup {k} = DOMAIN t
    BY <1>9, Zenon
  <2> HIDE DEF rest
  <2> QED
    BY <1>3, <1>7, <2>2, <2>3, <2>4, SumApart
<1>10. ASSUME k \notin DOMAIN t
       PROVE  PacketsIn(t, DOMAIN t) = PacketsIn(t, rest)
  <2>1. rest = DOMAIN t
    BY <1>10, Zenon
  <2> QED
    BY <2>1, Zenon
<1> QED
  BY <1>1, <1>5, <1>6, <1>8, <1>9, <1>10, Zenon DEF u

\* A packet is in the table after it was processed, or it was rejected, and a
\* flow starts when its first packet was stamped.
LEMMA ProcessPacketCounts ==
  ASSUME NEW t, BoundedTable(t), NEW p \in Packet, NEW ts \in Int
  PROVE  LET u == ProcessPacket(t, p, ts)
         IN /\ BoundedTable(u)
            /\ PacketsIn(t, DOMAIN t) \in Nat
            /\ PacketsIn(u, DOMAIN u) =
                 PacketsIn(t, DOMAIN t) + (IF Rejected(t, p) THEN 0 ELSE 1)
            /\ \A k \in DOMAIN u :
                 u[k].start = ts \/ (k \in DOMAIN t /\ u[k].start = t[k].start)
<1> DEFINE u == ProcessPacket(t, p, ts)
           k == FlowKey(p)
           rest == DOMAIN t \ {k}
<1>1. GoodTable(u)
  BY ProcessPacketKeepsTable DEF BoundedTable
<1>2. Counted(t, DOMAIN t)
  BY TableCounted
<1>3. PacketsIn(t, DOMAIN t) \in Nat
  <2>1. Counted(t, {})
    BY FS_EmptySet DEF Counted
  <2> QED
    BY <1>2, <2>1, SumApart, Zenon
<1> HIDE DEF k
<1>4. CASE k \in DOMAIN t
  <2> DEFINE f == UpdatedFlow(t[k], p, ts)
  <2>1. u = Put(t, k, f) /\ ~Rejected(t, p)
    BY <1>4 DEF ProcessPacket, Rejected, k
  <2>2. t[k] \in Flow
    BY <1>4 DEF BoundedTable, GoodTable
  <2>3. PacketsOf(f) = PacketsOf(t[k]) + 1 /\ f.start = t[k].start
    BY <2>2, FlowCounts
  <2>4. PacketsOf(t[k]) \in Nat
    BY <1>2, <1>4 DEF Counted
  <2> HIDE DEF f
  <2>5. PacketsOf(f) \in Nat
    BY <2>3, <2>4
  <2>6. /\ DOMAIN u = rest \cup {k}
        /\ PacketsIn(t, rest) \in Nat
        /\ PacketsIn(u, DOMAIN u) = PacketsIn(t, rest) + PacketsOf(f)
        /\ PacketsIn(t, DOMAIN t) = PacketsIn(t, rest) + PacketsOf(t[k])
    <3>1. /\ DOMAIN Put(t, k, f) = (DOMAIN t \ {k}) \cup {k}
          /\ PacketsIn(t, DOMAIN t \ {k}) \in Nat
          /\ PacketsIn(Put(t, k, f), DOMAIN Put(t, k, f)) =
               PacketsIn(t, DOMAIN t \ {k}) + PacketsOf(f)
          /\ k \in DOMAIN t =>
               PacketsIn(t, DOMAIN t) = PacketsIn(t, DOMAIN t \ {k}) + PacketsOf(t[k])
          /\ k \notin DOMAIN t => PacketsIn(t, DOMAIN t) = PacketsIn(t, DOMAIN t \ {k})
      BY <2>5, PutSum, Zenon
    <3> HIDE DEF u
    <3> QED
      BY <1>4, <2>1, <3>1, Zenon
  <2>7. DOMAIN u = DOMAIN t
    BY <1>4, <2>6, Zenon
  <2>8. PacketsIn(u, DOMAIN u) = PacketsIn(t, DOMAIN t) + 1
    <3> HIDE DEF u, rest
    <3> QED
      BY <2>3, <2>4, <2>6
  <2>9. \A j \in DOMAIN u : u[j].start = t[j].start
    <3>1. \A j \in DOMAIN u : u[j] = IF j = k THEN f ELSE t[j]
      <4>1. u = [j \in DOMAIN t \cup {k} |-> IF j = k THEN f ELSE t[j]]
        BY <2>1 DEF Put
      <4> HIDE DEF u
      <4> QED
        BY <4>1
    <3> HIDE DEF u
    <3> QED
      BY <2>3, <3>1
  <2>10. BoundedTable(u)
    BY <1>1, <2>7, Zenon DEF BoundedTable
  <2> HIDE DEF u
  <2> QED
    BY <1>3, <2>1, <2>7, <2>8, <2>9, <2>10, Zenon DEF u
<1>5. CASE k \notin DOMAIN t /\ Full(t)
  <2>1. u = t /\ Rejected(t, p)
    BY <1>5 DEF ProcessPacket, Rejected, k
  <2> HIDE DEF u
  <2> QED
    BY <1>3, <2>1 DEF u
<1>6. CASE k \notin DOMAIN t /\ ~Full(t)
  <2> DEFINE f == NewFlow(p, ts)
  <2>1. u = Put(t, k, f) /\ ~Rejected(t, p)
    BY <1>6 DEF ProcessPacket, Rejected, k
  <2>2. PacketsOf(f) = 1 /\ f.start = ts
    <3>1. f \in Flow
      BY NewFlowType
    <3> QED
      BY <3>1, FlowCounts
  <2> HIDE DEF f
  <2>3. /\ DOMAIN u = rest \cup {k}
        /\ PacketsIn(u, DOMAIN u) = PacketsIn(t, rest) + PacketsOf(f)
        /\ PacketsIn(t, DOMAIN t) = PacketsIn(t, rest)
    <3>0. PacketsOf(f) \in Nat
      BY <2>2
    <3>1. /\ DOMAIN Put(t, k, f) = (DOMAIN t \ {k}) \cup {k}
          /\ PacketsIn(t, DOMAIN t \ {k}) \in Nat
          /\ PacketsIn(Put(t, k, f), DOMAIN Put(t, k, f)) =
               PacketsIn(t, DOMAIN t \ {k}) + PacketsOf(f)
          /\ k \in DOMAIN t =>
               PacketsIn(t, DOMAIN t) = PacketsIn(t, DOMAIN t \ {k}) + PacketsOf(t[k])
          /\ k \notin DOMAIN t => PacketsIn(t, DOMAIN t) = PacketsIn(t, DOMAIN t \ {k})
      BY <3>0, PutSum, Zenon
    <3> HIDE DEF u
    <3> QED
      BY <1>6, <2>1, <3>1, Zenon
  <2>4. DOMAIN u = DOMAIN t \cup {k}
    BY <2>3, Zenon
  <2>5. PacketsIn(u, DOMAIN u) = PacketsIn(t, DOMAIN t) + 1
    BY <2>2, <2>3, Zenon
  <2>6. \A j \in DOMAIN u : u[j] = IF j = k THEN f ELSE t[j]
    <3>1. u = [j \in DOMAIN t \cup {k} |-> IF j = k THEN f ELSE t[j]]
      BY <2>1 DEF Put
    <3> HIDE DEF u
    <3> QED
      BY <3>1
  <2>7. IsFiniteSet(DOMAIN u) /\ Cardinality(DOMAIN u) = Cardinality(DOMAIN t) + 1
    <3> HIDE DEF u
    <3> QED
      BY <1>6, <2>4, FS_AddElement DEF BoundedTable
  <2>8. Cardinality(DOMAIN u) <= MaxFlows
    <3>1. Cardinality(DOMAIN t) \in Nat
      BY FS_CardinalityType DEF BoundedTable
    <3> HIDE DEF u
    <3> QED
      BY <1>6, <2>7, <3>1, FlowTableAssumption DEF Full
  <2>9. BoundedTable(u)
    BY <1>1, <2>7, <2>8 DEF BoundedTable
  <2> HIDE DEF u
  <2> QED
    BY <1>3, <2>1, <2>2, <2>4, <2>5, <2>6, <2>9, Zenon DEF u
<1> QED
  BY <1>4, <1>5, <1>6, Zenon

\* What is left of table t, and the packets of the flows in S that got out
\* (those in ok) and that did not.
Removed(t, S, ok) ==
  LET u == Without(t, S)
  IN /\ BoundedTable(u)
     /\ DOMAIN u = DOMAIN t \ S
     /\ \A k \in DOMAIN u : u[k] = t[k]
     /\ PacketsIn(u, DOMAIN u) \in Nat
     /\ PacketsIn(t, ok) \in Nat /\ PacketsIn(t, S \ ok) \in Nat
     /\ PacketsIn(t, DOMAIN t) =
          PacketsIn(u, DOMAIN u) + PacketsIn(t, ok) + PacketsIn(t, S \ ok)

\* Flows taken out of a table take their packets with them.
LEMMA RemovalCounts ==
  ASSUME NEW t, BoundedTable(t), NEW S \in SUBSET DOMAIN t, NEW ok \in SUBSET S
  PROVE  Removed(t, S, ok)
<1> DEFINE u == Without(t, S)
           rest == DOMAIN t \ S
<1>1. DOMAIN u = rest /\ \A k \in rest : u[k] = t[k]
  BY DEF Without
<1>2. GoodTable(u)
  BY WithoutKeepsTable DEF BoundedTable
<1> HIDE DEF u
<1>3. rest \in SUBSET DOMAIN t /\ ok \in SUBSET DOMAIN t /\ S \ ok \in SUBSET DOMAIN t
  BY Zenon
<1>4. Counted(t, rest) /\ Counted(t, S) /\ Counted(t, ok) /\ Counted(t, S \ ok)
  BY <1>3, TableCounted
<1>5. IsFiniteSet(rest) /\ Cardinality(rest) <= MaxFlows
  <2>1. IsFiniteSet(rest) /\ Cardinality(rest) <= Cardinality(DOMAIN t)
    BY <1>3, FS_Subset DEF BoundedTable
  <2>2. Cardinality(rest) \in Nat /\ Cardinality(DOMAIN t) \in Nat
    BY <2>1, FS_CardinalityType DEF BoundedTable
  <2> QED
    BY <2>1, <2>2, FlowTableAssumption DEF BoundedTable
<1>6. BoundedTable(u)
  BY <1>1, <1>2, <1>5, Zenon DEF BoundedTable
<1>7. PacketsIn(u, rest) = PacketsIn(t, rest)
  BY <1>1, <1>4, SumSame
<1>8. /\ rest \cap S = {} /\ rest \cup S = DOMAIN t
      /\ ok \cap (S \ ok) = {} /\ ok \cup (S \ ok) = S
  BY Zenon
<1>9. /\ PacketsIn(t, rest) \in Nat /\ PacketsIn(t, S) \in Nat
      /\ PacketsIn(t, DOMAIN t) = PacketsIn(t, rest) + PacketsIn(t, S)
  <2> HIDE DEF rest
  <2> QED
    BY <1>4, <1>8, SumApart
<1>10. /\ PacketsIn(t, ok) \in Nat /\ PacketsIn(t, S \ ok) \in Nat
       /\ PacketsIn(t, S) = PacketsIn(t, ok) + PacketsIn(t, S \ ok)
  <2> DEFINE no == S \ ok
  <2>1. Counted(t, no) /\ ok \cap no = {} /\ ok \cup no = S
    BY <1>4, <1>8
  <2> HIDE DEF no
  <2>2. /\ PacketsIn(t, ok) \in Nat /\ PacketsIn(t, no) \in Nat
        /\ PacketsIn(t, S) = PacketsIn(t, ok) + PacketsIn(t, no)
    BY <1>4, <2>1, SumApart, Zenon
  <2> QED
    BY <2>2 DEF no
<1> HIDE DEF rest
<1>11. PacketsIn(t, DOMAIN t) = PacketsIn(t, rest) + PacketsIn(t, ok) + PacketsIn(t, S \ ok)
  <2> DEFINE a == PacketsIn(t, rest)
             b == PacketsIn(t, ok)
             c == PacketsIn(t, S \ ok)
  <2>1. a \in Nat /\ b \in Nat /\ c \in Nat
    BY <1>9, <1>10
  <2>2. PacketsIn(t, DOMAIN t) = a + (b + c)
    BY <1>9, <1>10, Zenon
  <2> HIDE DEF a, b, c
  <2>3. a + (b + c) = a + b + c
    BY <2>1
  <2> QED
    BY <2>2, <2>3, Zenon DEF a, b, c
<1> QED
  BY <1>1, <1>6, <1>7, <1>9, <1>10, <1>11, Zenon DEF u, rest, Removed

-----------------------------------------------------------------------------
(* The accounts as a whole *)

AccountInv ==
  /\ phase \in {"run", "flush", "down"}
  /\ now \in 1 .. MaxTime
  /\ ahead \in Ahead
  /\ BoundedTable(flows)
  /\ \A k \in DOMAIN flows : flows[k].start <= MaxTime + ahead
  /\ total \in Nat /\ bad \in Nat /\ dropped \in Nat /\ sent \in Nat /\ unsent \in Nat
  /\ lastExpire \in Nat /\ lastSnapshot \in Nat
  /\ PacketsAccounted
  /\ expired \in 0 .. Batch
  /\ Cardinality(reported) <= Batch
  /\ ReportedFlowsLive

\* The numbers of the accounts.
LEMMA AccountNumbers ==
  ASSUME AccountInv
  PROVE  /\ now \in 1 .. MaxTime /\ now \in Nat /\ MaxTime \in Nat /\ ahead \in Nat
         /\ total \in Nat /\ bad \in Nat /\ dropped \in Nat /\ sent \in Nat /\ unsent \in Nat
         /\ total = PacketsIn(flows, DOMAIN flows) + sent + unsent + bad + dropped
         /\ BoundedTable(flows)
<1>1. MaxTime \in Nat /\ Ahead \subseteq Nat
  BY FlowTrackerAssumption
<1>2. /\ now \in 1 .. MaxTime /\ ahead \in Ahead
      /\ total \in Nat /\ bad \in Nat /\ dropped \in Nat /\ sent \in Nat /\ unsent \in Nat
      /\ PacketsAccounted /\ BoundedTable(flows)
  BY Zenon DEF AccountInv
<1>3. now \in Nat /\ ahead \in Nat
  BY <1>1, <1>2
<1> QED
  BY <1>1, <1>2, <1>3, Zenon DEF PacketsAccounted

\* The accounts start empty.
LEMMA InitAccounts == Init => AccountInv
<1> SUFFICES ASSUME Init PROVE AccountInv
  OBVIOUS
<1> USE FlowTrackerAssumption, FlowTableAssumption
<1>1. DOMAIN flows = {} /\ reported = {} /\ expired = 0
  BY DEF Init
<1>2. Cardinality({}) = 0 /\ IsFiniteSet({})
  BY FS_EmptySet, Zenon
<1>3. BoundedTable(flows)
  BY <1>1, <1>2 DEF BoundedTable, GoodTable
<1>4. PacketsIn(flows, {}) = 0
  <2>1. Counted(flows, {}) /\ Units(flows, {}) = {}
    BY <1>2, Zenon DEF Counted, Units
  <2> QED
    BY <1>2, <2>1, SumIsUnits, Zenon
<1>5. PacketsAccounted
  <2>1. total = 0 /\ sent = 0 /\ unsent = 0 /\ bad = 0 /\ dropped = 0
    BY DEF Init
  <2>2. total = PacketsIn(flows, {}) + sent + unsent + bad + dropped
    BY <1>4, <2>1
  <2> QED
    BY <1>1, <2>2, Zenon DEF PacketsAccounted
<1>6. ReportedFlowsLive
  BY <1>1 DEF ReportedFlowsLive
<1>7. /\ phase \in {"run", "flush", "down"} /\ now \in 1 .. MaxTime /\ ahead \in Ahead
      /\ total \in Nat /\ bad \in Nat /\ dropped \in Nat /\ sent \in Nat /\ unsent \in Nat
      /\ lastExpire \in Nat /\ lastSnapshot \in Nat
  BY DEF Init
<1> QED
  BY <1>1, <1>2, <1>3, <1>5, <1>6, <1>7 DEF AccountInv

\* The handlers of captures, a bad frame and the clock move no packet of a flow.
LEMMA QuietAccounts ==
  ASSUME AccountInv, TableUntouched \/ UNCHANGED vars
  PROVE  AccountInv'
<1>1. /\ flows' = flows /\ ahead' = ahead /\ dropped' = dropped
      /\ sent' = sent /\ unsent' = unsent /\ lastExpire' = lastExpire
      /\ lastSnapshot' = lastSnapshot /\ expired' = expired /\ reported' = reported
      /\ phase' = phase
      /\ now' = now \/ (now < MaxTime /\ now' = now + 1)
      /\ \/ total' = total /\ bad' = bad
         \/ total' = total + 1 /\ bad' = bad + 1
  <2>1. CASE UNCHANGED vars
    BY <2>1 DEF vars, clockVars, tableVars, exportVars, tickVars
  <2>2. CASE Clock
    BY <2>2 DEF Clock, tableVars, exportVars, tickVars
  <2>3. CASE StopAllFlows
    BY <2>3 DEF StopAllFlows, clockVars, tableVars, exportVars, tickVars
  <2>4. ASSUME NEW h \in Handles, OnBadPacket(h)
        PROVE  /\ total' = total + 1 /\ bad' = bad + 1
               /\ UNCHANGED <<phase, clockVars, flows, dropped, exportVars, tickVars>>
    BY <2>4 DEF OnBadPacket
  <2>5. CASE \E h \in Handles : OnBadPacket(h)
    BY <2>4, <2>5 DEF clockVars, exportVars, tickVars
  <2>6. ASSUME NEW i \in Ifaces, CaptureAdd(i) \/ CaptureRemove(i) \/ StartFlow(i) \/ StopFlow(i)
        PROVE  UNCHANGED <<phase, clockVars, tableVars, exportVars, tickVars>>
    BY <2>6, Zenon DEF CaptureAdd, CaptureRemove, StartFlow, StopFlow
  <2>7. CASE \E i \in Ifaces : CaptureAdd(i) \/ CaptureRemove(i) \/ StartFlow(i) \/ StopFlow(i)
    BY <2>6, <2>7 DEF clockVars, tableVars, exportVars, tickVars
  <2> QED
    BY <2>1, <2>2, <2>3, <2>5, <2>7, Zenon DEF TableUntouched
<1>2. now' \in 1 .. MaxTime
  BY <1>1, AccountNumbers
<1>3. PacketsAccounted'
  <2> DEFINE P == PacketsIn(flows, DOMAIN flows)
  <2>1. Counted(flows, DOMAIN flows) /\ Counted(flows, {})
    BY TableCounted, FS_EmptySet, Zenon DEF AccountInv, Counted
  <2>2. P \in Nat
    BY <2>1, SumApart, Zenon
  <2>3. total = P + sent + unsent + bad + dropped
    BY Zenon DEF AccountInv, PacketsAccounted
  <2>4. PacketsAccounted' <=> total' = P + sent' + unsent' + bad' + dropped'
    BY <1>1, Zenon DEF PacketsAccounted
  <2> HIDE DEF P
  <2>5. total' = P + sent' + unsent' + bad' + dropped'
    BY <1>1, <2>2, <2>3, AccountNumbers
  <2> QED
    BY <2>4, <2>5
<1>4. BoundedTable(flows')
  BY <1>1 DEF AccountInv
<1>5. total' \in Nat /\ bad' \in Nat
  BY <1>1, AccountNumbers
<1>6. ReportedFlowsLive'
  BY <1>1, Zenon DEF AccountInv, ReportedFlowsLive
<1> QED
  BY <1>1, <1>2, <1>3, <1>4, <1>5, <1>6, Zenon DEF AccountInv

\* A packet is counted once: in its flow, or as dropped.
LEMMA PacketAccounts ==
  ASSUME AccountInv, NEW h \in Handles, NEW p \in Packets, NEW d \in Delays,
         OnPacket(h, p, d)
  PROVE  AccountInv'
<1> DEFINE ts == Wall - d
           P == PacketsIn(flows, DOMAIN flows)
<1>1. p \in Packet /\ d \in Nat /\ ahead \in Nat /\ now \in Nat
  BY FlowTrackerAssumption, AccountNumbers
<1>2. ts \in Int /\ ts <= MaxTime + ahead
  BY <1>1, AccountNumbers DEF Wall
<1>3. /\ flows' = ProcessPacket(flows, p, ts) /\ total' = total + 1
      /\ dropped' = IF Rejected(flows, p) THEN dropped + 1 ELSE dropped
      /\ phase' = phase /\ now' = now /\ ahead' = ahead /\ bad' = bad
      /\ sent' = sent /\ unsent' = unsent /\ lastExpire' = lastExpire
      /\ lastSnapshot' = lastSnapshot /\ expired' = expired /\ reported' = reported
  BY DEF OnPacket, clockVars, exportVars, tickVars
<1> HIDE DEF ts
<1>4. /\ BoundedTable(flows') /\ P \in Nat
      /\ PacketsIn(flows', DOMAIN flows') = P + (IF Rejected(flows, p) THEN 0 ELSE 1)
      /\ \A k \in DOMAIN flows' : \/ flows'[k].start = ts
                                  \/ k \in DOMAIN flows /\ flows'[k].start = flows[k].start
  BY <1>1, <1>2, <1>3, ProcessPacketCounts, Zenon DEF AccountInv
<1>5. DOMAIN flows \subseteq DOMAIN flows'
  BY <1>1, <1>2, <1>3, ProcessPacketKeepsTable, Zenon DEF AccountInv, BoundedTable
<1>6. \A k \in DOMAIN flows' : flows'[k].start <= MaxTime + ahead'
  BY <1>2, <1>3, <1>4, Zenon DEF AccountInv
<1>7. PacketsAccounted'
  <2> DEFINE Q == PacketsIn(flows', DOMAIN flows')
  <2>1. total = P + sent + unsent + bad + dropped
    BY AccountNumbers, Zenon
  <2>2. Q = P + (IF Rejected(flows, p) THEN 0 ELSE 1)
    BY <1>4
  <2>3. PacketsAccounted' <=> total' = Q + sent' + unsent' + bad' + dropped'
    BY Zenon DEF PacketsAccounted
  <2> HIDE DEF P, Q
  <2>4. total' = Q + sent' + unsent' + bad' + dropped'
    <3>1. /\ total \in Nat /\ bad \in Nat /\ dropped \in Nat /\ sent \in Nat
          /\ unsent \in Nat /\ P \in Nat
      BY <1>4, AccountNumbers
    <3>2. CASE Rejected(flows, p)
      <4>1. Q = P + 0 /\ dropped' = dropped + 1
        BY <1>3, <2>2, <3>2, Zenon
      <4>2. total' = total + 1 /\ sent' = sent /\ unsent' = unsent /\ bad' = bad
        BY <1>3, Zenon
      <4> QED
        BY <2>1, <3>1, <4>1, <4>2
    <3>3. CASE ~Rejected(flows, p)
      <4>1. Q = P + 1 /\ dropped' = dropped
        BY <1>3, <2>2, <3>3, Zenon
      <4>2. total' = total + 1 /\ sent' = sent /\ unsent' = unsent /\ bad' = bad
        BY <1>3, Zenon
      <4> QED
        BY <2>1, <3>1, <4>1, <4>2
    <3> QED
      BY <3>2, <3>3, Zenon
  <2> QED
    BY <2>3, <2>4
<1>8. ReportedFlowsLive'
  BY <1>3, <1>5, Zenon DEF AccountInv, ReportedFlowsLive
<1>9. total' \in Nat /\ dropped' \in Nat
  <2>1. /\ total \in Nat /\ dropped \in Nat
        /\ total' = total + 1 /\ (dropped' = dropped + 1 \/ dropped' = dropped)
    BY <1>3, AccountNumbers, Zenon
  <2> QED
    BY <2>1
<1> QED
  BY <1>3, <1>4, <1>6, <1>7, <1>8, <1>9, Zenon DEF AccountInv

\* Flows that leave the table take their packets to the exporter.
LEMMA ExportAccounts ==
  ASSUME AccountInv, NEW S \in SUBSET DOMAIN flows, flows' = Without(flows, S),
         \E ok \in SUBSET S : Export(S, ok),
         total' = total, bad' = bad, dropped' = dropped
  PROVE  /\ BoundedTable(flows') /\ DOMAIN flows' = DOMAIN flows \ S
         /\ \A k \in DOMAIN flows' : flows'[k] = flows[k]
         /\ sent' \in Nat /\ unsent' \in Nat
         /\ PacketsAccounted'
<1>1. PICK ok \in SUBSET S : Export(S, ok)
  OBVIOUS
<1> DEFINE P == PacketsIn(flows, DOMAIN flows)
           Q == PacketsIn(flows', DOMAIN flows')
           a == PacketsIn(flows, ok)
           b == PacketsIn(flows, S \ ok)
<1>2. /\ BoundedTable(flows') /\ DOMAIN flows' = DOMAIN flows \ S
      /\ \A k \in DOMAIN flows' : flows'[k] = flows[k]
      /\ Q \in Nat /\ a \in Nat /\ b \in Nat /\ P = Q + a + b
  <2> DEFINE u == Without(flows, S)
  <2>1. BoundedTable(flows)
    BY DEF AccountInv
  <2>2. /\ BoundedTable(u) /\ DOMAIN u = DOMAIN flows \ S
        /\ \A k \in DOMAIN u : u[k] = flows[k]
        /\ PacketsIn(u, DOMAIN u) \in Nat /\ a \in Nat /\ b \in Nat
        /\ P = PacketsIn(u, DOMAIN u) + a + b
    <3>1. Removed(flows, S, ok)
      BY <2>1, RemovalCounts
    <3> QED
      BY <3>1, Zenon DEF Removed
  <2>3. flows' = u
    OBVIOUS
  <2> HIDE DEF u, P, a, b
  <2> QED
    BY <2>2, <2>3, Zenon
<1>3. sent' = sent + a /\ unsent' = unsent + b
  BY <1>1 DEF Export
<1>4. total = P + sent + unsent + bad + dropped
  BY AccountNumbers, Zenon
<1>5. PacketsAccounted' <=> total' = Q + sent' + unsent' + bad' + dropped'
  BY Zenon DEF PacketsAccounted
<1> HIDE DEF P, Q, a, b
<1>6. sent' \in Nat /\ unsent' \in Nat
  BY <1>2, <1>3, AccountNumbers
<1>7. total' = Q + sent' + unsent' + bad' + dropped'
  BY <1>2, <1>3, <1>4, AccountNumbers
<1> QED
  BY <1>2, <1>5, <1>6, <1>7

\* What is left keeps its start.
LEMMA StartsKept ==
  ASSUME AccountInv, DOMAIN flows' \subseteq DOMAIN flows, ahead' = ahead,
         \A k \in DOMAIN flows' : flows'[k] = flows[k]
  PROVE  \A k \in DOMAIN flows' : flows'[k].start <= MaxTime + ahead'
<1> SUFFICES ASSUME NEW k \in DOMAIN flows'
             PROVE  flows'[k].start <= MaxTime + ahead'
  OBVIOUS
<1>1. k \in DOMAIN flows /\ flows'[k] = flows[k]
  BY Zenon
<1> QED
  BY <1>1, Zenon DEF AccountInv

\* A tick hands at most a buffer of flows to the exporter, then reports at
\* most a buffer of those that are left.
LEMMA TickAccounts ==
  ASSUME AccountInv, Tick
  PROVE  AccountInv'
<1> DEFINE due == Expire(flows, now, Batch)
<1>0. Batch \in Nat /\ IsFiniteSet(DOMAIN flows) /\ DOMAIN flows \subseteq Key
  BY FlowTrackerAssumption DEF AccountInv, BoundedTable, GoodTable
<1>1. due \in SUBSET DOMAIN flows /\ Cardinality(due) \in 0 .. Batch
  <2> DEFINE D == Due(flows, now)
  <2>1. D \in SUBSET DOMAIN flows
    BY DEF Due
  <2>2. due = FirstInOrder(D, Batch)
    BY DEF Expire
  <2> HIDE DEF D, due
  <2>3. D \subseteq Key /\ IsFiniteSet(D)
    BY <1>0, <2>1, FS_Subset
  <2>4. FirstInOrder(D, Batch) \subseteq D /\ Cardinality(FirstInOrder(D, Batch)) \in 0 .. Batch
    BY <1>0, <2>3, FirstBounded
  <2> QED
    BY <2>1, <2>2, <2>4, Zenon
<1>2. /\ flows' = Without(flows, due) /\ expired' = Cardinality(due)
      /\ reported' = ActiveFlows(due) /\ \E ok \in SUBSET due : Export(due, ok)
      /\ phase = "run" /\ phase' = phase /\ now' = now /\ ahead' = ahead
      /\ total' = total /\ bad' = bad /\ dropped' = dropped
      /\ lastExpire' = now /\ lastSnapshot' = now
  BY DEF Tick, clockVars
<1> HIDE DEF due
<1>3. /\ BoundedTable(flows') /\ DOMAIN flows' = DOMAIN flows \ due
      /\ \A k \in DOMAIN flows' : flows'[k] = flows[k]
      /\ sent' \in Nat /\ unsent' \in Nat /\ PacketsAccounted'
  BY <1>1, <1>2, ExportAccounts, Zenon
<1>4. reported' \subseteq DOMAIN flows' /\ Cardinality(reported') <= Batch
  <2> DEFINE A == {k \in DOMAIN flows' : flows'[k].last > lastSnapshot}
  <2>1. reported' = FirstInOrder(A, Batch)
    BY <1>2, Zenon DEF ActiveFlows, Snapshot
  <2>2. A \in SUBSET DOMAIN flows'
    OBVIOUS
  <2> HIDE DEF A
  <2>3. A \subseteq Key /\ IsFiniteSet(A)
    BY <1>3, <2>2, FS_Subset, Zenon DEF BoundedTable, GoodTable
  <2>4. FirstInOrder(A, Batch) \subseteq A /\ Cardinality(FirstInOrder(A, Batch)) \in 0 .. Batch
    BY <1>0, <2>3, FirstBounded
  <2>5. Cardinality(FirstInOrder(A, Batch)) <= Batch
    BY <1>0, <2>4
  <2> QED
    BY <2>1, <2>2, <2>4, <2>5, Zenon
<1>5. \A k \in DOMAIN flows' : flows'[k].start <= MaxTime + ahead'
  BY <1>2, <1>3, StartsKept, Zenon
<1>6. ReportedFlowsLive'
  BY <1>4 DEF ReportedFlowsLive
<1>7. lastExpire' \in Nat /\ lastSnapshot' \in Nat /\ expired' \in 0 .. Batch
  BY <1>1, <1>2, AccountNumbers, Zenon
<1> QED
  BY <1>2, <1>3, <1>4, <1>5, <1>6, <1>7, Zenon DEF AccountInv

\* By the largest clock there is, every flow has lived too long.
LEMMA AllDue ==
  ASSUME AccountInv
  PROVE  Due(flows, Word - 1) = DOMAIN flows
<1> SUFFICES ASSUME NEW k \in DOMAIN flows
             PROVE  Elapsed(Word - 1, flows[k].start) > MaxLifetime
  BY DEF Due
<1> DEFINE s == flows[k].start
<1>1. s \in Int /\ s <= MaxTime + ahead
  BY DEF AccountInv, BoundedTable, GoodTable, Flow
<1>2. MaxTime + ahead + MaxLifetime < Word - 1 /\ ahead \in Nat
  BY FlowTrackerAssumption DEF AccountInv
<1>3. MaxTime \in Nat /\ MaxLifetime \in Nat /\ Word \in Nat
  BY FlowTrackerAssumption, FlowTableAssumption
<1> HIDE DEF s
<1>4. Elapsed(Word - 1, s) > MaxLifetime
  BY <1>1, <1>2, <1>3 DEF Elapsed
<1> QED
  BY <1>4 DEF s

\* A pass of the shutdown's loop exports what it removes; the last one has
\* removed everything that was left before the table is freed.
LEMMA ShutdownAccounts ==
  ASSUME AccountInv, Shutdown
  PROVE  AccountInv'
<1> DEFINE due == Expire(flows, Word - 1, Batch)
           gone == IF LastPass(due) THEN DOMAIN flows ELSE due
<1>0. Batch \in Nat /\ IsFiniteSet(DOMAIN flows) /\ DOMAIN flows \subseteq Key
  BY FlowTrackerAssumption DEF AccountInv, BoundedTable, GoodTable
<1>1. due = FirstInOrder(DOMAIN flows, Batch)
  BY AllDue DEF Expire
<1>2. /\ phase' \in {"down", "flush"} /\ flows' = Without(flows, gone)
      /\ \E ok \in SUBSET due : Export(due, ok)
      /\ now' = now /\ ahead' = ahead
      /\ total' = total /\ bad' = bad /\ dropped' = dropped
      /\ lastExpire' = lastExpire /\ lastSnapshot' = lastSnapshot
      /\ expired' = expired /\ reported' = reported
  BY DEF Shutdown, clockVars, tickVars
<1>3. gone = due
  BY <1>0, <1>1, FirstAll DEF LastPass
<1>4. due \in SUBSET DOMAIN flows
  BY <1>0, <1>1, FirstBounded
<1> HIDE DEF due, gone
<1>5. /\ BoundedTable(flows') /\ DOMAIN flows' = DOMAIN flows \ due
      /\ \A k \in DOMAIN flows' : flows'[k] = flows[k]
      /\ sent' \in Nat /\ unsent' \in Nat /\ PacketsAccounted'
  BY <1>2, <1>3, <1>4, ExportAccounts, Zenon
<1>6. \A k \in DOMAIN flows' : flows'[k].start <= MaxTime + ahead'
  BY <1>2, <1>5, StartsKept, Zenon
<1>7. ReportedFlowsLive'
  BY <1>2 DEF ReportedFlowsLive
<1>8. phase' \in {"run", "flush", "down"}
  BY <1>2
<1> QED
  BY <1>2, <1>5, <1>6, <1>7, <1>8, Zenon DEF AccountInv

-----------------------------------------------------------------------------
(* The counts of captures *)

CountInv ==
  /\ HandleInv
  /\ Len(capture) <= MaxCapture
  /\ active = Cardinality(ActiveSlots)

\* The slots in use are finitely many.
LEMMA ActiveFinite ==
  /\ IsFiniteSet(ActiveSlots) /\ IsFiniteSet(ActiveSlots')
  /\ Cardinality(ActiveSlots) \in Nat
<1>1. IsFiniteSet(Slots)
  BY FS_Interval, FlowTrackerAssumption DEF Slots
<1>2. ActiveSlots \in SUBSET Slots /\ ActiveSlots' \in SUBSET Slots
  BY DEF ActiveSlots
<1> QED
  BY <1>1, <1>2, FS_Subset, FS_CardinalityType

\* flow.control start counts the slot it takes.
LEMMA StartFlowCounts ==
  ASSUME CountInv, NEW i \in Ifaces, StartFlow(i)
  PROVE  active' = Cardinality(ActiveSlots')
<1>1. PICK s \in Slots, h \in Handles :
        /\ IsFirst(s, Slots \ ActiveSlots)
        /\ slots' = [slots EXCEPT ![s] = [iface |-> i, handle |-> h]]
  BY Zenon DEF StartFlow
<1>2. [iface |-> i, handle |-> h] # Inactive
  <2>1. [iface |-> i, handle |-> h] \in Capturing
    BY Zenon DEF Capturing
  <2>2. Inactive \notin Capturing
    BY FlowTrackerAssumption, Zenon DEF Capturing, Handles
  <2> QED BY <2>1, <2>2, Zenon
<1>3. s \in Slots \ ActiveSlots
  BY <1>1 DEF IsFirst
<1>4. slots \in [Slots -> Capturing \cup {Inactive}]
  BY DEF CountInv, HandleInv, HandleTypes
<1>5. ActiveSlots' = ActiveSlots \cup {s}
  BY <1>1, <1>2, <1>3, <1>4 DEF ActiveSlots
<1>6. Cardinality(ActiveSlots') = Cardinality(ActiveSlots) + 1
  BY <1>3, <1>5, ActiveFinite, FS_AddElement
<1> QED
  BY <1>6 DEF StartFlow, CountInv

\* flow.control stop counts the slot it frees.
LEMMA StopFlowCounts ==
  ASSUME CountInv, NEW i \in Ifaces, StopFlow(i)
  PROVE  active' = Cardinality(ActiveSlots')
<1>1. PICK s \in Slots : /\ IsFirst(s, SlotsOf(i))
                         /\ slots' = [slots EXCEPT ![s] = Inactive]
  BY Zenon DEF StopFlow
<1>2. s \in ActiveSlots
  BY <1>1 DEF IsFirst, SlotsOf
<1>3. slots \in [Slots -> Capturing \cup {Inactive}]
  BY DEF CountInv, HandleInv, HandleTypes
<1>4. ActiveSlots' = ActiveSlots \ {s}
  BY <1>1, <1>2, <1>3 DEF ActiveSlots
<1>5. Cardinality(ActiveSlots') = Cardinality(ActiveSlots) - 1
  BY <1>2, <1>4, ActiveFinite, FS_RemoveElement
<1> QED
  BY <1>5 DEF StopFlow, CountInv

\* Every step keeps the counts.
LEMMA NextCounts ==
  ASSUME CountInv, [Next]_vars
  PROVE  CountInv'
<1>1. HandleInv'
  BY NextHandles DEF CountInv
<1>2. capture \in Seq(Capturing) /\ Len(capture) \in Nat
  BY DEF CountInv, HandleInv, HandleTypes
<1>3. MaxCapture \in Nat
  BY FlowTrackerAssumption
<1>4. CASE \E i \in Ifaces : CaptureAdd(i)
  <2>1. PICK i \in Ifaces : CaptureAdd(i)
    BY <1>4
  <2>2. PICK h \in Handles : capture' = Append(capture, [iface |-> i, handle |-> h])
    BY <2>1 DEF CaptureAdd, CaptureOpen
  <2>3. Len(capture) < MaxCapture /\ slots' = slots /\ active' = active
    BY <2>1 DEF CaptureAdd, CaptureOpen
  <2>4. Len(capture') = Len(capture) + 1
    BY <1>2, <2>2
  <2>5. ActiveSlots' = ActiveSlots
    BY <2>3 DEF ActiveSlots
  <2> QED
    BY <1>1, <1>2, <1>3, <2>3, <2>4, <2>5 DEF CountInv
<1>5. CASE \E i \in Ifaces : CaptureRemove(i)
  <2>1. PICK i \in Ifaces : CaptureRemove(i)
    BY <1>5
  <2>2. PICK n \in DOMAIN capture : capture' = Compacted(n)
    BY <2>1 DEF CaptureRemove
  <2>3. slots' = slots /\ active' = active
    BY <2>1 DEF CaptureRemove
  <2>4. Len(capture') = Len(capture) - 1
    BY <1>2, <2>2, CompactedEntries
  <2>5. ActiveSlots' = ActiveSlots
    BY <2>3 DEF ActiveSlots
  <2> QED
    BY <1>1, <1>2, <1>3, <2>3, <2>4, <2>5 DEF CountInv
<1>6. CASE \E i \in Ifaces : StartFlow(i) \/ StopFlow(i)
  <2>1. capture' = capture
    BY <1>6 DEF StartFlow, StopFlow
  <2> QED
    BY <1>1, <1>6, <2>1, StartFlowCounts, StopFlowCounts DEF CountInv
<1>7. CASE StopAllFlows
  <2>1. capture' = capture /\ active' = 0 /\ slots' = [s \in Slots |-> Inactive]
    BY <1>7 DEF StopAllFlows
  <2>2. ActiveSlots' = {}
    BY <2>1 DEF ActiveSlots
  <2>3. Cardinality(ActiveSlots') = 0
    BY <2>2, FS_EmptySet, Zenon
  <2> QED
    BY <1>1, <2>1, <2>3 DEF CountInv
<1>8. CASE \/ Clock \/ Tick \/ Shutdown \/ UNCHANGED vars
           \/ \E h \in Handles, p \in Packets, d \in Delays : OnPacket(h, p, d)
           \/ \E h \in Handles : OnBadPacket(h)
  <2>1. UNCHANGED handleVars
    BY <1>8 DEF Clock, Tick, Shutdown, vars, OnPacket, OnBadPacket
  <2>2. capture' = capture /\ active' = active /\ slots' = slots
    BY <2>1 DEF handleVars
  <2>3. ActiveSlots' = ActiveSlots
    BY <2>2 DEF ActiveSlots
  <2> QED
    BY <1>1, <2>2, <2>3, Zenon DEF CountInv
<1> QED
  BY <1>4, <1>5, <1>6, <1>7, <1>8 DEF Next

\* At the start nothing is captured.
LEMMA InitCounts == Init => CountInv
<1> SUFFICES ASSUME Init PROVE CountInv
  OBVIOUS
<1>1. capture = <<>> /\ active = 0 /\ slots = [s \in Slots |-> Inactive]
  BY DEF Init
<1>2. ActiveSlots = {}
  BY <1>1 DEF ActiveSlots
<1>3. Cardinality(ActiveSlots) = 0
  BY <1>2, FS_EmptySet, Zenon
<1>4. Len(capture) <= MaxCapture
  BY <1>1, FlowTrackerAssumption
<1> QED
  BY <1>1, <1>3, <1>4, InitHandles DEF CountInv

-----------------------------------------------------------------------------

\* In every state, for every set of packets, clocks, delays and limits, each
\* packet counted in total_packets is in the table, left it for the exporter
\* or was counted as bad or dropped, the table and the buffers keep their
\* limits, and no flow is reported as active after its last record
\* (ps_flow_table_update, ft_mod_tick, ft_mod_shutdown).
THEOREM FlowsStayAccounted == Spec => []FlowsAccounted
<1>1. AccountInv /\ [Next]_vars => AccountInv'
  BY NextCases, QuietAccounts, PacketAccounts, TickAccounts, ShutdownAccounts
<1>2. CountInv /\ [Next]_vars => CountInv'
  BY NextCounts
<1>3. AccountInv /\ CountInv => FlowsAccounted
  <2> SUFFICES ASSUME AccountInv, CountInv PROVE FlowsAccounted
    OBVIOUS
  <2>1. TypeOK
    BY Zenon DEF AccountInv, CountInv, HandleInv, HandleTypes, BoundedTable, TypeOK
  <2> QED
    BY <2>1 DEF AccountInv, FlowsAccounted
<1> QED
  BY <1>1, <1>2, <1>3, InitAccounts, InitCounts, PTL DEF Spec
=============================================================================
