---------------------------- MODULE FlowTracker -----------------------------
(***************************************************************************)
(* The flow table of agent/src/flow_tracker.c: both directions of a        *)
(* conversation are one entry under a canonical key, and an entry leaves   *)
(* when it has been idle longer than its protocol allows or has lived too  *)
(* long.  A table is a function from keys to flows; its domain is the      *)
(* red-black tree, which is walked in the order of the keys.  A packet is  *)
(* what parse_ethernet leaves of a frame.  Times are 64-bit microseconds:  *)
(* Word stands for 2^64.                                                   *)
(***************************************************************************)
EXTENDS Integers, FiniteSets, Sequences, FiniteSetsExt

CONSTANTS
  MaxFlows,      \* max_flows
  TcpEst, TcpShort, Udp, Icmp, General,  \* the idle timeouts
  MaxLifetime,   \* timeout_max_lifetime
  Word           \* 2^64

ASSUME FlowTableAssumption ==
  /\ MaxFlows \in Nat \ {0}
  /\ {TcpEst, TcpShort, Udp, Icmp, General, MaxLifetime} \subseteq Nat
  /\ Word \in Nat \ {0}

-----------------------------------------------------------------------------
(* Keys.  An address stands for its family and its bytes.  The module      *)
(* tracks protocol and ports, so the key has neither tos nor VLAN.         *)

Packet == [src : Nat, dst : Nat, sport : Nat, dport : Nat,
           proto : {"tcp", "udp", "icmp", "other"},
           flags : SUBSET {"SYN", "FIN", "RST"}]

\* The ports do not decide between equal addresses: a mutant.
DirectionByAddress(p) == IF p.src <= p.dst THEN 0 ELSE 1

\* 1 when source and destination are swapped for the key.
Direction(p) ==
  IF p.src < p.dst \/ (p.src = p.dst /\ p.sport <= p.dport) THEN 0 ELSE 1

FlowKey(p) ==
  IF Direction(p) = 0
    THEN [proto |-> p.proto, src |-> p.src, dst |-> p.dst,
          sport |-> p.sport, dport |-> p.dport]
    ELSE [proto |-> p.proto, src |-> p.dst, dst |-> p.src,
          sport |-> p.dport, dport |-> p.sport]

Reversed(k) == [k EXCEPT !.src = k.dst, !.dst = k.src,
                         !.sport = k.dport, !.dport = k.sport]

\* flow_compare: the order of the key's bytes.
ProtoNumber == [icmp |-> 1, tcp |-> 6, udp |-> 17, other |-> 89]
KeyFields(k) == <<ProtoNumber[k.proto], k.src, k.dst, k.sport, k.dport>>
KeyLess(j, k) ==
  \E i \in 1 .. 5 :
    /\ KeyFields(j)[i] < KeyFields(k)[i]
    /\ \A h \in 1 .. i - 1 : KeyFields(j)[h] = KeyFields(k)[h]

\* The first n keys of S a walk of the tree meets.
FirstInOrder(S, n) == {k \in S : Cardinality({j \in S : KeyLess(j, k)}) < n}

-----------------------------------------------------------------------------
(* Updating *)

NewFlow(p, ts) ==
  [packets |-> [d \in {0, 1} |-> IF d = Direction(p) THEN 1 ELSE 0],
   flags |-> p.flags, start |-> ts, last |-> ts]

UpdatedFlow(f, p, ts) ==
  [f EXCEPT !.packets[Direction(p)] = @ + 1, !.flags = @ \cup p.flags, !.last = ts]

Put(t, k, f) == [j \in DOMAIN t \cup {k} |-> IF j = k THEN f ELSE t[j]]
Without(t, S) == [k \in DOMAIN t \ S |-> t[k]]

Full(t) == Cardinality(DOMAIN t) >= MaxFlows

\* A packet no flow has room for is dropped.
Rejected(t, p) == FlowKey(p) \notin DOMAIN t /\ Full(t)

ProcessPacket(t, p, ts) ==
  LET k == FlowKey(p)
  IN IF k \in DOMAIN t THEN Put(t, k, UpdatedFlow(t[k], p, ts))
     ELSE IF Full(t) THEN t
     ELSE Put(t, k, NewFlow(p, ts))

-----------------------------------------------------------------------------
(* Expiry *)

IdleTimeout(k, f) ==
  CASE k.proto = "tcp" /\ f.flags \cap {"FIN", "RST"} # {} -> TcpShort
    [] k.proto = "tcp" /\ f.flags = {"SYN"}                -> TcpEst
    [] k.proto = "udp"                                     -> Udp
    [] k.proto = "icmp"                                    -> Icmp
    [] OTHER                                               -> General

\* The unsigned difference without the comparison before it: a mutant.
ElapsedUnguarded(now, then) == (now - then) % Word

Elapsed(now, then) == IF now > then THEN now - then ELSE 0

Due(t, now) ==
  {k \in DOMAIN t : \/ Elapsed(now, t[k].last) > IdleTimeout(k, t[k])
                    \/ Elapsed(now, t[k].start) > MaxLifetime}

\* One call of expire removes, and hands over, at most a buffer's worth.
Expire(t, now, room) == FirstInOrder(Due(t, now), room)

\* The flows touched since the last snapshot, which stay in the table.
Snapshot(t, since, room) == FirstInOrder({k \in DOMAIN t : t[k].last > since}, room)

PacketsOf(f) == f.packets[0] + f.packets[1]
-----------------------------------------------------------------------------
(***************************************************************************)
(* The flow tracker module (agent/src/modules/flow_tracker_mod.c) with     *)
(* the capture handles it shares the privileged worker with: those of the  *)
(* agent's capture set (agent/src/capture/capture_handle.c), which the     *)
(* interface monitor grows and shrinks.  All of it runs in the agent's     *)
(* event loop, so each handler is one step.  A call that returns early     *)
(* changes nothing and is a stuttering step.                               *)
(*                                                                         *)
(* Two clocks meet here.  The event loop ticks its modules with the        *)
(* monotonic clock; the worker stamps a packet with the wall clock, which  *)
(* is ahead of it by the time of boot since the epoch.                     *)
(***************************************************************************)

CONSTANTS
  Ifaces,       \* network interfaces
  Closed,       \* an unused pcap slot of the worker
  Inactive,     \* an unused capture slot of the tracker
  MaxHandles,   \* PS_MAX_PCAP_HANDLES
  MaxCapture,   \* PS_CAPTURE_MAX_INTERFACES
  MaxSlots,     \* FT_MOD_MAX_INTERFACES
  Batch,        \* FT_MOD_EXPIRE_BATCH
  Interval,     \* FT_MOD_EXPIRE_INTERVAL_US
  Packets,      \* the packets on the network
  Ahead,        \* how far ahead the wall clock may be
  Delays,       \* how long a packet may wait between the wire and the tracker
  MaxTime,      \* bound on the clock
  MaxPackets    \* bound on the packets seen

ASSUME FlowTrackerAssumption ==
  /\ Closed \notin Ifaces
  /\ Inactive \notin [iface : Ifaces, handle : 0 .. MaxHandles - 1]
  /\ {MaxHandles, MaxCapture, MaxSlots, Batch, Interval} \subseteq Nat \ {0}
  /\ Packets \subseteq Packet
  /\ Ahead \subseteq Nat
  /\ Delays \subseteq Nat
  /\ MaxTime \in Nat \ {0}
  /\ MaxPackets \in Nat
  /\ \A a \in Ahead : MaxTime + a + MaxLifetime < Word - 1

VARIABLES
  phase,     \* "run", then "flush" in ft_mod_shutdown, then "down"
  now,       \* ps_platform_now_usec: the monotonic clock
  ahead,     \* the wall clock's lead
  pcap,      \* the worker's g_pcap: the interface each open handle captures
  capture,   \* g_capture: handle_ids and iface_names
  slots,     \* st->slots
  active,    \* st->active_count
  flows,     \* st->table
  total,     \* total_packets
  bad,       \* bad_packets
  dropped,   \* flows_dropped
  sent,      \* history: packets of the flows that left in an export
  unsent,    \* history: packets of the flows whose datagram failed
  lastExpire,    \* last_expire_time
  lastSnapshot,  \* last_snapshot_time
  expired,   \* history: how many flows the last tick removed
  reported   \* history: the flows the last tick reported as active

clockVars == <<now, ahead>>
handleVars == <<pcap, capture, slots, active>>
tableVars == <<flows, total, bad, dropped>>
exportVars == <<sent, unsent>>
tickVars == <<lastExpire, lastSnapshot, expired, reported>>
vars == <<phase, clockVars, handleVars, tableVars, exportVars, tickVars>>

Wall == now + ahead
Handles == 0 .. MaxHandles - 1
Slots == 1 .. MaxSlots
Capturing == [iface : Ifaces, handle : Handles]

Init ==
  /\ phase = "run"
  /\ now = 1
  /\ ahead \in Ahead
  /\ pcap = [h \in Handles |-> Closed]
  /\ capture = <<>>
  /\ slots = [s \in Slots |-> Inactive]
  /\ active = 0
  /\ flows = [k \in {} |-> {}]
  /\ total = 0
  /\ bad = 0
  /\ dropped = 0
  /\ sent = 0
  /\ unsent = 0
  /\ lastExpire = 0
  /\ lastSnapshot = 0
  /\ expired = 0
  /\ reported = {}

Clock ==
  /\ phase = "run"
  /\ now < MaxTime
  /\ now' = now + 1
  /\ UNCHANGED <<phase, ahead, handleVars, tableVars, exportVars, tickVars>>
-----------------------------------------------------------------------------
(* Handles *)

IsFirst(x, S) == x \in S /\ \A y \in S : x <= y

\* The worker gives out its first free slot.
FreeHandles == {h \in Handles : pcap[h] = Closed}
OpenPcap(i, h) ==
  /\ IsFirst(h, FreeHandles)
  /\ pcap' = [pcap EXCEPT ![h] = i]

ClosePcap(h) == pcap' = [pcap EXCEPT ![h] = Closed]

CaptureOpen(i) ==
  /\ Len(capture) < MaxCapture
  /\ \E h \in Handles :
       /\ OpenPcap(i, h)
       /\ capture' = Append(capture, [iface |-> i, handle |-> h])

\* ctx_capture_add: an interface already captured is left alone.
CaptureAdd(i) ==
  /\ phase = "run"
  /\ \A n \in DOMAIN capture : capture[n].iface # i
  /\ CaptureOpen(i)
  /\ UNCHANGED <<phase, clockVars, slots, active, tableVars, exportVars, tickVars>>

\* The last entry goes instead of the one closed: a mutant.
CompactedAtEnd(n) == SubSeq(capture, 1, Len(capture) - 1)

\* Closing one entry shifts the later ones down.
Compacted(n) ==
  [m \in 1 .. Len(capture) - 1 |-> IF m < n THEN capture[m] ELSE capture[m + 1]]

\* ctx_capture_remove: close, then compact the two arrays.
CaptureRemove(i) ==
  /\ phase = "run"
  /\ \E n \in DOMAIN capture :
       /\ capture[n].iface = i
       /\ ClosePcap(capture[n].handle)
       /\ capture' = Compacted(n)
  /\ UNCHANGED <<phase, clockVars, slots, active, tableVars, exportVars, tickVars>>

ActiveSlots == {s \in Slots : slots[s] # Inactive}
SlotsOf(i) == {s \in ActiveSlots : slots[s].iface = i}

\* flow.control start: refused when the interface has a slot, or none is free.
StartFlow(i) ==
  /\ phase = "run"
  /\ SlotsOf(i) = {}
  /\ \E s \in Slots, h \in Handles :
       /\ IsFirst(s, Slots \ ActiveSlots)
       /\ OpenPcap(i, h)
       /\ slots' = [slots EXCEPT ![s] = [iface |-> i, handle |-> h]]
  /\ active' = active + 1
  /\ UNCHANGED <<phase, clockVars, capture, tableVars, exportVars, tickVars>>

\* flow.control stop: the slot is freed, the worker's handle stays open.
StopFlow(i) ==
  /\ phase = "run"
  /\ \E s \in Slots :
       /\ IsFirst(s, SlotsOf(i))
       /\ slots' = [slots EXCEPT ![s] = Inactive]
  /\ active' = active - 1
  /\ UNCHANGED <<phase, clockVars, pcap, capture, tableVars, exportVars, tickVars>>

StopAllFlows ==
  /\ phase = "run"
  /\ slots' = [s \in Slots |-> Inactive]
  /\ active' = 0
  /\ UNCHANGED <<phase, clockVars, pcap, capture, tableVars, exportVars, tickVars>>
-----------------------------------------------------------------------------
(* Packets *)

\* A frame captured on handle h reaches the tracker d after it was stamped.
\* The tracker looks only at its own handles.
Matched(h) == \E s \in ActiveSlots : slots[s].handle = h

OnPacket(h, p, d) ==
  /\ phase = "run"
  /\ pcap[h] # Closed
  /\ Matched(h)
  /\ total < MaxPackets
  /\ total' = total + 1
  /\ dropped' = IF Rejected(flows, p) THEN dropped + 1 ELSE dropped
  /\ flows' = ProcessPacket(flows, p, Wall - d)
  /\ UNCHANGED <<phase, clockVars, handleVars, bad, exportVars, tickVars>>

\* A frame parse_ethernet cannot read.
OnBadPacket(h) ==
  /\ phase = "run"
  /\ pcap[h] # Closed
  /\ Matched(h)
  /\ total < MaxPackets
  /\ total' = total + 1
  /\ bad' = bad + 1
  /\ UNCHANGED <<phase, clockVars, handleVars, flows, dropped, exportVars, tickVars>>
-----------------------------------------------------------------------------
(* Export *)

PacketsIn(t, S) == MapThenSumSet(LAMBDA k : PacketsOf(t[k]), S)

\* The flows in S have left the table for the exporter, whose datagrams are
\* sent one by one, each of which may fail: the flows in ok got out.
Export(S, ok) ==
  /\ sent' = sent + PacketsIn(flows, ok)
  /\ unsent' = unsent + PacketsIn(flows, S \ ok)

\* The snapshot taken first: a mutant.
ActiveBeforeExpiry(due) == Snapshot(flows, lastSnapshot, Batch)

\* The snapshot is taken of the table that expiry has left.
ActiveFlows(due) == Snapshot(Without(flows, due), lastSnapshot, Batch)

\* A tick expires, then reports what is still active.  The second export
\* removes nothing, and its outcome is only logged.
Tick ==
  /\ phase = "run"
  /\ lastExpire # 0 => now - lastExpire >= Interval
  /\ lastExpire' = now
  /\ LET due == Expire(flows, now, Batch)
     IN /\ flows' = Without(flows, due)
        /\ expired' = Cardinality(due)
        /\ reported' = ActiveFlows(due)
        /\ \E ok \in SUBSET due : Export(due, ok)
  /\ lastSnapshot' = now
  /\ UNCHANGED <<phase, clockVars, handleVars, total, bad, dropped>>

\* One call of expire instead of a loop: a mutant.
LastPassEarly(due) == TRUE

LastPass(due) == Cardinality(due) < Batch

\* One pass of ft_mod_shutdown's loop, whose clock is the largest there is; a
\* pass that did not fill the buffer is the last, and the table is freed.
Shutdown ==
  /\ phase \in {"run", "flush"}
  /\ LET due == Expire(flows, Word - 1, Batch)
     IN /\ phase' = IF LastPass(due) THEN "down" ELSE "flush"
        /\ flows' = Without(flows, IF LastPass(due) THEN DOMAIN flows ELSE due)
        /\ \E ok \in SUBSET due : Export(due, ok)
  /\ UNCHANGED <<clockVars, handleVars, total, bad, dropped, tickVars>>

Next ==
  \/ Clock
  \/ \E i \in Ifaces : CaptureAdd(i) \/ CaptureRemove(i) \/ StartFlow(i) \/ StopFlow(i)
  \/ StopAllFlows
  \/ \E h \in Handles, p \in Packets, d \in Delays : OnPacket(h, p, d)
  \/ \E h \in Handles : OnBadPacket(h)
  \/ Tick
  \/ Shutdown

Spec == Init /\ [][Next]_vars
-----------------------------------------------------------------------------
(* Properties *)

\* The table stays within max_flows, and the count of active captures
\* published in flow.status is the number of slots in use.
TypeOK ==
  /\ phase \in {"run", "flush", "down"}
  /\ now \in 1 .. MaxTime
  /\ ahead \in Ahead
  /\ pcap \in [Handles -> Ifaces \cup {Closed}]
  /\ capture \in Seq(Capturing) /\ Len(capture) <= MaxCapture
  /\ slots \in [Slots -> Capturing \cup {Inactive}]
  /\ active = Cardinality(ActiveSlots)
  /\ Cardinality(DOMAIN flows) <= MaxFlows
  /\ {total, bad, dropped, sent, unsent, lastExpire, lastSnapshot} \subseteq Nat
  /\ expired \in 0 .. Batch
  /\ Cardinality(reported) <= Batch

\* Every packet counted in total_packets is in the table, left it for the
\* exporter, or was counted as bad or dropped; after shutdown, which frees the
\* table, none of them is left out: the flush loop has emptied it.
PacketsAccounted ==
  total = PacketsIn(flows, DOMAIN flows) + sent + unsent + bad + dropped

\* Both directions of a conversation are one flow, also when both ends have
\* one address (make_flow_key).
OneFlowPerConversation ==
  \A k \in DOMAIN flows : Reversed(k) \in DOMAIN flows => Reversed(k) = k

\* The tracker's slots and the capture set never share a handle or list an
\* interface twice, and what they hold is open in the worker on the interface
\* they hold it for, whatever the other closes and the worker gives out again.
HandlesAgree ==
  /\ \A s \in ActiveSlots : pcap[slots[s].handle] = slots[s].iface
  /\ \A n \in DOMAIN capture : pcap[capture[n].handle] = capture[n].iface
  /\ \A s, t \in ActiveSlots : s # t =>
       slots[s].iface # slots[t].iface /\ slots[s].handle # slots[t].handle
  /\ \A m, n \in DOMAIN capture : m # n =>
       capture[m].iface # capture[n].iface /\ capture[m].handle # capture[n].handle
  /\ \A s \in ActiveSlots, n \in DOMAIN capture : slots[s].handle # capture[n].handle

\* A flow that a tick has reported as active has not had its last record
\* exported: expiry runs before the snapshot (ft_mod_tick).
ReportedFlowsLive == phase = "run" => reported \subseteq DOMAIN flows

\* A tick never removes a flow that the wall clock finds neither idle longer
\* than its timeout nor older than the longest lifetime, although it measures
\* wall-clock stamps with another clock (ps_flow_table_expire).
NoEarlyExpiry ==
  [][phase' = "run" =>
       \A k \in DOMAIN flows \ DOMAIN flows' :
         \/ Wall - flows[k].last > IdleTimeout(k, flows[k])
         \/ Wall - flows[k].start > MaxLifetime]_vars

\* No packet and no flow goes missing between the table, its limits and the
\* exporter, and none is exported as active after its end
\* (ps_flow_table_update, ft_mod_tick, ft_mod_shutdown).
FlowsAccounted == TypeOK /\ PacketsAccounted /\ ReportedFlowsLive
=============================================================================
