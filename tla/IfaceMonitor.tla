---------------------------- MODULE IfaceMonitor ----------------------------
(***************************************************************************)
(* The interface monitor: snapshots of the host's interfaces, their        *)
(* differences, and the capture set it keeps in step with them.            *)
(*                                                                         *)
(* What getifaddrs returns is a sequence of [name, up, running, bcast,     *)
(* addr], one entry per address, in any order.  The hash of an address is  *)
(* the address itself, and the XOR of hashes the symmetric difference of   *)
(* sets: two different sets with one hash are not modelled.                *)
(***************************************************************************)
EXTENDS Integers, Sequences, FiniteSets, SequencesExt

CONSTANTS
  SnapMax,        \* PS_IFACE_SNAP_MAX (32)
  CaptureMax,     \* PS_CAPTURE_MAX_INTERFACES (8)
  Excluded        \* the names ps_iface_excluded rejects: lo and [capture] exclude

ASSUME IfaceAssumption == SnapMax \in Nat \ {0} /\ CaptureMax \in Nat \ {0}

NamesIn(snaps) == {snaps[i].name : i \in 1 .. Len(snaps)}

find_by_name(snaps, name) == SelectInSeq(snaps, LAMBDA s : s.name = name)

ps_iface_excluded(name) == name \in Excluded

\* At start-up: every broadcast interface once, in the order of the list.
ps_iface_enumerate(list) ==
  FoldLeft(LAMBDA out, e :
             IF Len(out) >= CaptureMax \/ ps_iface_excluded(e.name) \/ ~e.bcast
                \/ Contains(out, e.name)
             THEN out ELSE Append(out, e.name),
           << >>, list)

\* An address is hashed together with what came before it: a mutant.
FoldAddressInOrder(hash, addr) == {<<addr, hash>>}

FoldAddress(hash, addr) == (hash \ {addr}) \cup ({addr} \ hash)

ps_iface_snapshot(list) ==
  LET add(out, e) ==
        LET old == find_by_name(out, e.name)
            s   == IF old # 0 THEN out
                   ELSE Append(out, [name |-> e.name, up |-> e.up,
                                     running |-> e.running, addr_hash |-> {}])
            i   == IF old # 0 THEN old ELSE Len(s)
        IN  IF old = 0 /\ Len(out) >= SnapMax THEN out
            ELSE IF e.addr = "" THEN s
            ELSE [s EXCEPT ![i].addr_hash = FoldAddress(@, e.addr)]
  IN  FoldLeft(add, << >>, list)

Change(kind, name, old_up, new_up) ==
  [kind |-> kind, name |-> name, old_up |-> old_up, new_up |-> new_up]

\* What one interface of the new snapshot contributes: a state change hides
\* an address change.
DiffOne(prev, s) ==
  LET p == find_by_name(prev, s.name) IN
  IF p = 0 THEN <<Change("added", s.name, FALSE, s.up)>>
  ELSE IF <<prev[p].up, prev[p].running>> # <<s.up, s.running>>
       THEN <<Change("state_change", s.name, prev[p].up, s.up)>>
  ELSE IF prev[p].addr_hash # s.addr_hash
       THEN <<Change("addr_change", s.name, s.up, s.up)>>
  ELSE << >>

ps_iface_diff(prev, cur) ==
  FlattenSeq([i \in 1 .. Len(cur) |-> DiffOne(prev, cur[i])])
  \o FlattenSeq([i \in 1 .. Len(prev) |->
       IF find_by_name(cur, prev[i].name) = 0
       THEN <<Change("removed", prev[i].name, prev[i].up, FALSE)>> ELSE << >>])

-----------------------------------------------------------------------------
\* The capture set as the names of its interfaces; `opens' are those the
\* worker can open now.
ps_capture_open(caps, name, opens) ==
  IF Len(caps) >= CaptureMax \/ name \notin opens THEN caps ELSE Append(caps, name)

ctx_capture_add(caps, name, opens) ==
  IF ps_iface_excluded(name) \/ Contains(caps, name) THEN caps
  ELSE ps_capture_open(caps, name, opens)

ctx_capture_remove(caps, name) ==
  LET i == SelectInSeq(caps, LAMBDA c : c = name) IN
  IF i = 0 THEN caps ELSE RemoveAt(caps, i)

\* An interface that is gone stays captured: a mutant.
ApplyKeepsRemoved(caps, c, opens) ==
  CASE c.kind = "added" -> ctx_capture_add(caps, c.name, opens)
    [] c.kind = "state_change" /\ c.new_up /\ ~c.old_up -> ctx_capture_add(caps, c.name, opens)
    [] c.kind = "state_change" /\ ~c.new_up /\ c.old_up -> ctx_capture_remove(caps, c.name)
    [] OTHER -> caps

Apply(caps, c, opens) ==
  CASE c.kind = "added" -> ctx_capture_add(caps, c.name, opens)
    [] c.kind = "state_change" /\ c.new_up /\ ~c.old_up -> ctx_capture_add(caps, c.name, opens)
    [] c.kind = "state_change" /\ ~c.new_up /\ c.old_up -> ctx_capture_remove(caps, c.name)
    [] c.kind = "removed" -> ctx_capture_remove(caps, c.name)
    [] OTHER -> caps

\* The monitor's state after init: the baseline.  A failed snapshot is empty.
iface_monitor_init(list, ok) == IF ok THEN ps_iface_snapshot(list) ELSE << >>

\* The event of a change; "warning" for an interface that is down after it.
emit_finding(c) ==
  [kind |-> c.kind, name |-> c.name,
   severity |-> IF c.kind = "state_change" /\ ~c.new_up THEN "warning" ELSE "info"]
\* One tick that is due: the new baseline, the captures and the findings told.
iface_monitor_tick(m, list, ok, opens) ==
  IF ~ok THEN [m EXCEPT !.told = << >>]
  ELSE LET cur     == ps_iface_snapshot(list)
           changes == ps_iface_diff(m.prev, cur)
       IN  [prev |-> cur, told |-> [i \in 1 .. Len(changes) |-> emit_finding(changes[i])],
            caps |-> FoldLeft(LAMBDA cs, c : Apply(cs, c, opens), m.caps, changes)]
=============================================================================
