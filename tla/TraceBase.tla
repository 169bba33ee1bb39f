----------------------------- MODULE TraceBase ------------------------------
(***************************************************************************)
(* What the agent's four traceroute modules share: the job record they all *)
(* keep per slot, the slot scans, and the network their probes travel      *)
(* through.  The modules' tables are records                               *)
(*                                                                         *)
(*   [jobs |-> slot -> job or Free, tx |-> probes sent by the last call,   *)
(*    out  |-> job id -> what was published for it]                        *)
(*                                                                         *)
(* and every C function is an operator on such a record.                   *)
(***************************************************************************)
EXTENDS Integers, Sequences, FiniteSets, SequencesExt

CONSTANTS
  JobIds,        \* the jobs that are submitted
  Dests,         \* destinations a job may name
  Family,        \* [Dests -> {4, 6}]
  Routes,        \* [Dests -> [0 .. 1 -> Seq(addresses)]]: ECMP alternatives
  NoSuchHost,    \* a destination that does not resolve
  TraceSlots,    \* job slots of a module (8 in the code, 4 for Dublin)
  Probes,        \* probes per hop (3 in the code)
  HopLimit       \* bound on a job's max_hops

ASSUME TraceBaseAssumption ==
  /\ Family \in [Dests -> {4, 6}]
  /\ NoSuchHost \notin Dests
  /\ TraceSlots \in Nat \ {0} /\ Probes \in Nat \ {0}
  /\ HopLimit \in 1 .. 30

Free  == [id |-> "free"]
Slots == 0 .. TraceSlots - 1
SlotOrder == [i \in 1 .. TraceSlots |-> i - 1]

NoTable == [jobs |-> [s \in Slots |-> Free],
            tx   |-> {},
            out  |-> [j \in JobIds |-> << >>]]

Active(st, s) == st.jobs[s] # Free
ActiveIn(st)  == {s \in Slots : Active(st, s)}

\* The first slot that satisfies P, in table order; -1 when there is none.
FirstSlot(P(_)) ==
  IF \E s \in Slots : P(s)
  THEN CHOOSE s \in Slots : P(s) /\ \A t \in Slots : P(t) => s <= t
  ELSE -1

FreeSlot(st) == FirstSlot(LAMBDA s : ~Active(st, s))

\* A call starts with nothing sent.
Quiet(st) == [st EXCEPT !.tx = {}]

Publish(st, id, msg) == [st EXCEPT !.out[id] = Append(@, msg)]

HopMsg(hop, addr, rtts, filtered) ==
  [kind |-> "hop", hop |-> hop, addr |-> addr, rtts |-> rtts,
   filtered |-> filtered]

\* Runs F over the table in slot order, as the modules' for loops do.
ForSlots(F(_, _), st) == FoldLeft(F, st, SlotOrder)

-----------------------------------------------------------------------------
(* The network.  A probe is [proto, a, b, dest, ttl, af, of]: a and b are   *)
(* the two header fields a reply quotes (ICMP id and sequence, UDP ports,   *)
(* TCP source port and sequence number), `of' names the job, hop and probe  *)
(* it was sent for and is seen by no module.                                *)

Route(dest, proto, a) ==
  Routes[dest][IF proto = "udp" THEN ((a \div 1024) + a) % 2 ELSE 0]

\* The node a probe with this TTL dies at, or the destination.
NodeAt(dest, proto, a, ttl) ==
  LET r == Route(dest, proto, a) IN IF ttl < Len(r) THEN r[ttl] ELSE Last(r)

FinalType(proto) ==
  CASE proto = "icmp" -> "echo_reply"
    [] proto = "udp"  -> "port_unreachable"
    [] proto = "tcp"  -> "syn_ack"

\* The packet a probe provokes; hdr6 tells whether a raw IPv6 socket of this
\* platform delivers the outer IPv6 header.
Reply(p, hdr6) ==
  [type  |-> IF p.ttl < Len(Route(p.dest, p.proto, p.a))
             THEN "time_exceeded" ELSE FinalType(p.proto),
   inner |-> p.proto, a |-> p.a, b |-> p.b, af |-> p.af,
   from  |-> NodeAt(p.dest, p.proto, p.a, p.ttl),
   hdr   |-> p.af = 6 /\ hdr6, of |-> p.of]
=============================================================================
