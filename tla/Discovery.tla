----------------------------- MODULE Discovery -----------------------------
(***************************************************************************)
(* Answering discovery probes (agent/src/modules/discovery_listener.c)     *)
(* with the replay table of lib/discovery.c.  A probe is a signed          *)
(* broadcast datagram with a nonce and its sender's clock; the agent may   *)
(* see it any number of times, once per interface that captured it and     *)
(* again when the network repeats it, and must answer it once.  Time is    *)
(* the agent's clock in milliseconds.                                      *)
(***************************************************************************)
EXTENDS Integers, FiniteSets, TLC

CONSTANTS
  Probes,       \* (pubkey, nonce) pairs
  NoProbe,      \* an unused place of the eviction ring
  Stamps,       \* timestamps a sender's clock may show
  Skews,        \* max_skew_ms a sender may ask for
  SkewCap,      \* max_skew_cap_ms of the configuration
  DefaultSkew,  \* PS_DISCOVERY_DEFAULT_SKEW_MS
  ReplayCap,    \* PS_DISCOVERY_REPLAY_CAP
  EvictCap,     \* PS_DISCOVERY_REPLAY_EVICT
  MaxTime       \* bound on the clock

ASSUME DiscoveryAssumption ==
  /\ NoProbe \notin Probes
  /\ Stamps \subseteq Nat
  /\ Skews \subseteq Nat
  /\ SkewCap \in Nat
  /\ DefaultSkew \in Nat \ {0}
  /\ ReplayCap \in Nat \ {0}
  /\ EvictCap \in Nat \ {0}
  /\ MaxTime \in Nat

VARIABLES
  now,       \* ps_discovery_now_ms: the wall clock, taken not to step back
  wire,      \* the probes sent: their timestamp and requested skew
  entries,   \* replay.entries: probe and expiry
  evicted,   \* replay.evicted
  head,      \* replay.evicted_head
  answered,  \* history: the probes answered
  repeated,  \* history: the probes answered again
  accepted,  \* history: when it was first accepted
  rolled     \* history: probes pushed out of the eviction ring

replayVars == <<entries, evicted, head>>
historyVars == <<answered, repeated, accepted, rolled>>
discoveryVars == <<now, wire, replayVars, historyVars>>

Unsent == [stamp |-> 0, skew |-> 0, sent |-> FALSE]
RingSlot == 0 .. EvictCap - 1
Datagram == [stamp : Stamps, skew : Skews, sent : {TRUE}]
Entry == [probe : Probes, exp : Nat]

DiscoveryInit ==
  /\ now = 0
  /\ wire = [p \in Probes |-> Unsent]
  /\ entries = {}
  /\ evicted = [i \in RingSlot |-> NoProbe]
  /\ head = 0
  /\ answered = {}
  /\ repeated = {}
  /\ accepted = [p \in Probes |-> 0]
  /\ rolled = {}

Tick ==
  /\ now < MaxTime
  /\ now' = now + 1
  /\ UNCHANGED <<wire, replayVars, historyVars>>

\* A client signs a probe with its own clock (cli/discover/agents.c).
Send(p) ==
  /\ ~wire[p].sent
  /\ \E d \in Datagram : wire' = [wire EXCEPT ![p] = d]
  /\ UNCHANGED <<now, replayVars, historyVars>>
-----------------------------------------------------------------------------
(* The timestamp window *)

\* The smaller of the requested and the configured skew, never zero.
SkewOf(p) ==
  LET s == IF wire[p].skew > SkewCap THEN SkewCap ELSE wire[p].skew
  IN IF s = 0 THEN DefaultSkew ELSE s

InWindow(p) ==
  IF now > wire[p].stamp THEN now - wire[p].stamp <= SkewOf(p)
                         ELSE wire[p].stamp - now <= SkewOf(p)

\* The entry expires one skew after its arrival: a mutant.
ExpiryAfterSkew(p) == now + SkewOf(p)

Expiry(p) == now + 2 * SkewOf(p)
-----------------------------------------------------------------------------
(* ps_discovery_replay_check *)

Live(e) == e.exp > now

\* The ring is not searched: a mutant.
SeenInTable(p) == \E e \in entries : e.probe = p /\ Live(e)

Seen(p) ==
  \/ \E e \in entries : e.probe = p /\ Live(e)
  \/ \E i \in RingSlot : evicted[i] = p

\* Expired entries are dropped once the table is full.
Purged ==
  IF Cardinality(entries) >= ReplayCap THEN {e \in entries : Live(e)}
                                       ELSE entries

\* record_eviction overwrites the oldest place of the ring.
RecordEviction(p) ==
  /\ evicted' = [evicted EXCEPT ![head] = p]
  /\ head' = (head + 1) % EvictCap
  /\ rolled' = rolled \cup ({evicted[head]} \ {NoProbe})

\* The newcomer joins the table, or takes the place of an entry that expires
\* first.
Record(p) ==
  LET new == [probe |-> p, exp |-> Expiry(p)]
  IN \/ /\ Cardinality(Purged) < ReplayCap
        /\ entries' = Purged \cup {new}
        /\ UNCHANGED <<evicted, head, rolled>>
     \/ /\ Cardinality(Purged) >= ReplayCap
        /\ \E old \in Purged :
             /\ \A e \in Purged : old.exp <= e.exp
             /\ entries' = (Purged \ {old}) \cup {new}
             /\ RecordEviction(old.probe)

\* on_packet of a well-formed, authorised and correctly signed probe: it is
\* answered when it is timely and new.  Every other packet changes nothing.
OnProbe(p) ==
  /\ wire[p].sent
  /\ InWindow(p)
  /\ ~Seen(p)
  /\ Record(p)
  /\ answered' = answered \cup {p}
  /\ repeated' = IF p \in answered THEN repeated \cup {p} ELSE repeated
  /\ accepted' = IF p \in answered THEN accepted
                                   ELSE [accepted EXCEPT ![p] = now]
  /\ UNCHANGED <<now, wire>>

DiscoveryNext == Tick \/ \E p \in Probes : Send(p) \/ OnProbe(p)

DiscoverySpec == DiscoveryInit /\ [][DiscoveryNext]_discoveryVars
-----------------------------------------------------------------------------
DiscoveryTypeOK ==
  /\ now \in Nat
  /\ wire \in [Probes -> Datagram \cup {Unsent}]
  /\ entries \subseteq Entry
  /\ evicted \in [RingSlot -> Probes \cup {NoProbe}]
  /\ head \in RingSlot
  /\ answered \subseteq Probes
  /\ repeated \subseteq answered
  /\ accepted \in [Probes -> Nat]
  /\ rolled \subseteq Probes

\* p was first accepted at the very first millisecond of its window.
AtEdge(p) == accepted[p] + SkewOf(p) = wire[p].stamp

\* However often a probe arrives, and however the table overflows, it is
\* answered at most once.  Two exceptions are inherent in the code: a probe that
\* enough later evictions have pushed out of the ring, and one first accepted in
\* the first millisecond of its window, whose entry expires in the last.
AnsweredOnce ==
  \A p \in repeated : p \in rolled \/ AtEdge(p)

\* The table never outgrows its array, and the entry of a probe answered while
\* it can still be repeated is only given up into the ring.
Remembered ==
  /\ Cardinality(entries) <= ReplayCap
  /\ \A p \in answered :
       accepted[p] + 2 * SkewOf(p) > now =>
         \/ p \in rolled
         \/ \E i \in RingSlot : evicted[i] = p
         \/ \E e \in entries : e.probe = p /\ Live(e)

\* For TLC: which probe is which does not matter.
ProbeSymmetry == Permutations(Probes)
=============================================================================
