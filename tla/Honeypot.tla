------------------------------ MODULE Honeypot ------------------------------
(***************************************************************************)
(* The honeypot listener of the agent: trap ports, the sessions of the     *)
(* peers that connect to them, and the bursts of probe packets that never  *)
(* become a session.                                                       *)
(*                                                                         *)
(* Two clocks meet here.  Ticks carry the monotonic clock; captured frames *)
(* carry the wall clock, which is Epoch ahead.  Times are unsigned words.  *)
(***************************************************************************)
EXTENDS JsonWriter, FiniteSets, FiniteSetsExt, Functions

CONSTANTS
  HP_MAX_TRAPS, HP_MAX_SESSIONS, HP_MAX_BURSTS, HP_MAX_PACKETS, HP_MAX_PAYLOAD,
  HP_MAX_BANNER, HP_DEDUP_WINDOW, HP_EVENT_BUFFER,
  Epoch, Word

ASSUME HoneypotAssumption ==
  /\ {HP_MAX_SESSIONS, HP_MAX_BURSTS, HP_MAX_PACKETS, HP_MAX_PAYLOAD} \subseteq Nat \ {0}
  /\ Epoch + HP_DEDUP_WINDOW < Word

Minus(a, b) == (a - b) % Word
Wall(now) == (now + Epoch) % Word
AtMost(n, max) == IF n < max THEN n ELSE max

-----------------------------------------------------------------------------
\* Configuration.  A line is [kind, key, val, rest]: a section header, one
\* without its bracket, an entry or nothing of interest; rest is what remains
\* of a line that is longer than the line buffer, and is read as a line of
\* its own.

is_port_str(key) == key \in 1 .. 65535

\* A banner is [len, escapes]: so many characters, the last of them being
\* \r and \n escapes, each of which becomes one character.
unescape_banner(b) ==
  LET plain == AtMost(b.len - 2 * b.escapes, HP_MAX_BANNER - 1)
  IN  [NoChars EXCEPT !.plain = plain, !.two = AtMost(b.escapes, HP_MAX_BANNER - 1 - plain)]

NoConfig == [enabled |-> FALSE, timeout |-> 0, max_payload |-> 0, traps |-> << >>]
Defaults == [enabled |-> FALSE, timeout |-> 10, max_payload |-> HP_MAX_PAYLOAD, traps |-> << >>]

SetKey(cfg, key, val) ==
  CASE key = "enabled"     -> [cfg EXCEPT !.enabled = val]
    [] key = "timeout"     -> [cfg EXCEPT !.timeout = val]
    [] key = "max_payload" -> [cfg EXCEPT !.max_payload = AtMost(val, HP_MAX_PAYLOAD)]
    [] OTHER               -> cfg

SetTrap(cfg, port, banner) ==
  IF ~is_port_str(port) \/ Len(cfg.traps) >= HP_MAX_TRAPS THEN cfg
  ELSE [cfg EXCEPT !.traps = Append(@, [port |-> port, banner |-> unescape_banner(banner)])]

\* p: [cfg, inside, ok].  After a bad header nothing more is read.
ParseLine(p, line) ==
  IF ~p.ok THEN p
  ELSE CASE line.kind = "section" -> [p EXCEPT !.inside = line.key = "honeypot"]
         [] line.kind = "broken"  -> [p EXCEPT !.ok = FALSE]
         [] line.kind = "entry" /\ p.inside -> [p EXCEPT !.cfg = SetKey(@, line.key, line.val)]
         [] line.kind = "trap" /\ p.inside  -> [p EXCEPT !.cfg = SetTrap(@, line.key, line.val)]
         [] OTHER -> p

Lines(text) ==
  FlattenSeq([i \in DOMAIN text |-> <<text[i]>> \o text[i].rest])

\* What has been read before an error stays in the configuration.
hp_parse_config_string(text) ==
  FoldLeft(ParseLine, [cfg |-> Defaults, inside |-> FALSE, ok |-> TRUE], Lines(text)).cfg

-----------------------------------------------------------------------------
\* Events.  A packet of a session has a payload; one of a burst has options.

hp_flags_to_string(flags) == IF flags = {} THEN 4 ELSE Cardinality(flags)

hp_base64_encode(n) == ((n + 2) \div 3) * 4

PacketText(p) ==
  Object(<<ps_json_key_int(3, Digits(p.seq)), ps_json_key_int(14, 5),
           ps_json_key_string(9, Chars(hp_flags_to_string(p.flags))),
           ps_json_key_int(10, 5), ps_json_key_int(3, 3), ps_json_key_int(11, 1),
           ps_json_key_int(3, 1), ps_json_key_int(11, Digits(p.len)),
           ps_json_key_string(7, Chars(hp_base64_encode(p.len))),
           ps_json_key_string(11, Chars(p.options))>>)

EventText(s, type) ==
  Object(<<ps_json_key_int(9, 10), ps_json_key_string(6, Chars(9)), ps_json_key_int(8, 5),
           ps_json_key_string(8, NoChars), ps_json_key_int(8, Digits(s.port)),
           ps_json_key_string(15, Chars(Len(type))), ps_json_key_int(22, 5),
           ps_json_key_int(20, Digits(s.bytes)), ps_json_key_int(12, Digits(Len(s.packets))),
           ps_json_key_int(11, 4), ps_json_key_string(11, s.banner),
           ps_json_array(7, [i \in DOMAIN s.packets |-> PacketText(s.packets[i])])>>)

\* Nothing is published when the text does not fit.
hp_emit_probe_event_ex(s, close, type) ==
  IF ps_json_finish(HP_EVENT_BUFFER, EventText(s, type)) <= 0 THEN << >>
  ELSE <<[type |-> type, conn |-> s.conn, src |-> s.src, port |-> s.port, start |-> s.start,
          close |-> IF close > s.start THEN close ELSE s.start,
          bytes |-> s.bytes, count |-> Len(s.packets)]>>

-----------------------------------------------------------------------------
\* Sessions.  The state st holds sessions, bursts, events and the kernel's
\* side of the connections: [stage, src, sport, port, avail, end, got].

NewSession(conn, peer, trap, now, budget) ==
  [conn |-> conn, src |-> peer.src, sport |-> peer.sport, port |-> trap.port,
   start |-> now, last |-> now, greeted |-> FALSE, banner |-> NoChars, text |-> trap.banner,
   packets |-> << >>, bytes |-> 0, budget |-> budget]

\* close() on the accepted socket: what was not read is gone with it.
Gone(peer) == [peer EXCEPT !.stage = "gone", !.avail = 0, !.end = "no"]

\* The entry is not taken out when it is the last one: a mutant.
CloseKeepsLast(st, i, now) ==
  LET s == st.sessions[i]
      n == Len(st.sessions)
  IN  [st EXCEPT !.sessions = IF i = n /\ n > 1 THEN @ ELSE SubSeq([@ EXCEPT ![i] = st.sessions[n]], 1, n - 1),
                 !.peers[s.conn] = Gone(@),
                 !.events = IF s.packets # << >> THEN @ \o hp_emit_probe_event_ex(s, now, "established")
                            ELSE @]

\* The last session moves into the place of the closed one.
hp_close_session(st, i, now) ==
  LET s == st.sessions[i]
      n == Len(st.sessions)
  IN  [st EXCEPT !.sessions = SubSeq([@ EXCEPT ![i] = st.sessions[n]], 1, n - 1),
                 !.peers[s.conn] = Gone(@),
                 !.events = IF s.packets # << >> \/ s.bytes > 0
                            THEN @ \o hp_emit_probe_event_ex(s, now, "established") ELSE @]

\* taken: ports another program listens on.
hp_bind_trap(cfg, i, taken) ==
  /\ cfg.traps[i].port \notin taken
  /\ \A j \in 1 .. i - 1 : cfg.traps[j].port # cfg.traps[i].port

AcceptOne(st, conn, trap, cfg, now) ==
  IF Len(st.sessions) >= HP_MAX_SESSIONS
  THEN [st EXCEPT !.peers[conn] = Gone(@)]
  ELSE [st EXCEPT !.peers[conn].stage = "open",
                  !.sessions = Append(@, NewSession(conn, st.peers[conn], trap, now, cfg.max_payload))]

\* Trap by trap, each backlog to its end.
hp_accept_connections(st, cfg, bound, now) ==
  FoldLeft(LAMBDA r, t :
             IF t \notin bound THEN r
             ELSE [FoldLeft(LAMBDA q, c : AcceptOne(q, c, cfg.traps[t], cfg, now), r,
                            r.backlog[cfg.traps[t].port])
                     EXCEPT !.backlog[cfg.traps[t].port] = << >>],
           st, [t \in DOMAIN cfg.traps |-> t])

\* A hard error leaves the banner unsent; it is tried again.
hp_send_banners(st) ==
  LET greet(s) == IF s.greeted \/ (s.text # NoChars /\ st.peers[s.conn].end = "rst") THEN s
                  ELSE [s EXCEPT !.greeted = TRUE, !.banner = s.text]
  IN  [st EXCEPT !.sessions = [i \in DOMAIN @ |-> greet(st.sessions[i])]]

\* n bytes arrived.
Received(s, n, now) ==
  [s EXCEPT !.last = now, !.bytes = @ + n, !.budget = @ - n,
            !.packets = IF Len(@) >= HP_MAX_PACKETS THEN @
                        ELSE Append(@, [seq |-> Len(@) + 1, flags |-> {}, options |-> 0,
                                        len |-> AtMost(n, HP_MAX_PAYLOAD)])]

RECURSIVE ReadFrom(_, _, _)
ReadFrom(st, i, now) ==
  IF i > Len(st.sessions) THEN st
  ELSE LET s == st.sessions[i]
           peer == st.peers[s.conn]
           n == AtMost(peer.avail, AtMost(s.budget, HP_MAX_PAYLOAD))
       IN  IF s.budget <= 0 THEN ReadFrom(st, i + 1, now)
           ELSE IF peer.end = "rst" \/ (peer.end = "fin" /\ peer.avail = 0)
           THEN ReadFrom(hp_close_session(st, i, now), i, now)
           ELSE IF n = 0 THEN ReadFrom(st, i + 1, now)
           ELSE ReadFrom([st EXCEPT !.sessions[i] = Received(s, n, now),
                                    !.peers[s.conn].avail = @ - n,
                                    !.peers[s.conn].got = @ + n], i + 1, now)

\* The budget is not charged: a mutant.
ReadUncharged(st, now) ==
  LET r == ReadFrom(st, 1, now)
  IN  [r EXCEPT !.sessions = [i \in DOMAIN @ |-> [@[i] EXCEPT !.budget = HP_MAX_PAYLOAD]]]

hp_read_sessions(st, now) == ReadFrom(st, 1, now)

Expired(s, cfg, now) ==
  \/ Minus(now, s.last) > cfg.timeout
  \/ Minus(now, s.start) > cfg.timeout * 2

RECURSIVE TimeoutFrom(_, _, _, _)
TimeoutFrom(st, i, cfg, now) ==
  IF i > Len(st.sessions) THEN st
  ELSE IF Expired(st.sessions[i], cfg, now)
  THEN TimeoutFrom(hp_close_session(st, i, now), i, cfg, now)
  ELSE TimeoutFrom(st, i + 1, cfg, now)

\* Goes on to the next place after a close: a mutant.
RECURSIVE TimeoutSkipping(_, _, _, _)
TimeoutSkipping(st, i, cfg, now) ==
  IF i > Len(st.sessions) THEN st
  ELSE TimeoutSkipping(IF Expired(st.sessions[i], cfg, now) THEN hp_close_session(st, i, now) ELSE st,
                       i + 1, cfg, now)

\* The session that moves into a closed one's place is passed over: a mutant.
TimeoutsSkipMoved(st, cfg, now) == TimeoutSkipping(st, 1, cfg, now)

hp_check_timeouts(st, cfg, now) == TimeoutFrom(st, 1, cfg, now)

-----------------------------------------------------------------------------
\* Bursts.

\* Options as bytes, MSS and so on by their kinds; the result is the length of
\* the summary.  k: position, w: characters written.
OptionText(kind, olen, value) ==
  CASE kind = 2 /\ olen = 4 -> 4 + Digits(value)
    [] kind = 3 /\ olen = 3 -> 3 + Digits(value)
    [] kind = 4 -> 4
    [] kind = 8 -> 2
    [] OTHER -> 0

RECURSIVE OptionsFrom(_, _, _, _)
OptionsFrom(opts, k, w, buflen) ==
  LET olen == opts[k + 1]
      t == OptionText(opts[k], olen, opts[k + 2])
  IN  IF k > Len(opts) \/ opts[k] = 0 THEN w
      ELSE IF opts[k] = 1 THEN OptionsFrom(opts, k + 1, w, buflen)
      ELSE IF k + 1 > Len(opts) \/ olen < 2 \/ k - 1 + olen > Len(opts) THEN w
      ELSE OptionsFrom(opts, k + olen,
                       IF t = 0 \/ w + t + 2 >= buflen THEN w ELSE IF w > 0 THEN w + 1 + t ELSE t,
                       buflen)

hp_parse_tcp_options(opts) == OptionsFrom(opts, 1, 0, 256)

\* Bursts are told apart by their source only: a mutant.
FindBurstBySource(bursts, src, port) ==
  LET hit == {i \in DOMAIN bursts : bursts[i].src = src}
  IN  IF hit # {} THEN Min(hit)
      ELSE IF Len(bursts) >= HP_MAX_BURSTS THEN 0 ELSE Len(bursts) + 1

\* The place of a burst, 0 when the table is full.
hp_find_or_create_burst(bursts, src, port) ==
  LET hit == {i \in DOMAIN bursts : bursts[i].src = src /\ bursts[i].port = port}
  IN  IF hit # {} THEN Min(hit)
      ELSE IF Len(bursts) >= HP_MAX_BURSTS THEN 0 ELSE Len(bursts) + 1

hp_burst_to_session(b) ==
  [conn |-> "none", src |-> b.src, port |-> b.port, start |-> b.first, banner |-> NoChars,
   packets |-> b.packets, bytes |-> 0]

\* Frames the handler looks at.
Probes(f) ==
  /\ f.len >= 54 /\ f.ethertype = "ip4"
  /\ f.ihl >= 20 /\ 14 + f.ihl + 20 <= f.len
  /\ f.proto = "tcp" /\ f.flags # {"ack"}

honeypot_on_packet(st, f, ts) ==
  LET known == \E i \in DOMAIN st.sessions :
                 st.sessions[i].src = f.src /\ st.sessions[i].sport = f.sport
      b == hp_find_or_create_burst(st.bursts, f.src, f.port)
      new == [src |-> f.src, port |-> f.port, first |-> ts, last |-> ts, packets |-> << >>]
      start == IF b > Len(st.bursts) THEN Append(st.bursts, new) ELSE st.bursts
      options == IF f.off > 20 /\ 14 + f.ihl + f.off <= f.len
                 THEN hp_parse_tcp_options(f.options) ELSE 0
      packet == [seq |-> Len(start[b].packets) + 1, flags |-> f.flags, options |-> options,
                 len |-> 0]
  IN
  IF ~Probes(f) \/ known \/ b = 0 THEN st
  ELSE [st EXCEPT !.bursts = [start EXCEPT ![b] =
          [@ EXCEPT !.last = ts,
                    !.packets = IF Len(@) < HP_MAX_PACKETS THEN Append(@, packet) ELSE @]]]

Due(b, now) == b.packets # << >> /\ Minus(now, b.last) >= HP_DEDUP_WINDOW

Flush(st, due) ==
  [st EXCEPT
     !.bursts = SelectSeq(@, LAMBDA b : b \notin due),
     !.events = FoldLeft(LAMBDA e, b : IF b \notin due THEN e
                           ELSE e \o hp_emit_probe_event_ex(hp_burst_to_session(b), b.last, "half_open"),
                         @, st.bursts)]

\* Times are compared as signed numbers: a mutant.
FlushSigned(st, now) ==
  Flush(st, {b \in Range(st.bursts) : b.packets # << >> /\ now - b.last >= HP_DEDUP_WINDOW})

hp_flush_expired_bursts(st, now) == Flush(st, {b \in Range(st.bursts) : Due(b, now)})

honeypot_tick(st, cfg, bound, now) ==
  LET a == hp_send_banners(hp_accept_connections(st, cfg, bound, now))
  IN  hp_flush_expired_bursts(hp_check_timeouts(hp_read_sessions(a, now), cfg, now), now)

RECURSIVE CloseAll(_)
CloseAll(st) == IF st.sessions = << >> THEN st ELSE CloseAll(hp_close_session(st, 1, 0))

\* Bursts that are still open are not reported.
honeypot_shutdown(st) == [CloseAll(st) EXCEPT !.bursts = << >>]
-----------------------------------------------------------------------------
(***************************************************************************)
(* The honeypot listener at work: peers that connect, send and leave in    *)
(* any order, frames captured on the interfaces, and the agent's ticks.    *)
(* A behaviour follows one plan: a configuration file and the peers.       *)
(***************************************************************************)

CONSTANTS
  Plans,
  Files,         \* [Plans -> the lines of honeypot.conf, or none]
  Taken,         \* ports other programs listen on
  Peers,         \* [connections -> [src, sport, port]]
  Visits,        \* [Plans -> connections that may come]
  Captured,      \* [Plans -> frames that may be captured]
  Chunks,        \* [Plans -> what a peer may send at a time]
  MaxSend, MaxFrames, MaxTime, LastArrival

VARIABLES
  plan, phase, now, beat,
  cfg, bound,
  st,            \* struct honeypot_state, and the kernel's side of connections
  heard          \* frames of each source and port that found a place

vars == <<plan, phase, now, beat, cfg, bound, st, heard>>

Conns == DOMAIN Peers
PortsOf(c) == {c.traps[i].port : i \in DOMAIN c.traps}
Streams == UNION {{<<f.src, f.port>> : f \in Captured[p]} : p \in Plans}

NoState ==
  [sessions |-> << >>, bursts |-> << >>, events |-> << >>, backlog |-> << >>,
   peers |-> [c \in Conns |-> [stage |-> "away", src |-> Peers[c].src, sport |-> Peers[c].sport,
                               port |-> Peers[c].port, avail |-> 0, end |-> "no", got |-> 0]]]

Init ==
  /\ plan \in Plans /\ phase = "new" /\ now = 1 /\ beat = FALSE
  /\ cfg = NoConfig /\ bound = {}
  /\ st = NoState
  /\ heard = [s \in Streams |-> 0]

\* Without a file the module has no traps.  A capture of its own is never
\* opened: the request names no interface, which is refused.
honeypot_init ==
  /\ phase = "new" /\ phase' = "run"
  /\ \E found \in BOOLEAN :
       cfg' = IF found THEN hp_parse_config_string(Files[plan]) ELSE NoConfig
  /\ bound' = {i \in DOMAIN cfg'.traps : hp_bind_trap(cfg', i, Taken)}
  /\ st' = [st EXCEPT !.backlog = [p \in PortsOf(cfg') |-> << >>]]
  /\ UNCHANGED <<plan, now, beat, heard>>

-----------------------------------------------------------------------------
Listening(port) == \E i \in bound : cfg.traps[i].port = port

Connect(c) ==
  /\ phase = "run" /\ now <= LastArrival
  /\ st.peers[c].stage = "away" /\ Listening(Peers[c].port)
  /\ st' = [st EXCEPT !.peers[c].stage = "queued", !.backlog[Peers[c].port] = Append(@, c)]
  /\ UNCHANGED <<plan, phase, now, beat, cfg, bound, heard>>

Send(c, n) ==
  /\ st.peers[c].stage \in {"queued", "open"} /\ st.peers[c].end = "no"
  /\ st.peers[c].avail + st.peers[c].got + n <= MaxSend
  /\ st' = [st EXCEPT !.peers[c].avail = @ + n]
  /\ UNCHANGED <<plan, phase, now, beat, cfg, bound, heard>>

\* A reset discards what has not been read.
Leave(c, how) ==
  /\ st.peers[c].stage \in {"queued", "open"} /\ st.peers[c].end = "no"
  /\ st' = [st EXCEPT !.peers[c].end = how, !.peers[c].avail = IF how = "rst" THEN 0 ELSE @]
  /\ UNCHANGED <<plan, phase, now, beat, cfg, bound, heard>>

\* Every captured frame is handed to the module, whatever its port.
OnPacket(f) ==
  LET s == <<f.src, f.port>>
      open == {i \in DOMAIN st.bursts : <<st.bursts[i].src, st.bursts[i].port>> = s}
      kept == /\ Probes(f)
              /\ \A i \in DOMAIN st.sessions : <<st.sessions[i].src, st.sessions[i].sport>> # <<f.src, f.sport>>
              /\ IF open = {} THEN Len(st.bursts) < HP_MAX_BURSTS
                 ELSE \A i \in open : Len(st.bursts[i].packets) < HP_MAX_PACKETS
  IN  /\ phase = "run" /\ now <= LastArrival /\ heard[s] < MaxFrames
      /\ st' = honeypot_on_packet(st, f, Wall(now))
      /\ heard' = IF kept THEN [heard EXCEPT ![s] = @ + 1] ELSE heard
      /\ UNCHANGED <<plan, phase, now, beat, cfg, bound>>

\* The loop's tick; when the module is down only time goes on.
Tick ==
  /\ phase # "new"
  /\ now' = IF now < MaxTime THEN now + 1 ELSE now
  /\ beat' = ~beat
  /\ st' = IF phase = "run" THEN honeypot_tick(st, cfg, bound, now') ELSE st
  /\ UNCHANGED <<plan, phase, cfg, bound, heard>>

Shutdown ==
  /\ phase = "run" /\ phase' = "down"
  /\ st' = honeypot_shutdown(st) /\ bound' = {}
  /\ UNCHANGED <<plan, now, beat, cfg, heard>>

Next ==
  \/ honeypot_init \/ Tick \/ Shutdown
  \/ \E c \in Visits[plan] : \/ Connect(c)
                             \/ \E n \in Chunks[plan] : Send(c, n)
                             \/ \E how \in {"fin", "rst"} : Leave(c, how)
  \/ \E f \in Captured[plan] : OnPacket(f)

\* The loop keeps ticking.
Fairness == []<>(beat /\ phase # "new") /\ []<>~beat

Spec == Init /\ [][Next]_vars /\ Fairness

-----------------------------------------------------------------------------
\* The values the state may take.
TypeOK ==
  /\ phase \in {"new", "run", "down"} /\ now \in 1 .. MaxTime
  /\ Len(cfg.traps) <= HP_MAX_TRAPS /\ cfg.max_payload <= HP_MAX_PAYLOAD
  /\ bound \subseteq DOMAIN cfg.traps
  /\ Len(st.sessions) <= HP_MAX_SESSIONS /\ Len(st.bursts) <= HP_MAX_BURSTS
  /\ \A i \in DOMAIN st.sessions : /\ st.sessions[i].conn \in Conns
                                   /\ Len(st.sessions[i].packets) <= HP_MAX_PACKETS
  /\ \A c \in Conns : st.peers[c].stage \in {"away", "queued", "open", "gone"}

SessionsOf(c) == {i \in DOMAIN st.sessions : st.sessions[i].conn = c}
EventsOf(c) == {i \in DOMAIN st.events : st.events[i].conn = c}

\* Closing sessions while walking the table loses none and doubles none: an
\* accepted connection has one session while it is open and none afterwards.
OneSessionEach ==
  \A c \in Conns :
    Cardinality(SessionsOf(c)) = IF st.peers[c].stage = "open" THEN 1 ELSE 0

\* What a peer sent and the module read is what its one event reports, up to
\* max_payload in all, whichever way and in whichever tick the session ends.
BytesReported ==
  \A c \in Conns :
    /\ Cardinality(EventsOf(c)) <= 1
    /\ st.peers[c].got <= (IF cfg.max_payload > 0 THEN cfg.max_payload ELSE 0)
    /\ st.peers[c].stage = "gone" /\ st.peers[c].got > 0 =>
         \E i \in EventsOf(c) : st.events[i].bytes = st.peers[c].got

\* After a tick no session is left that has been idle for longer than the
\* timeout or open for more than twice as long.
NoneOverdue ==
  [][Tick /\ phase = "run" =>
       \A i \in DOMAIN st'.sessions : ~Expired(st'.sessions[i], cfg, now')]_vars

CountOf(s, type) ==
  FoldLeft(LAMBDA n, e : IF e.type = type /\ <<e.src, e.port>> = s THEN n + e.count ELSE n,
           0, st.events)
PendingOf(s) ==
  FoldLeft(LAMBDA n, b : IF <<b.src, b.port>> = s THEN n + Len(b.packets) ELSE n, 0, st.bursts)

\* A probe packet that found a place is told of once, under its own source and
\* port, or still waits to be.
ProbesReportedOnce ==
  phase = "run" => \A s \in Streams : CountOf(s, "half_open") + PendingOf(s) = heard[s]

\* A burst does not wait for ever.
BurstsEnd == st.bursts # << >> ~> st.bursts = << >>

\* Each connection to a trap has one session while it is open, is closed in
\* time, and is reported once with what it sent (hp_tick, close_session).
SessionsTrue ==
  /\ [](TypeOK /\ OneSessionEach /\ BytesReported)
  /\ NoneOverdue
=============================================================================
