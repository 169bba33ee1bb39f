------------------------------ MODULE IpcServer ------------------------------
(***************************************************************************)
(* The agent's IPC server (agent/src/ipc_server.c): a single-threaded poll *)
(* loop over a Unix listener, a TLS listener and MAX_CLIENTS slots.  The   *)
(* frame handler (on_ipc_frame in agent/src/main.c) answers a query to its *)
(* sender only and publishes the outcome of a control or job request to    *)
(* every client.  A client is its connection; its frames are numbered in   *)
(* the order it sends them.                                                *)
(***************************************************************************)
EXTENDS Integers, Sequences, FiniteSets

CONSTANTS
  Conns,       \* connections that may be made
  TlsConns,    \* those made to the TCP listener
  SlowConns,   \* those whose client may not drain its receive buffer
  NoConn,      \* an empty slot
  MaxClients,  \* PS_IPC_MAX_CLIENTS
  FrameKinds,  \* what clients send: "query", "control", "bad"
  MaxSend      \* bound on the frames each client sends

ASSUME IpcAssumption ==
  /\ IsFiniteSet(Conns)
  /\ MaxClients \in Nat \ {0}
  /\ TlsConns \subseteq Conns
  /\ SlowConns \subseteq Conns
  /\ NoConn \notin Conns
  /\ FrameKinds \subseteq {"query", "control", "bad"}

VARIABLES
  conn,       \* "new", "backlog", "open", "closed", "leaked" of a connection
  inbox,      \* frames sent and not yet read by the server
  early,      \* the first frame was taken in by the TLS handshake
  up,         \* the client has not closed its end
  slot,       \* clients[]
  count,      \* client_count
  pc,         \* where ps_ipc_server_poll is
  ready,      \* the listeners poll() reported
  polled,     \* the clients' fds[] with their revents, still to be served
  rest,       \* frames of the buffer being parsed
  asker,      \* whose buffer that is
  sent,       \* history: frames a client sent
  handled     \* history: frames of a client given to on_frame

clientVars == <<inbox, early, up, sent>>
serverVars == <<slot, count, pc, ready, polled, rest, asker>>
vars == <<conn, clientVars, serverVars, handled>>

Slot == 1 .. MaxClients
Frame == [kind : FrameKinds, n : Nat]

Init ==
  /\ conn = [c \in Conns |-> "new"]
  /\ inbox = [c \in Conns |-> <<>>]
  /\ early = {}
  /\ up = Conns
  /\ slot = [s \in Slot |-> NoConn]
  /\ count = 0
  /\ pc = "loop"
  /\ ready = {}
  /\ polled = <<>>
  /\ rest = <<>>
  /\ asker = NoConn
  /\ sent = [c \in Conns |-> 0]
  /\ handled = [c \in Conns |-> 0]

Used == {s \in Slot : slot[s] # NoConn}
Free == Slot \ Used
FirstFree == CHOOSE s \in Free : \A t \in Free : s <= t
-----------------------------------------------------------------------------
(* Clients *)

Connect(c) ==
  /\ conn[c] = "new"
  /\ conn' = [conn EXCEPT ![c] = "backlog"]
  /\ UNCHANGED <<clientVars, serverVars, handled>>

SendFrame(c) ==
  /\ conn[c] \in {"backlog", "open"}
  /\ c \in up
  /\ sent[c] < MaxSend[c]
  /\ sent' = [sent EXCEPT ![c] = @ + 1]
  /\ \E k \in FrameKinds :
       inbox' = [inbox EXCEPT ![c] = Append(@, [kind |-> k, n |-> sent[c] + 1])]
  /\ UNCHANGED <<conn, early, up, serverVars, handled>>

HangUp(c) ==
  /\ conn[c] \in {"backlog", "open"}
  /\ c \in up
  /\ up' = up \ {c}
  /\ UNCHANGED <<conn, inbox, early, sent, serverVars, handled>>
-----------------------------------------------------------------------------
(* ps_ipc_server_poll *)

\* A closed Unix socket polls as a hang-up; a TCP FIN only as readable.
Hup(c) == c \notin up /\ c \notin TlsConns
Readable(c) ==
  Len(inbox[c]) > (IF c \in early THEN 1 ELSE 0) \/ c \notin up

\* The active slots in order, with their revents.
PollClients ==
  LET rank(s) == Cardinality({t \in Used : t <= s})
  IN [i \in 1 .. Cardinality(Used) |->
        LET s == CHOOSE t \in Used : rank(t) = i
        IN [slot |-> s, in |-> Readable(slot[s]), hup |-> Hup(slot[s])]]

Listener(c) == IF c \in TlsConns THEN "tcp" ELSE "unix"

Backlog == {c \in Conns : conn[c] = "backlog"}

\* Only the listeners are passed to poll(): a mutant.
PollListenersOnly ==
  /\ pc = "loop"
  /\ Backlog # {}
  /\ ready' = {Listener(c) : c \in Backlog}
  /\ polled' = PollClients
  /\ pc' = "unix"
  /\ UNCHANGED <<conn, clientVars, slot, count, rest, asker, handled>>

\* poll() with a timeout of zero: nothing ready means nothing is done, not
\* even for a client whose first frame is already inside the TLS layer.
PollReturns ==
  /\ pc = "loop"
  /\ Backlog # {} \/ \E s \in Used : Readable(slot[s])
  /\ ready' = {Listener(c) : c \in Backlog}
  /\ polled' = PollClients
  /\ pc' = "unix"
  /\ UNCHANGED <<conn, clientVars, slot, count, rest, asker, handled>>

\* The accepted connection takes the first free slot; when the count says
\* there is room and the slots say there is not, a Unix connection is closed
\* and a TCP one is forgotten.
Admit(c) ==
  IF Free # {}
    THEN /\ slot' = [slot EXCEPT ![FirstFree] = c]
         /\ count' = count + 1
         /\ conn' = [conn EXCEPT ![c] = "open"]
    ELSE /\ conn' = [conn EXCEPT ![c] =
                       IF c \in TlsConns THEN "leaked" ELSE "closed"]
         /\ UNCHANGED <<slot, count>>

Reject(c) ==
  /\ conn' = [conn EXCEPT ![c] = "closed"]
  /\ UNCHANGED <<slot, count>>

\* ipc_accept_client.
AcceptUnix ==
  /\ pc = "unix"
  /\ pc' = "tcp"
  /\ IF "unix" \notin ready
       THEN UNCHANGED <<conn, slot, count>>
       ELSE \E c \in Backlog \ TlsConns :
              IF count >= MaxClients THEN Reject(c) ELSE Admit(c)
  /\ UNCHANGED <<clientVars, ready, polled, rest, asker, handled>>

\* The handshake fails or times out, the key is not in the allowlist, or the
\* client is admitted; the handshake may take in the first frame as well.
AcceptTcp ==
  /\ pc = "tcp"
  /\ pc' = "serve"
  /\ IF "tcp" \notin ready
       THEN UNCHANGED <<conn, slot, count, early>>
       ELSE \E c \in Backlog \cap TlsConns :
              \/ Reject(c) /\ UNCHANGED early
              \/ /\ count < MaxClients
                 /\ Admit(c)
                 /\ \/ UNCHANGED early
                    \/ inbox[c] # <<>> /\ early' = early \cup {c}
  /\ ready' = {}
  /\ UNCHANGED <<inbox, up, sent, polled, rest, asker, handled>>

\* ipc_drop_client counts down whether or not the slot was still in use.
DropClient(s) ==
  /\ slot' = [slot EXCEPT ![s] = NoConn]
  /\ count' = count - 1
  /\ conn' = [c \in Conns |-> IF c = slot[s] THEN "closed" ELSE conn[c]]

Current == Head(polled)

\* One read: all that a Unix client has sent, one TLS record of a TCP client.
BufferOf(c) == IF c \in TlsConns THEN <<Head(inbox[c])>> ELSE inbox[c]

\* What was read stays in the socket: a mutant.
ServeSlotPeeking ==
  /\ pc = "serve"
  /\ polled # <<>>
  /\ LET s == Current.slot
         c == slot[s]
     IN IF c = NoConn \/ ~(Current.in \/ Current.hup \/ c \in early)
          THEN /\ polled' = Tail(polled)
               /\ UNCHANGED <<conn, slot, count, pc, rest, asker>>
        ELSE IF Current.hup \/ inbox[c] = <<>>
          THEN /\ DropClient(s)
               /\ polled' = Tail(polled)
               /\ UNCHANGED <<pc, rest, asker>>
          ELSE /\ rest' = BufferOf(c)
               /\ asker' = c
               /\ pc' = "parse"
               /\ UNCHANGED <<conn, slot, count, polled>>
  /\ UNCHANGED <<inbox, early, up, sent, ready, handled>>

\* Serve the next polled slot: skip it when it was dropped earlier in this
\* pass, drop it when it hung up, else read what it sent.
ServeSlot ==
  /\ pc = "serve"
  /\ polled # <<>>
  /\ LET s == Current.slot
         c == slot[s]
     IN IF c = NoConn \/ ~(Current.in \/ Current.hup \/ c \in early)
          THEN /\ polled' = Tail(polled)
               /\ UNCHANGED <<conn, slot, count, pc, rest, asker, inbox, early>>
        ELSE IF Current.hup \/ inbox[c] = <<>>
          THEN /\ DropClient(s)
               /\ polled' = Tail(polled)
               /\ UNCHANGED <<pc, rest, asker, inbox, early>>
          ELSE /\ rest' = BufferOf(c)
               /\ asker' = c
               /\ inbox' = [inbox EXCEPT ![c] =
                             SubSeq(@, Len(BufferOf(c)) + 1, Len(@))]
               /\ early' = early \ {c}
               /\ pc' = "parse"
               /\ UNCHANGED <<conn, slot, count, polled>>
  /\ UNCHANGED <<up, sent, ready, handled>>

\* A write to a client that is gone or does not drain its end may fail, after
\* a bounded number of waits.
Doubtful == {s \in Used : slot[s] \in SlowConns \/ slot[s] \notin up}

\* The count goes down once for all the clients dropped: a mutant.
BroadcastCountingOnce ==
  \E F \in SUBSET (IF count = 0 THEN {} ELSE Doubtful) :
    /\ slot' = [s \in Slot |-> IF s \in F THEN NoConn ELSE slot[s]]
    /\ count' = IF F = {} THEN count ELSE count - 1
    /\ conn' = [c \in Conns |->
                  IF \E s \in F : slot[s] = c THEN "closed" ELSE conn[c]]

\* ps_ipc_server_broadcast: the clients whose write fails are dropped.
Broadcast ==
  \E F \in SUBSET (IF count = 0 THEN {} ELSE Doubtful) :
    /\ slot' = [s \in Slot |-> IF s \in F THEN NoConn ELSE slot[s]]
    /\ count' = count - Cardinality(F)
    /\ conn' = [c \in Conns |->
                  IF \E s \in F : slot[s] = c THEN "closed" ELSE conn[c]]

\* on_ipc_frame of the next complete frame in the buffer, whose client may have
\* been dropped by the broadcast of an earlier one.  A query is answered by
\* ps_ipc_server_send_to, which drops nobody even when its write fails.
HandleFrame ==
  /\ pc = "parse"
  /\ rest # <<>>
  /\ Head(rest).kind # "bad"
  /\ rest' = Tail(rest)
  /\ handled' = [handled EXCEPT ![asker] = Head(rest).n]
  /\ \/ Head(rest).kind = "query" /\ UNCHANGED <<slot, count, conn>>
     \/ Head(rest).kind = "control" /\ Broadcast
  /\ UNCHANGED <<clientVars, pc, ready, polled, asker>>

\* A framing error drops the slot's client and what it sent after it.
FrameError ==
  /\ pc = "parse"
  /\ rest # <<>>
  /\ Head(rest).kind = "bad"
  /\ DropClient(Current.slot)
  /\ rest' = <<>>
  /\ asker' = NoConn
  /\ polled' = Tail(polled)
  /\ pc' = "serve"
  /\ UNCHANGED <<clientVars, ready, handled>>

BufferParsed ==
  /\ pc = "parse"
  /\ rest = <<>>
  /\ pc' = "serve"
  /\ asker' = NoConn
  /\ polled' = Tail(polled)
  /\ UNCHANGED <<conn, clientVars, slot, count, ready, rest, handled>>

PollDone ==
  /\ pc = "serve"
  /\ polled = <<>>
  /\ pc' = "loop"
  /\ UNCHANGED <<conn, clientVars, slot, count, ready, polled, rest,
                 asker, handled>>

\* A module publishes from the event loop, between two polls (ctx_publish).
ModulePublishes ==
  /\ pc = "loop"
  /\ Broadcast
  /\ UNCHANGED <<clientVars, pc, ready, polled, rest, asker, handled>>

Client(c) == Connect(c) \/ SendFrame(c) \/ HangUp(c)

Server ==
  \/ PollReturns \/ AcceptUnix \/ AcceptTcp \/ ServeSlot
  \/ HandleFrame \/ FrameError \/ BufferParsed \/ PollDone

Next == (\E c \in Conns : Client(c)) \/ Server \/ ModulePublishes

Spec == Init /\ [][Next]_vars

\* The event loop calls ps_ipc_server_poll on every iteration and every wait
\* inside it is bounded.
FairSpec == Spec /\ WF_vars(Server)
-----------------------------------------------------------------------------
TypeOK ==
  /\ conn \in [Conns -> {"new", "backlog", "open", "closed", "leaked"}]
  /\ inbox \in [Conns -> Seq(Frame)]
  /\ slot \in [Slot -> Conns \cup {NoConn}]
  /\ count \in -Cardinality(Conns) .. MaxClients
  /\ pc \in {"loop", "unix", "tcp", "serve", "parse"}
  /\ pc = "parse" <=> asker # NoConn
  /\ pc # "parse" => rest = <<>>

\* No connection is turned away while a slot is free: the count never exceeds
\* the slots in use, and no connection has two of them.
NoFalseFull ==
  /\ TypeOK
  /\ count <= Cardinality(Used)
  /\ \A s, t \in Used : slot[s] = slot[t] => s = t

\* A frame of a connected client is never lost or reordered on its way to the
\* handler: what it sent is what was handled, then what is being parsed, then
\* what is unread.
FramesKept ==
  \A c \in Conns : conn[c] = "open" =>
    LET seen == (IF asker = c THEN rest ELSE <<>>) \o inbox[c]
    IN /\ handled[c] + Len(seen) = sent[c]
       /\ \A i \in DOMAIN seen : seen[i].n = handled[c] + i

\* A request of a client that stays connected is handled, however its peers
\* stall, hang up or flood the server.
RequestsServed ==
  \A c \in Conns \ TlsConns : \A n \in 1 .. MaxSend[c] :
    (conn[c] = "open" /\ sent[c] >= n) ~>
      (handled[c] >= n \/ c \notin up \/ conn[c] # "open")

=============================================================================
