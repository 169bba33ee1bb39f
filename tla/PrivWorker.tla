----------------------------- MODULE PrivWorker -----------------------------
(***************************************************************************)
(* packetsonde-priv (agent/src/priv_worker.c): the root process that owns  *)
(* the capture handles and raw sockets.  One iteration of run_loop is      *)
(* "poll" (build fds[], poll), "cmd" (serve the brain), "pcap" and "raw"   *)
(* (walk the slots, one slot per step); "recv" is the worker inside a      *)
(* blocking recv() on a raw socket.                                        *)
(*                                                                         *)
(* First the socketpair to the agent's event loop (the "brain"): framed    *)
(* messages of agent/src/priv_protocol.h, one command at a time towards    *)
(* the worker, responses and captured data towards the brain.  The         *)
(* worker's end is non-blocking and its buffer holds SockCap units: a      *)
(* message that the kernel queues in one piece is one unit, a larger one   *)
(* is two, and only whole units are ever written.                          *)
(***************************************************************************)
EXTENDS Integers, Sequences, FiniteSets

CONSTANTS
  SockCap,     \* units the socket buffer towards the brain holds
  NPcap,       \* PS_MAX_PCAP_HANDLES
  NRaw,        \* PS_MAX_RAW_HANDLES
  Ifaces,      \* interface names
  NoIface,     \* no interface
  NoCmd,       \* no command in flight
  Loads        \* [ops, sizes, pkts]: what the link may have to carry

Opcode == {"OPEN_PCAP", "CLOSE_PCAP", "CREATE_RAW", "CLOSE_RAW", "SEND_RAW"}
Commands == [op : Opcode, h : Nat, iface : Ifaces \cup {NoIface}]

ASSUME ChannelAssumption ==
  /\ SockCap \in Nat \ {0}
  /\ NPcap \in Nat \ {0}
  /\ NRaw \in Nat \ {0}
  /\ NoIface \notin Ifaces
  /\ NoCmd \notin Commands

VARIABLES
  load,      \* the opcodes modules issue from the event loop, the sizes of the
             \* packets on the wire and a bound on how many are read
  ends,      \* the processes whose end is open
  toWorker,  \* the command the brain has written, or NoCmd
  toBrain    \* the units the worker has written

channelVars == <<ends, toWorker, toBrain>>

PcapSlot == 0 .. NPcap - 1
RawSlot == 0 .. NRaw - 1

DataOp == {"PACKET_DATA", "RAW_RESPONSE"}

Command(op, h, iface) == [op |-> op, h |-> h, iface |-> iface]
Response(op, ok, h) == [op |-> op, ok |-> ok, h |-> h]

\* The number n says which packet this is.
Data(op, h, n, size) == [op |-> op, h |-> h, n |-> n, size |-> size]

\* "small" fits an async slot and one kernel buffer; "large" exceeds both;
\* "max" also exceeds PS_MAX_MSG_PAYLOAD once its timestamp is prepended.
Size == {"small", "large", "max"}

Units(m) ==
  IF m.op \in DataOp /\ m.size # "small" THEN <<<<m, 1>>, <<m, 2>>>>
                                         ELSE <<<<m, 1>>>>

Room == SockCap - Len(toBrain)

\* What one write() of m on the non-blocking end leaves in the buffer: all of
\* it, nothing (EAGAIN), or the part that fits.
Written(m) ==
  LET u == Units(m)
  IN toBrain \o (IF Len(u) <= Room THEN u ELSE SubSeq(u, 1, Room))
-----------------------------------------------------------------------------
(* The worker *)

VARIABLES
  pcap,    \* g_pcap[]: the interface of an active handle
  raw,     \* g_raw[].active
  pcapIn,  \* handles with a packet waiting
  rawIn,   \* raw sockets with a packet waiting
  wpc,     \* where run_loop is
  fds,     \* fds[1..]: the slot each polled fd belongs to, and its POLLIN
  cmdIn,   \* POLLIN on fds[0]
  cur,     \* slot of the walk
  idx,     \* pcap_poll_idx, raw_idx
  read     \* packets read so far

slotVars == <<pcap, raw, pcapIn, rawIn>>
walkVars == <<wpc, fds, cmdIn, cur, idx>>
workerVars == <<slotVars, walkVars, read>>

WorkerInit ==
  /\ pcap = [s \in PcapSlot |-> NoIface]
  /\ raw = [s \in RawSlot |-> FALSE]
  /\ pcapIn = {}
  /\ rawIn = {}
  /\ wpc = "poll"
  /\ fds = <<>>
  /\ cmdIn = FALSE
  /\ cur = 0
  /\ idx = 1
  /\ read = 0

ActivePcap == {s \in PcapSlot : pcap[s] # NoIface}
ActiveRaw == {s \in RawSlot : raw[s]}

\* The lowest member of a set of slots.
Lowest(S) == CHOOSE s \in S : \A t \in S : s <= t

\* The rank of slot s among the active ones: its place in the rebuilt array.
Rank(s, S) == Cardinality({t \in S : t <= s})
-----------------------------------------------------------------------------
(* The network: a packet becomes readable on a handle of the running worker. *)

Arrive ==
  /\ wpc # "dead"
  /\ read + Cardinality(pcapIn) + Cardinality(rawIn) < load.pkts
  /\ \/ \E s \in ActivePcap \ pcapIn :
          pcapIn' = pcapIn \cup {s} /\ UNCHANGED rawIn
     \/ \E s \in ActiveRaw \ rawIn :
          rawIn' = rawIn \cup {s} /\ UNCHANGED pcapIn
  /\ UNCHANGED <<pcap, raw, walkVars, read, channelVars>>
-----------------------------------------------------------------------------
(* run_loop *)

\* fds[1..]: the active handles in slot order, then the active raw sockets.
PollSet ==
  [i \in 1 .. Cardinality(ActivePcap) + Cardinality(ActiveRaw) |->
     LET np == Cardinality(ActivePcap)
         s == IF i <= np
                THEN CHOOSE t \in ActivePcap : Rank(t, ActivePcap) = i
                ELSE CHOOSE t \in ActiveRaw : Rank(t, ActiveRaw) = i - np
     IN IF i <= np THEN [kind |-> "pcap", slot |-> s, in |-> s \in pcapIn]
                   ELSE [kind |-> "raw", slot |-> s, in |-> s \in rawIn]]

\* Without the POLLHUP check: a mutant.
WorkerPollIgnoringHup ==
  /\ wpc = "poll"
  /\ toWorker # NoCmd \/ pcapIn # {} \/ rawIn # {}
  /\ wpc' = "cmd"
  /\ fds' = PollSet
  /\ cmdIn' = (toWorker # NoCmd)
  /\ UNCHANGED <<slotVars, read, cur, idx, channelVars>>

\* poll() returns with something readable (its timeout changes nothing);
\* a hang-up of the brain ends the worker before any pending command is read.
WorkerPoll ==
  /\ wpc = "poll"
  /\ IF "brain" \notin ends
       THEN /\ wpc' = "dead"
            /\ ends' = ends \ {"worker"}
            /\ UNCHANGED <<fds, cmdIn, cur, idx>>
       ELSE /\ toWorker # NoCmd \/ pcapIn # {} \/ rawIn # {}
            /\ wpc' = "cmd"
            /\ fds' = PollSet
            /\ cmdIn' = (toWorker # NoCmd)
            /\ UNCHANGED <<cur, idx, ends>>
  /\ UNCHANGED <<slotVars, read, toWorker, toBrain>>

\* The response written once, like captured data: a mutant.
SendResponseOnce(op, ok, h) ==
  toBrain' = IF "brain" \in ends THEN Written(Response(op, ok, h))
                                 ELSE toBrain

\* send_response: write_all waits until the buffer has room, and gives up
\* when the brain is gone.
SendResponse(op, ok, h) ==
  IF "brain" \in ends
    THEN /\ Room > 0
         /\ toBrain' = Append(toBrain, <<Response(op, ok, h), 1>>)
    ELSE UNCHANGED toBrain

\* A request that is malformed, names no interface, or that the system or
\* the filter compiler refuses changes nothing.
HandleOpenPcap(c) ==
  \/ /\ SendResponse("OPEN_PCAP", FALSE, 0)
     /\ UNCHANGED slotVars
  \/ /\ ActivePcap # PcapSlot
     /\ LET s == Lowest(PcapSlot \ ActivePcap) IN
          /\ pcap' = [pcap EXCEPT ![s] = c.iface]
          /\ SendResponse("OPEN_PCAP", TRUE, s)
     /\ UNCHANGED <<raw, pcapIn, rawIn>>

HandleClosePcap(c) ==
  IF c.h \in ActivePcap
    THEN /\ pcap' = [pcap EXCEPT ![c.h] = NoIface]
         /\ pcapIn' = pcapIn \ {c.h}
         /\ SendResponse("CLOSE_PCAP", TRUE, c.h)
         /\ UNCHANGED <<raw, rawIn>>
    ELSE /\ SendResponse("CLOSE_PCAP", FALSE, c.h)
         /\ UNCHANGED slotVars

HandleCreateRaw(c) ==
  \/ /\ SendResponse("CREATE_RAW", FALSE, 0)
     /\ UNCHANGED slotVars
  \/ /\ ActiveRaw # RawSlot
     /\ LET s == Lowest(RawSlot \ ActiveRaw) IN
          /\ raw' = [raw EXCEPT ![s] = TRUE]
          /\ SendResponse("CREATE_RAW", TRUE, s)
     /\ UNCHANGED <<pcap, pcapIn, rawIn>>

HandleCloseRaw(c) ==
  IF c.h \in ActiveRaw
    THEN /\ raw' = [raw EXCEPT ![c.h] = FALSE]
         /\ rawIn' = rawIn \ {c.h}
         /\ SendResponse("CLOSE_RAW", TRUE, c.h)
         /\ UNCHANGED <<pcap, pcapIn>>
    ELSE /\ SendResponse("CLOSE_RAW", FALSE, c.h)
         /\ UNCHANGED slotVars

HandleSendRaw(c) ==
  /\ \E ok \in {FALSE, c.h \in ActiveRaw} : SendResponse("SEND_RAW", ok, c.h)
  /\ UNCHANGED slotVars

HandleCommand(c) ==
  \/ c.op = "OPEN_PCAP" /\ HandleOpenPcap(c)
  \/ c.op = "CLOSE_PCAP" /\ HandleClosePcap(c)
  \/ c.op = "CREATE_RAW" /\ HandleCreateRaw(c)
  \/ c.op = "CLOSE_RAW" /\ HandleCloseRaw(c)
  \/ c.op = "SEND_RAW" /\ HandleSendRaw(c)

WorkerCommand ==
  /\ wpc = "cmd"
  /\ IF cmdIn
       THEN HandleCommand(toWorker) /\ toWorker' = NoCmd
       ELSE UNCHANGED <<slotVars, toWorker, toBrain>>
  /\ wpc' = "pcap"
  /\ cur' = 0
  /\ idx' = 1
  /\ cmdIn' = FALSE
  /\ UNCHANGED <<fds, read, ends>>

\* The walks consult revents by position in an array built before the command
\* was served, counting the slots that are active after it.
Signalled(i) == i <= Len(fds) /\ fds[i].in

\* One write of a packet; the brain's end may be full or gone.  A failed write
\* is ignored: whether or not it raises SIGPIPE, the next poll ends the worker.
WriteData(m) ==
  toBrain' = IF "brain" \in ends THEN Written(m) ELSE toBrain

WalkPcap ==
  /\ wpc = "pcap"
  /\ IF cur \in ActivePcap /\ Signalled(idx) /\ cur \in pcapIn
       THEN \E size \in load.sizes :
              /\ WriteData(Data("PACKET_DATA", cur, read + 1, size))
              /\ pcapIn' = pcapIn \ {cur}
              /\ read' = read + 1
       ELSE UNCHANGED <<toBrain, pcapIn, read>>
  /\ IF cur + 1 \in PcapSlot
       THEN /\ cur' = cur + 1
            /\ idx' = IF cur \in ActivePcap THEN idx + 1 ELSE idx
            /\ UNCHANGED wpc
       ELSE /\ wpc' = "raw"
            /\ cur' = 0
            /\ idx' = 1 + Cardinality(ActivePcap)
  /\ UNCHANGED <<pcap, raw, rawIn, fds, cmdIn, ends, toWorker>>

NextRaw ==
  IF cur + 1 \in RawSlot
    THEN /\ cur' = cur + 1
         /\ idx' = IF cur \in ActiveRaw THEN idx + 1 ELSE idx
         /\ wpc' = "raw"
    ELSE /\ wpc' = "poll"
         /\ cur' = 0
         /\ idx' = 1

RecvRaw ==
  \E size \in load.sizes :
    /\ WriteData(Data("RAW_RESPONSE", cur, read + 1, size))
    /\ rawIn' = rawIn \ {cur}
    /\ read' = read + 1
    /\ NextRaw

WalkRaw ==
  /\ wpc = "raw"
  /\ \/ /\ cur \in ActiveRaw /\ Signalled(idx) /\ cur \in rawIn
        /\ RecvRaw
     \/ /\ cur \in ActiveRaw /\ Signalled(idx) /\ cur \notin rawIn
        /\ wpc' = "recv"
        /\ UNCHANGED <<cur, idx, rawIn, read, toBrain>>
     \/ /\ ~(cur \in ActiveRaw /\ Signalled(idx))
        /\ NextRaw
        /\ UNCHANGED <<rawIn, read, toBrain>>
  /\ UNCHANGED <<pcap, raw, pcapIn, fds, cmdIn, ends, toWorker>>

\* The blocking recv() returns once its own socket has a packet.
RecvReturns ==
  /\ wpc = "recv"
  /\ cur \in rawIn
  /\ RecvRaw
  /\ UNCHANGED <<pcap, raw, pcapIn, fds, cmdIn, ends, toWorker>>

\* The worker is killed, or crashes, wherever it is.
WorkerDies ==
  /\ "worker" \in ends
  /\ wpc' = "dead"
  /\ ends' = ends \ {"worker"}
  /\ UNCHANGED <<slotVars, fds, cmdIn, cur, idx, read, toWorker, toBrain>>

RunLoop == WorkerPoll \/ WorkerCommand \/ WalkPcap \/ WalkRaw \/ RecvReturns
=============================================================================
