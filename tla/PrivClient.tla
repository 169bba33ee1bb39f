----------------------------- MODULE PrivClient -----------------------------
(***************************************************************************)
(* The brain's side of the socketpair (agent/src/priv_client.c) with the   *)
(* parts of agent/src/main.c that use it: synchronous commands            *)
(* (send_and_recv), which set captured data that arrives in between aside  *)
(* in a bounded queue, and the event loop's ps_priv_client_recv, which     *)
(* hands one message per iteration to the modules.                         *)
(***************************************************************************)
EXTENDS PrivWorker

CONSTANTS
  AsyncCap,  \* PS_PRIV_CLIENT_ASYNC_QUEUE_SIZE
  BootCmds   \* the commands main() issues before its event loop, in order

ASSUME ClientAssumption ==
  /\ AsyncCap \in Nat
  /\ BootCmds \in Seq(Commands)

VARIABLES
  brain,    \* "free", "wait" (in send_and_recv), "stopped" (its loop
            \* ended on an error), "killed", "desync" (see ReadPayload)
  todo,     \* the boot commands left
  cmd,      \* the command being waited for
  half,     \* the header unit whose payload is being read, if there is one
  async,    \* pc->async_queue
  handles,  \* the interface the brain holds each capture handle for
  sockets,  \* the raw sockets the brain holds
  got       \* the number of the packet last given to the modules

clientVars == <<brain, todo, cmd, half, async, handles, sockets, got>>

ClientInit ==
  /\ brain = "free"
  /\ todo = BootCmds
  /\ cmd = NoCmd
  /\ half = <<>>
  /\ async = <<>>
  /\ handles = [s \in PcapSlot |-> NoIface]
  /\ sockets = {}
  /\ got = 0
-----------------------------------------------------------------------------
(* Commands *)

Wanted ==
  {c \in {Command("OPEN_PCAP", 0, i) : i \in Ifaces}
         \cup {Command("CLOSE_PCAP", h, NoIface) :
                 h \in {s \in PcapSlot : handles[s] # NoIface}}
         \cup {Command("CREATE_RAW", 0, NoIface)}
         \cup {Command(op, h, NoIface) :
                 op \in {"CLOSE_RAW", "SEND_RAW"}, h \in sockets} :
     c.op \in load.ops}

\* main() opens the capture handles, then ps_module_registry_init_all lets the
\* modules create their raw sockets.  A write to a dead worker fails at once.
BootCommand ==
  /\ brain = "free"
  /\ todo # <<>>
  /\ todo' = Tail(todo)
  /\ IF "worker" \in ends
       THEN /\ toWorker' = Head(todo)
            /\ cmd' = Head(todo)
            /\ brain' = "wait"
       ELSE UNCHANGED <<toWorker, cmd, brain>>
  /\ UNCHANGED <<half, async, handles, sockets, got, ends, toBrain>>

\* A module calls the worker from a job, a packet handler or a tick.
IssueCommand ==
  /\ brain = "free"
  /\ todo = <<>>
  /\ half = <<>>
  /\ "worker" \in ends
  /\ \E c \in Wanted : toWorker' = c /\ cmd' = c
  /\ brain' = "wait"
  /\ UNCHANGED <<todo, half, async, handles, sockets, got, ends, toBrain>>

\* What the caller of the command does with its outcome.  A handle is given up
\* whether or not the worker could close it.
Completed(ok, h) ==
  /\ handles' = CASE cmd.op = "OPEN_PCAP" /\ ok ->
                       [handles EXCEPT ![h] = cmd.iface]
                  [] cmd.op = "CLOSE_PCAP" ->
                       [handles EXCEPT ![cmd.h] = NoIface]
                  [] OTHER -> handles
  /\ sockets' = CASE cmd.op = "CREATE_RAW" /\ ok -> sockets \cup {h}
                  [] cmd.op = "CLOSE_RAW" -> sockets \ {cmd.h}
                  [] OTHER -> sockets
  /\ cmd' = NoCmd
  /\ brain' = "free"

\* Any data opcode but RAW_RESPONSE is set aside: a mutant.
SetAsidePacketsOnly(m) == m.op = "PACKET_DATA"

\* Data that arrives before the response is set aside.
SetAside(m) == m.op \in DataOp

\* send_and_recv reads one message: data joins the queue, or is discarded when
\* the queue is full; anything else is the response.
ReadWhileWaiting(m) ==
  IF SetAside(m)
    THEN /\ async' = IF Len(async) < AsyncCap THEN Append(async, m) ELSE async
         /\ UNCHANGED <<handles, sockets, cmd, brain, got>>
    ELSE /\ Completed(m.op \notin DataOp /\ m.ok, m.h)
         /\ UNCHANGED <<async, got>>

\* dispatch_priv_msg gives message m to the modules; a stray response is
\* ignored.
Dispatch(m) == got' = IF m.op \in DataOp THEN m.n ELSE got

\* ps_priv_client_recv takes the socket's next message although earlier ones
\* are still queued: a mutant.
ReadSocketFirst(m) ==
  /\ IF m.op \in DataOp /\ m.size = "max"
       THEN brain' = "stopped" /\ UNCHANGED got
       ELSE Dispatch(m) /\ UNCHANGED brain
  /\ UNCHANGED <<handles, sockets, cmd, async>>

\* ps_priv_client_recv reads from the socket only when nothing is queued; a
\* payload beyond its buffer is an error that ends the loop.
ReadInLoop(m) ==
  /\ async = <<>>
  /\ IF m.op \in DataOp /\ m.size = "max"
       THEN brain' = "stopped" /\ UNCHANGED got
       ELSE Dispatch(m) /\ UNCHANGED brain
  /\ UNCHANGED <<handles, sockets, cmd, async>>

Take(m) == IF brain = "wait" THEN ReadWhileWaiting(m) ELSE ReadInLoop(m)

\* Read a header.  One whose payload is a unit of its own leaves the brain
\* inside read_all.
ReadHeader ==
  /\ brain = "wait" \/ (brain = "free" /\ todo = <<>>)
  /\ half = <<>>
  /\ toBrain # <<>>
  /\ toBrain' = Tail(toBrain)
  /\ LET u == Head(toBrain) IN
       \/ /\ Len(Units(u[1])) = 1
          /\ Take(u[1])
          /\ UNCHANGED half
       \/ /\ Len(Units(u[1])) = 2
          /\ brain = "free" => async = <<>>
          /\ half' = <<u>>
          /\ UNCHANGED <<brain, cmd, async, handles, sockets, got>>
  /\ ends' = IF brain' = "stopped" THEN ends \ {"brain"} ELSE ends
  /\ UNCHANGED <<todo, toWorker>>

\* read_all of the payload takes whatever comes next.  Once that is another
\* message every later header is payload bytes: the model stops the brain there.
ReadPayload ==
  /\ brain \in {"free", "wait"}
  /\ half # <<>>
  /\ toBrain # <<>>
  /\ toBrain' = Tail(toBrain)
  /\ half' = <<>>
  /\ IF Head(toBrain) = <<half[1][1], 2>>
       THEN Take(half[1][1])
       ELSE /\ brain' = "desync"
            /\ UNCHANGED <<cmd, async, handles, sockets, got>>
  /\ ends' = IF brain' = "stopped" THEN ends \ {"brain"} ELSE ends
  /\ UNCHANGED <<todo, toWorker>>

\* The event loop hands out the oldest queued message.
RecvQueued ==
  /\ brain = "free"
  /\ todo = <<>>
  /\ half = <<>>
  /\ async # <<>>
  /\ Dispatch(Head(async))
  /\ async' = Tail(async)
  /\ UNCHANGED <<brain, todo, cmd, half, handles, sockets, channelVars>>

\* End of file taken for "nothing available" by the event loop: a mutant.
ReadEofInCommandOnly ==
  /\ "worker" \notin ends
  /\ toBrain = <<>>
  /\ brain = "wait"
  /\ Completed(FALSE, 0)
  /\ half' = <<>>
  /\ UNCHANGED <<ends, todo, async, got, toWorker, toBrain>>

\* End of file: a waiting command fails, the event loop ends.
ReadEof ==
  /\ "worker" \notin ends
  /\ toBrain = <<>>
  /\ \/ /\ brain = "wait"
        /\ Completed(FALSE, 0)
        /\ half' = <<>>
        /\ UNCHANGED ends
     \/ /\ brain = "free" /\ todo = <<>> /\ async = <<>>
        /\ brain' = "stopped"
        /\ half' = <<>>
        /\ ends' = ends \ {"brain"}
        /\ UNCHANGED <<cmd, handles, sockets>>
  /\ UNCHANGED <<todo, async, got, toWorker, toBrain>>

\* A signal ends the event loop, or the brain dies wherever it is.
BrainGone ==
  /\ "brain" \in ends
  /\ brain' = "killed"
  /\ ends' = ends \ {"brain"}
  /\ UNCHANGED <<todo, cmd, half, async, handles, sockets, got, toWorker,
                 toBrain>>

Reads == ReadHeader \/ ReadPayload \/ RecvQueued \/ ReadEof
=============================================================================
