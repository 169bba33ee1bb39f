------------------------------ MODULE PrivLink ------------------------------
(***************************************************************************)
(* The privileged worker and the brain running against each other over     *)
(* the socketpair.                                                         *)
(***************************************************************************)
EXTENDS PrivClient

vars == <<load, channelVars, workerVars, clientVars>>

Init ==
  /\ load \in Loads
  /\ ends = {"brain", "worker"}
  /\ toWorker = NoCmd
  /\ toBrain = <<>>
  /\ WorkerInit
  /\ ClientInit

Worker == RunLoop /\ UNCHANGED <<clientVars, load>>
Brain == (BootCommand \/ Reads) /\ UNCHANGED <<workerVars, load>>

\* Both processes have exited.
Exited == ends = {} /\ UNCHANGED vars

Next ==
  \/ Worker
  \/ Brain
  \/ (Arrive \/ WorkerDies) /\ UNCHANGED <<clientVars, load>>
  \/ (IssueCommand \/ BrainGone) /\ UNCHANGED <<workerVars, load>>
  \/ Exited

Spec == Init /\ [][Next]_vars

\* Both processes keep being scheduled; the network, the modules' wishes and
\* the deaths owe nothing.
FairSpec == Spec /\ WF_vars(Worker) /\ WF_vars(Brain)
-----------------------------------------------------------------------------
\* The units on their way to the brain's reader, the header it has read first,
\* and those of them that begin a packet.
InSocket == half \o toBrain
Begins(u) == u[1].op \in DataOp /\ u[2] = 1

TypeOK ==
  /\ load \in Loads
  /\ ends \subseteq {"brain", "worker"}
  /\ toWorker \in Commands \cup {NoCmd}
  /\ Len(toBrain) <= SockCap
  /\ pcap \in [PcapSlot -> Ifaces \cup {NoIface}]
  /\ raw \in [RawSlot -> BOOLEAN]
  /\ pcapIn \subseteq ActivePcap
  /\ rawIn \subseteq ActiveRaw
  /\ wpc \in {"poll", "cmd", "pcap", "raw", "recv", "dead"}
  /\ brain \in {"free", "wait", "stopped", "killed", "desync"}
  /\ Len(async) <= AsyncCap
  /\ handles \in [PcapSlot -> Ifaces \cup {NoIface}]
  /\ sockets \subseteq RawSlot

\* Whenever the brain is not in the middle of a command, the handles and
\* sockets it believes it holds are exactly the active slots of the worker:
\* no response is ever taken for another command's, and captured data that
\* arrives first is never taken for a response (send_and_recv).
TablesAgree ==
  /\ TypeOK
  /\ (brain = "free" /\ "worker" \in ends) => handles = pcap /\ sockets = ActiveRaw

\* Packets reach the modules in the order in which the worker read them,
\* whether they were set aside during a command or read by the event loop:
\* one may be lost, none overtakes another (ps_priv_client_recv drains the
\* queue first).
PacketsInOrder ==
  /\ \A i \in DOMAIN async : got < async[i].n
  /\ \A i, j \in DOMAIN async : i < j => async[i].n < async[j].n
  /\ \A j \in DOMAIN InSocket : Begins(InSocket[j]) =>
       /\ got < InSocket[j][1].n
       /\ \A i \in DOMAIN async : async[i].n < InSocket[j][1].n
       /\ \A i \in 1 .. j - 1 :
            Begins(InSocket[i]) => InSocket[i][1].n < InSocket[j][1].n

\* The modules send on the sockets they have, and open and close none from the
\* event loop: no walk of the worker then finds other slots than it polled.
Steady == load.ops \subseteq {"SEND_RAW"} /\ load.sizes = {"small"}

\* A command is answered, or fails because the worker died: the worker's
\* waiting write of a response and the brain's waiting read cannot block each
\* other, however full the socket and the queue are.
CommandReturns == (Steady /\ brain = "wait") ~> (brain # "wait")

\* When the brain is gone the root worker exits.
WorkerFollowsBrain == (Steady /\ "brain" \notin ends) ~> ("worker" \notin ends)

\* When the worker is gone the brain's event loop ends.
BrainFollowsWorker == (Steady /\ "worker" \notin ends) ~> ("brain" \notin ends)

\* Neither process waits for the other for ever: a command returns, and a
\* process that is left alone ends (send_and_recv, run_loop, main).
NobodyStuck == CommandReturns /\ WorkerFollowsBrain /\ BrainFollowsWorker
=============================================================================
