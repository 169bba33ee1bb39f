---------------------------- MODULE ViaSessions ----------------------------
(***************************************************************************)
(* The agent's --via sessions (agent/src/modules/network_listener.c): an   *)
(* accept thread and one-shot window threads admit connections under a cap *)
(* on concurrent sessions; a session thread reads its client's request,    *)
(* forks packetsonde with its standard output on a pipe, forwards each     *)
(* line as a finding and says bye.  Descriptors are not close-on-exec, so  *)
(* a child holds both ends of every pipe the agent had open when it was    *)
(* forked.                                                                 *)
(***************************************************************************)
EXTENDS Integers, FiniteSets

CONSTANTS
  Conns,       \* connections
  WinConns,    \* those made to a knock window
  Leavers,     \* those whose client may leave while findings are sent
  MaxClients,  \* PS_AGENT_MAX_CLIENTS
  Lines,       \* lines a child prints
  PipeCap      \* lines a pipe holds

ASSUME ViaAssumption ==
  /\ IsFiniteSet(Conns)
  /\ WinConns \subseteq Conns
  /\ Leavers \subseteq Conns
  /\ MaxClients \in Nat
  /\ Lines \in Nat
  /\ PipeCap \in Nat \ {0}

VARIABLES
  gate,    \* how far a connection is before its session thread exists
  stop,    \* st->stop
  thread,  \* the accept thread: "accept", "busy" with a connection, "exit"
  ended,   \* nl_shutdown has freed the state and the agent is leaving
  sess,    \* where the session thread of a connection is
  active,  \* st->active_clients
  hello,   \* saw_hello
  gone,    \* clients that left
  child,   \* the child of a session: "none", "run", "exit"
  printed, \* lines the child has written
  sent,    \* lines forwarded to the client
  held     \* held[c]: the children that inherited the ends of c's pipe

gateVars == <<gate, stop, thread, ended>>
pipeVars == <<child, printed, sent, held>>
vars == <<gateVars, sess, active, hello, gone, pipeVars>>

GateState == {"none", "backlog", "shake", "admit", "in", "out"}
SessState == {"none", "start", "loop", "ingest", "pipe", "fork",
              "parent", "stream", "reap", "bye", "close", "done"}

Init ==
  /\ gate = [c \in Conns |-> "none"]
  /\ stop = FALSE
  /\ thread = "accept"
  /\ ended = FALSE
  /\ sess = [c \in Conns |-> "none"]
  /\ active = 0
  /\ hello = {}
  /\ gone = {}
  /\ child = [c \in Conns |-> "none"]
  /\ printed = [c \in Conns |-> 0]
  /\ sent = [c \in Conns |-> 0]
  /\ held = [c \in Conns |-> {}]

SetSess(c, s) == sess' = [sess EXCEPT ![c] = s]
-----------------------------------------------------------------------------
(* Admission: accept_thread_fn and window_thread *)

\* A connection completes in the kernel: on the listener, or on a window that
\* ps_nl_open_session_window has opened.
Connect(c) ==
  /\ gate[c] = "none"
  /\ ~stop \/ c \notin WinConns
  /\ gate' = [gate EXCEPT ![c] = "backlog"]
  /\ UNCHANGED <<stop, thread, ended, sess, active, hello, gone, pipeVars>>

\* The accept thread handles one connection at a time and then looks at stop;
\* a window has a thread of its own.
Begin(c) ==
  IF c \in WinConns THEN UNCHANGED thread
                    ELSE thread = "accept" /\ thread' = "busy"
Finish(c) ==
  thread' = IF c \in WinConns THEN thread ELSE IF stop THEN "exit" ELSE "accept"

\* Without the comparison with max_clients: a mutant.
AcceptUncapped(c) ==
  /\ gate[c] = "backlog"
  /\ gate' = [gate EXCEPT ![c] = "shake"]
  /\ Begin(c)
  /\ UNCHANGED <<stop, ended, sess, active, hello, gone, pipeVars>>

\* accept() returns and the cap is compared with the sessions running now.
Accept(c) ==
  /\ gate[c] = "backlog"
  /\ c \in WinConns \/ thread = "accept"
  /\ \/ /\ active < MaxClients
        /\ gate' = [gate EXCEPT ![c] = "shake"]
        /\ Begin(c)
     \/ /\ active >= MaxClients
        /\ gate' = [gate EXCEPT ![c] = "out"]
        /\ Finish(c)
  /\ UNCHANGED <<stop, ended, sess, active, hello, gone, pipeVars>>

\* ps_at_accept_fd and is_authorized.
Handshake(c) ==
  /\ gate[c] = "shake"
  /\ \/ gate' = [gate EXCEPT ![c] = "admit"] /\ UNCHANGED thread
     \/ gate' = [gate EXCEPT ![c] = "out"] /\ Finish(c)
  /\ UNCHANGED <<stop, ended, sess, active, hello, gone, pipeVars>>

\* The failed pthread_create keeps its count: a mutant.
StartSessionLeaking(c) ==
  /\ gate[c] = "admit"
  /\ active' = active + 1
  /\ \/ /\ gate' = [gate EXCEPT ![c] = "in"]
        /\ SetSess(c, "start")
     \/ /\ gate' = [gate EXCEPT ![c] = "out"]
        /\ UNCHANGED sess
  /\ Finish(c)
  /\ UNCHANGED <<stop, ended, hello, gone, pipeVars>>

\* The session is counted and its thread created, or neither.
StartSession(c) ==
  /\ gate[c] = "admit"
  /\ \/ /\ active' = active + 1
        /\ gate' = [gate EXCEPT ![c] = "in"]
        /\ SetSess(c, "start")
     \/ /\ gate' = [gate EXCEPT ![c] = "out"]
        /\ UNCHANGED <<active, sess>>
  /\ Finish(c)
  /\ UNCHANGED <<stop, ended, hello, gone, pipeVars>>

Shutdown ==
  /\ ~stop
  /\ stop' = TRUE
  /\ UNCHANGED <<gate, thread, ended, sess, active, hello, gone, pipeVars>>

\* close() does not wake a thread already in accept(), which then serves one
\* more connection; one that was about to call it fails and leaves.
AcceptFails ==
  /\ stop
  /\ thread = "accept"
  /\ thread' = "exit"
  /\ UNCHANGED <<gate, stop, ended, sess, active, hello, gone, pipeVars>>

\* pthread_join returns; the detached session threads end with the process.
Joined ==
  /\ thread = "exit"
  /\ ended' = TRUE
  /\ UNCHANGED <<gate, stop, thread, sess, active, hello, gone, pipeVars>>
-----------------------------------------------------------------------------
(* session_thread *)

\* Our hello frame is written, or the client is gone already.
SendHello(c) ==
  /\ sess[c] = "start"
  /\ \E s \in {"loop", "close"} : SetSess(c, s)
  /\ UNCHANGED <<gateVars, active, hello, gone, pipeVars>>

\* One frame of the client: a hello, a read error or a request that fails a
\* check, a relay's envelopes, or a request that passes every check.  A frame of
\* another type is skipped.
ReadFrame(c) ==
  /\ sess[c] = "loop"
  /\ \/ hello' = hello \cup {c} /\ UNCHANGED sess
     \/ SetSess(c, "close") /\ UNCHANGED hello
     \/ SetSess(c, "ingest") /\ UNCHANGED hello
     \/ c \in hello /\ SetSess(c, "pipe") /\ UNCHANGED hello
  /\ UNCHANGED <<gateVars, active, gone, pipeVars>>

\* handle_ingest refuses the source, or forwards the envelopes to central, and
\* the client is told how many were accepted.
Ingest(c) ==
  /\ sess[c] = "ingest"
  /\ SetSess(c, "close")
  /\ UNCHANGED <<gateVars, active, hello, gone, pipeVars>>
-----------------------------------------------------------------------------
(* run_subprocess *)

\* pipe() may fail: the session ends without a bye.
OpenPipe(c) ==
  /\ sess[c] = "pipe"
  /\ \E s \in {"fork", "close"} : SetSess(c, s)
  /\ UNCHANGED <<gateVars, active, hello, gone, pipeVars>>

\* The parent forgets to close its write end: a mutant.
WriteEndsKept == {c \in Conns : sess[c] \in {"fork", "parent", "stream"}}

\* The sessions whose pipe's write end, or read end, the agent has open.
WriteEnds == {c \in Conns : sess[c] \in {"fork", "parent"}}
ReadEnds == {c \in Conns : sess[c] \in {"fork", "parent", "stream"}}

\* fork() fails, or the child inherits every open end but its own read end.
Fork(c) ==
  /\ sess[c] = "fork"
  /\ \/ SetSess(c, "close") /\ UNCHANGED <<child, held>>
     \/ /\ SetSess(c, "parent")
        /\ child' = [child EXCEPT ![c] = "run"]
        /\ held' = [d \in Conns |->
             held[d] \cup (IF d # c /\ d \in ReadEnds
                             THEN {[by |-> c, write |-> d \in WriteEnds]}
                             ELSE {})]
  /\ UNCHANGED <<gateVars, active, hello, gone, printed, sent>>

CloseWriteEnd(c) ==
  /\ sess[c] = "parent"
  /\ SetSess(c, "stream")
  /\ UNCHANGED <<gateVars, active, hello, gone, pipeVars>>

\* Some process still has the read, or the write, end of c's pipe open.
Readers(c) ==
  c \in ReadEnds \/ \E h \in held[c] : child[h.by] = "run"
Writers(c) ==
  \/ c \in WriteEnds
  \/ child[c] = "run"
  \/ \E h \in held[c] : h.write /\ child[h.by] = "run"

InPipe(c) == printed[c] - sent[c]

\* The child prints a line, waiting for room while somebody could read it.
ChildPrints(c) ==
  /\ child[c] = "run"
  /\ printed[c] < Lines
  /\ Readers(c) /\ InPipe(c) < PipeCap
  /\ printed' = [printed EXCEPT ![c] = @ + 1]
  /\ UNCHANGED <<gateVars, sess, active, hello, gone, child, sent, held>>

\* It exits when it is done, or when nobody can read its output.
ChildExits(c) ==
  /\ child[c] = "run"
  /\ printed[c] = Lines \/ ~Readers(c)
  /\ child' = [child EXCEPT ![c] = "exit"]
  /\ UNCHANGED <<gateVars, sess, active, hello, gone, printed, sent, held>>

\* A line is read and written to the client as a finding; once the client is
\* gone the write fails sooner or later.
ForwardLine(c) ==
  /\ sess[c] = "stream"
  /\ InPipe(c) > 0
  /\ sent' = [sent EXCEPT ![c] = @ + 1]
  /\ UNCHANGED sess \/ (c \in gone /\ SetSess(c, "reap"))
  /\ UNCHANGED <<gateVars, active, hello, gone, child, printed, held>>

\* The exit of the child taken for the end of its output: a mutant.
EndOfOutputOnExit(c) ==
  /\ sess[c] = "stream"
  /\ child[c] = "exit"
  /\ SetSess(c, "reap")
  /\ UNCHANGED <<gateVars, active, hello, gone, pipeVars>>

\* End of file: the pipe is empty and nobody holds its write end.
EndOfOutput(c) ==
  /\ sess[c] = "stream"
  /\ InPipe(c) = 0
  /\ ~Writers(c)
  /\ SetSess(c, "reap")
  /\ UNCHANGED <<gateVars, active, hello, gone, pipeVars>>

\* The read end is closed (ReadEnds) and waitpid returns.
Reap(c) ==
  /\ sess[c] = "reap"
  /\ child[c] = "exit"
  /\ SetSess(c, "bye")
  /\ UNCHANGED <<gateVars, active, hello, gone, pipeVars>>

SayBye(c) ==
  /\ sess[c] = "bye"
  /\ SetSess(c, "close")
  /\ UNCHANGED <<gateVars, active, hello, gone, pipeVars>>

CloseSession(c) ==
  /\ sess[c] = "close"
  /\ SetSess(c, "done")
  /\ active' = active - 1
  /\ UNCHANGED <<gateVars, hello, gone, pipeVars>>

\* The client leaves.
ClientLeaves(c) ==
  /\ c \in Leavers \ gone
  /\ sess[c] \in {"fork", "parent", "stream"}
  /\ gone' = gone \cup {c}
  /\ UNCHANGED <<gateVars, sess, active, hello, pipeVars>>
-----------------------------------------------------------------------------
Gate(c) == Accept(c) \/ Handshake(c) \/ StartSession(c)

Session(c) ==
  \/ SendHello(c) \/ Ingest(c)
  \/ OpenPipe(c) \/ Fork(c) \/ CloseWriteEnd(c) \/ ForwardLine(c)
  \/ EndOfOutput(c) \/ Reap(c) \/ SayBye(c) \/ CloseSession(c)

Child(c) == ChildPrints(c) \/ ChildExits(c)

Step ==
  \/ \E c \in Conns : Connect(c) \/ Gate(c) \/ Session(c) \/ Child(c)
                        \/ ReadFrame(c) \/ ClientLeaves(c)
  \/ Shutdown \/ AcceptFails \/ Joined

Next == ~ended /\ Step

Spec == Init /\ [][Next]_vars

\* Session threads and children keep running; a client owes no frame.
FairSpec ==
  Spec /\ \A c \in Conns : /\ WF_vars(~ended /\ Session(c))
                            /\ WF_vars(~ended /\ Child(c))
-----------------------------------------------------------------------------
TypeOK ==
  /\ gate \in [Conns -> GateState]
  /\ thread \in {"accept", "busy", "exit"}
  /\ thread = "busy" <=> \E c \in Conns \ WinConns : gate[c] \in {"shake", "admit"}
  /\ sess \in [Conns -> SessState]
  /\ hello \subseteq Conns
  /\ child \in [Conns -> {"none", "run", "exit"}]
  /\ \A c \in Conns : InPipe(c) \in 0 .. PipeCap

\* active_clients is the number of session threads that have not finished,
\* through every early return and failed pthread_create.
ActiveCounts ==
  active = Cardinality({c \in Conns : sess[c] \notin {"none", "done"}})

\* The cap is compared before the handshake and the count raised after it, so
\* it can be overrun, but only by one session for each window open meanwhile.
CapNearlyHeld == active <= MaxClients + Cardinality(WinConns)

\* A client that stays is sent every line its run printed before the bye,
\* although the child exits before its last lines are read.
FindingsBeforeBye ==
  \A c \in Conns \ gone : sess[c] = "bye" => sent[c] = Lines

\* A session whose request was accepted ends, even while children of other
\* sessions hold the ends of its pipe and one client leaves.
SessionsEnd ==
  \A c \in Conns : (sess[c] = "pipe") ~> (sess[c] = "done" \/ ended)

\* The session count is true and its cap holds but for open windows
\* (accept_loop, session_thread).
SessionsCounted == TypeOK /\ ActiveCounts /\ CapNearlyHeld
=============================================================================
