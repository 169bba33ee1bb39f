---------------------------- MODULE MCIpcServer ----------------------------
(* Instances of IpcServer for TLC.                                         *)
EXTENDS IpcServer

CONSTANTS u1, u2, t1  \* two Unix clients and a TLS client

\* u2 only listens to what is published.
Sends == [c \in Conns |-> CASE c = u1 -> 2 [] c = t1 -> 1 [] OTHER -> 0]
=============================================================================
