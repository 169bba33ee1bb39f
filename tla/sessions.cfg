\* Two connections to the listener and one to a window; a client may leave.
\* An agent without connections rests.
CHECK_DEADLOCK FALSE
SPECIFICATION FairSpec
CONSTANTS
  Conns = {c1, c2, w1}
  WinConns = {w1}
  Leavers = {c1}
  MaxClients = 1
  Lines = 3
  PipeCap = 1
INVARIANTS
  SessionsCounted
  FindingsBeforeBye

  
