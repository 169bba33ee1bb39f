\* Three clients for two slots: a Unix client that sends two frames and may be
\* slow, one that only listens, and a TLS client.
\* A server whose clients have all finished rests.
CHECK_DEADLOCK FALSE
SPECIFICATION FairSpec
CONSTANTS
  u1 = u1
  u2 = u2
  t1 = t1
  Conns = {u1, u2, t1}
  TlsConns = {t1}
  SlowConns = {u1}
  NoConn = NoConn
  MaxClients = 2
  FrameKinds = {"query", "control", "bad"}
  MaxSend <- Sends
INVARIANTS
  NoFalseFull
  FramesKept

  
