\* One capture handle and two raw sockets opened at start.  Under the full load
\* a worker held in recv() by a quiet socket is a stop the code has.
SPECIFICATION FairSpec
CONSTANTS
  SockCap = 2
  NPcap = 1
  NRaw = 2
  Ifaces = {eth0}
  NoIface = NoIface
  NoCmd = NoCmd
  Loads <- AllLoads
  AsyncCap = 1
  BootCmds <- BootSteady
CHECK_DEADLOCK FALSE
INVARIANTS
  TablesAgree
  PacketsInOrder
PROPERTIES
  NobodyStuck
