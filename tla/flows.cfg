SPECIFICATION Spec
CONSTANTS
  Ifaces = {e1, e2}
  Closed = Closed
  Inactive = Inactive
  MaxHandles = 2
  MaxCapture = 2
  MaxSlots = 1
  Batch = 1
  Interval = 2
  MaxFlows = 2
  TcpEst = 3
  TcpShort = 1
  Udp = 1
  Icmp = 9
  General = 3
  MaxLifetime = 1
  Word = 64
  MaxTime = 3
  MaxPackets = 3
  Packets <- MCPackets
  Ahead <- MCAhead
  Delays <- MCDelays
SYMMETRY MCIfaceSymmetry
CHECK_DEADLOCK FALSE
INVARIANTS
  
  OneFlowPerConversation
  HandlesAgree
PROPERTIES
  NoEarlyExpiry
