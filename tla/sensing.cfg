SPECIFICATION Spec
CONSTANTS
  NameMax = 34
  HopMax = 10
  AnswerMax = 3
  JsonAnswers = 2
  MaxHosts = 2
  MaxHostIps = 2
  MaxHostSrcs = 2
  SnapMax = 3
  CaptureMax = 2
  Plans <- MCPlans
  Traffic <- MCTraffic
  Worlds <- MCWorlds
  FirstWorld <- MCFirstWorld
  MaxPackets <- MCMaxPackets
  Broken <- MCBroken
  Excluded <- MCExcluded
CHECK_DEADLOCK FALSE
INVARIANTS
  FramesReadTrue
PROPERTIES
  HostsKept
  
