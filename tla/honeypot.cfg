\* The honeypot listener with two sessions, two bursts and three packets each.
SPECIFICATION Spec
CONSTANTS
  HP_MAX_TRAPS = 3
  HP_MAX_SESSIONS = 2
  HP_MAX_BURSTS = 2
  HP_MAX_PACKETS = 2
  HP_MAX_PAYLOAD = 3
  HP_MAX_BANNER = 8
  HP_DEDUP_WINDOW = 2
  HP_EVENT_BUFFER = 32768
  Epoch = 40
  Word = 64
  Chunks <- MCChunks
  MaxSend = 4
  MaxFrames = 3
  MaxTime = 5
  LastArrival = 2
  Taken = {25}
  Plans <- MCPlans
  Files <- MCFiles
  Peers <- MCPeers
  Visits <- MCVisits
  Captured <- MCCaptured

  
PROPERTIES
  SessionsTrue
  BurstsEnd
