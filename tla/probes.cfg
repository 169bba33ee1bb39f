\* Probe requests to the TCP, UDP and TLS modules, and sweeps.
SPECIFICATION Spec
CONSTANTS
  TCP_PROBE_MAX_JOBS = 2
  TCP_PROBE_TIMEOUT = 2
  UDP_PROBE_MAX_JOBS = 2
  DEADLINE_LOOPS = 2
  TLS_PROBE_SAN_MAX = 5
  TLS_BUFFER = 400
  PS_SWEEP_MAX_SLOTS = 2
  PS_SWEEP_MAX_TARGETS = 2
  SweepBuffer = 4
  ReadSizes = {4, 9}
  MaxTime <- MCMaxTime
  LastRequest <- MCLastRequest
  RawOpens <- MCRawOpens
  Plans <- MCPlans
  Requests <- MCRequests
  Service <- MCService
  Known <- MCKnown
  Answering <- MCAnswering
  Strays <- MCStrays
  Sockets <- MCSockets
  Family <- MCFamily
INVARIANTS
  ProbesTrue
  SweepsTrue
PROPERTIES
  TcpJobsEnd
