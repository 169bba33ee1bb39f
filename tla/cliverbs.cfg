\* Scans with two workers and a ring of two items; traceroutes with names.
SPECIFICATION FairSpec
CONSTANTS
  Threads = {t1, t2}
  QCap = 2
  rate_pps = 1
  US = 2
  Slack = 1
  Addrs = {a, b, c}
  PTR_MAX = 2
  NoName = NoName
  NameOf <- Names
  Bits = 3
  MaxPort = 3
  Plans <- Commands
  DEFAULT_PORTS <- Defaults
  SWEEP_PORTS <- Sweep
  PROBES = {1}
  NoSpec = NoSpec
  a = a
  b = b
  c = c
  na = na
  nb = nb
INVARIANTS
  RateHeld
  ScansTrue
  NamesTrue
PROPERTIES
  VerbsEnd
