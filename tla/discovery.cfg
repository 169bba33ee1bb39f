\* A table of one and a ring of two for four probes; the requested skew is
\* replaced by the default when it is 0 and capped when it is 3.
\* The clock stops at its bound.
CHECK_DEADLOCK FALSE
SPECIFICATION DiscoverySpec
CONSTANTS
  Probes = {p1, p2, p3, p4}
  NoProbe = NoProbe
  Stamps = {1, 3}
  Skews = {0, 3}
  SkewCap = 2
  DefaultSkew = 1
  ReplayCap = 1
  EvictCap = 2
  MaxTime = 6
SYMMETRY ProbeSymmetry
INVARIANTS
  AnsweredOnce
  Remembered
