SPECIFICATION Spec
CONSTANTS
  JobIds = {1, 2}
  Dests = {"d4", "e4", "d6"}
  Family <- MCFamily
  Routes <- MCRoutes
  NoSuchHost = "nx"
  TraceSlots = 2
  Probes = 2
  HopLimit = 3
  ParisHash <- MCHash
  Flows = 3
  WalkMax = 4
  WalkIdent = 9
  Scenarios <- MCScenarios
  ProbeIds = {7, 8}
  SocketSets <- MCSocketSets
  Noise <- MCNoise
CHECK_DEADLOCK FALSE
INVARIANTS
  TracesInOrder
  TracesTrue
  PathsToldApart
PROPERTIES
  TracesEnd
