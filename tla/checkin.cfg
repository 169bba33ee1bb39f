\* A daemon with no console and nothing more to publish rests.
CHECK_DEADLOCK FALSE
\* A ring of three, batches of two, one batch per cycle: the ring wraps and
\* overflows, a batch leaves a rest, and the quota ends a cycle early.
SPECIFICATION FairSpec
CONSTANTS
  Cap = 3
  ShipBatch = 2
  ShipMaxBatches = 1
  ReqCap = 2
  MaxPublished = 5
INVARIANTS
  InOrder
  
PROPERTIES
  QueueServed
  ImplementsChannel
