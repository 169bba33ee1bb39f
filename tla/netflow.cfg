\* The exporter with arrays around the limits of a datagram, in all versions.
SPECIFICATION Spec
CONSTANTS
  SEC = 2
  Word = 16
  TEMPLATE_RESEND_PKTS = 3
  TEMPLATE_RESEND_SEC = 2
  IPFIX_MAX_FLOWS = 42
  Versions = {5, 9, 10}
  Batches <- MCBatches
  MaxTime = 6
  MaxCalls = 3
CHECK_DEADLOCK FALSE
INVARIANTS
  DatagramsFit
  SequencesCount
  TemplatesFirst
  CollectorReads
