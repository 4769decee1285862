SPECIFICATION Spec
CONSTANTS
  c1 = c1
  c2 = c2
  Clients = {c1, c2}
  Patient = {c1}
  MaxRequests = 1
  Asks <- AbandonedAsks
  QueueMax = 1
  responseQueueSize = 1
  eventQueueSize = 1
  MaxWire = 1
  MaxEvents = 1
  MaxBreaks = 1
INVARIANTS ReaderNotStranded
CHECK_DEADLOCK FALSE
