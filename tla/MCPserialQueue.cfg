\* Three requests of up to two fragments, events from other tasks and from the
\* handlers, a queue that fills up, host writes that break off, and a slave out
\* of memory; under fair scheduling.
SPECIFICATION FairSpec
CONSTANTS
  REQ_Q_MAX = 2
  Capacity = 2
  MaxReq = 3
  MaxEvents = 1
  MaxEmit = 1
  OutOfMemory = TRUE
  HostCuts = TRUE
CHECK_DEADLOCK FALSE
INVARIANTS
  QueuedRequestKept
  RequestsInOrder
PROPERTIES
  RecvReturns
