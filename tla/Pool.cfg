SPECIFICATION FairPoolSpec
CONSTANTS
  WorkerCount = 2
  WorkerQueueSize = 2
  HashSize = 8
  IntMax = 3
  Sum32 <- NarrowHash
  Events <- AllEvents
  MaxAccepted = 3
  MaxBoots = 2
  Faults = {"stop", "crash"}
INVARIANTS
  PoolTypeOK
  SerialLanes
  ProcessedInOrder
  Accounted
  RoutedUnlessOverflow
PROPERTIES
  ImplementsLanes
  EveryAcceptedHandled
  WorkersStop
\* The deliveries are bounded: when all are handled the pool rests.
CHECK_DEADLOCK FALSE
