SPECIFICATION PoolSpec
CONSTANTS
  WorkerCount = 2
  WorkerQueueSize = 2
  HashSize = 8
  IntMax = 7
  Sum32 <- SpreadHash
  Events <- OneContact
  MaxAccepted = 2
  MaxBoots = 1
  Faults = {}
INVARIANTS
  ConversationSerial

\* The deliveries are bounded: when all are handled the pool rests.
CHECK_DEADLOCK FALSE
