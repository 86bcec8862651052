SPECIFICATION HSpec
CONSTANTS
  WorkerCount = 2
  WorkerQueueSize = 1
  HashSize = 2
  IntMax = 7
  Sum32 <- Hash
  Events <- OneChat
  MaxAccepted = 1
  MaxBoots = 1
  Faults = {"db"}
  MaxToolIterations = 1
  HistoryTailLimit = 2
  SummarizeAfter = 3
  Responses <- FinalOrTools
  InitUsers <- Unknown
INVARIANTS
  EscalationsAreQueued
\* The deliveries are bounded: when all are handled the harness rests.
CHECK_DEADLOCK FALSE
