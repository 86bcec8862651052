SPECIFICATION FairHSpec
CONSTANTS
  WorkerCount = 2
  WorkerQueueSize = 1
  HashSize = 2
  IntMax = 7
  Sum32 <- Hash
  Events <- Redelivered
  MaxAccepted = 2
  MaxBoots = 2
  Faults = {"db", "ack", "llm", "send", "deadline", "stop", "crash"}
  MaxToolIterations = 2
  HistoryTailLimit = 2
  SummarizeAfter = 3
  Responses <- FinalOrTools
  InitUsers <- Unknown
INVARIANTS
  HTypeOK
  AtMostOnce
  AnswersAreInHistory
  EscalationIsExhaustion
  
PROPERTIES
  ImplementsInbox
  ImplementsPool
\* The deliveries are bounded: when all are handled the harness rests.
CHECK_DEADLOCK FALSE
