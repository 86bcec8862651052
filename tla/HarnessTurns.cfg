SPECIFICATION FairHSpec
CONSTANTS
  WorkerCount = 2
  WorkerQueueSize = 0
  HashSize = 2
  IntMax = 7
  Sum32 <- Hash
  Events <- BothLines
  MaxAccepted = 3
  MaxBoots = 1
  Faults = {"llm", "send"}
  MaxToolIterations = 2
  HistoryTailLimit = 3
  SummarizeAfter = 4
  Responses <- OpenRouter
  InitUsers <- Known
INVARIANTS
  PromptWellFormed
  PromptHoldsTurn
  StaffLineServesStaff
PROPERTIES
  RolesNeverChange
  EveryMessageAnswered
\* The deliveries are bounded: when all are handled the harness rests.
CHECK_DEADLOCK FALSE
