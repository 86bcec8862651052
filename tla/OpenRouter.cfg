SPECIFICATION CompleteSpec
CONSTANTS
  MaxAttempts = 3
  RequestTimeout = 4
  Deadline = 10
  Second = 2
  DurationMax = 15
  Replies <- ManyReplies
  Faults = {"transport", "cancel"}
INVARIANTS
  RetriesTransientOnly
  RetriesAreSpaced
PROPERTIES
  ImplementsModelCall
\* A call that has returned does nothing more.
CHECK_DEADLOCK FALSE
