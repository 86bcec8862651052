SPECIFICATION ReplaySpec
CONSTANTS
  Bodies <- ManyBodies
  Messages <- ManyMessages
  MaxMessages = 8
INVARIANTS
  RequestPaired
  ReplayLossless
\* The history is bounded: a full one ends the conversation.
CHECK_DEADLOCK FALSE
