\* Two chunks each way over a window of one.
\* The session ends, so the system may stop.
SPECIFICATION FairSpec
CONSTANTS
  Chunks = {1, 2}
  MaxChunks = 2
  Window = 1
INVARIANTS
  TypeOK
  EndsForCause
PROPERTIES
  AllDelivered
  SessionEnds
  PipeSpecs
CHECK_DEADLOCK FALSE
