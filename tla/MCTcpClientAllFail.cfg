\* As MCTcpClient.cfg: does the call end with an exception when every
\* attempt fails?  It never does: the caller waits, and the system stops.
SPECIFICATION FairSpec
CONSTANTS
  a1 = a1
  a2 = a2
  a3 = a3
  NoSocket = NoSocket
  Attempts <- ThreeAttempts
PROPERTIES
  FailureIsReported
CHECK_DEADLOCK FALSE
