\* A domain with up to three addresses, or a literal one.
\* The call ends, so the system may stop.
SPECIFICATION FairSpec
CONSTANTS
  a1 = a1
  a2 = a2
  a3 = a3
  NoSocket = NoSocket
  Attempts <- ThreeAttempts
INVARIANTS
  TypeOK
  NoSocketLeaks
  WokenByResult
PROPERTIES
  FirstSuccessWins
  SuccessIsReturned
CHECK_DEADLOCK FALSE
