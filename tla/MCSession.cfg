\* Every outbound and transport; names of up to three bytes fit.  The server
\* need not answer, and a session may fail, so the system may stop.
SPECIFICATION SessionFairSpec
CONSTANTS
  Cases <- MCCases
  uuid_ <- MCUuid
  U8 = 4
INVARIANTS
  HostIsSniffed
  RequestIsUnderstood
  DownlinkIntact
PROPERTIES
  AnswerReaches
CHECK_DEADLOCK FALSE
