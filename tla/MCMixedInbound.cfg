\* Every kind of request, cut in every way, beside a second client that may
\* stall.  The clients may stop, and with them the system.
SPECIFICATION InboundFairSpec
CONSTANTS
  Conns = {"c1", "c2"}
  RequestsOf <- MCRequestsOf
  Uri <- MCUri
  AddrBytes <- MCAddrBytes
  NoTarget = 0
INVARIANTS
  PayloadIntact
  AddressAsAsked
PROPERTIES
  Served
  LeaversAreReleased
CHECK_DEADLOCK FALSE
