\* CONNECT name:port: what the client is told, and what the session is for.
SPECIFICATION InboundSpec
CONSTANTS
  Conns = {"c1"}
  RequestsOf <- TunnelsOnly
  Uri <- MCUri
  AddrBytes <- MCAddrBytes
  NoTarget = 0
INVARIANTS
  EstablishedAsAsked
CHECK_DEADLOCK FALSE
