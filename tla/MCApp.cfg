\* Four sockets: three clients and an attempt of one of them, or a client in
\* its handshake and a session with its connection and an attempt that hangs.
\* Every client may be done.
SPECIFICATION FairSpec
CONSTANTS
  c1 = c1
  c2 = c2
  c3 = c3
  i1 = i1
  i2 = i2
  Clients = {c1, c2, c3}
  Inbounds = {i1, i2}
  InboundOf <- MCInboundOf
  MaxSockets = 4
  MaxOpened = 2
INVARIANTS
  OneOwner
PROPERTIES
  EachAsIfAlone
CHECK_DEADLOCK FALSE
