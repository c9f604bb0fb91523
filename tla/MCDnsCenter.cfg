\* Two calls of resolve, two clients, two domains with a server and one without.
\* Calls end and the clock is bounded.
SPECIFICATION Spec
CONSTANTS
  r1 = r1
  r2 = r2
  c1 = c1
  c2 = c2
  d1 = d1
  d2 = d2
  d3 = d3
  ip1 = ip1
  NoEntry = NoEntry
  Resolvers <- TwoResolvers
  Clients <- TwoClients
  Domains <- ThreeDomains
  Known <- TwoKnown
  Ips <- OneIp
  expTime_ = 1
  Late = 1
  MaxTime = 4
INVARIANTS
  TypeOK
  CacheHoldsAnswers
  OwnAnswer
  IdleEntriesGo
PROPERTIES
  LookupBuysAnHour
CHECK_DEADLOCK FALSE
