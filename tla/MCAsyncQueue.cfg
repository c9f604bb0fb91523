\* The class contract: several consumers, four objects.
SPECIFICATION FairSpec
CONSTANTS
  v1 = v1
  v2 = v2
  v3 = v3
  v4 = v4
  c1 = c1
  c2 = c2
  c3 = c3
  NoValue = NoValue
  Values <- FourValues
  Consumers <- ThreeConsumers
INVARIANTS
  TypeOK
  NoValueBesideWaiter
PROPERTIES
  ChannelSpec
  EveryPutIsGot
CHECK_DEADLOCK FALSE
