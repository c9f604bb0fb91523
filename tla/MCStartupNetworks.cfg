\* The same configurations, sessions to IP addresses.
\* A configuration that throws ends the program, a null outbound crashes it.
SPECIFICATION Spec
CONSTANTS
  Configs <- AllConfigs
  Addresses <- TwelveAddresses
  U16 = 4
  V4Bits = 2
  V6Bytes = 2
  ByteBits = 2
  NoAnswer = NoAnswer
INVARIANT
  NetworksRoutedAsConfigured
CHECK_DEADLOCK FALSE
