\* Every pair of rules over three rule sets, and one broken item at a time.
\* A configuration that throws ends the program, a null outbound crashes it.
SPECIFICATION Spec
CONSTANTS
  Configs <- AllConfigs
  Addresses <- TwelveAddresses
  U16 = 4
  V4Bits = 2
  V6Bytes = 2
  ByteBits = 2
  NoAnswer = NoAnswer
INVARIANTS
  NamesRoutedAsConfigured
  ServersChosenAsConfigured
  DefinedTagsNeverCrash
  ContainsStaysInside
CHECK_DEADLOCK FALSE
