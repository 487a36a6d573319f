\* EWRAM is 8..23, IWRAM 32..39: load areas that touch the buffer, overlap it
\* with and without room above it, or leave RAM.
SPECIFICATION Spec
CONSTANTS
  Bytes = {0, 1}
  TokensPerFlag = 2
  MinLength = 3
  MaxLength = 4
  HeaderSize = 4
  Paddings = {0, 1, 2, 3}
  EwramStart = 8
  EwramSize = 16
  IwramStart = 32
  IwramSize = 8
  LoadAddresses = {8, 15, 18, 33}
  Clobbered = {0, 9}
  MaxData = 7
INVARIANTS
  LzssTypeOK
  SourceIntact
PROPERTIES
  KeepsPromise
\* The program ends by throwing or by handing over to the intro.
CHECK_DEADLOCK FALSE
