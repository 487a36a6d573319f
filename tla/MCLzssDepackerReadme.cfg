\* A load area that may end with EWRAM, or lies in IWRAM.
SPECIFICATION Spec
CONSTANTS
  Bytes = {0, 1}
  TokensPerFlag = 2
  MinLength = 3
  MaxLength = 4
  HeaderSize = 4
  Paddings = {0, 1, 2, 3}
  EwramStart = 8
  EwramSize = 12
  IwramStart = 32
  IwramSize = 8
  LoadAddresses = {16, 33}
  Clobbered = {0, 9}
  MaxData = 4
INVARIANTS
  RamSuffices
CHECK_DEADLOCK FALSE
