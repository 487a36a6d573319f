\* Bytes of two bits, frames of their real sizes.  Stack: 8..95, of which the
\* table is 32..95.
SPECIFICATION MemorySpec
CONSTANTS
  ByteSize = 4
  NumContexts = 32
  LoadAddress = 5
  InitialSp = 96
  UnknownOffsets = {0, 1}
  RegisterBits = 4
  MaxOutput = 3
INVARIANTS
  MemoryTypeOK
  IntroIntact
PROPERTIES
  ReadsProbability
\* The bounds stop the depacker in the middle of a stream.
CHECK_DEADLOCK FALSE
