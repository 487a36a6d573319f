\* Bytes, groups, table, stack and an odd load address in IWRAM as on the GBA;
\* registers as wide as TLC's integers allow.
SPECIFICATION RoundTripSpec
CONSTANTS
  ByteSize = 256
  NumContexts = 2048
  LoadAddress = 50331649
  InitialSp = 50364160
  UnknownOffsets = {0, 7}
  RegisterBits = 30
  MaxOutput = 32
  ByteBits = 8
  Literals = {0, 254, 255}
  Offsets = {1, 2, 3, 20}
  Lengths = {2, 3, 20}
  MaxSymbols = 4
  MaxData = 26
INVARIANTS
  RoundTripTypeOK
  ContextsAgree
  CopyReadsWritten
  StreamConsumed
PROPERTIES
  KeepsPromise
