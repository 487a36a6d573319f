\* Bytes of two bits, so groups of 4 contexts and a table of 32: prefixes get
\* past the group, the register and the table.  The frames have their sizes.
SPECIFICATION Spec
CONSTANTS
  ByteSize = 4
  NumContexts = 32
  LoadAddress = 3
  InitialSp = 128
  UnknownOffsets = {0, 2}
  RegisterBits = 4
  MaxOutput = 2
INVARIANTS
  TypeOK
  ContextInTable
  NoAliasing
  StackBalanced
  OutputContiguous
  CopyCountPositive
\* The bounds stop the depacker in the middle of a stream.
CHECK_DEADLOCK FALSE
