\* Game title to complement.  The bytes that the packers have write_complement
\* set lie at 0xba, 0xbc and 0xbd.
SPECIFICATION AssemblerSpec
CONSTANTS
  AreaSize = 30
  ComplementIndex = 29
  VariableIndexes = {26, 28, 29}
  HeaderBytes = {0, 1, 150, 255}
INVARIANTS
  ChecksumTypeOK
  NeverThrown
  BiosAccepts
  PatchHarmless
\* The check is the last step.
CHECK_DEADLOCK FALSE
