\* The registry's packers; sizes that padding makes equal or puts in order.
SPECIFICATION Spec
CONSTANTS
  Packers <- MCPackers
  Unknown = "lzss"
  InputPath = "intro.elf"
  Paths = {"intro.elf", "intro.gba"}
  Sizes = {200, 204, 208}
  MaxArgs = 3
INVARIANTS
  TypeOK
  RequestHonoured
  SmallestRomWritten
  NoRomAfterFailedWrite
PROPERTIES
  UntouchedUntilPacked
\* The program exits.
CHECK_DEADLOCK FALSE
