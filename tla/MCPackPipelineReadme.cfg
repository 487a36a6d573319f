\* README.md:34, on the same instance.
SPECIFICATION Spec
CONSTANTS
  Packers <- MCPackers
  Unknown = "lzss"
  InputPath = "intro.elf"
  Paths = {"intro.elf", "intro.gba"}
  Sizes = {200, 204, 208}
  MaxArgs = 3
INVARIANTS
  SuccessMeansWritten
\* The program exits.
CHECK_DEADLOCK FALSE
