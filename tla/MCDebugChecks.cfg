\* 0, 1 and the largest byte below the base; half words that hold a sum.
SPECIFICATION Spec
CONSTANTS
  Base = 5
  Half = 8
  Bytes = {0, 1, 4}
  InitialSp = 1
  Sps = {0, 1}
  MaxData = 4
INVARIANTS
  DebugTypeOK
  NoFalseAlarm
  DamageCaught
\* The cartridge halts after a panic, and the intro is the end of the model.
CHECK_DEADLOCK FALSE
