\* Probabilities of 4 bits and words of 3: code words span several words.
SPECIFICATION ChannelSpec
CONSTANTS
  Contexts = {kind, literal}
  Half = 8
  AdjustDiv = 4
  WordSize = 8
  WordBits = 3
  MaxBits = 5
INVARIANTS
  ModelsAgree
  ReadsJustBehind
PROPERTIES
  DeliversBits
