\* Probabilities of 4 bits, registers of 8, words of 3, and every input.
SPECIFICATION DecoderSpec
CONSTANTS
  Contexts = {kind, literal}
  Half = 8
  AdjustDiv = 4
  WordSize = 8
INVARIANTS
  DecoderTypeOK
  ValueInInterval
  ProbabilitiesUsable
PROPERTIES
  GetbitReturns
\* Contexts are interchangeable only without the liveness property: no symmetry.
