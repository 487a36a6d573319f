\* Adjacent, overlapping and equal addresses, holes, and what is left out.
SPECIFICATION Spec
CONSTANTS
  Sections = {text, rodata, bss}
  Types = {"progbits", "nobits"}
  Addresses = {0, 1, 2, 4}
  Sizes = {0, 1, 2}
  Zero = zero
  None = none
SYMMETRY SectionSymmetry
INVARIANTS
  TypeOK
  ImageFaithful
  RejectedForCause
  OverlapNamed
\* Loading ends.
CHECK_DEADLOCK FALSE
