-------------------------- MODULE CartridgeAssembler --------------------------
(***************************************************************************)
(* How the two packers lay out a cartridge, with or without depacker code  *)
(* in the header, up to the compressed intro.  The header's fixed byte and *)
(* its checksum fall between, or even inside, instructions then, and the   *)
(* checksum is arranged through a byte that differs from case to case.     *)
(* What follows is HeaderChecksum.                                         *)
(***************************************************************************)
EXTENDS HeaderChecksum, Sequences

VARIABLES
  packer, codeInHeader,
  items,  \* what is left to be emitted
  lc,     \* current_lc()
  roles   \* what each byte emitted is part of

layoutVars == <<packer, codeInHeader, items, lc, roles>>

\* Offsets in the cartridge
OfsGameTitle == 160
OfsFixedByte == 178
OfsDeviceType == 180
OfsGameVersion == 188
OfsComplement == 189
OfsReserved2 == 190
HeaderSize == 192

FixedByte == 150

\* HeaderChecksum's constants are those of this header.
ASSUME LayoutAssumption ==
  /\ ComplementIndex = OfsComplement - OfsGameTitle
  /\ AreaSize = OfsComplement + 1 - OfsGameTitle
  /\ {offset - OfsGameTitle : offset \in {OfsGameVersion - 2, OfsGameVersion, OfsComplement}}
       \subseteq VariableIndexes

\* An item: bytes of one role and a value from a set, where they may be.
Item(role, size, at, values) == [role |-> role, size |-> size, at |-> at, values |-> values]

Anywhere == 0..(2 * HeaderSize)
Aligned == {n \in Anywhere : n % 4 = 0}

Field(size, offset) == Item("field", size, {offset}, {0})
\* Instructions, counted in half words
Code(halfWords, at) == Item("code", 2 * halfWords, at, HeaderBytes)

\* mov rn, #value: an instruction that is only there for its bytes
Stub(role, value, offset) ==
  <<Item(role, 1, {offset}, {value}), Item("code", 1, {offset + 1}, HeaderBytes)>>

\* arm_branch, an instruction of four bytes, and the logo
EmitNintendoLogo == <<Code(2, {0}), Item("field", 156, {4}, {0})>>

EmitRemainingHeader ==
  <<Field(18, OfsGameTitle),
    Item("fixed", 1, {OfsFixedByte}, {FixedByte}), Field(1, OfsFixedByte + 1),
    Field(8, OfsDeviceType),
    Field(1, OfsGameVersion),
    Item("complement", 1, {OfsComplement}, {0}),
    Field(2, OfsReserved2)>>

\* The LZSS packer.  The pool has two to four literals: lzasm may or may not
\* share equal ones.
LzssItems(literals) ==
  EmitNintendoLogo
  \o (IF codeInHeader THEN << >> ELSE EmitRemainingHeader)
  \o <<Code(9, Aligned)>>
  \o (IF codeInHeader THEN Stub("fixed", FixedByte, OfsFixedByte) ELSE << >>)
  \o <<Code(3, Anywhere)>>
  \o (IF codeInHeader
        THEN <<Item("filler", 2, {OfsGameVersion - 2}, {255}), Code(0, {OfsGameVersion})>>
        ELSE << >>)
  \o <<Item("literal", 4 * literals, Aligned, HeaderBytes)>>

\* The Shrinkler packer: getkind and getbit come before code_start.
ShrinklerItems ==
  EmitNintendoLogo
  \o (IF codeInHeader THEN << >> ELSE EmitRemainingHeader)
  \o <<Code(9, {n \in Anywhere : n % 2 = 0})>>
  \o (IF codeInHeader THEN Stub("fixed", FixedByte, OfsFixedByte) ELSE << >>)
  \o <<Code(4, Anywhere)>>
  \o (IF codeInHeader THEN Stub("operand", 119, OfsGameVersion) ELSE << >>)
  \o <<Code(21, Anywhere), Code(0, Aligned)>>

\* Mutant: the LZSS packer follows the other one's example.
VariableOffsetGameVersion ==
  IF codeInHeader THEN OfsGameVersion ELSE OfsComplement

\* The byte that the packer has write_complement set.
VariableOffset ==
  CASE ~codeInHeader -> OfsComplement
    [] codeInHeader /\ packer = "lzss" -> OfsGameVersion - 2
    [] codeInHeader /\ packer = "shrinkler" -> OfsGameVersion

-----------------------------------------------------------------------------
AssemblerInit ==
  /\ packer \in {"lzss", "shrinkler"}
  /\ codeInHeader \in BOOLEAN
  /\ items \in IF packer = "lzss" THEN {LzssItems(n) : n \in 2..4} ELSE {ShrinklerItems}
  /\ lc = 0 /\ roles = << >>
  /\ pc = "write"
  /\ area = [k \in Index |-> 0]
  /\ variable = VariableOffset - OfsGameTitle
  /\ i = 0 /\ sum = InitialSum
  /\ partial = [k \in 0..AreaSize |-> InitialSum]

Throw ==
  /\ pc' = "thrown"
  /\ UNCHANGED <<layoutVars, area, variable, i, sum, partial>>

\* throw_if_wrong_lc, throw_if_not_aligned
Misplaced == lc \notin Head(items).at

EmitHead ==
  LET item == Head(items) IN
  /\ \E value \in item.values :
       area' = [k \in Index |-> IF OfsGameTitle + k \in lc..(lc + item.size - 1)
                                  THEN value ELSE area[k]]
  /\ roles' = roles \o [k \in 1..item.size |-> item.role]
  /\ lc' = lc + item.size
  /\ items' = Tail(items)
  /\ UNCHANGED <<packer, codeInHeader, pc, variable, i, sum, partial>>

Emit ==
  /\ pc = "write" /\ items # << >>
  /\ IF Misplaced THEN Throw ELSE EmitHead

\* throw_if_fixed_byte_wrong, called between write_complement and the check
\* of the complement
FixedByteWrong ==
  pc = "check" /\ area[OfsFixedByte - OfsGameTitle] # FixedByte

Checksum ==
  /\ items = << >>
  /\ IF FixedByteWrong THEN Throw ELSE Next /\ UNCHANGED layoutVars

AssemblerNext == Emit \/ Checksum

AssemblerSpec == AssemblerInit /\ [][AssemblerNext]_<<checksumVars, layoutVars>>

-----------------------------------------------------------------------------
\* The checksum is arranged through a byte that is nothing else's: not a part
\* of an instruction that counts, of a literal that one loads, or of a field.
\* And the header has been assembled whole, in whichever of the four ways.
PatchHarmless ==
  pc \in {"check", "ok"} =>
    /\ roles[OfsGameTitle + variable + 1] \in {"complement", "operand", "filler"}
    /\ lc >= HeaderSize /\ lc % 4 = 0
=============================================================================
