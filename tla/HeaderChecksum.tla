----------------------------- MODULE HeaderChecksum -----------------------------
(***************************************************************************)
(* The checksum of the cartridge header: calculate_complement, and the     *)
(* two uses of it when a cartridge has been assembled.  write_complement   *)
(* picks a value for a byte of its caller's choice, leaving out that byte; *)
(* throw_if_complement_wrong then recomputes the complement proper, which  *)
(* leaves out the complement byte.                                         *)
(***************************************************************************)
EXTENDS Integers

CONSTANTS
  AreaSize,         \* checksum_area_size
  ComplementIndex,  \* ofs_complement - ofs_game_title
  VariableIndexes,  \* bytes that a packer may have write_complement set
  HeaderBytes       \* byte values that occur in the area

\* Values of an unsigned char, and the initial sum.
ByteSize == 256
InitialSum == 25

ASSUME ChecksumAssumption ==
  /\ AreaSize \in Nat \ {0}
  /\ ComplementIndex \in 0..(AreaSize - 1)
  /\ VariableIndexes \subseteq 0..(AreaSize - 1)
  /\ HeaderBytes \subseteq 0..(ByteSize - 1)

VARIABLES
  pc,        \* "write", "check", "ok" or "thrown"
  area,      \* the checksummed bytes of the header
  variable,  \* index of the byte that write_complement sets
  i, sum,    \* calculate_complement's loop
  partial    \* history: the sums that write_complement's loop went through

checksumVars == <<pc, area, variable, i, sum, partial>>

Index == 0..(AreaSize - 1)
ByteRange == 0..(ByteSize - 1)

\* Mutant: the result is not narrowed.
ComplementWide == -sum

\* -sum, narrowed to a byte
Complement == (-sum) % ByteSize

\* Mutant: write_complement leaves out the complement byte, whatever it sets.
SkippedAlwaysComplement == ComplementIndex

\* The byte that the running loop leaves out.
Skipped == IF pc = "write" THEN variable ELSE ComplementIndex

-----------------------------------------------------------------------------
Init ==
  /\ pc = "write"
  /\ area \in [Index -> HeaderBytes]
  /\ variable \in VariableIndexes
  /\ i = 0 /\ sum = InitialSum
  /\ partial = [k \in 0..AreaSize |-> InitialSum]

\* Mutant: the loop counts the byte it should leave out.
AddByteAll ==
  /\ pc \in {"write", "check"} /\ i < AreaSize
  /\ sum' = (sum + area[i]) % ByteSize
  /\ i' = i + 1
  /\ partial' = IF pc = "write" THEN [partial EXCEPT ![i + 1] = sum'] ELSE partial
  /\ UNCHANGED <<pc, area, variable>>

\* One iteration of the loop.
AddByte ==
  /\ pc \in {"write", "check"} /\ i < AreaSize
  /\ sum' = (sum + (IF i = Skipped THEN 0 ELSE area[i])) % ByteSize
  /\ i' = i + 1
  /\ partial' = IF pc = "write" THEN [partial EXCEPT ![i + 1] = sum'] ELSE partial
  /\ UNCHANGED <<pc, area, variable>>

\* write_complement stores the result; the check starts from the beginning.
WriteComplement ==
  /\ pc = "write" /\ i = AreaSize
  /\ area' = [area EXCEPT ![variable] = Complement]
  /\ i' = 0 /\ sum' = InitialSum
  /\ pc' = "check"
  /\ UNCHANGED <<variable, partial>>

ThrowIfComplementWrong ==
  /\ pc = "check" /\ i = AreaSize
  /\ pc' = IF area[ComplementIndex] = Complement THEN "ok" ELSE "thrown"
  /\ UNCHANGED <<area, variable, i, sum, partial>>

Next == AddByte \/ WriteComplement \/ ThrowIfComplementWrong

Spec == Init /\ [][Next]_checksumVars

-----------------------------------------------------------------------------
\* Type invariant.
ChecksumTypeOK ==
  /\ pc \in {"write", "check", "ok", "thrown"}
  /\ area \in [Index -> ByteRange]
  /\ variable \in VariableIndexes
  /\ i \in 0..AreaSize
  /\ sum \in ByteRange
  /\ partial \in [0..AreaSize -> ByteRange]

\* Whichever byte is chosen to make the checksum come out, and whatever the
\* header holds, the check that follows never throws: a game version that is
\* an instruction's operand is as good as the complement byte itself.
NeverThrown == pc # "thrown"

\* The sum of the first n bytes.
Total[n \in 0..AreaSize] == IF n = 0 THEN 0 ELSE Total[n - 1] + area[n - 1]

\* What the packer's own check lets pass, the GBA boots: the BIOS wants the
\* bytes of the area and the initial sum to add up to zero.
BiosAccepts == pc = "ok" => (InitialSum + Total[AreaSize]) % ByteSize = 0
=============================================================================
