-------------------------- MODULE ShrinklerDepacker --------------------------
(***************************************************************************)
(* The Thumb depacker that shrinkler_packer.cpp emits, between reset and   *)
(* the jump to the unpacked intro: one action per stretch of code between  *)
(* two labels.  getbit is one atomic step here: it may deliver either bit  *)
(* (RangeDecoder.tla models how it computes it), and what this module      *)
(* keeps of it is which halfword of the stack it uses as its context.      *)
(***************************************************************************)
EXTENDS Integers, Sequences, FiniteSets, Powers

CONSTANTS
  ByteSize,        \* number of values of a byte (256 on the GBA)
  NumContexts,     \* NUM_CONTEXTS (2048 in the code)
  LoadAddress,     \* input_file.load_address()
  InitialSp,       \* sp when the BIOS jumps to the cartridge
  UnknownOffsets,  \* values r8 (offset) may hold at reset
  RegisterBits,    \* bits of a register (32)
  MaxOutput        \* bound: bytes written by the depacker

\* `lsl #8` places a group of contexts: one for each value of a byte.
GroupSize == ByteSize
SingleBitContexts == 1

\* A result as a register keeps it.
RegisterSize == Pow2[RegisterBits]
Wrap(value) == value % RegisterSize

\* The groups getnumber is called with, and the two groups of literals.
OffsetGroupTwo == 2
OffsetGroup == 3
LengthGroup == 4
NumberGroups == {OffsetGroup, LengthGroup}
LiteralGroups == {0, 1}

\* Sizes of the two push lists, and the displacement of ldrh/strh in getbit.
GetbitFrame == 4 * 4
GetnumberFrame == 4 * 2
CtxTableOffsetNoReturn == GetbitFrame
CtxTableOffset == GetbitFrame + GetnumberFrame + 2 * SingleBitContexts

ASSUME SizesAssumption ==
  /\ ByteSize \in Nat /\ ByteSize > 2
  /\ NumContexts = 8 * ByteSize
  /\ RegisterBits \in Nat \ {0}
  /\ LoadAddress \in Nat
  /\ InitialSp \in Nat
  /\ UnknownOffsets \subseteq 0..(RegisterSize - 1)
  /\ MaxOutput \in Nat
  /\ LoadAddress + MaxOutput < RegisterSize

VARIABLES
  pc,       \* label the CPU has reached
  outp,     \* r1: output pointer; getnumber borrows it as context index
  tmp0,     \* r2
  tmp1,     \* r3: number read by getnumber, then bytes left to copy
  offset,   \* r8: offset of the last reference
  sp,
  savedSp,  \* r9
  frames,   \* what getnumber has pushed: <<outp, return label>>
  mem,      \* bytes the depacker has stored, by address
  access,   \* the last context used by getbit: its name and its address
  ones      \* history: the ones in the unary prefix of the last number

vars == <<pc, outp, tmp0, tmp1, offset, sp, savedSp, frames, mem, access, ones>>

Bit == {0, 1}
Byte == 0..(ByteSize - 1)

Labels == {"code_start", "literal", "getlit", "switch", "repeat", "readlength",
           "length_read", "copyloop", "after_reference", "readoffset",
           "offset_read", "numberloop", "bitsloop", "donedecompressing", "intro"}

-----------------------------------------------------------------------------
(* Contexts.  The encoder names a context by its group and its index; the  *)
(* repeat flag's is -1.                                                    *)

RepeatContext == [group |-> 0, index |-> -1]

Contexts ==
  {RepeatContext}
    \cup [group : LiteralGroups, index : 0..(ByteSize - 1)]
    \cup [group : NumberGroups, index : 1..(GroupSize - 1)]

\* Bottom of the stack space that the init loop fills with probabilities.
TableBase == InitialSp - 2 * NumContexts

\* Where the context table is meant to hold a context: a number context is
\* addressed from within getnumber, one frame further down the stack.
Slot(c) ==
  TableBase + CtxTableOffset - GetbitFrame + 2 * (GroupSize * c.group + c.index)
    - (IF c.group \in NumberGroups THEN GetnumberFrame ELSE 0)

NoAccess == [context |-> RepeatContext, address |-> -1]

\* x with one of its bits set: the one that is worth bit.
SetBit(x, bit) == IF (x \div bit) % 2 = 0 THEN x + bit ELSE x

\* orr of one bit of group, shifted to where groups are counted.
OrrBit(x, group, bit) ==
  IF (group \div bit) % 2 = 1 THEN SetBit(x, bit * GroupSize) ELSE x

\* bitctx.  getnumber's orr sets the bits of its group in an index that may
\* have outgrown the group; everyone else's index stays within it.
Bitctx(group, index) ==
  IF group \in NumberGroups
    THEN OrrBit(OrrBit(OrrBit(index, group, 1), group, 2), group, 4)
    ELSE GroupSize * group + index

\* getbit: after its push, it accesses the halfword at
\* sp + CTX_TABLE_OFFSET + 2 * bitctx; its pop restores all but bitctx.
Getbit(group, index) ==
  access' = [context |-> [group |-> group, index |-> index],
             address |-> (sp - GetbitFrame) + CtxTableOffset + 2 * Bitctx(group, index)]

\* The stack space that the init loop filled: neither in the frames that
\* getbit and getnumber push below it nor above the sp the BIOS left.
InTable(address) == TableBase <= address /\ address + 2 <= InitialSp

\* getbit has used, and overwritten, memory that is not the depacker's.  What
\* comes of it depends on what is there: the model ends.
Astray == access # NoAccess /\ ~InTable(access.address)

\* getkind falls through into getbit with the parity of outp as the group.
Getkind == Getbit(outp % 2, 0)

\* strb value, [outp]; add outp, 1
StoreByte(value) ==
  /\ outp - LoadAddress < MaxOutput
  /\ mem' = [a \in DOMAIN mem \cup {outp} |-> IF a = outp THEN value ELSE mem[a]]
  /\ outp' = outp + 1

\* ldrb: what was never stored may hold any byte
LoadedBytes(address) == IF address \in DOMAIN mem THEN {mem[address]} ELSE Byte

\* Mutant: getnumber_push_list without outp.
CallGetnumberLosesOutp(group, return) ==
  /\ frames' = Append(frames, <<0, return>>)
  /\ sp' = sp - GetnumberFrame
  /\ tmp0' = group
  /\ outp' = 0
  /\ ones' = 0
  /\ pc' = "numberloop"

\* bl getnumber with tmp0 = group: pushes outp and the return address
CallGetnumber(group, return) ==
  /\ frames' = Append(frames, <<outp, return>>)
  /\ sp' = sp - GetnumberFrame
  /\ tmp0' = group
  /\ outp' = 0
  /\ ones' = 0
  /\ pc' = "numberloop"

-----------------------------------------------------------------------------
Init ==
  /\ pc = "code_start"
  /\ outp = 0 /\ tmp0 = 0 /\ tmp1 = 0
  /\ offset \in UnknownOffsets
  /\ sp = InitialSp
  /\ savedSp = 0
  /\ frames = << >>
  /\ mem = << >>
  /\ access = NoAccess
  /\ ones = 0

\* Mutant: the loop runs once per four contexts.
CodeStartHalfFilled ==
  /\ pc = "code_start"
  /\ savedSp' = sp
  /\ outp' = LoadAddress
  /\ sp' = sp - 4 * (NumContexts \div 4)
  /\ pc' = "literal"
  /\ UNCHANGED <<tmp0, tmp1, offset, frames, mem, access, ones>>

\* Saves sp, points outp at the load address, and pushes NumContexts initial
\* probabilities, two per word.
CodeStart ==
  /\ pc = "code_start"
  /\ savedSp' = sp
  /\ outp' = LoadAddress
  /\ sp' = sp - 4 * (NumContexts \div 2)
  /\ pc' = "literal"
  /\ UNCHANGED <<tmp0, tmp1, offset, frames, mem, access, ones>>

Literal ==
  /\ pc = "literal"
  /\ tmp0' = 1
  /\ pc' = "getlit"
  /\ UNCHANGED <<outp, tmp1, offset, sp, savedSp, frames, mem, access, ones>>

\* Shifts bit b into tmp0, whose leading one marks a complete byte.
Getlit(b) ==
  /\ pc = "getlit"
  /\ Getbit(outp % 2, tmp0)
  /\ tmp0' = 2 * tmp0 + b
  /\ IF 2 * tmp0 + b <= ByteSize - 1
       THEN pc' = "getlit" /\ UNCHANGED <<outp, mem>>
       ELSE pc' = "switch" /\ StoreByte((2 * tmp0 + b) % ByteSize)
  /\ UNCHANGED <<tmp1, offset, sp, savedSp, frames, ones>>

Switch(b) ==
  /\ pc = "switch"
  /\ Getkind
  /\ pc' = IF b = 0 THEN "literal" ELSE "repeat"
  /\ UNCHANGED <<outp, tmp0, tmp1, offset, sp, savedSp, frames, mem, ones>>

\* A reference that follows a literal says whether it repeats the offset.
Repeat(b) ==
  /\ pc = "repeat"
  /\ Getbit(RepeatContext.group, RepeatContext.index)
  /\ pc' = IF b = 0 THEN "readoffset" ELSE "readlength"
  /\ UNCHANGED <<outp, tmp0, tmp1, offset, sp, savedSp, frames, mem, ones>>

Readlength ==
  /\ pc = "readlength"
  /\ CallGetnumber(LengthGroup, "length_read")
  /\ UNCHANGED <<tmp1, offset, savedSp, mem, access>>

LengthRead ==
  /\ pc = "length_read"
  /\ tmp0' = Wrap(-offset)
  /\ pc' = "copyloop"
  /\ UNCHANGED <<outp, tmp1, offset, sp, savedSp, frames, mem, access, ones>>

\* Mutant: the count is tested before it is decremented.
CopyloopTestsFirst ==
  /\ pc = "copyloop"
  /\ \E value \in LoadedBytes(Wrap(outp + tmp0)) : StoreByte(value)
  /\ tmp1' = Wrap(tmp1 - 1)
  /\ pc' = IF tmp1 # 0 THEN "copyloop" ELSE "after_reference"
  /\ UNCHANGED <<tmp0, offset, sp, savedSp, frames, access, ones>>

Copyloop ==
  /\ pc = "copyloop"
  /\ \E value \in LoadedBytes(Wrap(outp + tmp0)) : StoreByte(value)
  /\ tmp1' = Wrap(tmp1 - 1)
  /\ pc' = IF Wrap(tmp1 - 1) # 0 THEN "copyloop" ELSE "after_reference"
  /\ UNCHANGED <<tmp0, offset, sp, savedSp, frames, access, ones>>

\* Mutant: the label is one bit too early, as if a literal had come before.
AfterReferenceToRepeat(b) ==
  /\ pc = "after_reference"
  /\ Getkind
  /\ pc' = IF b = 0 THEN "literal" ELSE "repeat"
  /\ UNCHANGED <<outp, tmp0, tmp1, offset, sp, savedSp, frames, mem, ones>>

AfterReference(b) ==
  /\ pc = "after_reference"
  /\ Getkind
  /\ pc' = IF b = 0 THEN "literal" ELSE "readoffset"
  /\ UNCHANGED <<outp, tmp0, tmp1, offset, sp, savedSp, frames, mem, ones>>

Readoffset ==
  /\ pc = "readoffset"
  /\ CallGetnumber(OffsetGroup, "offset_read")
  /\ UNCHANGED <<tmp1, offset, savedSp, mem, access>>

\* Mutant: the number is not copied to r8.
OffsetReadNotKept ==
  /\ pc = "offset_read"
  /\ tmp1' = Wrap(tmp1 - 2)
  /\ pc' = IF Wrap(tmp1 - 2) # 0 THEN "readlength" ELSE "donedecompressing"
  /\ UNCHANGED <<outp, tmp0, offset, sp, savedSp, frames, mem, access, ones>>

\* An offset of zero is the end marker.
OffsetRead ==
  /\ pc = "offset_read"
  /\ tmp1' = Wrap(tmp1 - 2)
  /\ offset' = Wrap(tmp1 - 2)
  /\ pc' = IF Wrap(tmp1 - 2) # 0 THEN "readlength" ELSE "donedecompressing"
  /\ UNCHANGED <<outp, tmp0, sp, savedSp, frames, mem, access, ones>>

\* Mutant: `mov tmp1, 1` is missing.
NumberloopNoLeadingOne(b) ==
  /\ pc = "numberloop"
  /\ Getbit(tmp0, outp + 2)
  /\ IF b = 1
       THEN outp' = outp + 2 /\ ones' = ones + 1 /\ UNCHANGED <<pc, tmp1>>
       ELSE outp' = outp + 1 /\ pc' = "bitsloop" /\ tmp1' = 0 /\ UNCHANGED ones
  /\ UNCHANGED <<tmp0, offset, sp, savedSp, frames, mem>>

\* Unary prefix, in the even indices of the group.
Numberloop(b) ==
  /\ pc = "numberloop"
  /\ Getbit(tmp0, outp + 2)
  /\ IF b = 1
       THEN outp' = outp + 2 /\ ones' = ones + 1 /\ UNCHANGED <<pc, tmp1>>
       ELSE outp' = outp + 1 /\ pc' = "bitsloop" /\ tmp1' = 1 /\ UNCHANGED ones
  /\ UNCHANGED <<tmp0, offset, sp, savedSp, frames, mem>>

\* Mutant: the return is jumped to, and the frame stays on the stack.
BitsloopNoPop(b) ==
  /\ pc = "bitsloop"
  /\ Getbit(tmp0, outp)
  /\ tmp1' = Wrap(2 * tmp1 + b)
  /\ IF outp >= 2
       THEN outp' = outp - 2 /\ UNCHANGED <<pc, sp, frames>>
       ELSE /\ outp' = frames[Len(frames)][1]
            /\ pc' = frames[Len(frames)][2]
            /\ UNCHANGED <<sp, frames>>
  /\ UNCHANGED <<tmp0, offset, savedSp, mem, ones>>

\* Mutant: the loop runs once more than the prefix is long.
BitsloopOnceMore(b) ==
  /\ pc = "bitsloop"
  /\ Getbit(tmp0, outp)
  /\ tmp1' = Wrap(2 * tmp1 + b)
  /\ IF outp >= 0
       THEN outp' = outp - 2 /\ UNCHANGED <<pc, sp, frames>>
       ELSE /\ outp' = frames[Len(frames)][1]
            /\ pc' = frames[Len(frames)][2]
            /\ frames' = SubSeq(frames, 1, Len(frames) - 1)
            /\ sp' = sp + GetnumberFrame
  /\ UNCHANGED <<tmp0, offset, savedSp, mem, ones>>

\* As many bits of the number, in the odd indices; then the pop that returns.
Bitsloop(b) ==
  /\ pc = "bitsloop"
  /\ Getbit(tmp0, outp)
  /\ tmp1' = Wrap(2 * tmp1 + b)
  /\ IF outp >= 2
       THEN outp' = outp - 2 /\ UNCHANGED <<pc, sp, frames>>
       ELSE /\ outp' = frames[Len(frames)][1]
            /\ pc' = frames[Len(frames)][2]
            /\ frames' = SubSeq(frames, 1, Len(frames) - 1)
            /\ sp' = sp + GetnumberFrame
  /\ UNCHANGED <<tmp0, offset, savedSp, mem, ones>>

DoneDecompressing ==
  /\ pc = "donedecompressing"
  /\ sp' = savedSp
  /\ pc' = "intro"
  /\ UNCHANGED <<outp, tmp0, tmp1, offset, savedSp, frames, mem, access, ones>>

\* The steps that decode a bit, and those that do not.
BitStep(b) ==
  /\ ~Astray
  /\ \/ Getlit(b)
     \/ Switch(b)
     \/ Repeat(b)
     \/ AfterReference(b)
     \/ Numberloop(b)
     \/ Bitsloop(b)

OtherStep ==
  /\ ~Astray
  /\ \/ CodeStart
     \/ Literal
     \/ Readlength
     \/ LengthRead
     \/ Copyloop
     \/ Readoffset
     \/ OffsetRead
     \/ DoneDecompressing

Next == OtherStep \/ \E b \in Bit : BitStep(b)

Spec == Init /\ [][Next]_vars

-----------------------------------------------------------------------------
\* Type invariant: registers hold their width, outp's and sp's addresses
\* aside; the frames, and the stored bytes.
TypeOK ==
  /\ pc \in Labels
  /\ outp \in Nat
  /\ tmp0 \in Nat
  /\ tmp1 \in 0..(RegisterSize - 1)
  /\ offset \in 0..(RegisterSize - 1)
  /\ sp \in Int
  /\ savedSp \in Int
  /\ frames \in Seq(Nat \X {"length_read", "offset_read"})
  /\ DOMAIN mem \subseteq Nat
  /\ \A a \in DOMAIN mem : mem[a] \in Byte
  /\ \/ access = NoAccess
     \/ access \in [context : [group : 0..4, index : Int], address : Int]
  /\ ones \in Nat

\* getbit leaves the context table (CTX_TABLE_OFFSET, NUM_CONTEXTS) only past
\* its upper end, and only for a number whose unary prefix has come to
\* NumContexts / 4 - 1 ones (511): up to there, no bit stream makes it use its
\* own frames, the memory below them or the memory above the stack.
ContextInTable ==
  Astray =>
    /\ pc \in {"numberloop", "bitsloop"}
    /\ 4 * ones + 4 >= NumContexts
    /\ access.address >= TableBase

\* As long as no unary prefix comes to GroupSize / 2 - 1 ones (127), whatever
\* else the bits are, the halfword that getbit uses for a context is never
\* the home of another one, although number contexts are addressed from one
\* frame further down the stack (the comment's reason to skip group 2).
NoAliasing ==
  access # NoAccess /\ access.context.index < GroupSize =>
    \A c \in Contexts : c # access.context => Slot(c) # access.address

\* The pushes of getnumber are popped on every path: outside it sp is back at
\* the base of the table, and at most one frame is ever below.
StackBalanced ==
  CASE pc \in {"code_start", "intro"} -> sp = InitialSp /\ frames = << >>
    [] pc \in {"numberloop", "bitsloop"} ->
         sp = TableBase - GetnumberFrame /\ Len(frames) = 1
    [] OTHER -> sp = TableBase /\ frames = << >>

\* getnumber lends outp out as an index and must give it back: outside it the
\* bytes stored are exactly those from the load address up to outp, so no
\* byte is skipped, stored twice or stored somewhere else.
OutputContiguous ==
  pc \notin {"code_start", "numberloop", "bitsloop"} =>
    DOMAIN mem = LoadAddress..(outp - 1)

\* The copy loop decrements before it tests: with nothing to copy it would
\* run for 2^32 bytes.  It is never entered so behind a number that fits in a
\* register: a prefix of n ones announces n + 1 bits behind the leading one,
\* which is not shifted out as long as n + 1 < RegisterBits.
CopyCountPositive ==
  pc \in {"length_read", "copyloop"} /\ ones + 1 < RegisterBits => tmp1 >= 1
=============================================================================
