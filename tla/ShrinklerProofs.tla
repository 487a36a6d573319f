---------------------------- MODULE ShrinklerProofs ----------------------------
(***************************************************************************)
(* Proofs about the Shrinkler depacker, in three parts: on its own,        *)
(* whatever bits the range decoder yields; with its stack and its output   *)
(* in one memory; and fed what the encoder makes of whatever intro, where  *)
(* it reads each bit in the context it was written in and unpacks that     *)
(* intro.                                                                  *)
(***************************************************************************)
EXTENDS ShrinklerMemory, ShrinklerRoundTrip, Numbers, SequenceTheorems, TLAPS

-----------------------------------------------------------------------------
(* ShrinklerDepacker, for every size of bytes, table, registers and output. *)

InGetnumber == pc \in {"numberloop", "bitsloop"}

(* Where getbit addresses a context: while its index is within the group,  *)
(* at its slot and nowhere else; outside the table, only above it, and     *)
(* only once the unary prefix of a number has come to its limit.           *)
AccessInv ==
  access # NoAccess =>
    /\ access.context.index < GroupSize =>
         access.context \in Contexts /\ access.address = Slot(access.context)
    /\ TableBase <= access.address
    /\ \/ access.address + 2 <= InitialSp
       \/ InGetnumber /\ 4 * ones + 4 >= NumContexts

(* Outside getnumber: the table's base is on top of the stack.             *)
MainInv ==
  ~InGetnumber /\ pc # "code_start" =>
    /\ frames = << >>
    /\ sp = IF pc = "intro" THEN InitialSp ELSE TableBase
    /\ outp \in LoadAddress..(LoadAddress + MaxOutput)
    /\ DOMAIN mem = LoadAddress..(outp - 1)

(* left bits of the number are still to come, and unless it is too long,   *)
(* they fit into the register behind the bits that are there.              *)
BitsLeft(left) ==
  /\ outp = 2 * left - 1
  /\ ones + 1 < RegisterBits =>
       tmp1 >= 1 /\ (tmp1 + 1) * Pow2[left] <= Pow2[ones + 2]

(* Inside: one frame, that keeps the output pointer; outp indexes a group, *)
(* even while it counts the prefix and odd while it counts the bits.       *)
NumberInv ==
  InGetnumber =>
    /\ Len(frames) = 1
    /\ frames[1][1] \in LoadAddress..(LoadAddress + MaxOutput)
    /\ DOMAIN mem = LoadAddress..(frames[1][1] - 1)
    /\ sp = TableBase - GetnumberFrame
    /\ tmp0 \in NumberGroups
    /\ pc = "numberloop" => outp = 2 * ones
    /\ pc = "bitsloop" => \E left \in 1..(ones + 1) : BitsLeft(left)

StartInv ==
  IF pc = "code_start"
    THEN sp = InitialSp /\ frames = << >> /\ DOMAIN mem = {}
    ELSE savedSp = InitialSp

RegisterInv ==
  /\ pc = "getlit" => tmp0 \in 1..(ByteSize - 1)
  /\ pc \in {"length_read", "copyloop"} /\ ones + 1 < RegisterBits => tmp1 >= 1

IInv ==
  /\ TypeOK
  /\ AccessInv
  /\ StartInv
  /\ MainInv
  /\ NumberInv
  /\ RegisterInv

-----------------------------------------------------------------------------
(* Registers.                                                              *)

LEMMA RegisterSizes ==
  RegisterSize \in Nat /\ RegisterSize > 1 /\ LoadAddress + MaxOutput < RegisterSize
  BY SizesAssumption, PowerPositive DEF RegisterSize

LEMMA WrapRange ==
  ASSUME NEW value \in Int
  PROVE  Wrap(value) \in 0..(RegisterSize - 1)
  BY RegisterSizes DEF Wrap

(* What fits is kept.                                                      *)
LEMMA WrapFits ==
  ASSUME NEW value \in 0..(RegisterSize - 1)
  PROVE  Wrap(value) = value
  BY RegisterSizes DEF Wrap

(* Adding what neg makes of an offset goes back by it.                     *)
LEMMA BackWraps ==
  ASSUME NEW out \in Nat, out < RegisterSize, NEW back \in 1..out
  PROVE  Wrap(out + Wrap(-back)) = out - back
<1>1. RegisterSize \in Nat /\ RegisterSize > 1 /\ back \in Nat /\ 1 <= back /\ back < RegisterSize
  BY RegisterSizes
<1>2. Wrap(-back) = RegisterSize - back
  BY <1>1 DEF Wrap
<1>3. (out + (RegisterSize - back)) % RegisterSize = out - back
  BY <1>1
<1> QED BY <1>2, <1>3 DEF Wrap

LEMMA PowersInOrder ==
  ASSUME NEW m \in Nat, NEW n \in Nat, m <= n
  PROVE  Pow2[m] <= Pow2[n]
<1>1. n - m \in Nat /\ m + (n - m) = n
  OBVIOUS
<1>2. Pow2[n] = Pow2[m] * Pow2[n - m]
  BY <1>1, PowerSum
<1>3. Pow2[m] \in Nat /\ Pow2[n - m] \in Nat \ {0}
  BY <1>1, PowerPositive
<1> QED BY <1>2, <1>3

(* One bit more of a number that fits in a register.                       *)
LEMMA NextLeft ==
  ASSUME NEW t \in Nat, NEW left \in Nat \ {0}, NEW n \in Nat, NEW b \in Bit,
         t >= 1, n + 1 < RegisterBits, (t + 1) * Pow2[left] <= Pow2[n + 2]
  PROVE  /\ Wrap(2 * t + b) = 2 * t + b
         /\ (2 * t + b + 1) * Pow2[left - 1] <= Pow2[n + 2]
<1> DEFINE p == Pow2[left - 1]
<1> DEFINE limit == Pow2[n + 2]
<1>1. p \in Nat \ {0} /\ Pow2[left] = 2 * p
  <2>1. left - 1 \in Nat /\ (left - 1) + 1 = left
    OBVIOUS
  <2> QED BY <2>1, PowerPositive, PowersOfTwo
<1>2. limit \in Nat /\ limit <= RegisterSize
  <2>1. n + 2 \in Nat /\ RegisterBits \in Nat /\ n + 2 <= RegisterBits
    BY SizesAssumption
  <2> QED BY <2>1, PowersInOrder, PowersOfTwo DEF RegisterSize
<1>3. (t + 1) * (2 * p) <= limit
  BY <1>1
<1> HIDE DEF p, limit
<1> DEFINE next == 2 * t + b + 1
<1>4. next \in Nat /\ next <= 2 * t + 2
  BY DEF Bit
<1>5. next * p <= (2 * t + 2) * p
  <2> HIDE DEF next
  <2> QED BY <1>1, <1>4
<1>6. (2 * t + 2) * p = (t + 1) * (2 * p)
  BY <1>1
<1>7. next <= next * p
  <2> HIDE DEF next
  <2> QED BY <1>1, <1>4
<1>8. next * p <= limit /\ next <= limit
  <2> HIDE DEF next
  <2> DEFINE after == next * p
  <2> DEFINE most == (2 * t + 2) * p
  <2>1. after \in Nat /\ most \in Nat
    BY <1>1, <1>4
  <2>2. after <= most /\ most <= limit /\ next <= after
    BY <1>3, <1>5, <1>6, <1>7
  <2> HIDE DEF after, most
  <2>3. after <= limit /\ next <= limit
    BY ONLY <1>2, <1>4, <2>1, <2>2
  <2> QED BY <2>3 DEF after
<1>9. 2 * t + b \in 0..(RegisterSize - 1)
  BY <1>2, <1>8, RegisterSizes DEF Bit
<1> QED BY <1>8, <1>9, WrapFits DEF p, limit

-----------------------------------------------------------------------------
(* Contexts and where they are.                                            *)

(* Every slot lies in the space that the init loop fills: CTX_TABLE_OFFSET *)
(* leaves room for the repeat flag, and the table for the last number.     *)
LEMMA SlotInTable ==
  ASSUME NEW c \in Contexts
  PROVE  /\ TableBase <= Slot(c)
         /\ Slot(c) + 2 <= InitialSp
  BY SizesAssumption
     DEF Contexts, RepeatContext, Slot, TableBase, CtxTableOffset, GetbitFrame,
         GetnumberFrame, SingleBitContexts, GroupSize, LiteralGroups,
         NumberGroups, OffsetGroup, LengthGroup

(* Two contexts never share a slot: the frame that getnumber adds moves    *)
(* its groups down by four halfwords, into the group that is skipped.      *)
LEMMA SlotInjective ==
  ASSUME NEW c \in Contexts, NEW d \in Contexts, Slot(c) = Slot(d)
  PROVE  c = d
  BY SizesAssumption
     DEF Contexts, RepeatContext, Slot, TableBase, CtxTableOffset, GetbitFrame,
         GetnumberFrame, SingleBitContexts, GroupSize, LiteralGroups,
         NumberGroups, OffsetGroup, LengthGroup

(* A bit beyond x can be set by adding it, any bit by adding it or nothing. *)
LEMMA SetBitAdds ==
  ASSUME NEW x \in Nat, NEW bit \in Nat \ {0}
  PROVE  /\ SetBit(x, bit) \in Nat
         /\ x <= SetBit(x, bit) /\ SetBit(x, bit) <= x + bit
         /\ x < bit => SetBit(x, bit) = x + bit
<1>1. x < bit => (x \div bit) % 2 = 0
  <2> SUFFICES ASSUME x < bit PROVE (x \div bit) % 2 = 0
    OBVIOUS
  <2>1. x \div bit = 0
    <3>1. 0 * bit <= x /\ x < 0 * bit + bit
      OBVIOUS
    <3> QED BY <3>1, QuotientUnique
  <2> QED BY <2>1
<1> QED BY <1>1 DEF SetBit

(* getnumber's orr is a sum while the index stays within the group, and    *)
(* never more than one.                                                    *)
LEMMA BitctxSetsBits ==
  ASSUME NEW group \in NumberGroups, NEW index \in Nat
  PROVE  /\ group = 3 \/ group = 4
         /\ group = 3 => Bitctx(group, index) = SetBit(SetBit(index, GroupSize), 2 * GroupSize)
         /\ group = 4 => Bitctx(group, index) = SetBit(index, 4 * GroupSize)
<1>1. /\ (3 \div 1) % 2 = 1 /\ (3 \div 2) % 2 = 1 /\ (3 \div 4) % 2 = 0
      /\ (4 \div 1) % 2 = 0 /\ (4 \div 2) % 2 = 0 /\ (4 \div 4) % 2 = 1
  OBVIOUS
<1>2. 1 * GroupSize = GroupSize
  BY SizesAssumption DEF GroupSize
<1>3. group = 3 \/ group = 4
  BY DEF NumberGroups, OffsetGroup, LengthGroup
<1>4. CASE group = 3
  <2>1. \A x : /\ OrrBit(x, group, 1) = SetBit(x, GroupSize)
               /\ OrrBit(x, group, 2) = SetBit(x, 2 * GroupSize)
               /\ OrrBit(x, group, 4) = x
    BY <1>1, <1>2, <1>4 DEF OrrBit
  <2> QED BY <1>4, <2>1 DEF Bitctx
<1>5. CASE group = 4
  <2>1. \A x : /\ OrrBit(x, group, 1) = x
               /\ OrrBit(x, group, 2) = x
               /\ OrrBit(x, group, 4) = SetBit(x, 4 * GroupSize)
    BY <1>1, <1>5 DEF OrrBit
  <2> QED BY <1>5, <2>1 DEF Bitctx
<1> QED BY <1>3, <1>4, <1>5

LEMMA NumberBitctx ==
  ASSUME NEW group \in NumberGroups, NEW index \in Nat
  PROVE  /\ Bitctx(group, index) \in Nat
         /\ Bitctx(group, index) <= GroupSize * group + index
         /\ index < GroupSize => Bitctx(group, index) = GroupSize * group + index
<1>1. /\ GroupSize \in Nat \ {0} /\ 2 * GroupSize \in Nat \ {0} /\ 4 * GroupSize \in Nat \ {0}
  BY SizesAssumption DEF GroupSize
<1> DEFINE first == SetBit(index, GroupSize)
<1>2. CASE group = 3
  <2>1. /\ first \in Nat /\ first <= index + GroupSize
        /\ index < GroupSize => first = index + GroupSize
    BY <1>1, SetBitAdds
  <2> HIDE DEF first
  <2>2. /\ SetBit(first, 2 * GroupSize) \in Nat
        /\ SetBit(first, 2 * GroupSize) <= first + 2 * GroupSize
        /\ first < 2 * GroupSize => SetBit(first, 2 * GroupSize) = first + 2 * GroupSize
    BY <1>1, <2>1, SetBitAdds
  <2>3. Bitctx(group, index) = SetBit(first, 2 * GroupSize) /\ group = 3
    BY <1>2, BitctxSetsBits DEF first
  <2> QED BY <1>1, <2>1, <2>2, <2>3
<1>3. CASE group = 4
  <2>1. /\ SetBit(index, 4 * GroupSize) \in Nat
        /\ SetBit(index, 4 * GroupSize) <= index + 4 * GroupSize
        /\ index < 4 * GroupSize => SetBit(index, 4 * GroupSize) = index + 4 * GroupSize
    BY <1>1, SetBitAdds
  <2>2. Bitctx(group, index) = SetBit(index, 4 * GroupSize) /\ group = 4
    BY <1>3, BitctxSetsBits
  <2> QED BY <1>1, <2>1, <2>2
<1> QED BY <1>2, <1>3, BitctxSetsBits

LEMMA ContextBitctx ==
  ASSUME NEW group, NEW index, [group |-> group, index |-> index] \in Contexts
  PROVE  /\ group \in 0..4 /\ index \in Int /\ index < GroupSize
         /\ Bitctx(group, index) = GroupSize * group + index
<1> DEFINE c == [group |-> group, index |-> index]
<1>1. c.group = group /\ c.index = index
  OBVIOUS
<1>2. \/ group = 0 /\ index = -1
      \/ group \in {0, 1} /\ index \in 0..(ByteSize - 1)
      \/ group \in {3, 4} /\ index \in 1..(GroupSize - 1)
  BY <1>1 DEF Contexts, RepeatContext, LiteralGroups, NumberGroups, OffsetGroup, LengthGroup
<1>3. GroupSize \in Nat \ {0} /\ ByteSize = GroupSize
  BY SizesAssumption DEF GroupSize
<1>4. CASE group \in {3, 4} /\ index \in 1..(GroupSize - 1)
  <2>1. group \in NumberGroups /\ index \in Nat /\ index < GroupSize
    BY <1>3, <1>4 DEF NumberGroups, OffsetGroup, LengthGroup
  <2>2. Bitctx(group, index) = GroupSize * group + index
    BY <2>1, NumberBitctx
  <2> QED BY <1>4, <2>1, <2>2
<1>5. CASE group \in {0, 1} /\ index \in -1..(GroupSize - 1)
  BY <1>3, <1>5 DEF Bitctx, NumberGroups, OffsetGroup, LengthGroup
<1> QED BY <1>2, <1>3, <1>4, <1>5

(* A call of getbit from outside getnumber, and one from within, access    *)
(* the slot of the context they name.                                      *)
LEMMA GetbitAddress ==
  ASSUME NEW group, NEW index, Getbit(group, index),
         [group |-> group, index |-> index] \in Contexts,
         sp = TableBase - (IF group \in NumberGroups THEN GetnumberFrame ELSE 0)
  PROVE  LET c == [group |-> group, index |-> index]
         IN  access' = [context |-> c, address |-> Slot(c)] /\ Slot(c) \in Int
<1> DEFINE c == [group |-> group, index |-> index]
<1>1. /\ c.group = group /\ c.index = index /\ group \in Int /\ index \in Int
      /\ Bitctx(group, index) = GroupSize * group + index
  BY ContextBitctx
<1>2. Slot(c) = (sp - GetbitFrame) + CtxTableOffset + 2 * (GroupSize * group + index)
  BY <1>1, SizesAssumption
     DEF Slot, TableBase, CtxTableOffset, GetbitFrame, GetnumberFrame,
         SingleBitContexts, GroupSize
<1>3. Slot(c) \in Int
  BY SizesAssumption
     DEF Contexts, RepeatContext, Slot, TableBase, CtxTableOffset, GetbitFrame,
         GetnumberFrame, SingleBitContexts, GroupSize, LiteralGroups,
         NumberGroups, OffsetGroup, LengthGroup
<1> QED BY <1>1, <1>2, <1>3 DEF Getbit

AccessType == [context : [group : 0..4, index : Int], address : Int]

LEMMA GetbitAtSlot ==
  ASSUME NEW group, NEW index, Getbit(group, index),
         [group |-> group, index |-> index] \in Contexts,
         sp = TableBase - (IF group \in NumberGroups THEN GetnumberFrame ELSE 0)
  PROVE  AccessInv' /\ access' \in AccessType
<1> DEFINE c == [group |-> group, index |-> index]
<1>1. access' = [context |-> c, address |-> Slot(c)] /\ Slot(c) \in Int
  BY GetbitAddress
<1>2. c \in Contexts /\ c \in [group : 0..4, index : Int]
  BY ContextBitctx
<1>3. TableBase <= Slot(c) /\ Slot(c) + 2 <= InitialSp
  BY <1>2, SlotInTable
<1> HIDE DEF c
<1>4. access'.context = c /\ access'.address = Slot(c)
  BY <1>1
<1>5. AccessInv'
  BY <1>2, <1>3, <1>4 DEF AccessInv, Slot, TableBase, Contexts
<1> QED BY <1>1, <1>2, <1>5 DEF AccessType

(* A call from within getnumber, whatever the index has grown to.          *)
LEMMA GetbitOfNumber ==
  ASSUME NEW group \in NumberGroups, NEW index \in Nat \ {0}, Getbit(group, index),
         sp = TableBase - GetnumberFrame,
         4 * GroupSize - 1 <= index =>
           pc' \in {"numberloop", "bitsloop"} /\ 4 * ones' + 4 >= NumContexts
  PROVE  AccessInv' /\ access' \in AccessType
<1> DEFINE c == [group |-> group, index |-> index]
<1>1. group \in {3, 4} /\ GroupSize \in Nat /\ GroupSize > 2 /\ NumContexts = 8 * GroupSize
  BY SizesAssumption DEF NumberGroups, OffsetGroup, LengthGroup, GroupSize
<1>2. CASE index < GroupSize
  <2>1. c \in Contexts
    BY <1>2, <1>1 DEF Contexts
  <2>2. sp = TableBase - (IF group \in NumberGroups THEN GetnumberFrame ELSE 0)
    OBVIOUS
  <2> QED BY <2>1, <2>2, GetbitAtSlot
<1>3. CASE ~(index < GroupSize)
  <2> DEFINE ctx == Bitctx(group, index)
  <2> DEFINE address == (sp - GetbitFrame) + CtxTableOffset + 2 * ctx
  <2>1. ctx \in Nat /\ ctx <= GroupSize * group + index
    BY NumberBitctx
  <2> HIDE DEF ctx
  <2>2. TableBase \in Int /\ TableBase = InitialSp - 2 * NumContexts /\ InitialSp \in Int
    BY SizesAssumption DEF TableBase
  <2>3. address = TableBase + 2 + 2 * ctx
    BY <2>1, <2>2 DEF GetbitFrame, GetnumberFrame, CtxTableOffset, SingleBitContexts
  <2> HIDE DEF address
  <2>4. address \in Int /\ TableBase <= address
    BY <2>1, <2>2, <2>3
  <2>5. index < 4 * GroupSize - 1 => address + 2 <= InitialSp
    <3> SUFFICES ASSUME index < 4 * GroupSize - 1
                 PROVE  address + 2 <= InitialSp
      OBVIOUS
    <3>1. GroupSize * group <= 4 * GroupSize /\ GroupSize * group \in Nat
      BY <1>1
    <3>2. ctx <= NumContexts - 2
      BY <1>1, <2>1, <3>1
    <3> QED BY <1>1, <2>1, <2>2, <2>3, <3>2
  <2>6. access' = [context |-> c, address |-> address]
    BY DEF Getbit, ctx, address
  <2>7. c.index = index /\ c \in [group : 0..4, index : Int]
    BY <1>1
  <2> HIDE DEF c
  <2>8. access'.context = c /\ access'.address = address
    BY <2>6
  <2>9. access'.address + 2 <= InitialSp \/ (InGetnumber' /\ 4 * ones' + 4 >= NumContexts)
    BY <1>1, <2>5, <2>8 DEF InGetnumber
  <2>10. AccessInv'
    BY <1>3, <2>4, <2>7, <2>8, <2>9 DEF AccessInv, TableBase
  <2> QED BY <2>4, <2>6, <2>7, <2>10 DEF AccessType
<1> QED BY <1>2, <1>3

LEMMA InitEstablishes ==
  Init => IInv
<1> SUFFICES ASSUME Init PROVE IInv
  OBVIOUS
<1>1. 0 \in 0..(RegisterSize - 1)
  BY RegisterSizes
<1> QED
  BY <1>1, SizesAssumption
  DEF Init, IInv, TypeOK, AccessInv, StartInv, MainInv, NumberInv,
      RegisterInv, InGetnumber, Labels, NoAccess

(* strb extends the stored bytes by one at their end.                      *)
LEMMA StoreExtends ==
  ASSUME TypeOK, outp >= LoadAddress, DOMAIN mem = LoadAddress..(outp - 1),
         NEW value \in Byte, StoreByte(value)
  PROVE  /\ outp' \in Nat
         /\ outp' \in LoadAddress..(LoadAddress + MaxOutput)
         /\ DOMAIN mem' = LoadAddress..(outp' - 1)
         /\ DOMAIN mem' \subseteq Nat
         /\ \A a \in DOMAIN mem' : mem'[a] \in Byte
<1>1. DOMAIN mem' = DOMAIN mem \cup {outp}
  BY DEF StoreByte
<1>2. DOMAIN mem' = LoadAddress..(outp' - 1)
  BY <1>1, SizesAssumption DEF StoreByte, TypeOK
<1>3. \A a \in DOMAIN mem' : mem'[a] \in Byte
  BY <1>1 DEF StoreByte, TypeOK
<1> QED BY <1>2, <1>3, SizesAssumption DEF StoreByte, TypeOK

(* One frame pushed on an empty stack, and popped from it.                 *)
LEMMA PushFrame ==
  ASSUME NEW S, NEW frame \in S
  PROVE  /\ Append(<< >>, frame) = <<frame>>
         /\ <<frame>> \in Seq(S)
  OBVIOUS

LEMMA PopFrame ==
  ASSUME NEW S, NEW stack \in Seq(S), Len(stack) = 1
  PROVE  /\ stack[Len(stack)] = stack[1]
         /\ stack[1] \in S
         /\ SubSeq(stack, 1, Len(stack) - 1) = << >>
<1>1. SubSeq(stack, 1, 0) = << >>
  BY SMT
<1> QED BY <1>1

(* What AccessInv says is kept outside getnumber, whatever else happens.   *)
LEMMA AccessKept ==
  ASSUME AccessInv, ~InGetnumber, UNCHANGED access
  PROVE  AccessInv'
  BY DEF AccessInv, Slot, TableBase

(* A call of getnumber establishes what its loops rely on.                 *)
LEMMA CallEstablishes ==
  ASSUME IInv, ~InGetnumber, pc \notin {"code_start", "intro"},
         NEW group \in NumberGroups, NEW return \in {"length_read", "offset_read"},
         CallGetnumber(group, return),
         UNCHANGED <<tmp1, offset, savedSp, mem, access>>
  PROVE  IInv'
<1> DEFINE Frame == Nat \X {"length_read", "offset_read"}
<1>1. frames' = << <<outp, return>> >> /\ frames' \in Seq(Frame)
  <2>1. <<outp, return>> \in Frame
    BY DEF IInv, TypeOK
  <2>2. frames' = Append(<< >>, <<outp, return>>)
    BY DEF CallGetnumber, IInv, MainInv
  <2> HIDE DEF Frame
  <2> QED BY <2>1, <2>2, PushFrame
<1>2. frames'[1][1] = outp /\ Len(frames') = 1
  BY <1>1
<1>3. TypeOK'
  BY <1>1, SizesAssumption
     DEF CallGetnumber, IInv, TypeOK, Labels, NumberGroups, OffsetGroup,
         LengthGroup, GetnumberFrame
<1>4. NumberInv'
  BY <1>1, <1>2, SizesAssumption
     DEF CallGetnumber, IInv, TypeOK, MainInv, NumberInv, InGetnumber, TableBase
<1>5. AccessInv'
  BY AccessKept DEF IInv
<1>6. StartInv' /\ MainInv' /\ RegisterInv'
  BY DEF IInv, StartInv, MainInv, RegisterInv, InGetnumber, CallGetnumber
<1> QED BY <1>3, <1>4, <1>5, <1>6 DEF IInv

(* What a bit outside getnumber leaves to be shown.                        *)
LEMMA BitOutside ==
  ASSUME IInv, ~InGetnumber, pc \notin {"code_start", "intro"},
         NEW group, NEW index, Getbit(group, index),
         [group |-> group, index |-> index] \in Contexts, group \notin NumberGroups
  PROVE  AccessInv' /\ access' \in AccessType
<1>1. sp = TableBase
  BY DEF IInv, MainInv
<1>2. sp = TableBase - (IF group \in NumberGroups THEN GetnumberFrame ELSE 0)
  BY <1>1, SizesAssumption DEF TableBase
<1> QED BY <1>2, GetbitAtSlot

LEMMA StepPreserves ==
  IInv /\ [Next]_vars => IInv'
<1> SUFFICES ASSUME IInv, [Next]_vars
             PROVE  IInv'
  OBVIOUS
<1> USE SizesAssumption
<1>1. CASE CodeStart
  <2>1. DOMAIN mem' = LoadAddress..(outp' - 1)
    BY <1>1 DEF CodeStart, IInv, StartInv
  <2>2. sp' = TableBase /\ sp' \in Int
    BY <1>1 DEF CodeStart, IInv, StartInv, TableBase
  <2>3. TypeOK'
    BY <1>1, <2>2 DEF CodeStart, IInv, TypeOK, Labels
  <2>4. StartInv' /\ MainInv'
    BY <1>1, <2>1, <2>2 DEF CodeStart, IInv, StartInv, MainInv, InGetnumber, TypeOK
  <2>5. AccessInv'
    BY <1>1, AccessKept DEF CodeStart, IInv, InGetnumber
  <2>6. NumberInv' /\ RegisterInv'
    BY <1>1 DEF CodeStart, IInv, NumberInv, RegisterInv, InGetnumber
  <2> QED BY <2>3, <2>4, <2>5, <2>6 DEF IInv
<1>2. CASE Literal
  <2>1. TypeOK'
    BY <1>2 DEF Literal, IInv, TypeOK, Labels
  <2>2. AccessInv' /\ StartInv'
    BY <1>2, AccessKept DEF Literal, IInv, TypeOK, StartInv, InGetnumber
  <2>3. MainInv'
    BY <1>2 DEF Literal, IInv, TypeOK, MainInv, InGetnumber
  <2>4. NumberInv' /\ RegisterInv'
    BY <1>2 DEF Literal, IInv, TypeOK, NumberInv, RegisterInv, InGetnumber
  <2> QED BY <2>1, <2>2, <2>3, <2>4 DEF IInv
<1>3. CASE Readlength
  BY <1>3, CallEstablishes DEF Readlength, NumberGroups, InGetnumber
<1>4. CASE LengthRead
  <2>0. tmp0' \in Nat
    <3>0. -offset \in Int
      BY RegisterSizes DEF IInv, TypeOK
    <3>1. Wrap(-offset) \in 0..(RegisterSize - 1)
      BY <3>0, WrapRange
    <3> QED BY <1>4, <3>1, RegisterSizes DEF LengthRead
  <2>1. TypeOK'
    BY <1>4, <2>0 DEF LengthRead, IInv, TypeOK, Labels
  <2>2. AccessInv' /\ StartInv'
    BY <1>4, AccessKept DEF LengthRead, IInv, TypeOK, StartInv, InGetnumber
  <2>3. MainInv'
    BY <1>4 DEF LengthRead, IInv, TypeOK, MainInv, InGetnumber
  <2>4. NumberInv' /\ RegisterInv'
    BY <1>4 DEF LengthRead, IInv, TypeOK, NumberInv, RegisterInv, InGetnumber
  <2> QED BY <2>1, <2>2, <2>3, <2>4 DEF IInv
<1>5. CASE Copyloop
  <2>1. PICK value \in LoadedBytes(Wrap(outp + tmp0)) : StoreByte(value)
    BY <1>5 DEF Copyloop
  <2>2. value \in Byte
    BY <2>1 DEF LoadedBytes, IInv, TypeOK
  <2>3. /\ outp' \in Nat
        /\ outp' \in LoadAddress..(LoadAddress + MaxOutput)
        /\ DOMAIN mem' = LoadAddress..(outp' - 1)
        /\ DOMAIN mem' \subseteq Nat
        /\ \A a \in DOMAIN mem' : mem'[a] \in Byte
    BY <1>5, <2>1, <2>2, StoreExtends DEF Copyloop, IInv, MainInv, InGetnumber
  <2>4. TypeOK' /\ RegisterInv'
    <3>0. Wrap(tmp1 - 1) \in 0..(RegisterSize - 1)
      <4>1. tmp1 - 1 \in Int
        BY RegisterSizes DEF IInv, TypeOK
      <4> QED BY <4>1, WrapRange
    <3>1. /\ tmp1' \in 0..(RegisterSize - 1)
          /\ pc' \in {"copyloop", "after_reference"}
          /\ pc' = "copyloop" => tmp1' >= 1
      BY <1>5, <3>0, RegisterSizes DEF Copyloop
    <3>2. UNCHANGED <<tmp0, offset, sp, savedSp, frames, access, ones>>
      BY <1>5 DEF Copyloop
    <3> QED BY <2>3, <3>1, <3>2 DEF IInv, TypeOK, RegisterInv, Labels
  <2>5. StartInv' /\ MainInv' /\ NumberInv'
    BY <1>5, <2>3 DEF Copyloop, IInv, StartInv, MainInv, NumberInv, InGetnumber
  <2>6. AccessInv'
    BY <1>5, AccessKept DEF Copyloop, IInv, InGetnumber
  <2> QED BY <2>4, <2>5, <2>6 DEF IInv
<1>6. CASE Readoffset
  BY <1>6, CallEstablishes DEF Readoffset, NumberGroups, InGetnumber
<1>7. CASE OffsetRead
  <2>0. Wrap(tmp1 - 2) \in 0..(RegisterSize - 1)
    <3>1. tmp1 - 2 \in Int
      BY RegisterSizes DEF IInv, TypeOK
    <3> QED BY <3>1, WrapRange
  <2>1. TypeOK'
    BY <1>7, <2>0 DEF OffsetRead, IInv, TypeOK, Labels
  <2>2. StartInv' /\ MainInv' /\ NumberInv' /\ RegisterInv'
    BY <1>7 DEF OffsetRead, IInv, StartInv, MainInv, NumberInv, RegisterInv, InGetnumber
  <2>3. AccessInv'
    BY <1>7, AccessKept DEF OffsetRead, IInv, InGetnumber
  <2> QED BY <2>1, <2>2, <2>3 DEF IInv
<1>8. CASE DoneDecompressing
  <2>1. AccessInv'
    BY <1>8, AccessKept DEF DoneDecompressing, IInv, InGetnumber
  <2> QED
    BY <1>8, <2>1 DEF DoneDecompressing, IInv, TypeOK, StartInv, MainInv, NumberInv, RegisterInv, InGetnumber, Labels
<1>9. ASSUME NEW b \in Bit, Getlit(b)
      PROVE  IInv'
  <2>1. [group |-> outp % 2, index |-> tmp0] \in Contexts
    <3>1. pc = "getlit"
      BY <1>9 DEF Getlit
    <3>2. outp % 2 \in LiteralGroups /\ tmp0 \in 0..(ByteSize - 1)
      BY <3>1 DEF LiteralGroups, IInv, TypeOK, RegisterInv
    <3> QED BY <3>2 DEF Contexts
  <2>2. AccessInv' /\ access' \in AccessType
    BY <1>9, <2>1, BitOutside
       DEF Getlit, IInv, TypeOK, InGetnumber, NumberGroups, OffsetGroup, LengthGroup
  <2>3. CASE 2 * tmp0 + b <= ByteSize - 1
    BY <1>9, <2>2, <2>3 DEF Getlit, Bit, IInv, TypeOK, AccessType, StartInv, MainInv, NumberInv, RegisterInv, InGetnumber, Labels
  <2>4. CASE ~(2 * tmp0 + b <= ByteSize - 1)
    <3>1. (2 * tmp0 + b) % ByteSize \in Byte
      BY <1>9 DEF Getlit, IInv, TypeOK, Byte, Bit
    <3>2. /\ outp' \in Nat
          /\ outp' \in LoadAddress..(LoadAddress + MaxOutput)
          /\ DOMAIN mem' = LoadAddress..(outp' - 1)
          /\ DOMAIN mem' \subseteq Nat
          /\ \A a \in DOMAIN mem' : mem'[a] \in Byte
      BY <1>9, <2>4, <3>1, StoreExtends DEF Getlit, IInv, MainInv, InGetnumber
    <3>3. tmp0' \in Nat /\ pc' = "switch"
      BY <1>9, <2>4 DEF Getlit, Bit, IInv, TypeOK
    <3>4. UNCHANGED <<tmp1, offset, sp, savedSp, frames, ones>>
      BY <1>9 DEF Getlit
    <3>5. TypeOK' /\ RegisterInv'
      BY <2>2, <3>2, <3>3, <3>4 DEF IInv, TypeOK, AccessType, RegisterInv, Labels
    <3>6. StartInv' /\ MainInv' /\ NumberInv'
      BY <1>9, <2>4, <3>2 DEF Getlit, IInv, StartInv, MainInv, NumberInv, InGetnumber
    <3> QED BY <2>2, <3>5, <3>6 DEF IInv
  <2> QED BY <2>3, <2>4
<1>10. ASSUME NEW b \in Bit, Switch(b) \/ AfterReference(b)
       PROVE  IInv'
  <2>0. /\ pc \in {"switch", "after_reference"} /\ Getkind
        /\ pc' \in {"literal", "repeat", "readoffset"}
        /\ UNCHANGED <<outp, tmp0, tmp1, offset, sp, savedSp, frames, mem, ones>>
    BY <1>10 DEF Switch, AfterReference
  <2>1. [group |-> outp % 2, index |-> 0] \in Contexts
    <3>1. outp % 2 \in LiteralGroups /\ 0 \in 0..(ByteSize - 1)
      BY DEF LiteralGroups, IInv, TypeOK
    <3> QED BY <3>1 DEF Contexts
  <2>2. outp % 2 # OffsetGroup /\ outp % 2 # LengthGroup
    BY DEF OffsetGroup, LengthGroup, IInv, TypeOK
  <2>3. AccessInv' /\ access' \in AccessType
    BY <2>0, <2>1, <2>2, BitOutside
       DEF Getkind, IInv, TypeOK, InGetnumber, NumberGroups
  <2>4. TypeOK' /\ RegisterInv'
    BY <2>0, <2>3 DEF IInv, TypeOK, AccessType, RegisterInv, Labels
  <2>5. StartInv' /\ MainInv' /\ NumberInv'
    BY <2>0 DEF IInv, StartInv, MainInv, NumberInv, InGetnumber
  <2> QED BY <2>3, <2>4, <2>5 DEF IInv
<1>11. ASSUME NEW b \in Bit, Repeat(b)
       PROVE  IInv'
  <2>1. AccessInv' /\ access' \in AccessType
    BY <1>11, BitOutside
       DEF Repeat, RepeatContext, Contexts, InGetnumber, NumberGroups, OffsetGroup, LengthGroup
  <2> QED
    BY <1>11, <2>1 DEF Repeat, IInv, TypeOK, AccessType, StartInv, MainInv, NumberInv, RegisterInv, InGetnumber, Labels
<1>12. ASSUME NEW b \in Bit, Numberloop(b)
       PROVE  IInv'
  <2>1. /\ pc = "numberloop" /\ outp = 2 * ones /\ ones \in Nat /\ tmp0 \in NumberGroups
        /\ sp = TableBase - GetnumberFrame /\ Getbit(tmp0, outp + 2)
    BY <1>12 DEF Numberloop, IInv, TypeOK, NumberInv, InGetnumber
  <2>2. pc' \in {"numberloop", "bitsloop"} /\ ones' \in Nat /\ ones' >= ones
    BY <1>12, <2>1 DEF Numberloop
  <2>3. AccessInv' /\ access' \in AccessType
    <3>1. outp + 2 \in Nat \ {0}
      BY <2>1
    <3>2. 4 * GroupSize - 1 <= outp + 2 => 4 * ones' + 4 >= NumContexts
      <4>1. \A g, n, m \in Nat : 4 * g - 1 <= 2 * n + 2 /\ m >= n => 4 * m + 4 >= 8 * g
        OBVIOUS
      <4>2. GroupSize \in Nat /\ NumContexts = 8 * GroupSize /\ outp + 2 = 2 * ones + 2
        BY <2>1 DEF GroupSize
      <4> QED BY <2>1, <2>2, <4>1, <4>2
    <3> QED BY <2>1, <2>2, <3>1, <3>2, GetbitOfNumber
  <2>4. CASE b = 1
    <3>1. /\ pc' = "numberloop" /\ outp' = outp + 2 /\ ones' = ones + 1
          /\ UNCHANGED <<tmp0, tmp1, offset, frames, mem, sp, savedSp>>
      BY <1>12, <2>1, <2>4 DEF Numberloop
    <3>2. TypeOK' /\ RegisterInv'
      BY <2>1, <2>3, <3>1 DEF IInv, TypeOK, AccessType, RegisterInv, Labels
    <3>3. StartInv' /\ MainInv' /\ NumberInv'
      BY <2>1, <3>1 DEF IInv, TypeOK, StartInv, MainInv, NumberInv, InGetnumber, TableBase
    <3> QED BY <2>3, <3>2, <3>3 DEF IInv
  <2>5. CASE b # 1
    <3>1. /\ pc' = "bitsloop" /\ outp' = outp + 1 /\ ones' = ones /\ tmp1' = 1
          /\ UNCHANGED <<tmp0, offset, frames, mem, sp, savedSp>>
      BY <1>12, <2>5 DEF Numberloop
    <3>2. BitsLeft(ones + 1)'
      <4>1. Pow2[(ones + 1) + 1] = 2 * Pow2[ones + 1] /\ (ones + 1) + 1 = ones + 2
        BY <2>1, PowersOfTwo
      <4>2. outp' = 2 * (ones + 1) - 1 /\ tmp1' = 1 /\ ones' = ones
        BY <2>1, <3>1
      <4>3. BitsLeft(ones + 1)' <=>
              /\ outp' = 2 * (ones' + 1) - 1
              /\ ones' + 1 < RegisterBits =>
                   tmp1' >= 1 /\ (tmp1' + 1) * Pow2[ones' + 1] <= Pow2[ones' + 2]
        BY DEF BitsLeft
      <4>4. Pow2[ones + 1] \in Nat /\ Pow2[ones + 2] \in Nat
        BY <2>1, PowersOfTwo
      <4> QED BY <4>1, <4>2, <4>3, <4>4
    <3>3. ones' + 1 \in 1..(ones' + 1) /\ BitsLeft(ones + 1)'
      BY <2>1, <3>1, <3>2
    <3>4. \E left \in 1..(ones' + 1) : BitsLeft(left)'
      BY <3>3, <3>1
    <3>5. TypeOK' /\ RegisterInv'
      <4>1. 1 \in 0..(RegisterSize - 1)
        BY RegisterSizes
      <4> QED BY <2>1, <2>3, <3>1, <4>1 DEF IInv, TypeOK, AccessType, RegisterInv, Labels
    <3>6. StartInv' /\ MainInv' /\ NumberInv'
      BY <2>1, <3>1, <3>4 DEF IInv, TypeOK, StartInv, MainInv, NumberInv, InGetnumber, TableBase
    <3> QED BY <2>3, <3>5, <3>6 DEF IInv
  <2> QED BY <2>4, <2>5
<1>13. ASSUME NEW b \in Bit, Bitsloop(b)
       PROVE  IInv'
  <2> DEFINE Frame == Nat \X {"length_read", "offset_read"}
  <2>1. /\ pc = "bitsloop" /\ ones \in Nat /\ tmp0 \in NumberGroups /\ tmp1 \in Nat
        /\ sp = TableBase - GetnumberFrame /\ Getbit(tmp0, outp)
        /\ frames \in Seq(Frame) /\ Len(frames) = 1 /\ ones' = ones
        /\ tmp1' = Wrap(2 * tmp1 + b) /\ UNCHANGED <<tmp0, offset, savedSp, mem>>
    BY <1>13 DEF Bitsloop, IInv, TypeOK, NumberInv, InGetnumber
  <2>2. PICK left \in 1..(ones + 1) : BitsLeft(left)
    BY <2>1 DEF IInv, NumberInv, InGetnumber
  <2>3. /\ left \in Nat \ {0} /\ left <= ones + 1 /\ outp = 2 * left - 1
        /\ outp >= 2 <=> left # 1
    BY <2>1, <2>2 DEF BitsLeft
  <2>4. tmp1' \in 0..(RegisterSize - 1)
    BY <2>1, WrapRange DEF Bit
  <2>5. ones + 1 < RegisterBits =>
          tmp1' >= 1 /\ (tmp1' + 1) * Pow2[left - 1] <= Pow2[ones + 2]
    <3> SUFFICES ASSUME ones + 1 < RegisterBits
                 PROVE  tmp1' >= 1 /\ (tmp1' + 1) * Pow2[left - 1] <= Pow2[ones + 2]
      OBVIOUS
    <3>1. tmp1 >= 1 /\ (tmp1 + 1) * Pow2[left] <= Pow2[ones + 2]
      BY <2>2 DEF BitsLeft
    <3>2. /\ Wrap(2 * tmp1 + b) = 2 * tmp1 + b
          /\ (2 * tmp1 + b + 1) * Pow2[left - 1] <= Pow2[ones + 2]
      BY <2>1, <2>3, <3>1, NextLeft
    <3> QED BY <2>1, <3>1, <3>2 DEF Bit
  <2>6. CASE left # 1
    <3>1. /\ outp' = outp - 2 /\ UNCHANGED <<pc, sp, frames>>
      BY <1>13, <2>3, <2>6 DEF Bitsloop
    <3>2. AccessInv' /\ access' \in AccessType
      <4>1. outp \in Nat \ {0} /\ pc' \in {"numberloop", "bitsloop"}
        BY <2>1, <2>3, <3>1
      <4>2. 4 * GroupSize - 1 <= outp => 4 * ones' + 4 >= NumContexts
        BY <2>1, <2>3 DEF GroupSize
      <4> QED BY <2>1, <4>1, <4>2, GetbitOfNumber
    <3>3. TypeOK' /\ RegisterInv'
      BY <2>1, <2>3, <2>4, <2>6, <3>1, <3>2
         DEF IInv, TypeOK, AccessType, RegisterInv, Labels
    <3>4. BitsLeft(left - 1)'
      <4>1. outp' = 2 * (left - 1) - 1 /\ ones' = ones
        BY <2>1, <2>3, <3>1
      <4> QED BY <2>5, <4>1 DEF BitsLeft
    <3>5. \E l \in 1..(ones' + 1) : BitsLeft(l)'
      <4>1. left - 1 \in 1..(ones' + 1)
        BY <2>1, <2>3, <2>6
      <4> QED BY <3>4, <4>1
    <3>6. StartInv' /\ MainInv' /\ NumberInv'
      BY <2>1, <3>1, <3>5
         DEF IInv, TypeOK, StartInv, MainInv, NumberInv, InGetnumber, TableBase
    <3> QED BY <3>2, <3>3, <3>6 DEF IInv
  <2>7. CASE left = 1
    <3>1. outp = 1 /\ ~(outp >= 2)
      BY <2>3, <2>7
    <3>2. /\ frames[Len(frames)] = frames[1]
          /\ frames[1] \in Frame
          /\ frames' = << >>
      <4> HIDE DEF Frame
      <4> QED BY <1>13, <2>1, <3>1, PopFrame DEF Bitsloop
    <3>3. outp' = frames[1][1] /\ pc' = frames[1][2] /\ sp' = sp + GetnumberFrame
      BY <1>13, <3>1, <3>2 DEF Bitsloop
    <3>4. /\ outp' \in Nat
          /\ outp' \in LoadAddress..(LoadAddress + MaxOutput)
          /\ pc' \in {"length_read", "offset_read"}
          /\ DOMAIN mem' = LoadAddress..(outp' - 1)
      BY <2>1, <3>2, <3>3 DEF IInv, NumberInv, InGetnumber
    <3>5. ones' + 1 < RegisterBits => tmp1' >= 1
      BY <2>1, <2>5
    <3>6. sp' = TableBase /\ sp' \in Int
      <4>1. TableBase \in Int /\ GetnumberFrame \in Int
        BY DEF TableBase, GetnumberFrame
      <4> QED BY ONLY <2>1, <3>3, <4>1
    <3>7. AccessInv' /\ access' \in AccessType
      <4>1. ~(4 * GroupSize - 1 <= outp) /\ outp \in Nat \ {0}
        BY <3>1 DEF GroupSize
      <4> QED BY <2>1, <4>1, GetbitOfNumber
    <3>8. frames' \in Seq(Frame)
      BY <3>2
    <3>9. TypeOK' /\ RegisterInv'
      BY <2>1, <2>4, <3>4, <3>5, <3>6, <3>7, <3>8
         DEF IInv, TypeOK, AccessType, RegisterInv, Labels
    <3>10. StartInv' /\ MainInv' /\ NumberInv'
      BY <2>1, <3>2, <3>4, <3>6 DEF IInv, StartInv, MainInv, NumberInv, InGetnumber
    <3> QED BY <3>7, <3>9, <3>10 DEF IInv
  <2> QED BY <2>6, <2>7
<1>14. CASE UNCHANGED vars
  <2>1. NumberInv'
    BY <1>14 DEF vars, IInv, NumberInv, InGetnumber, BitsLeft
  <2>2. AccessInv'
    BY <1>14 DEF vars, IInv, AccessInv, InGetnumber, Slot, TableBase
  <2> QED
    BY <1>14, <2>1, <2>2 DEF vars, IInv, TypeOK, StartInv, MainInv, RegisterInv, InGetnumber, Labels
<1> QED
  BY <1>1, <1>2, <1>3, <1>4, <1>5, <1>6, <1>7, <1>8, <1>9, <1>10, <1>11, <1>12,
     <1>13, <1>14
  DEF Next, OtherStep, BitStep

(* A step stores nothing, or one byte at outp, behind the others.          *)
LEMMA StoresAtEnd ==
  ASSUME IInv, Next
  PROVE  \/ UNCHANGED mem
         \/ /\ DOMAIN mem' = DOMAIN mem \cup {outp} /\ outp \notin DOMAIN mem
            /\ LoadAddress <= outp /\ outp - LoadAddress < MaxOutput
<1>1. CASE \E value : StoreByte(value) /\ ~InGetnumber /\ pc # "code_start"
  <2>1. DOMAIN mem' = DOMAIN mem \cup {outp} /\ outp - LoadAddress < MaxOutput
    BY <1>1 DEF StoreByte
  <2>2. outp \in Nat /\ LoadAddress <= outp /\ DOMAIN mem = LoadAddress..(outp - 1)
    BY <1>1 DEF IInv, TypeOK, MainInv
  <2>3. outp \notin DOMAIN mem
    BY <2>2, SizesAssumption
  <2> QED BY <2>1, <2>2, <2>3
<1>2. ASSUME OtherStep
      PROVE  UNCHANGED mem \/ Copyloop
  BY <1>2 DEF OtherStep, CodeStart, Literal, Readlength, LengthRead, Readoffset,
              OffsetRead, DoneDecompressing
<1>3. ASSUME NEW b \in Bit, BitStep(b)
      PROVE  UNCHANGED mem \/ Getlit(b)
  BY <1>3 DEF BitStep, Switch, Repeat, AfterReference, Numberloop, Bitsloop
<1>4. ASSUME Copyloop
      PROVE  \E value : StoreByte(value) /\ ~InGetnumber /\ pc # "code_start"
  BY <1>4 DEF Copyloop, InGetnumber
<1>5. ASSUME NEW b \in Bit, Getlit(b)
      PROVE  \/ UNCHANGED mem
             \/ \E value : StoreByte(value) /\ ~InGetnumber /\ pc # "code_start"
  BY <1>5 DEF Getlit, InGetnumber
<1> QED BY <1>1, <1>2, <1>3, <1>4, <1>5 DEF Next

-----------------------------------------------------------------------------
(* The invariant holds in every reachable state: at every label the        *)
(* registers, the stack and the table are what the code behind it expects. *)
THEOREM Invariance == Spec => []IInv
<1> QED BY InitEstablishes, StepPreserves, PTL DEF Spec

(* Every register, frame and stored byte keeps its type.                   *)
THEOREM TypeCorrect == Spec => []TypeOK
<1>1. IInv => TypeOK
  BY DEF IInv
<1> QED BY <1>1, Invariance, PTL

LEMMA InTableOrOutrun ==
  IInv => ContextInTable
<1>1. TableBase \in Int /\ InitialSp \in Int
  BY SizesAssumption DEF TableBase
<1> QED BY <1>1 DEF IInv, AccessInv, InGetnumber, ContextInTable, Astray, InTable

(* For every bit stream, getbit reads and writes only the stack space that *)
(* the init loop filled with probabilities, up to the unary prefix that    *)
(* sets a bit beyond the table's last index: NumContexts / 4 - 1 ones.     *)
THEOREM TableSafety == Spec => []ContextInTable
<1> QED BY InTableOrOutrun, Invariance, PTL

(* For every bit stream, the halfword of a context whose index is within   *)
(* its group belongs to it alone, though number contexts are reached from  *)
(* one frame further down.                                                 *)
THEOREM AliasFreedom == Spec => []NoAliasing
<1>1. IInv => NoAliasing
  BY SlotInjective DEF IInv, AccessInv, NoAliasing
<1> QED BY <1>1, Invariance, PTL

(* Pushes and pops balance on every path, up to the jump to the intro.     *)
THEOREM StackBalance == Spec => []StackBalanced
<1>1. IInv => StackBalanced
  BY DEF IInv, TypeOK, StartInv, MainInv, NumberInv, InGetnumber, StackBalanced, Labels
<1> QED BY <1>1, Invariance, PTL

(* The output is contiguous from the load address to outp, although outp    *)
(* is lent out as an index in between.                                     *)
THEOREM OutputSafety == Spec => []OutputContiguous
<1>1. IInv => OutputContiguous
  BY DEF IInv, MainInv, InGetnumber, OutputContiguous
<1> QED BY <1>1, Invariance, PTL

(* For every bit stream, the copy loop is not entered with a count of zero *)
(* behind a number that fits in a register.                                *)
THEOREM CopyTerminates == Spec => []CopyCountPositive
<1>1. IInv => CopyCountPositive
  BY DEF IInv, RegisterInv, CopyCountPositive
<1> QED BY <1>1, Invariance, PTL

-----------------------------------------------------------------------------
(* ShrinklerMemory: a load area that is clear of the stack's reach is      *)
(* enough, for every bit stream and every size of the intro.               *)
LoadArea == LoadAddress..(LoadAddress + MaxOutput - 1)
StackArea == StackBottom..(InitialSp - 1)
Table == TableBase..(InitialSp - 1)

(* Either side keeps to its area until getbit goes astray, and once the    *)
(* init loop is done, all of the table was last written by its owner.      *)
MInv ==
  /\ IInv
  /\ DOMAIN mem \subseteq LoadArea
  /\ ofStack \subseteq Int
  /\ ~Astray => ofStack \subseteq StackArea
  /\ LoadAreaClear /\ pc # "code_start" => Table \subseteq ofStack

LEMMA AreasDisjoint ==
  ASSUME LoadAreaClear
  PROVE  LoadArea \cap StackArea = {}
  BY SizesAssumption, MemoryAssumption DEF LoadAreaClear, LoadArea, StackArea

(* The order of the landmarks of the stack.                                *)
LEMMA StackLayout ==
  /\ StackBottom \in Nat /\ TableBase \in Nat /\ InitialSp \in Nat
  /\ TableBase = StackBottom + GetnumberFrame + GetbitFrame
  /\ GetnumberFrame = 8 /\ GetbitFrame = 16
  /\ TableBase <= InitialSp
<1>1. TableBase \in Int
  BY SizesAssumption DEF TableBase
<1> QED
  BY <1>1, SizesAssumption, MemoryAssumption
  DEF StackBottom, TableBase, GetnumberFrame, GetbitFrame

(* Where sp is, while the depacker is at work.                             *)
SpByLabel ==
  /\ pc \in {"code_start", "intro"} => sp = InitialSp
  /\ InGetnumber => sp = TableBase - GetnumberFrame
  /\ pc \notin {"code_start", "intro"} /\ ~InGetnumber => sp = TableBase

LEMMA StackPointer ==
  IInv => SpByLabel
  BY DEF IInv, TypeOK, StartInv, MainInv, NumberInv, InGetnumber, Labels, SpByLabel

(* strb is guarded by the size of the intro.                               *)
LEMMA StoredInLoadArea ==
  ASSUME IInv, Next
  PROVE  Stored \subseteq LoadArea
<1>1. CASE UNCHANGED mem
  BY <1>1 DEF Stored
<1>2. CASE /\ DOMAIN mem' = DOMAIN mem \cup {outp}
           /\ LoadAddress <= outp /\ outp - LoadAddress < MaxOutput
  <2>1. outp \in LoadArea
    BY <1>2, SizesAssumption DEF LoadArea, IInv, TypeOK
  <2> QED BY <1>2, <2>1 DEF Stored
<1> QED BY <1>1, <1>2, StoresAtEnd

(* Every decoded bit is decoded with sp at the table, or one frame below,  *)
(* and with a context of the table, unless getbit goes astray.             *)
LEMMA BitStepInTable ==
  ASSUME IInv, IInv', NEW b \in Bit, BitStep(b)
  PROVE  /\ sp \in {TableBase, TableBase - GetnumberFrame}
         /\ access'.address \in Int
         /\ ~Astray' => TableBase <= access'.address /\ access'.address + 2 <= InitialSp
<1>1. sp \in {TableBase, TableBase - GetnumberFrame}
  BY StackPointer
  DEF SpByLabel, InGetnumber, BitStep, Getlit, Switch, Repeat, AfterReference, Numberloop, Bitsloop
<1>2. PICK group, index : Getbit(group, index)
  BY DEF BitStep, Getlit, Switch, Repeat, AfterReference, Numberloop, Bitsloop, Getkind
<1>3. access' # NoAccess
  <2> SUFFICES ASSUME access' = NoAccess PROVE FALSE
    OBVIOUS
  <2>1. group = 0 /\ index = -1
    BY <1>2 DEF Getbit, NoAccess, RepeatContext
  <2>2. Bitctx(group, index) = GroupSize * 0 + (-1)
    BY <2>1 DEF Bitctx, NumberGroups, OffsetGroup, LengthGroup
  <2>3. -1 = (sp - GetbitFrame) + CtxTableOffset + 2 * (GroupSize * 0 + (-1))
    BY <1>2, <2>2 DEF Getbit, NoAccess
  <2> QED
    BY <1>1, <2>3, StackLayout, SizesAssumption
    DEF CtxTableOffset, SingleBitContexts, GroupSize, GetbitFrame, GetnumberFrame
<1>4. access' \in AccessType
  BY <1>3 DEF IInv, TypeOK, AccessType
<1>5. ~Astray' => TableBase <= access'.address /\ access'.address + 2 <= InitialSp
  BY <1>3 DEF Astray, InTable, NoAccess, RepeatContext, TableBase
<1> QED BY <1>1, <1>4, <1>5 DEF AccessType

LEMMA MemoryInitEstablishes ==
  MemoryInit => MInv
<1> SUFFICES ASSUME MemoryInit PROVE MInv
  OBVIOUS
<1>1. IInv
  BY InitEstablishes DEF MemoryInit
<1> QED BY <1>1 DEF MemoryInit, Init, MInv

LEMMA MemoryStepPreserves ==
  MInv /\ [MemoryNext]_memoryVars => MInv'
<1> SUFFICES ASSUME MInv, [MemoryNext]_memoryVars
             PROVE  MInv'
  OBVIOUS
<1>1. IInv'
  BY StepPreserves DEF MInv, MemoryNext, MemoryOther, MemoryBit, memoryVars, Next
<1>a. SpByLabel
  BY StackPointer DEF MInv
<1>b. SpByLabel'
  BY <1>1 DEF IInv, TypeOK, StartInv, MainInv, NumberInv, InGetnumber, Labels, SpByLabel
<1>2. CASE UNCHANGED memoryVars
  <2>1. Astray' <=> Astray
    BY <1>2 DEF memoryVars, vars, Astray, InTable, TableBase
  <2> QED BY <1>1, <1>2, <2>1 DEF memoryVars, vars, MInv
<1>3. CASE MemoryNext
  <2>1. Next
    BY <1>3 DEF MemoryNext, MemoryOther, MemoryBit, Next
  <2>2. Stored \subseteq LoadArea
    BY <2>1, StoredInLoadArea DEF MInv
  <2>3. DOMAIN mem' \subseteq LoadArea
    BY <2>2 DEF Stored, MInv
  <2>4. LoadAreaClear => Stored \cap Table = {}
    BY <2>2, AreasDisjoint, StackLayout DEF Table, StackArea
  <2>5. CASE MemoryOther
    <3>1. sp'..(sp - 1) \subseteq StackArea
      BY <1>a, <1>b, StackLayout DEF StackArea, SpByLabel
    <3>2. ofStack' \subseteq StackArea /\ ofStack' \subseteq Int
      <4>1. ofStack \subseteq StackArea
        BY <2>5 DEF MemoryOther, OtherStep, MInv
      <4>2. ofStack' \subseteq StackArea
        BY <2>5, <3>1, <4>1 DEF MemoryOther
      <4> QED BY <4>2, StackLayout DEF StackArea
    <3>3. pc = "code_start" => Table \subseteq sp'..(sp - 1)
      <4>1. pc = "code_start" => CodeStart
        BY <2>5 DEF MemoryOther, OtherStep, CodeStart, Literal, Readlength, LengthRead,
                    Copyloop, Readoffset, OffsetRead, DoneDecompressing
      <4>2. CodeStart => sp = InitialSp /\ sp' = TableBase
        BY <1>a, <1>b DEF SpByLabel, CodeStart, InGetnumber
      <4> QED BY <4>1, <4>2 DEF Table
    <3>4. LoadAreaClear => Table \subseteq ofStack'
      BY <2>4, <2>5, <3>3 DEF MemoryOther, MInv
    <3> QED BY <1>1, <2>3, <3>2, <3>4 DEF MInv
  <2>6. ASSUME NEW b \in Bit, MemoryBit(b)
        PROVE  MInv'
    <3>1. /\ sp \in {TableBase, TableBase - GetnumberFrame}
          /\ access'.address \in Int
          /\ ~Astray' => TableBase <= access'.address /\ access'.address + 2 <= InitialSp
      BY <1>1, <2>6, BitStepInTable DEF MInv, MemoryBit
    <3>2. (sp - GetbitFrame)..(sp - 1) \subseteq StackArea
      BY <3>1, StackLayout DEF StackArea
    <3>3. ~Astray' => {access'.address, access'.address + 1} \subseteq StackArea
      BY <3>1, StackLayout DEF StackArea
    <3>4. /\ ~Astray' => ofStack' \subseteq StackArea
          /\ ofStack' \subseteq Int
      <4>1. ofStack \subseteq StackArea /\ ofStack \subseteq Int
        BY <2>6 DEF MemoryBit, BitStep, MInv
      <4>2. ofStack' \subseteq
              ofStack \cup (sp - GetbitFrame)..(sp - 1)
                     \cup {access'.address, access'.address + 1}
        BY <2>6 DEF MemoryBit
      <4>3. StackArea \subseteq Int
        BY StackLayout DEF StackArea
      <4>4. ~Astray' => ofStack' \subseteq StackArea
        BY <3>2, <3>3, <4>1, <4>2
      <4>5. ofStack' \subseteq Int
        BY <3>1, <3>2, <4>1, <4>2, <4>3
      <4> QED BY <4>4, <4>5
    <3>5. pc # "code_start"
      BY <2>6 DEF MemoryBit, BitStep, Getlit, Switch, Repeat, AfterReference,
                  Numberloop, Bitsloop
    <3>6. LoadAreaClear => Table \subseteq ofStack'
      BY <2>4, <2>6, <3>5 DEF MemoryBit, MInv
    <3> QED BY <1>1, <2>3, <3>4, <3>6 DEF MInv
  <2> QED BY <1>3, <2>5, <2>6 DEF MemoryNext
<1> QED BY <1>2, <1>3

-----------------------------------------------------------------------------
(* The two areas are respected in every reachable state.                   *)
THEOREM MemoryInvariance == MemorySpec => []MInv
<1> QED BY MemoryInitEstablishes, MemoryStepPreserves, PTL DEF MemorySpec

(* An intro that is loaded clear of the stack's reach is never overwritten *)
(* while it is unpacked, however the calls nest, unless a unary prefix is  *)
(* too long for the table.                                                 *)
THEOREM LoadedIntroSafe == MemorySpec => []IntroIntact
<1>1. MInv => IntroIntact
  <2>1. MInv /\ ~Outrun => ~Astray
    BY InTableOrOutrun DEF MInv, ContextInTable, Outrun
  <2> QED BY <2>1, AreasDisjoint DEF MInv, IntroIntact
<1> QED BY <1>1, MemoryInvariance, PTL

(* What this module adds keeps its type.                                   *)
THEOREM MemoryTypeCorrect == MemorySpec => []MemoryTypeOK
<1>1. MInv => MemoryTypeOK
  BY StackLayout DEF MInv, IInv, MemoryTypeOK, StackArea
<1> QED BY <1>1, MemoryInvariance, PTL

(* Under the same condition getbit only ever reads probabilities.          *)
THEOREM ProbabilitiesSafe == MemorySpec => ReadsProbability
<1> DEFINE Read(b) ==
      MemoryBit(b) /\ LoadAreaClear /\ ~Outrun' =>
        {access'.address, access'.address + 1} \subseteq ofStack
<1>1. MInv /\ MInv' /\ [MemoryNext]_memoryVars => [\A b \in Bit : Read(b)]_memoryVars
  <2> SUFFICES ASSUME MInv, MInv', NEW b \in Bit, MemoryBit(b), LoadAreaClear, ~Outrun'
               PROVE  {access'.address, access'.address + 1} \subseteq ofStack
    OBVIOUS
  <2>0. ~Astray'
    <3>1. TableBase \in Int /\ InitialSp \in Int
      BY SizesAssumption DEF TableBase
    <3> QED BY <3>1 DEF MInv, IInv, AccessInv, InGetnumber, Outrun, Astray, InTable
  <2>1. /\ access'.address \in Int
        /\ TableBase <= access'.address
        /\ access'.address + 2 <= InitialSp
    BY <2>0, BitStepInTable DEF MInv, MemoryBit
  <2>2. {access'.address, access'.address + 1} \subseteq Table
    BY <2>1, StackLayout DEF Table
  <2>3. pc # "code_start"
    BY DEF MemoryBit, BitStep, Getlit, Switch, Repeat, AfterReference, Numberloop, Bitsloop
  <2> QED BY <2>2, <2>3 DEF MInv
<1> QED BY <1>1, MemoryInvariance, PTL DEF MemorySpec, ReadsProbability

-----------------------------------------------------------------------------
(* The encoder: where the parts of a symbol's bits start in the stream,    *)
(* counted in bits read before them.                                       *)
Width(number) == Excess(number) + 1
BodyAt(s) == s.start + Len(KindBits(s))
OffsetAt(s) == BodyAt(s) + Len(RepeatBits(s))
LengthAt(s) == OffsetAt(s) + Len(OffsetBits(s))
EndAt(s) == s.start + Len(BitsOf(s))

SymbolSet ==
  [kind : {"literal", "reference", "end"}, byte : Byte, offset : Nat, length : Nat,
   start : Nat, to : Nat, previous : {"none", "literal", "reference"}, lastOffset : Nat]

ItemSet ==
  [context : [use : {"literal", "repeat", "offset", "length"}, index : Nat], bit : Bit]

(* What holds of a symbol by itself.                                       *)
WellFormed(s) ==
  /\ s \in SymbolSet
  /\ s.kind = "literal" => s.length = 1
  /\ s.kind = "reference" => s.offset \in 1..s.to /\ s.length >= 2
  /\ s.kind = "end" => s.offset = 0 /\ s.length = 0

(* The stream holds the symbol's bits, and the data its bytes.             *)
Encodes(s) ==
  /\ EndAt(s) <= Len(stream)
  /\ \A n \in 1..Len(BitsOf(s)) : stream[s.start + n] = BitsOf(s)[n]
  /\ s.to + s.length <= Len(data)
  /\ s.kind = "literal" => data[s.to + 1] = s.byte
  /\ s.kind = "reference" =>
       \A n \in 1..s.length : data[s.to + n] = data[s.to + n - s.offset]

IsFirst(s) == s.kind = "literal" /\ s.start = 0 /\ s.to = 0 /\ s.previous = "none" /\ s.lastOffset = 0

Follows(s, p) ==
  /\ p.kind # "end"
  /\ s.start = EndAt(p)
  /\ s.to = p.to + p.length
  /\ s.previous = p.kind
  /\ s.lastOffset = IF p.kind = "reference" THEN p.offset ELSE p.lastOffset

EncoderInv ==
  /\ symbols \in Seq(SymbolSet)
  /\ data \in Seq(Byte)
  /\ stream \in Seq(ItemSet)
  /\ \A k \in 1..Len(symbols) : WellFormed(symbols[k]) /\ Encodes(symbols[k])
  /\ symbols # << >> => IsFirst(symbols[1])
  /\ \A k \in 1..(Len(symbols) - 1) : Follows(symbols[k + 1], symbols[k])
  /\ Len(stream) = IF symbols = << >> THEN 0 ELSE EndAt(LastSymbol)
  /\ Len(data) = (IF symbols = << >> THEN 0 ELSE LastSymbol.to + LastSymbol.length)
  /\ Len(data) <= MaxData

(* The depacker: it has unpacked the first n bytes, and nothing else.      *)
Unpacks(n) ==
  /\ DOMAIN mem = LoadAddress..(LoadAddress + n - 1)
  /\ \A m \in 1..n : mem[LoadAddress + m - 1] = data[m]

OutAt(n) == outp = LoadAddress + n /\ Unpacks(n)

(* In getnumber, called for a number whose bits start after base.          *)
InNumber(s, number, group, return, base) ==
  /\ frames = << <<LoadAddress + s.to, return>> >>
  /\ tmp0 = group
  /\ Unpacks(s.to)
  /\ pc = "numberloop" =>
       \E n \in 0..Excess(number) : outp = 2 * n /\ received = base + n
  /\ pc = "bitsloop" =>
       \E n \in 1..Width(number) :
          /\ outp = 2 * n - 1
          /\ received = base + 2 * Width(number) - n
          /\ tmp1 = number \div Pow2[n]

(* Where the depacker is in symbol s, label by label.                      *)
InLiteral(s) ==
  /\ s.kind = "literal" /\ OutAt(s.to)
  /\ pc = "literal" => received = BodyAt(s)
  /\ pc = "getlit" =>
       \E n \in 0..(ByteBits - 1) : received = BodyAt(s) + n /\ tmp0 = Prefix(s.byte, n)

InKind(s) ==
  /\ OutAt(s.to) /\ received = s.start
  /\ s.previous = IF pc = "switch" THEN "literal" ELSE "reference"

InRepeat(s) ==
  s.kind # "literal" /\ s.previous = "literal" /\ OutAt(s.to) /\ received = BodyAt(s)

InReadoffset(s) ==
  s.kind # "literal" /\ ~Repeats(s) /\ OutAt(s.to) /\ received = OffsetAt(s)

InOffsetNumber(s) ==
  /\ s.kind # "literal" /\ ~Repeats(s)
  /\ InNumber(s, s.offset + 2, OffsetGroup, "offset_read", OffsetAt(s))

InOffsetRead(s) ==
  /\ s.kind # "literal" /\ ~Repeats(s) /\ OutAt(s.to) /\ received = LengthAt(s)
  /\ tmp1 = s.offset + 2

InReadlength(s) ==
  s.kind = "reference" /\ offset = s.offset /\ OutAt(s.to) /\ received = LengthAt(s)

InLengthNumber(s) ==
  /\ s.kind = "reference" /\ offset = s.offset
  /\ InNumber(s, s.length, LengthGroup, "length_read", LengthAt(s))

InLengthRead(s) ==
  /\ s.kind = "reference" /\ offset = s.offset /\ OutAt(s.to) /\ received = EndAt(s)
  /\ tmp1 = s.length

InCopyloop(s) ==
  /\ s.kind = "reference" /\ offset = s.offset /\ received = EndAt(s)
  /\ tmp0 = Wrap(-s.offset) /\ tmp1 \in 1..s.length
  /\ OutAt(s.to + s.length - tmp1)

InEnd(s) ==
  s.kind = "end" /\ OutAt(s.to) /\ received = EndAt(s)

AtLabel(s) ==
  CASE pc \in {"literal", "getlit"} -> InLiteral(s)
    [] pc \in {"switch", "after_reference"} -> InKind(s)
    [] pc = "repeat" -> InRepeat(s)
    [] pc = "readoffset" -> InReadoffset(s)
    [] pc \in {"numberloop", "bitsloop"} -> InOffsetNumber(s) \/ InLengthNumber(s)
    [] pc = "offset_read" -> InOffsetRead(s)
    [] pc = "readlength" -> InReadlength(s)
    [] pc = "length_read" -> InLengthRead(s)
    [] pc = "copyloop" -> InCopyloop(s)
    [] pc \in {"donedecompressing", "intro"} -> InEnd(s)
    [] OTHER -> FALSE

(* Up to the offset of s, r8 holds the previous one, if there is any.      *)
OldOffset(s) ==
  \/ s.lastOffset # 0 => offset = s.lastOffset
  \/ s.kind # "literal" /\ offset = s.offset

(* The symbols of the stream; the depacker is in one of them.              *)
Written == {symbols[k] : k \in 1..Len(symbols)}

Placed == \E s \in Written : AtLabel(s) /\ OldOffset(s)

DepackInv == IF pc = "code_start" THEN received = 0 ELSE complete /\ Placed

(* The contexts that the encoder can name, and the address of each.        *)
EncoderContexts ==
  [use : {"repeat"}, index : {0}]
    \cup [use : {"literal"}, index : 0..(2 * ByteSize - 1)]
    \cup [use : {"offset", "length"}, index : 1..(GroupSize - 1)]

LiteralContext(index) ==
  IF index < ByteSize
    THEN [group |-> LoadAddress % 2, index |-> index]
    ELSE [group |-> (LoadAddress + 1) % 2, index |-> index - ByteSize]

DepackerContext(c) ==
  CASE c.use = "repeat" -> RepeatContext
    [] c.use = "literal" -> LiteralContext(c.index)
    [] c.use = "offset" -> [group |-> OffsetGroup, index |-> c.index]
    [] c.use = "length" -> [group |-> LengthGroup, index |-> c.index]

(* Every pair is one of a context and its home.                            *)
Paired(relation) ==
  /\ relation \subseteq EncoderContexts \X Int
  /\ \A p \in relation : p[2] = Slot(DepackerContext(p[1]))

RInv ==
  /\ IInv
  /\ EncoderInv
  /\ DepackInv
  /\ Paired(pairs)
  /\ received \in Nat

(* The depacker, in symbol s of a complete stream.                         *)
Inside(s) ==
  IInv /\ EncoderInv /\ Paired(pairs) /\ complete /\ s \in Written /\ AtLabel(s) /\ OldOffset(s)
-----------------------------------------------------------------------------
(* Powers of two, quotients by them, and the lengths of numbers.           *)

(* Dropping one bit more, and appending it again.                          *)
LEMMA NextBit ==
  ASSUME NEW x \in Nat, NEW n \in Nat
  PROVE  /\ x \div Pow2[n] \in Nat
         /\ 2 * (x \div Pow2[n + 1]) + ((x \div Pow2[n]) % 2) = x \div Pow2[n]
         /\ (x \div Pow2[n]) % 2 \in Bit
<1> DEFINE p == Pow2[n]
<1> DEFINE q == x \div p
<1> DEFINE r == x \div (2 * p)
<1>1. p \in Nat \ {0} /\ 2 * p \in Nat \ {0} /\ Pow2[n + 1] = 2 * p
  BY PowerPositive, PowersOfTwo
<1> HIDE DEF p
<1>2. q \in Nat /\ q * p <= x /\ x < q * p + p
  BY <1>1, Quotient
<1>3. r \in Nat /\ r * (2 * p) <= x /\ x < r * (2 * p) + 2 * p
  BY <1>1, Quotient
<1> HIDE DEF q, r
<1>4. 2 * r < q + 1
  <2>1. (2 * r) * p < (q + 1) * p
    BY <1>1, <1>2, <1>3
  <2> QED BY <1>1, <1>2, <1>3, <2>1, Cancel
<1>5. q < 2 * r + 2
  <2>1. q * p < (2 * r + 2) * p
    BY <1>1, <1>2, <1>3
  <2> QED BY <1>1, <1>2, <1>3, <2>1, Cancel
<1>6. q \in Nat /\ 2 * r + (q % 2) = q /\ q % 2 \in Bit
  BY <1>2, <1>3, <1>4, <1>5 DEF Bit
<1> QED BY <1>1, <1>6 DEF p, q, r

LEMMA ExcessFits ==
  ASSUME NEW number \in Nat, number >= 2
  PROVE  /\ Excess(number) \in Nat
         /\ Pow2[Excess(number) + 1] <= number
         /\ number < Pow2[Excess(number) + 2]
<1> DEFINE T == {k \in Nat : number < Pow2[k + 2]}
<1>1. number \in T
  <2>1. number < Pow2[number + 2]
    <3>1. Pow2[(number + 1) + 1] = 2 * Pow2[number + 1] /\ Pow2[number + 1] = 2 * Pow2[number]
      BY PowersOfTwo
    <3>2. number < Pow2[number] /\ Pow2[number] \in Nat
      BY PowerPositive
    <3> QED BY <3>1, <3>2
  <2> QED BY <2>1
<1>2. PICK k \in T : \A m \in T : k <= m
  <2> T \subseteq Nat
    OBVIOUS
  <2> HIDE DEF T
  <2> QED BY <1>1, LeastMember
<1>3. k \in 0..number /\ number < Pow2[k + 2]
  BY <1>1, <1>2
<1>4. Pow2[k + 1] <= number
  <2>1. CASE k = 0
    <3>1. Pow2[0 + 1] = 2
      BY PowersOfTwo
    <3> QED BY <2>1, <3>1
  <2>2. CASE k # 0
    <3>1. k - 1 \in Nat /\ (k - 1) + 2 = k + 1 /\ k - 1 \notin T
      BY <1>2, <2>2
    <3>2. Pow2[k + 1] \in Nat
      BY PowersOfTwo
    <3> QED BY <3>1, <3>2
  <2> QED BY <2>1, <2>2
<1>5. /\ Excess(number) \in 0..number
      /\ Pow2[Excess(number) + 1] <= number
      /\ number < Pow2[Excess(number) + 2]
  BY <1>3, <1>4 DEF Excess
<1> QED BY <1>5

(* What is left of a number when its bits are dropped: at first the one    *)
(* that leads it, at last all of it.                                       *)
LEMMA NumberEnds ==
  ASSUME NEW number \in Nat, number >= 2
  PROVE  /\ Excess(number) \in Nat
         /\ Width(number) = Excess(number) + 1
         /\ number \div Pow2[Width(number)] = 1
         /\ number \div Pow2[0] = number
<1>1. /\ Excess(number) \in Nat
      /\ Pow2[Excess(number) + 1] <= number
      /\ number < Pow2[Excess(number) + 2]
  BY ExcessFits
<1> DEFINE p == Pow2[Excess(number) + 1]
<1>2. p \in Nat \ {0} /\ Pow2[(Excess(number) + 1) + 1] = 2 * p
  BY <1>1, PowerPositive, PowersOfTwo
<1>3. number < 2 * p /\ p <= number
  BY <1>1, <1>2
<1> HIDE DEF p
<1>4. number \div p = 1
  BY <1>2, <1>3
<1>5. number \div Pow2[0] = number
  BY PowersOfTwo
<1> QED BY <1>1, <1>4, <1>5 DEF Width, p

(* A literal, bit by bit: its prefixes stay within a group until the last, *)
(* which is complete.                                                      *)
LEMMA ByteSizes ==
  /\ ByteSize = Pow2[ByteBits] /\ ByteSize \in Nat /\ ByteSize > 2
  /\ ByteBits \in Nat /\ ByteBits >= 1
<1>1. ByteSize > 2 /\ ByteSize \in Nat
  BY SizesAssumption
<1> QED BY <1>1, RoundTripAssumption, EncoderAssumption, PowersOfTwo

LEMMA Prefixes ==
  ASSUME NEW byte \in Byte
  PROVE  /\ Prefix(byte, 0) = 1
         /\ Prefix(byte, ByteBits) = ByteSize + byte
         /\ \A n \in 0..ByteBits : Prefix(byte, n) \in Nat
         /\ \A n \in 0..(ByteBits - 1) :
              /\ Prefix(byte, n) < ByteSize
              /\ 2 * Prefix(byte, n) + (Prefix(byte, n + 1) % 2) = Prefix(byte, n + 1)
              /\ Prefix(byte, n + 1) % 2 \in Bit
<1> DEFINE x == ByteSize + byte
<1>1. /\ ByteSize = Pow2[ByteBits] /\ ByteSize \in Nat /\ ByteSize > 2 /\ ByteBits \in Nat
      /\ ByteBits >= 1
  BY ByteSizes
<1>2. x \in Nat /\ ByteSize <= x /\ x < 2 * ByteSize
  BY <1>1 DEF Byte
<1>3. \A n : Prefix(byte, n) = x \div Pow2[ByteBits - n]
  BY <1>1 DEF Prefix
<1> HIDE DEF x
<1>4. \A n \in 0..ByteBits : ByteBits - n \in Nat /\ Prefix(byte, n) \in Nat
  <2> SUFFICES ASSUME NEW n \in 0..ByteBits
               PROVE  ByteBits - n \in Nat /\ Prefix(byte, n) \in Nat
    OBVIOUS
  <2>1. ByteBits - n \in Nat
    BY <1>1
  <2>2. x \div Pow2[ByteBits - n] \in Nat
    BY <1>2, <2>1, NextBit
  <2> QED BY <1>3, <2>1, <2>2
<1>5. Prefix(byte, 0) = 1
  <2>1. x \div ByteSize = 1
    BY <1>1, <1>2
  <2>2. ByteBits - 0 = ByteBits
    BY <1>1
  <2> QED BY <1>1, <1>3, <2>1, <2>2
<1>6. Prefix(byte, ByteBits) = x
  <2>1. ByteBits - ByteBits = 0
    BY <1>1
  <2>2. x \div Pow2[0] = x
    BY <1>2, PowersOfTwo
  <2> QED BY <1>3, <2>1, <2>2
<1>7. ASSUME NEW n \in 0..(ByteBits - 1)
      PROVE  /\ Prefix(byte, n) < ByteSize
             /\ 2 * Prefix(byte, n) + (Prefix(byte, n + 1) % 2) = Prefix(byte, n + 1)
             /\ Prefix(byte, n + 1) % 2 \in Bit
  <2> DEFINE m == ByteBits - (n + 1)
  <2>1. m \in Nat /\ m + 1 = ByteBits - n
    BY <1>1
  <2> HIDE DEF m
  <2>2. /\ 2 * (x \div Pow2[m + 1]) + ((x \div Pow2[m]) % 2) = x \div Pow2[m]
        /\ (x \div Pow2[m]) % 2 \in Bit
    BY <1>2, <2>1, NextBit
  <2>3. Prefix(byte, n) = x \div Pow2[m + 1] /\ Prefix(byte, n + 1) = x \div Pow2[m]
    BY <1>3, <2>1 DEF m
  <2>4. x \div Pow2[m + 1] < ByteSize
    <3> DEFINE p == Pow2[m]
    <3> DEFINE q == x \div (2 * p)
    <3>1. p \in Nat \ {0} /\ 2 * p \in Nat \ {0} /\ Pow2[m + 1] = 2 * p
      BY <2>1, PowerPositive, PowersOfTwo
    <3> HIDE DEF p
    <3>2. q \in Nat /\ q * (2 * p) <= x
      BY <1>2, <3>1, Quotient
    <3> HIDE DEF q
    <3>3. q * 2 <= q * (2 * p)
      BY <3>1, <3>2
    <3>4. q < ByteSize
      BY <1>1, <1>2, <3>1, <3>2, <3>3
    <3> QED BY <3>1, <3>4 DEF q
  <2> QED BY <2>2, <2>3, <2>4
<1> QED BY <1>4, <1>5, <1>6, <1>7 DEF x

-----------------------------------------------------------------------------
(* The bits of a symbol: which they are, and where.                        *)

ItemUses == {"literal", "repeat", "offset", "length"}

LEMMA ItemTyped ==
  ASSUME NEW use \in ItemUses, NEW index \in Nat, NEW bit \in Bit
  PROVE  Item(use, index, bit) \in ItemSet
  BY DEF Item, ItemSet, ItemUses

LEMMA LiteralIndexTyped ==
  ASSUME NEW s, s.to \in Nat, NEW prefix \in Nat
  PROVE  LiteralIndex(s, prefix) \in Nat
<1>1. s.to % 2 \in {0, 1} /\ ByteSize \in Nat
  BY ByteSizes
<1>2. ByteSize * (s.to % 2) \in Nat
  BY <1>1
<1> QED BY <1>2, ByteSizes DEF LiteralIndex

(* The halves of a number: its unary prefix, then what it counts.          *)
LEMMA NumberBitsAre ==
  ASSUME NEW use \in ItemUses, NEW number \in Nat, number >= 2
  PROVE  /\ NumberBits(use, number) \in Seq(ItemSet)
         /\ Len(NumberBits(use, number)) = 2 * Width(number)
         /\ \A n \in 0..Excess(number) :
              NumberBits(use, number)[n + 1] =
                Item(use, 2 * n + 2, IF n < Excess(number) THEN 1 ELSE 0)
         /\ \A n \in 1..Width(number) :
              NumberBits(use, number)[2 * Width(number) - n + 1] =
                Item(use, 2 * n - 1, (number \div Pow2[n - 1]) % 2)
<1> DEFINE k == Excess(number)
<1> DEFINE unary == [n \in 1..(k + 1) |-> Item(use, 2 * n, IF n <= k THEN 1 ELSE 0)]
<1> DEFINE binary == [n \in 1..(k + 1) |->
              Item(use, 2 * (k + 1 - n) + 1, (number \div Pow2[k + 1 - n]) % 2)]
<1>1. k \in Nat /\ Width(number) = k + 1
  BY NumberEnds
<1>2. NumberBits(use, number) = unary \o binary
  BY DEF NumberBits
<1> HIDE DEF k
<1>3. unary \in Seq(ItemSet) /\ Len(unary) = k + 1
  <2>1. \A n \in 1..(k + 1) : Item(use, 2 * n, IF n <= k THEN 1 ELSE 0) \in ItemSet
    BY <1>1, ItemTyped DEF Bit
  <2> QED BY <1>1, <2>1
<1>4. binary \in Seq(ItemSet) /\ Len(binary) = k + 1
  <2>1. ASSUME NEW n \in 1..(k + 1)
        PROVE  Item(use, 2 * (k + 1 - n) + 1, (number \div Pow2[k + 1 - n]) % 2) \in ItemSet
    <3>1. k + 1 - n \in Nat
      BY <1>1
    <3>2. (number \div Pow2[k + 1 - n]) % 2 \in Bit
      BY <3>1, NextBit
    <3> QED BY <3>1, <3>2, ItemTyped
  <2> QED BY <1>1, <2>1
<1>5. \A n \in 1..(k + 1) : unary[n] = Item(use, 2 * n, IF n <= k THEN 1 ELSE 0)
  OBVIOUS
<1>6. \A n \in 1..(k + 1) :
        binary[n] = Item(use, 2 * (k + 1 - n) + 1, (number \div Pow2[k + 1 - n]) % 2)
  OBVIOUS
<1> HIDE DEF unary, binary
<1>7. /\ unary \o binary \in Seq(ItemSet)
      /\ Len(unary \o binary) = Len(unary) + Len(binary)
      /\ \A n \in 1..(Len(unary) + Len(binary)) :
           (unary \o binary)[n] = IF n <= Len(unary) THEN unary[n] ELSE binary[n - Len(unary)]
  BY <1>3, <1>4, ConcatProperties
<1>8. ASSUME NEW n \in 0..k
      PROVE  (unary \o binary)[n + 1] = Item(use, 2 * n + 2, IF n < k THEN 1 ELSE 0)
  <2>1. /\ n + 1 \in 1..(k + 1) /\ 2 * (n + 1) = 2 * n + 2 /\ (n + 1 <= k <=> n < k)
        /\ n + 1 \in 1..(Len(unary) + Len(binary)) /\ n + 1 <= Len(unary)
    BY <1>1, <1>3, <1>4
  <2> QED BY <1>5, <1>7, <2>1
<1>9. ASSUME NEW n \in 1..(k + 1)
      PROVE  (unary \o binary)[2 * (k + 1) - n + 1] =
               Item(use, 2 * n - 1, (number \div Pow2[n - 1]) % 2)
  <2> DEFINE m == k + 1 - n + 1
  <2> DEFINE j == 2 * (k + 1) - n + 1
  <2>1. /\ j \in 1..(Len(unary) + Len(binary))
        /\ ~(j <= Len(unary))
        /\ j - Len(unary) = m
        /\ m \in 1..(k + 1) /\ k + 1 - m = n - 1 /\ 2 * (n - 1) + 1 = 2 * n - 1
    BY <1>1, <1>3, <1>4
  <2> HIDE DEF m, j
  <2>2. (unary \o binary)[j] = binary[j - Len(unary)]
    BY <1>7, <2>1
  <2>3. binary[m] = Item(use, 2 * (k + 1 - m) + 1, (number \div Pow2[k + 1 - m]) % 2)
    BY <1>6, <2>1
  <2> QED BY <2>1, <2>2, <2>3 DEF j
<1>10. Len(unary \o binary) = 2 * (k + 1)
  BY <1>1, <1>3, <1>4, <1>7
<1> DEFINE whole == unary \o binary
<1>11. /\ whole \in Seq(ItemSet)
       /\ Len(whole) = 2 * (k + 1)
       /\ \A n \in 0..k : whole[n + 1] = Item(use, 2 * n + 2, IF n < k THEN 1 ELSE 0)
       /\ \A n \in 1..(k + 1) :
            whole[2 * (k + 1) - n + 1] = Item(use, 2 * n - 1, (number \div Pow2[n - 1]) % 2)
  BY <1>7, <1>8, <1>9, <1>10
<1>12. NumberBits(use, number) = whole
  BY <1>2
<1> HIDE DEF whole
<1> QED BY <1>1, <1>11, <1>12 DEF k

LEMMA PartsTyped ==
  ASSUME NEW s, WellFormed(s)
  PROVE  /\ KindBits(s) \in Seq(ItemSet)
         /\ LiteralBits(s) \in Seq(ItemSet) /\ Len(LiteralBits(s)) = ByteBits
         /\ RepeatBits(s) \in Seq(ItemSet)
         /\ OffsetBits(s) \in Seq(ItemSet)
         /\ s.kind # "literal" => LengthBits(s) \in Seq(ItemSet)
<1>1. s.to \in Nat /\ s.byte \in Byte /\ s.offset \in Nat
  BY DEF WellFormed, SymbolSet
<1>2. KindBits(s) \in Seq(ItemSet)
  <2>1. Item("literal", LiteralIndex(s, 0), IF s.kind = "literal" THEN 0 ELSE 1) \in ItemSet
    BY <1>1, ItemTyped, LiteralIndexTyped DEF ItemUses, Bit
  <2> QED BY <2>1 DEF KindBits
<1>3. LiteralBits(s) \in Seq(ItemSet) /\ Len(LiteralBits(s)) = ByteBits
  <2>1. ASSUME NEW n \in 1..ByteBits
        PROVE  Item("literal", LiteralIndex(s, Prefix(s.byte, n - 1)), Prefix(s.byte, n) % 2)
                 \in ItemSet
    <3>1. n - 1 \in 0..(ByteBits - 1) /\ n - 1 \in 0..ByteBits /\ (n - 1) + 1 = n
      BY ByteSizes
    <3>2. Prefix(s.byte, n - 1) \in Nat /\ Prefix(s.byte, n) % 2 \in Bit
      BY <1>1, <3>1, Prefixes
    <3> QED BY <1>1, <3>2, ItemTyped, LiteralIndexTyped DEF ItemUses
  <2> QED BY <2>1, ByteSizes DEF LiteralBits
<1>4. RepeatBits(s) \in Seq(ItemSet)
  <2>1. Item("repeat", 0, IF Repeats(s) THEN 1 ELSE 0) \in ItemSet
    BY ItemTyped DEF ItemUses, Bit
  <2> QED BY <2>1 DEF RepeatBits
<1>5. OffsetBits(s) \in Seq(ItemSet)
  <2>1. NumberBits("offset", s.offset + 2) \in Seq(ItemSet)
    BY <1>1, NumberBitsAre DEF ItemUses
  <2> QED BY <2>1 DEF OffsetBits
<1>6. s.kind # "literal" => LengthBits(s) \in Seq(ItemSet)
  <2>1. CASE s.kind = "reference"
    <3>1. NumberBits("length", s.length) \in Seq(ItemSet)
      BY <2>1, NumberBitsAre DEF ItemUses, WellFormed, SymbolSet
    <3> QED BY <2>1, <3>1 DEF LengthBits
  <2>2. CASE s.kind = "end"
    BY <2>2 DEF LengthBits
  <2> QED BY <2>1, <2>2 DEF WellFormed, SymbolSet
<1> QED BY <1>2, <1>3, <1>4, <1>5, <1>6

(* The bits of part lie in whole, behind the first at of them.             *)
PartOf(part, whole, at) ==
  \A n \in 1..Len(part) : at + n \in 1..Len(whole) /\ whole[at + n] = part[n]

LEMMA Halves ==
  ASSUME NEW S, NEW u \in Seq(S), NEW v \in Seq(S)
  PROVE  /\ u \o v \in Seq(S)
         /\ Len(u \o v) = Len(u) + Len(v) /\ Len(u) \in Nat /\ Len(v) \in Nat
         /\ PartOf(u, u \o v, 0)
         /\ PartOf(v, u \o v, Len(u))
<1>1. /\ u \o v \in Seq(S)
      /\ Len(u \o v) = Len(u) + Len(v) /\ Len(u) \in Nat /\ Len(v) \in Nat
      /\ \A n \in 1..(Len(u) + Len(v)) :
           (u \o v)[n] = IF n <= Len(u) THEN u[n] ELSE v[n - Len(u)]
  BY ConcatProperties
<1> DEFINE w == u \o v
<1> HIDE DEF w
<1>2. /\ w \in Seq(S)
      /\ Len(w) = Len(u) + Len(v) /\ Len(u) \in Nat /\ Len(v) \in Nat
      /\ \A n \in 1..(Len(u) + Len(v)) :
           w[n] = IF n <= Len(u) THEN u[n] ELSE v[n - Len(u)]
  BY <1>1 DEF w
<1>3. PartOf(u, w, 0)
  BY <1>2 DEF PartOf
<1>4. PartOf(v, w, Len(u))
  <2> SUFFICES ASSUME NEW n \in 1..Len(v)
               PROVE  Len(u) + n \in 1..Len(w) /\ w[Len(u) + n] = v[n]
    BY DEF PartOf
  <2>1. Len(u) + n \in 1..(Len(u) + Len(v)) /\ ~(Len(u) + n <= Len(u)) /\ (Len(u) + n) - Len(u) = n
    BY <1>2
  <2> QED BY <1>2, <2>1
<1> QED BY <1>2, <1>3, <1>4 DEF w

LEMMA PartOfPart ==
  ASSUME NEW u, NEW v, NEW w, NEW i \in Int, NEW j \in Int,
         Len(u) \in Nat, Len(v) \in Nat, Len(w) \in Nat,
         PartOf(u, v, i), PartOf(v, w, j)
  PROVE  PartOf(u, w, i + j)
<1> SUFFICES ASSUME NEW n \in 1..Len(u)
             PROVE  (i + j) + n \in 1..Len(w) /\ w[(i + j) + n] = u[n]
  BY DEF PartOf
<1>1. i + n \in 1..Len(v) /\ v[i + n] = u[n]
  BY DEF PartOf
<1>2. j + (i + n) \in 1..Len(w) /\ w[j + (i + n)] = v[i + n]
  BY <1>1 DEF PartOf
<1>3. j + (i + n) = (i + j) + n
  OBVIOUS
<1> QED BY <1>1, <1>2, <1>3

LEMMA SymbolBits ==
  ASSUME NEW s, WellFormed(s)
  PROVE  /\ BitsOf(s) \in Seq(ItemSet) /\ Len(BitsOf(s)) \in Nat
         /\ Len(KindBits(s)) \in Nat /\ Len(RepeatBits(s)) \in Nat /\ Len(OffsetBits(s)) \in Nat
         /\ PartOf(KindBits(s), BitsOf(s), 0)
         /\ s.kind = "literal" =>
              /\ Len(BitsOf(s)) = Len(KindBits(s)) + ByteBits
              /\ PartOf(LiteralBits(s), BitsOf(s), Len(KindBits(s)))
         /\ s.kind # "literal" =>
              /\ Len(BitsOf(s)) = Len(KindBits(s)) + Len(RepeatBits(s))
                                    + Len(OffsetBits(s)) + Len(LengthBits(s))
              /\ Len(LengthBits(s)) \in Nat
              /\ PartOf(RepeatBits(s), BitsOf(s), Len(KindBits(s)))
              /\ PartOf(OffsetBits(s), BitsOf(s), Len(KindBits(s)) + Len(RepeatBits(s)))
              /\ PartOf(LengthBits(s), BitsOf(s),
                        Len(KindBits(s)) + Len(RepeatBits(s)) + Len(OffsetBits(s)))
<1>1. /\ KindBits(s) \in Seq(ItemSet)
      /\ LiteralBits(s) \in Seq(ItemSet) /\ Len(LiteralBits(s)) = ByteBits
      /\ RepeatBits(s) \in Seq(ItemSet)
      /\ OffsetBits(s) \in Seq(ItemSet)
      /\ s.kind # "literal" => LengthBits(s) \in Seq(ItemSet)
  BY PartsTyped
<1> DEFINE kb == KindBits(s)
<1> DEFINE lb == LiteralBits(s)
<1> DEFINE rb == RepeatBits(s)
<1> DEFINE ob == OffsetBits(s)
<1> DEFINE nb == LengthBits(s)
<1> HIDE DEF kb, lb, rb, ob, nb
<1>2. /\ kb \in Seq(ItemSet) /\ lb \in Seq(ItemSet) /\ Len(lb) = ByteBits
      /\ rb \in Seq(ItemSet) /\ ob \in Seq(ItemSet)
      /\ Len(kb) \in Nat /\ Len(rb) \in Nat /\ Len(ob) \in Nat
  BY <1>1 DEF kb, lb, rb, ob
<1>3. CASE s.kind = "literal"
  <2>1. BitsOf(s) = kb \o lb
    BY <1>3 DEF BitsOf, kb, lb
  <2>2. /\ kb \o lb \in Seq(ItemSet)
        /\ Len(kb \o lb) = Len(kb) + Len(lb) /\ Len(kb \o lb) \in Nat
        /\ PartOf(kb, kb \o lb, 0) /\ PartOf(lb, kb \o lb, Len(kb))
    BY <1>2, Halves
  <2> QED BY <1>2, <1>3, <2>1, <2>2 DEF kb, lb, rb, ob
<1>4. CASE s.kind # "literal"
  <2>1. nb \in Seq(ItemSet) /\ Len(nb) \in Nat
    BY <1>1, <1>4 DEF nb
  <2> DEFINE on == ob \o nb
  <2> DEFINE ron == rb \o on
  <2> DEFINE all == kb \o ron
  <2>2. BitsOf(s) = all
    <3>1. BitsOf(s) = kb \o (rb \o ob \o nb)
      BY <1>4 DEF BitsOf, kb, rb, ob, nb
    <3>2. (rb \o ob) \o nb = rb \o (ob \o nb)
      <4>1. rb \in Seq(ItemSet) /\ ob \in Seq(ItemSet) /\ nb \in Seq(ItemSet)
        BY <1>2, <2>1
      <4> QED BY ONLY <4>1, ConcatAssociative
    <3> QED BY <3>1, <3>2
  <2>3. /\ on \in Seq(ItemSet) /\ Len(on) = Len(ob) + Len(nb) /\ Len(on) \in Nat
        /\ PartOf(ob, on, 0) /\ PartOf(nb, on, Len(ob))
    BY <1>2, <2>1, Halves
  <2> HIDE DEF on
  <2>4. /\ ron \in Seq(ItemSet) /\ Len(ron) = Len(rb) + Len(on) /\ Len(ron) \in Nat
        /\ PartOf(rb, ron, 0) /\ PartOf(on, ron, Len(rb))
    BY <1>2, <2>3, Halves
  <2> HIDE DEF ron
  <2>5. /\ all \in Seq(ItemSet) /\ Len(all) = Len(kb) + Len(ron) /\ Len(all) \in Nat
        /\ PartOf(kb, all, 0) /\ PartOf(ron, all, Len(kb))
    BY <1>2, <2>4, Halves
  <2> HIDE DEF all
  <2>6. /\ 0 \in Int /\ Len(kb) \in Int /\ Len(rb) \in Int /\ Len(ob) \in Int
        /\ Len(rb) + Len(kb) \in Int
    BY <1>2
  <2>7. PartOf(rb, all, 0 + Len(kb)) /\ PartOf(on, all, Len(rb) + Len(kb))
    BY <1>2, <2>3, <2>4, <2>5, <2>6, PartOfPart, Zenon
  <2>8. PartOf(ob, all, 0 + (Len(rb) + Len(kb)))
    BY <1>2, <2>3, <2>5, <2>6, <2>7, PartOfPart, Zenon
  <2>9. PartOf(nb, all, Len(ob) + (Len(rb) + Len(kb)))
    BY <2>1, <2>3, <2>5, <2>6, <2>7, PartOfPart, Zenon
  <2>10. /\ 0 + Len(kb) = Len(kb)
         /\ 0 + (Len(rb) + Len(kb)) = Len(kb) + Len(rb)
         /\ Len(ob) + (Len(rb) + Len(kb)) = Len(kb) + Len(rb) + Len(ob)
         /\ Len(all) = Len(kb) + Len(rb) + Len(ob) + Len(nb)
    BY <1>2, <2>1, <2>3, <2>4, <2>5
  <2>11. PartOf(rb, all, Len(kb)) /\ PartOf(ob, all, Len(kb) + Len(rb))
    BY <2>7, <2>8, <2>10
  <2>12. PartOf(nb, all, Len(kb) + Len(rb) + Len(ob))
    BY <2>9, <2>10
  <2> QED BY <1>2, <1>4, <2>1, <2>2, <2>5, <2>10, <2>11, <2>12 DEF kb, rb, ob, nb
<1> QED BY <1>3, <1>4

LEMMA StreamParts ==
  ASSUME EncoderInv, NEW k \in 1..Len(symbols)
  PROVE  LET s == symbols[k]
         IN  /\ WellFormed(s) /\ Encodes(s)
             /\ s.start \in Nat /\ BodyAt(s) \in Nat /\ EndAt(s) \in Nat
             /\ EndAt(s) <= Len(stream) /\ Len(stream) \in Nat
             /\ PartOf(KindBits(s), stream, s.start)
             /\ s.kind = "literal" =>
                  /\ EndAt(s) = BodyAt(s) + ByteBits
                  /\ PartOf(LiteralBits(s), stream, BodyAt(s))
             /\ s.kind # "literal" =>
                  /\ OffsetAt(s) \in Nat /\ LengthAt(s) \in Nat
                  /\ EndAt(s) = LengthAt(s) + Len(LengthBits(s))
                  /\ PartOf(RepeatBits(s), stream, BodyAt(s))
                  /\ PartOf(OffsetBits(s), stream, OffsetAt(s))
                  /\ PartOf(LengthBits(s), stream, LengthAt(s))
<1> DEFINE s == symbols[k]
<1>1. WellFormed(s) /\ Encodes(s) /\ Len(stream) \in Nat
  BY DEF EncoderInv
<1> HIDE DEF s
<1>2. s.start \in Nat
  BY <1>1 DEF WellFormed, SymbolSet
<1> DEFINE bits == BitsOf(s)
<1>3. Len(bits) \in Nat
  BY <1>1, SymbolBits
<1>4. PartOf(bits, stream, s.start) /\ s.start + Len(bits) <= Len(stream)
  BY <1>1, <1>2, <1>3 DEF Encodes, PartOf, EndAt
<1> HIDE DEF bits
<1>5. \A part, i : i \in Int /\ Len(part) \in Nat /\ PartOf(part, bits, i)
                     => PartOf(part, stream, i + s.start)
  BY <1>1, <1>2, <1>3, <1>4, PartOfPart
<1>6. /\ Len(KindBits(s)) \in Nat /\ Len(RepeatBits(s)) \in Nat /\ Len(OffsetBits(s)) \in Nat
      /\ PartOf(KindBits(s), bits, 0)
  BY <1>1, SymbolBits DEF bits
<1>7. PartOf(KindBits(s), stream, s.start)
  <2>1. PartOf(KindBits(s), stream, 0 + s.start)
    BY <1>5, <1>6
  <2>2. 0 + s.start = s.start
    BY <1>2
  <2> QED BY <2>1, <2>2
<1>8. EndAt(s) = s.start + Len(bits) /\ BodyAt(s) = s.start + Len(KindBits(s))
  BY DEF EndAt, BodyAt, bits
<1>9. ASSUME s.kind = "literal"
      PROVE  /\ EndAt(s) = BodyAt(s) + ByteBits
             /\ PartOf(LiteralBits(s), stream, BodyAt(s))
  <2>1. /\ Len(bits) = Len(KindBits(s)) + ByteBits
        /\ PartOf(LiteralBits(s), bits, Len(KindBits(s)))
        /\ Len(LiteralBits(s)) = ByteBits /\ ByteBits \in Nat
    BY <1>1, <1>9, SymbolBits, PartsTyped, ByteSizes DEF bits
  <2>2. PartOf(LiteralBits(s), stream, Len(KindBits(s)) + s.start)
    BY <1>5, <1>6, <2>1
  <2>3. Len(KindBits(s)) + s.start = BodyAt(s)
    BY <1>2, <1>6, <1>8
  <2> QED BY <1>2, <1>6, <1>8, <2>1, <2>2, <2>3
<1>10. ASSUME s.kind # "literal"
       PROVE  /\ OffsetAt(s) \in Nat /\ LengthAt(s) \in Nat
              /\ EndAt(s) = LengthAt(s) + Len(LengthBits(s))
              /\ PartOf(RepeatBits(s), stream, BodyAt(s))
              /\ PartOf(OffsetBits(s), stream, OffsetAt(s))
              /\ PartOf(LengthBits(s), stream, LengthAt(s))
  <2> DEFINE i == Len(KindBits(s)) + Len(RepeatBits(s))
  <2> DEFINE j == Len(KindBits(s)) + Len(RepeatBits(s)) + Len(OffsetBits(s))
  <2>1. /\ Len(bits) = j + Len(LengthBits(s)) /\ Len(LengthBits(s)) \in Nat
        /\ PartOf(RepeatBits(s), bits, Len(KindBits(s)))
        /\ PartOf(OffsetBits(s), bits, i)
        /\ PartOf(LengthBits(s), bits, j)
    BY <1>1, <1>10, SymbolBits DEF bits
  <2>2. OffsetAt(s) = i + s.start /\ LengthAt(s) = j + s.start
    BY <1>2, <1>6, <1>8 DEF OffsetAt, LengthAt
  <2>3. i \in Nat /\ j \in Nat
    BY <1>6
  <2>4. Len(KindBits(s)) + s.start = BodyAt(s)
    BY <1>2, <1>6, <1>8
  <2>5. EndAt(s) = LengthAt(s) + Len(LengthBits(s)) /\ OffsetAt(s) \in Nat /\ LengthAt(s) \in Nat
    BY <1>2, <1>8, <2>1, <2>2, <2>3
  <2> HIDE DEF i, j
  <2>6. PartOf(RepeatBits(s), stream, BodyAt(s))
    BY <1>5, <1>6, <2>1, <2>4
  <2>7. PartOf(OffsetBits(s), stream, OffsetAt(s))
    BY <1>5, <1>6, <2>1, <2>2, <2>3
  <2>8. PartOf(LengthBits(s), stream, LengthAt(s))
    BY <1>5, <2>1, <2>2, <2>3
  <2> QED BY <2>5, <2>6, <2>7, <2>8
<1>11. BodyAt(s) \in Nat /\ EndAt(s) \in Nat /\ EndAt(s) <= Len(stream)
  BY <1>2, <1>3, <1>4, <1>6, <1>8
<1> QED BY <1>1, <1>2, <1>7, <1>9, <1>10, <1>11 DEF s

-----------------------------------------------------------------------------
(* The encoder's contexts and the depacker's.                              *)

LEMMA ContextTyped ==
  ASSUME NEW c \in EncoderContexts
  PROVE  DepackerContext(c) \in Contexts
<1> USE SizesAssumption
<1>1. CASE c.use = "literal"
  <2>1. c.index \in 0..(2 * ByteSize - 1)
    BY <1>1 DEF EncoderContexts
  <2>2. LoadAddress % 2 \in {0, 1} /\ (LoadAddress + 1) % 2 \in {0, 1}
    OBVIOUS
  <2>3. LiteralContext(c.index) \in [group : LiteralGroups, index : 0..(ByteSize - 1)]
    BY <2>1, <2>2 DEF LiteralContext, LiteralGroups
  <2> QED BY <1>1, <2>3 DEF DepackerContext, Contexts
<1>2. CASE c.use \in {"offset", "length"}
  BY <1>2 DEF EncoderContexts, DepackerContext, Contexts, NumberGroups
<1>3. CASE c.use = "repeat"
  BY <1>3 DEF DepackerContext, Contexts
<1> QED BY <1>1, <1>2, <1>3 DEF EncoderContexts

LEMMA ContextInjective ==
  ASSUME NEW c \in EncoderContexts, NEW d \in EncoderContexts,
         DepackerContext(c) = DepackerContext(d)
  PROVE  c = d
<1> USE SizesAssumption
<1>1. \A e \in EncoderContexts :
        /\ e = [use |-> e.use, index |-> e.index]
        /\ e.use \in {"repeat", "literal", "offset", "length"}
        /\ e.index \in Int
        /\ e.use = "repeat" => e.index = 0
        /\ e.use = "literal" => e.index \in 0..(2 * ByteSize - 1)
  BY DEF EncoderContexts
<1>2. \A e \in EncoderContexts :
        /\ e.use = "repeat" => DepackerContext(e).index = -1
        /\ e.use = "literal" =>
             DepackerContext(e).group \in {0, 1} /\ DepackerContext(e).index >= 0
        /\ e.use = "offset" => DepackerContext(e) = [group |-> 3, index |-> e.index]
        /\ e.use = "length" => DepackerContext(e) = [group |-> 4, index |-> e.index]
  <2> SUFFICES ASSUME NEW e \in EncoderContexts
      PROVE
        /\ e.use = "repeat" => DepackerContext(e).index = -1
        /\ e.use = "literal" =>
             DepackerContext(e).group \in {0, 1} /\ DepackerContext(e).index >= 0
        /\ e.use = "offset" => DepackerContext(e) = [group |-> 3, index |-> e.index]
        /\ e.use = "length" => DepackerContext(e) = [group |-> 4, index |-> e.index]
    OBVIOUS
  <2>1. LoadAddress % 2 \in {0, 1} /\ (LoadAddress + 1) % 2 \in {0, 1}
    OBVIOUS
  <2>2. e.use = "literal" =>
             DepackerContext(e).group \in {0, 1} /\ DepackerContext(e).index >= 0
    BY <1>1, <2>1 DEF DepackerContext, LiteralContext
  <2> QED BY <2>2 DEF DepackerContext, RepeatContext, OffsetGroup, LengthGroup
<1>3. \A e \in EncoderContexts : e.use \in {"offset", "length"} => e.index >= 1
  BY DEF EncoderContexts
<1>4. c.use = d.use
  BY <1>1, <1>2, <1>3
<1>5. c.index = d.index
  <2>1. CASE c.use = "literal"
    <3>1. LiteralContext(c.index) = LiteralContext(d.index)
      BY <1>4, <2>1 DEF DepackerContext
    <3>2. LoadAddress % 2 # (LoadAddress + 1) % 2
      OBVIOUS
    <3>3. c.index < ByteSize <=> d.index < ByteSize
      BY <3>1, <3>2 DEF LiteralContext
    <3> QED BY <1>1, <1>4, <2>1, <3>1, <3>3 DEF LiteralContext
  <2>2. CASE c.use # "literal"
    BY <1>1, <1>2, <1>4, <2>2
  <2> QED BY <2>1, <2>2
<1> QED BY <1>1, <1>4, <1>5

LEMMA PairedOneToOne ==
  ASSUME NEW relation, Paired(relation)
  PROVE  OneToOne(relation)
<1> SUFFICES ASSUME NEW p \in relation, NEW q \in relation
             PROVE  p[1] = q[1] <=> p[2] = q[2]
  BY DEF OneToOne
<1>1. /\ p[1] \in EncoderContexts /\ p[2] = Slot(DepackerContext(p[1]))
      /\ q[1] \in EncoderContexts /\ q[2] = Slot(DepackerContext(q[1]))
  BY DEF Paired
<1>2. p[2] = q[2] => DepackerContext(p[1]) = DepackerContext(q[1])
  BY <1>1, ContextTyped, SlotInjective
<1> QED BY <1>1, <1>2, ContextInjective

(* The context of the depacker's next bit, if it is the home of the        *)
(* encoder's, keeps the pairing; so the bit arrives as it was written.     *)
LEMMA BitArrives ==
  ASSUME Paired(pairs), NEW b, DecodeBit(b), NEW c, NEW bit, NEW context \in EncoderContexts,
         received < Len(stream),
         stream[received + 1] = [context |-> context, bit |-> bit],
         access' = [context |-> c, address |-> Slot(c)], Slot(c) \in Int,
         c = DepackerContext(context)
  PROVE  Paired(pairs') /\ b = bit /\ received' = received + 1
<1>1. /\ pairs' = pairs \cup {<<context, Slot(c)>>}
      /\ OneToOne(pairs') => b = bit
      /\ received' = received + 1
  BY DEF DecodeBit
<1>2. Paired(pairs')
  BY <1>1 DEF Paired
<1>3. OneToOne(pairs')
  BY <1>2, PairedOneToOne
<1> QED BY <1>1, <1>2, <1>3

(* The context of a literal's bit, or of a kind: the parity of the address *)
(* is that of the position in the data, or the other one throughout.       *)
LEMMA LiteralContexts ==
  ASSUME NEW s, s.to \in Nat, NEW prefix \in 0..(ByteSize - 1)
  PROVE  LET context == [use |-> "literal", index |-> LiteralIndex(s, prefix)]
         IN  /\ context \in EncoderContexts
             /\ DepackerContext(context) =
                  [group |-> (LoadAddress + s.to) % 2, index |-> prefix]
<1> USE SizesAssumption
<1> DEFINE context == [use |-> "literal", index |-> LiteralIndex(s, prefix)]
<1>1. ByteSize = Pow2[ByteBits]
  BY ByteSizes
<1>2. CASE s.to % 2 = 0
  <2>1. LiteralIndex(s, prefix) = prefix
    BY <1>1, <1>2 DEF LiteralIndex
  <2>2. (LoadAddress + s.to) % 2 = LoadAddress % 2
    BY <1>2
  <2> QED BY <2>1, <2>2 DEF EncoderContexts, DepackerContext, LiteralContext
<1>3. CASE s.to % 2 = 1
  <2>1. LiteralIndex(s, prefix) = ByteSize + prefix
    BY <1>1, <1>3 DEF LiteralIndex
  <2>2. (LoadAddress + s.to) % 2 = (LoadAddress + 1) % 2
    BY <1>3
  <2>3. ByteSize + prefix \in 0..(2 * ByteSize - 1) /\ ~(ByteSize + prefix < ByteSize)
        /\ (ByteSize + prefix) - ByteSize = prefix
    OBVIOUS
  <2> QED BY <2>1, <2>2, <2>3 DEF EncoderContexts, DepackerContext, LiteralContext
<1> QED BY <1>2, <1>3

-----------------------------------------------------------------------------
(* The encoder keeps its invariant.                                        *)

(* What is appended leaves the earlier symbols' bits and bytes in place.   *)
LEMMA EncodesKept ==
  ASSUME NEW s, WellFormed(s), Encodes(s),
         Len(stream) \in Nat, Len(data) \in Nat,
         Len(stream') \in Nat, Len(data') \in Nat,
         PartOf(stream, stream', 0), PartOf(data, data', 0)
  PROVE  Encodes(s)'
<1>1. /\ Len(stream) <= Len(stream') /\ Len(data) <= Len(data')
      /\ \A n \in 1..Len(stream) : stream'[n] = stream[n]
      /\ \A n \in 1..Len(data) : data'[n] = data[n]
  BY DEF PartOf
<1>2. s.start \in Nat /\ s.to \in Nat /\ s.length \in Nat /\ s.offset \in Nat
  BY DEF WellFormed, SymbolSet
<1>3. Len(BitsOf(s)) \in Nat /\ EndAt(s) = s.start + Len(BitsOf(s))
  BY SymbolBits DEF EndAt
<1>4. /\ EndAt(s) <= Len(stream')
      /\ \A n \in 1..Len(BitsOf(s)) : stream'[s.start + n] = BitsOf(s)[n]
  <2>1. EndAt(s) <= Len(stream) /\ \A n \in 1..Len(BitsOf(s)) : stream[s.start + n] = BitsOf(s)[n]
    BY DEF Encodes
  <2>2. \A n \in 1..Len(BitsOf(s)) : s.start + n \in 1..Len(stream)
    BY <1>2, <1>3, <2>1
  <2>3. \A n \in 1..Len(BitsOf(s)) : stream'[s.start + n] = BitsOf(s)[n]
    BY ONLY <1>1, <2>1, <2>2
  <2>4. EndAt(s) <= Len(stream')
    BY <1>1, <1>2, <1>3, <2>1
  <2> QED BY <2>3, <2>4
<1>5. s.to + s.length <= Len(data')
  BY <1>1, <1>2 DEF Encodes
<1>6. s.kind = "literal" => data'[s.to + 1] = s.byte
  BY <1>1, <1>2 DEF Encodes, WellFormed
<1>7. ASSUME s.kind = "reference", NEW n \in 1..s.length
      PROVE  data'[s.to + n] = data'[s.to + n - s.offset]
  <2>1. s.to + n \in 1..Len(data) /\ s.to + n - s.offset \in 1..Len(data)
    <3>1. s.to + s.length <= Len(data)
      BY DEF Encodes
    <3>2. s.offset \in 1..s.to
      BY <1>7 DEF WellFormed
    <3>3. s.to + n <= Len(data) /\ 1 <= s.to + n - s.offset /\ s.to + n - s.offset <= s.to + n
      BY ONLY <1>2, <1>7, <3>1, <3>2, Len(data) \in Nat
    <3> QED BY ONLY <1>2, <1>7, <3>3, Len(data) \in Nat
  <2>2. data[s.to + n] = data[s.to + n - s.offset]
    BY <1>7 DEF Encodes
  <2> QED BY <1>1, <2>1, <2>2
<1> QED BY <1>4, <1>5, <1>6, <1>7 DEF Encodes, EndAt

LEMMA AppendKeeps ==
  ASSUME NEW S, NEW u \in Seq(S), NEW x \in S
  PROVE  /\ Append(u, x) \in Seq(S) /\ Len(Append(u, x)) = Len(u) + 1 /\ Append(u, x) # << >>
         /\ \A k \in 1..Len(u) : Append(u, x)[k] = u[k]
         /\ Append(u, x)[Len(u) + 1] = x
  BY AppendProperties

(* One more symbol, that starts where the stream and the data end.         *)
LEMMA SymbolEncoded ==
  ASSUME EncoderInv, NEW s, NEW bytes \in Seq(Byte), EncodeSymbol(s, bytes),
         WellFormed(s),
         s.start = Len(stream), s.to = Len(data), s.length = Len(bytes),
         Len(data) + Len(bytes) <= MaxData,
         s.previous = (IF symbols = << >> THEN "none" ELSE LastSymbol.kind),
         s.lastOffset = (IF symbols = << >> THEN 0
                         ELSE IF LastSymbol.kind = "reference" THEN LastSymbol.offset
                         ELSE LastSymbol.lastOffset),
         symbols = << >> => s.kind = "literal",
         s.kind = "literal" => bytes[1] = s.byte,
         s.kind = "reference" =>
           \A n \in 1..s.length : bytes[n] = (data \o bytes)[s.to + n - s.offset]
  PROVE  EncoderInv'
<1> DEFINE m == Len(symbols)
<1>1. /\ symbols \in Seq(SymbolSet) /\ m \in Nat
      /\ data \in Seq(Byte) /\ Len(data) \in Nat
      /\ stream \in Seq(ItemSet) /\ Len(stream) \in Nat
  BY DEF EncoderInv
<1>2. BitsOf(s) \in Seq(ItemSet) /\ Len(BitsOf(s)) \in Nat /\ s \in SymbolSet /\ Len(bytes) \in Nat
  <2>1. BitsOf(s) \in Seq(ItemSet) /\ Len(BitsOf(s)) \in Nat
    BY SymbolBits
  <2>2. s \in SymbolSet
    BY DEF WellFormed
  <2> QED BY <2>1, <2>2
<1>3. /\ stream' \in Seq(ItemSet) /\ Len(stream') = Len(stream) + Len(BitsOf(s))
      /\ Len(stream') \in Nat
      /\ PartOf(stream, stream', 0) /\ PartOf(BitsOf(s), stream', Len(stream))
  BY <1>1, <1>2, Halves DEF EncodeSymbol
<1>4. /\ data' \in Seq(Byte) /\ Len(data') = Len(data) + Len(bytes) /\ Len(data') \in Nat
      /\ PartOf(data, data', 0) /\ PartOf(bytes, data', Len(data))
  BY <1>1, <1>2, Halves DEF EncodeSymbol
<1>5. /\ symbols' \in Seq(SymbolSet) /\ Len(symbols') = m + 1
      /\ \A k \in 1..m : symbols'[k] = symbols[k]
      /\ symbols'[m + 1] = s /\ symbols' # << >>
  <2>1. symbols' = Append(symbols, s)
    BY DEF EncodeSymbol
  <2>2. symbols \in Seq(SymbolSet) /\ s \in SymbolSet
    BY <1>1, <1>2
  <2> DEFINE v == Append(symbols, s)
  <2>3. /\ v \in Seq(SymbolSet) /\ Len(v) = m + 1 /\ v # << >>
        /\ \A k \in 1..m : v[k] = symbols[k]
        /\ v[m + 1] = s
    BY ONLY <2>2, AppendKeeps, Zenon
  <2> HIDE DEF v
  <2>4. symbols' = v
    BY <2>1 DEF v
  <2> QED BY ONLY <2>3, <2>4
<1>6. LastSymbol' = s
  BY <1>5 DEF LastSymbol
<1>7. Encodes(s)'
  <2>1. EndAt(s) = Len(stream')
    BY <1>1, <1>2, <1>3 DEF EndAt
  <2>2. \A n \in 1..Len(BitsOf(s)) : stream'[s.start + n] = BitsOf(s)[n]
    BY <1>3 DEF PartOf
  <2>3. s.to + s.length = Len(data')
    BY <1>4
  <2>4. \A n \in 1..s.length : data'[s.to + n] = bytes[n]
    BY <1>4 DEF PartOf
  <2>5. s.kind = "literal" => data'[s.to + 1] = s.byte
    <3>1. s.kind = "literal" => 1 \in 1..s.length
      BY ONLY WellFormed(s) DEF WellFormed
    <3>2. s.kind = "literal" => data'[s.to + 1] = bytes[1]
      BY <2>4, <3>1
    <3> QED BY <3>2
  <2>6. ASSUME s.kind = "reference", NEW n \in 1..s.length
        PROVE  data'[s.to + n] = data'[s.to + n - s.offset]
    <3>1. data' = data \o bytes
      BY DEF EncodeSymbol
    <3>2. bytes[n] = (data \o bytes)[s.to + n - s.offset]
      BY ONLY <2>6, s.kind = "reference" =>
           \A k \in 1..s.length : bytes[k] = (data \o bytes)[s.to + k - s.offset]
    <3>3. data'[s.to + n] = bytes[n]
      BY ONLY <2>4, <2>6
    <3>4. data'[s.to + n - s.offset] = bytes[n]
      BY ONLY <3>1, <3>2, Zenon
    <3> QED BY ONLY <3>3, <3>4
  <2>7. EndAt(s)' <= Len(stream') /\ s.to + s.length <= Len(data')
    BY <1>3, <1>4, <2>1, <2>3 DEF EndAt
  <2> QED BY ONLY <2>2, <2>5, <2>6, <2>7 DEF Encodes
<1>8. (\A k \in 1..Len(symbols) : WellFormed(symbols[k]) /\ Encodes(symbols[k]))'
  <2> SUFFICES ASSUME NEW k \in 1..(m + 1)
               PROVE  (WellFormed(symbols[k]) /\ Encodes(symbols[k]))'
    BY <1>5
  <2>1. CASE k = m + 1
    <3>1. symbols'[k] = s
      BY <1>5, <2>1
    <3> QED BY <1>7, <3>1
  <2>2. CASE k # m + 1
    <3>1. k \in 1..m /\ symbols'[k] = symbols[k]
      BY <1>1, <1>5, <2>2
    <3> DEFINE old == symbols[k]
    <3>2. WellFormed(old) /\ Encodes(old)
      BY <3>1 DEF EncoderInv
    <3> QED BY <1>1, <1>3, <1>4, <3>1, <3>2, EncodesKept
  <2> QED BY <2>1, <2>2
<1>9. IsFirst(symbols'[1])
  <2>1. CASE symbols = << >>
    <3>1. m = 0 /\ symbols'[1] = s
      BY <1>5, <2>1
    <3> QED BY <2>1, <3>1 DEF IsFirst, EncoderInv
  <2>2. CASE symbols # << >>
    <3>1. 1 \in 1..m
      BY <1>1, <2>2
    <3> QED BY <1>5, <2>2, <3>1 DEF EncoderInv
  <2> QED BY <2>1, <2>2
<1>10. ASSUME NEW k \in 1..m
       PROVE  Follows(symbols'[k + 1], symbols'[k])
  <2>1. CASE k = m
    <3>1. symbols # << >> /\ LastSymbol = symbols[m]
      BY <1>1, <2>1 DEF LastSymbol
    <3>2. Len(stream) = EndAt(LastSymbol) /\ Len(data) = LastSymbol.to + LastSymbol.length
      BY <3>1 DEF EncoderInv
    <3>3. LastSymbol.kind # "end"
      BY <3>1 DEF EncodeSymbol, complete
    <3>4. Follows(s, LastSymbol)
      BY <3>1, <3>2, <3>3 DEF Follows
    <3> QED BY <1>5, <2>1, <3>1, <3>4
  <2>2. CASE k # m
    <3>1. k \in 1..(m - 1) /\ k + 1 \in 1..m
      BY <1>1, <2>2
    <3> QED BY <1>5, <3>1 DEF EncoderInv
  <2> QED BY <2>1, <2>2
<1>11. Len(stream') = EndAt(s) /\ Len(data') = s.to + s.length /\ Len(data') <= MaxData
  BY <1>3, <1>4 DEF EndAt
<1>12. (m + 1) - 1 = m
  BY <1>1
<1> HIDE DEF m
<1> QED BY <1>3, <1>4, <1>5, <1>6, <1>8, <1>9, <1>10, <1>11, <1>12 DEF EncoderInv, EndAt

LEMMA RemainderPeriodic ==
  ASSUME NEW a \in Nat, NEW p \in Nat \ {0}
  PROVE  (a + p) % p = a % p
<1>1. PICK q \in Nat, r \in 0..(p - 1) : a = q * p + r
  <2>1. a \div p \in Nat /\ a % p \in 0..(p - 1) /\ a = (a \div p) * p + (a % p)
    OBVIOUS
  <2> QED BY <2>1
<1>2. a % p = r
  BY <1>1
<1>3. a + p = (q + 1) * p + r
  BY <1>1
<1>4. (a + p) % p = r
  BY <1>1, <1>3
<1> QED BY <1>2, <1>4

(* A copy that overlaps itself repeats with the period of its offset.      *)
LEMMA CopiedPeriodic ==
  ASSUME NEW off \in Nat \ {0}, NEW length \in Nat, data \in Seq(Byte), off <= Len(data)
  PROVE  /\ Copied(off, length) \in Seq(Byte) /\ Len(Copied(off, length)) = length
         /\ \A n \in 1..length :
              Copied(off, length)[n] = (data \o Copied(off, length))[Len(data) + n - off]
<1> DEFINE bytes == Copied(off, length)
<1> DEFINE from(n) == Len(data) - off + 1 + ((n - 1) % off)
<1>1. bytes = [n \in 1..length |-> data[from(n)]]
  BY DEF Copied
<1>2. \A n \in Nat \ {0} : (n - 1) % off \in 0..(off - 1) /\ from(n) \in 1..Len(data)
  OBVIOUS
<1>3. bytes \in Seq(Byte) /\ Len(bytes) = length /\ \A n \in 1..length : bytes[n] = data[from(n)]
  <2>1. \A n \in 1..length : data[from(n)] \in Byte
    BY <1>2
  <2> HIDE DEF from
  <2>2. [n \in 1..length |-> data[from(n)]] \in Seq(Byte)
    BY <2>1
  <2> HIDE DEF bytes
  <2>3. Len(bytes) = length
    BY <1>1
  <2> QED BY <1>1, <2>2, <2>3
<1> HIDE DEF bytes
<1>4. /\ PartOf(data, data \o bytes, 0) /\ PartOf(bytes, data \o bytes, Len(data))
      /\ Len(data) \in Nat
  BY <1>3, Halves
<1>5. ASSUME NEW n \in 1..length
      PROVE  bytes[n] = (data \o bytes)[Len(data) + n - off]
  <2>1. CASE n <= off
    <3>1. (n - 1) % off = n - 1
      BY <2>1
    <3>2. from(n) = Len(data) + n - off /\ from(n) \in 1..Len(data) /\ 0 + from(n) = from(n)
      BY <1>2, <1>4, <3>1
    <3> HIDE DEF from
    <3>3. (data \o bytes)[from(n)] = data[from(n)]
      BY <1>4, <3>2 DEF PartOf
    <3> QED BY <1>3, <3>2, <3>3
  <2>2. CASE n > off
    <3>1. n - off \in 1..length
      BY <2>2
    <3>2. (n - 1) % off = (n - off - 1) % off
      <4> DEFINE a == n - off - 1
      <4>1. a \in Nat /\ n - 1 = a + off
        BY <2>2
      <4> HIDE DEF a
      <4>2. (a + off) % off = a % off
        BY <4>1, RemainderPeriodic
      <4> QED BY <4>1, <4>2 DEF a
    <3>3. from(n) = from(n - off)
      BY <3>2
    <3> HIDE DEF from
    <3>4. (data \o bytes)[Len(data) + (n - off)] = bytes[n - off]
      <4>1. n - off \in 1..Len(bytes)
        BY <1>3, <3>1
      <4> QED BY <1>4, <4>1 DEF PartOf
    <3>5. Len(data) + (n - off) = Len(data) + n - off
      BY <1>4
    <3>6. bytes[n] = data[from(n)] /\ bytes[n - off] = data[from(n - off)]
      BY <1>3, <3>1
    <3> QED BY <3>3, <3>4, <3>5, <3>6
  <2>3. n <= off \/ n > off
    OBVIOUS
  <2> QED BY ONLY <2>1, <2>2, <2>3
<1> QED BY <1>3, <1>5 DEF bytes

LEMMA EncoderPreserves ==
  EncoderInv /\ EncoderNext => EncoderInv'
<1> SUFFICES ASSUME EncoderInv, EncoderNext
             PROVE  EncoderInv'
  OBVIOUS
<1>1. /\ data \in Seq(Byte) /\ Len(data) \in Nat /\ Len(stream) \in Nat
      /\ symbols \in Seq(SymbolSet)
      /\ symbols = << >> => Len(data) = 0
  BY DEF EncoderInv
<1>2. ~complete
  BY DEF EncoderNext, EncodeLiteral, EncodeReference, EncodeEnd, EncodeSymbol
<1>3. symbols # << >> =>
        LastSymbol \in SymbolSet /\ LastSymbol.kind \in {"literal", "reference"}
  <2> SUFFICES ASSUME symbols # << >>
               PROVE  LastSymbol \in SymbolSet /\ LastSymbol.kind \in {"literal", "reference"}
    OBVIOUS
  <2>1. Len(symbols) \in 1..Len(symbols)
    BY <1>1
  <2>2. LastSymbol \in SymbolSet
    BY <1>1, <2>1 DEF LastSymbol
  <2>3. LastSymbol.kind # "end"
    BY <1>2 DEF complete
  <2> QED BY <2>2, <2>3 DEF SymbolSet
<1>4. \A kind, byte, off, length :
        /\ kind \in {"literal", "reference", "end"} /\ byte \in Byte
        /\ off \in Nat /\ length \in Nat
        => /\ Symbol(kind, byte, off, length) \in SymbolSet
           /\ Symbol(kind, byte, off, length).kind = kind
           /\ Symbol(kind, byte, off, length).byte = byte
           /\ Symbol(kind, byte, off, length).offset = off
           /\ Symbol(kind, byte, off, length).length = length
           /\ Symbol(kind, byte, off, length).start = Len(stream)
           /\ Symbol(kind, byte, off, length).to = Len(data)
           /\ Symbol(kind, byte, off, length).previous =
                (IF symbols = << >> THEN "none" ELSE LastSymbol.kind)
           /\ Symbol(kind, byte, off, length).lastOffset =
                (IF symbols = << >> THEN 0
                 ELSE IF LastSymbol.kind = "reference" THEN LastSymbol.offset
                 ELSE LastSymbol.lastOffset)
  <2> DEFINE previous == IF symbols = << >> THEN "none" ELSE LastSymbol.kind
             lastOffset == IF symbols = << >> THEN 0
                           ELSE IF LastSymbol.kind = "reference" THEN LastSymbol.offset
                           ELSE LastSymbol.lastOffset
  <2>1. previous \in {"none", "literal", "reference"} /\ lastOffset \in Nat
    BY <1>3 DEF SymbolSet
  <2>2. Len(stream) \in Nat /\ Len(data) \in Nat
    BY <1>1
  <2> HIDE DEF previous, lastOffset
  <2>3. ASSUME NEW kind, NEW byte, NEW off, NEW length
        PROVE  Symbol(kind, byte, off, length) =
                 [kind |-> kind, byte |-> byte, offset |-> off, length |-> length,
                  start |-> Len(stream), to |-> Len(data),
                  previous |-> previous, lastOffset |-> lastOffset]
    BY DEF Symbol, previous, lastOffset
  <2>4. ASSUME NEW kind \in {"literal", "reference", "end"}, NEW byte \in Byte,
               NEW off \in Nat, NEW length \in Nat
        PROVE  Symbol(kind, byte, off, length) \in SymbolSet
    BY ONLY <2>1, <2>2, <2>3, <2>4 DEF SymbolSet
  <2>5. ASSUME NEW kind, NEW byte, NEW off, NEW length
        PROVE  LET s == Symbol(kind, byte, off, length)
               IN  /\ s.kind = kind /\ s.byte = byte /\ s.offset = off
                   /\ s.length = length /\ s.start = Len(stream) /\ s.to = Len(data)
                   /\ s.previous = previous /\ s.lastOffset = lastOffset
    BY ONLY <2>3
  <2> QED BY ONLY <2>4, <2>5 DEF previous, lastOffset
<1>5. ASSUME NEW byte \in Literals, EncodeLiteral(byte)
      PROVE  EncoderInv'
  <2> DEFINE s == Symbol("literal", byte, 0, 1)
  <2>1. byte \in Byte
    BY EncoderAssumption, RoundTripAssumption DEF Byte
  <2>2. WellFormed(s)
    BY <1>4, <2>1 DEF WellFormed
  <2>3. EncodeSymbol(s, <<byte>>)
    BY <1>5 DEF EncodeLiteral
  <2>4. /\ <<byte>> \in Seq(Byte) /\ Len(<<byte>>) = 1 /\ <<byte>>[1] = byte
        /\ Len(data) + Len(<<byte>>) <= MaxData
    BY <1>1, <1>5, <2>1, RoundTripAssumption DEF EncodeLiteral
  <2>5. /\ s.kind = "literal" /\ s.byte = byte /\ s.length = 1
        /\ s.start = Len(stream) /\ s.to = Len(data)
        /\ s.previous = (IF symbols = << >> THEN "none" ELSE LastSymbol.kind)
        /\ s.lastOffset = (IF symbols = << >> THEN 0
                           ELSE IF LastSymbol.kind = "reference" THEN LastSymbol.offset
                           ELSE LastSymbol.lastOffset)
    BY <1>4, <2>1
  <2> HIDE DEF s
  <2> QED BY <2>2, <2>3, <2>4, <2>5, SymbolEncoded
<1>6. ASSUME NEW off \in Offsets, NEW length \in Lengths, EncodeReference(off, length)
      PROVE  EncoderInv'
  <2> DEFINE s == Symbol("reference", 0, off, length)
  <2>1. /\ 0 \in Byte /\ off \in Nat \ {0} /\ length \in Nat /\ length >= 2 /\ off <= Len(data)
        /\ symbols # << >>
    BY <1>1, <1>6, EncoderAssumption, ByteSizes DEF Byte, EncodeReference
  <2>2. WellFormed(s)
    BY <1>4, <2>1 DEF WellFormed
  <2> DEFINE bytes == Copied(off, length)
  <2>3. EncodeSymbol(s, bytes)
    BY <1>6 DEF EncodeReference
  <2>4. /\ bytes \in Seq(Byte) /\ Len(bytes) = length
        /\ \A n \in 1..length : bytes[n] = (data \o bytes)[Len(data) + n - off]
    BY <1>1, <2>1, CopiedPeriodic
  <2>a. Len(data) + Len(bytes) <= MaxData
    <3> HIDE DEF bytes
    <3> QED BY <1>6, <2>4 DEF EncodeReference
  <2>5. /\ s.kind = "reference" /\ s.offset = off /\ s.length = length
        /\ s.start = Len(stream) /\ s.to = Len(data)
        /\ s.previous = (IF symbols = << >> THEN "none" ELSE LastSymbol.kind)
        /\ s.lastOffset = (IF symbols = << >> THEN 0
                           ELSE IF LastSymbol.kind = "reference" THEN LastSymbol.offset
                           ELSE LastSymbol.lastOffset)
    BY <1>4, <2>1
  <2> HIDE DEF s, bytes
  <2> QED BY <2>1, <2>2, <2>3, <2>4, <2>a, <2>5, SymbolEncoded
<1>7. ASSUME EncodeEnd
      PROVE  EncoderInv'
  <2> DEFINE s == Symbol("end", 0, 0, 0)
  <2>1. 0 \in Byte /\ symbols # << >>
    BY <1>1, <1>7, ByteSizes DEF Byte, EncodeEnd
  <2>2. WellFormed(s)
    BY <1>4, <2>1 DEF WellFormed
  <2>3. /\ EncodeSymbol(s, << >>) /\ << >> \in Seq(Byte) /\ Len(<< >>) = 0
        /\ Len(data) + Len(<< >>) <= MaxData
    BY <1>1, <1>7 DEF EncodeEnd, EncoderInv
  <2>5. /\ s.kind = "end" /\ s.length = 0
        /\ s.start = Len(stream) /\ s.to = Len(data)
        /\ s.previous = (IF symbols = << >> THEN "none" ELSE LastSymbol.kind)
        /\ s.lastOffset = (IF symbols = << >> THEN 0
                           ELSE IF LastSymbol.kind = "reference" THEN LastSymbol.offset
                           ELSE LastSymbol.lastOffset)
    BY <1>4, <2>1
  <2> HIDE DEF s
  <2> QED BY <2>1, <2>2, <2>3, <2>5, SymbolEncoded
<1> QED BY <1>5, <1>6, <1>7 DEF EncoderNext

-----------------------------------------------------------------------------
(* The depacker, symbol by symbol.                                         *)

LEMMA SymbolParts ==
  ASSUME EncoderInv, NEW s \in Written
  PROVE  /\ WellFormed(s) /\ Encodes(s)
         /\ s.start \in Nat /\ BodyAt(s) \in Nat /\ EndAt(s) \in Nat
         /\ EndAt(s) <= Len(stream) /\ Len(stream) \in Nat
         /\ PartOf(KindBits(s), stream, s.start)
         /\ s.kind = "literal" =>
              /\ EndAt(s) = BodyAt(s) + ByteBits
              /\ PartOf(LiteralBits(s), stream, BodyAt(s))
         /\ s.kind # "literal" =>
              /\ OffsetAt(s) \in Nat /\ LengthAt(s) \in Nat
              /\ EndAt(s) = LengthAt(s) + Len(LengthBits(s))
              /\ PartOf(RepeatBits(s), stream, BodyAt(s))
              /\ PartOf(OffsetBits(s), stream, OffsetAt(s))
              /\ PartOf(LengthBits(s), stream, LengthAt(s))
<1>1. PICK k \in 1..Len(symbols) : s = symbols[k]
  BY DEF Written
<1> QED BY <1>1, StreamParts

LEMMA SymbolTyped ==
  ASSUME NEW s, WellFormed(s)
  PROVE  /\ s.kind \in {"literal", "reference", "end"} /\ s.byte \in Byte
         /\ s.offset \in Nat /\ s.length \in Nat /\ s.start \in Nat /\ s.to \in Nat
         /\ s.lastOffset \in Nat
         /\ s.kind = "literal" => s.length = 1
         /\ s.kind = "reference" => s.offset \in 1..s.to /\ s.length >= 2
         /\ s.kind = "end" => s.offset = 0 /\ s.length = 0
  BY DEF WellFormed, SymbolSet

(* The stream of a complete encoding goes on until the end marker.         *)
LEMMA NextSymbol ==
  ASSUME EncoderInv, complete, NEW s \in Written, s.kind # "end"
  PROVE  \E p \in Written : Follows(p, s) /\ WellFormed(p)
<1>1. PICK k \in 1..Len(symbols) : s = symbols[k]
  BY DEF Written
<1>2. Len(symbols) \in Nat
  BY DEF EncoderInv
<1>3. k # Len(symbols)
  BY <1>1 DEF complete, LastSymbol
<1>4. k \in 1..(Len(symbols) - 1) /\ k + 1 \in 1..Len(symbols)
  BY <1>2, <1>3
<1>5. Follows(symbols[k + 1], s) /\ WellFormed(symbols[k + 1]) /\ symbols[k + 1] \in Written
  BY <1>1, <1>4 DEF EncoderInv, Written
<1> QED BY <1>5

LEMMA FirstSymbol ==
  ASSUME EncoderInv, complete
  PROVE  \E s \in Written : IsFirst(s) /\ WellFormed(s)
<1>1. symbols # << >> /\ symbols \in Seq(SymbolSet)
  BY DEF complete, EncoderInv
<1>2. 1 \in 1..Len(symbols)
  BY <1>1
<1> QED BY <1>1, <1>2 DEF EncoderInv, Written

(* A bit that the stream holds for the context getbit is called with.      *)
LEMMA ReadBit ==
  ASSUME Paired(pairs), NEW b, DecodeBit(b), Len(stream) \in Nat,
         NEW part, NEW at \in Nat, NEW n \in Nat, PartOf(part, stream, at),
         n + 1 \in 1..Len(part), received = at + n,
         NEW group, NEW index, Getbit(group, index),
         sp = TableBase - (IF group \in NumberGroups THEN GetnumberFrame ELSE 0),
         NEW use, NEW number, NEW bit, part[n + 1] = Item(use, number, bit),
         [use |-> use, index |-> number] \in EncoderContexts,
         DepackerContext([use |-> use, index |-> number]) = [group |-> group, index |-> index]
  PROVE  Paired(pairs') /\ b = bit /\ received' = received + 1 /\ UNCHANGED encoderVars
<1> DEFINE context == [use |-> use, index |-> number]
<1> DEFINE c == [group |-> group, index |-> index]
<1>1. context \in EncoderContexts /\ DepackerContext(context) = c
  OBVIOUS
<1>2. c \in Contexts
  BY <1>1, ContextTyped
<1>3. access' = [context |-> c, address |-> Slot(c)] /\ Slot(c) \in Int
  BY <1>2, GetbitAddress
<1>4. at + (n + 1) \in 1..Len(stream) /\ stream[at + (n + 1)] = part[n + 1]
  BY DEF PartOf
<1>5. received < Len(stream) /\ received + 1 = at + (n + 1)
  BY <1>4
<1>6. stream[received + 1] = [context |-> context, bit |-> bit]
  BY <1>4, <1>5 DEF Item
<1> HIDE DEF context, c
<1>7. Paired(pairs') /\ b = bit /\ received' = received + 1
  BY <1>1, <1>3, <1>5, <1>6, BitArrives
<1> QED BY <1>7 DEF DecodeBit

(* strb of the next byte of the data.                                      *)
LEMMA StoreUnpacks ==
  ASSUME NEW n \in Nat, OutAt(n), NEW value, StoreByte(value), value = data[n + 1],
         UNCHANGED data
  PROVE  OutAt(n + 1)'
<1> USE SizesAssumption
<1>1. /\ outp = LoadAddress + n
      /\ DOMAIN mem = LoadAddress..(LoadAddress + n - 1)
      /\ \A m \in 1..n : mem[LoadAddress + m - 1] = data[m]
  BY DEF OutAt, Unpacks
<1>2. /\ mem' = [a \in DOMAIN mem \cup {outp} |-> IF a = outp THEN value ELSE mem[a]]
      /\ outp' = outp + 1
  BY DEF StoreByte
<1>3. DOMAIN mem' = LoadAddress..(LoadAddress + (n + 1) - 1)
  BY <1>1, <1>2
<1>4. ASSUME NEW m \in 1..(n + 1)
      PROVE  mem'[LoadAddress + m - 1] = data'[m]
  <2>1. CASE m = n + 1
    <3>1. LoadAddress + m - 1 = outp
      BY <1>1, <2>1
    <3>2. mem'[outp] = value
      BY ONLY <1>2
    <3>3. data'[m] = value
      BY <2>1
    <3> QED BY ONLY <3>1, <3>2, <3>3
  <2>2. CASE m # n + 1
    <3>1. m \in 1..n /\ LoadAddress + m - 1 # outp /\ LoadAddress + m - 1 \in DOMAIN mem
      BY <1>1, <2>2
    <3> QED BY <1>1, <1>2, <3>1
  <2> QED BY <2>1, <2>2
<1> QED BY <1>1, <1>2, <1>3, <1>4 DEF OutAt, Unpacks

(* Steps that leave the output alone.                                      *)
LEMMA OutKept ==
  ASSUME NEW n, OutAt(n), UNCHANGED <<outp, mem, data>>
  PROVE  OutAt(n)'
  BY DEF OutAt, Unpacks

LEMMA OldOffsetKept ==
  ASSUME NEW s, OldOffset(s), UNCHANGED offset
  PROVE  OldOffset(s)'
  BY DEF OldOffset

LEMMA Stays ==
  ASSUME NEW s \in Written, AtLabel(s)', OldOffset(s)', UNCHANGED symbols
  PROVE  Placed'
<1>1. s \in Written'
  BY DEF Written
<1> QED BY <1>1 DEF Placed

(* The end of a symbol is the start of the next one.                       *)
LEMMA GoesOn ==
  ASSUME NEW s, Inside(s), WellFormed(s), s.kind # "end", UNCHANGED symbols,
         OutAt(s.to + s.length)', received' = EndAt(s),
         pc' = (IF s.kind = "literal" THEN "switch" ELSE "after_reference"),
         offset' = offset, s.kind = "reference" => offset = s.offset
  PROVE  Placed'
<1>1. PICK p \in Written : Follows(p, s) /\ WellFormed(p)
  BY NextSymbol DEF Inside
<1>2. p.start = EndAt(s) /\ p.to = s.to + s.length /\ p.previous = s.kind
  BY <1>1 DEF Follows
<1>3. s.kind \in {"literal", "reference"}
  BY SymbolTyped
<1>4. InKind(p)'
  BY <1>2, <1>3 DEF InKind
<1>5. AtLabel(p)'
  BY <1>3, <1>4 DEF AtLabel
<1>6. OldOffset(p)'
  <2>1. p.lastOffset = IF s.kind = "reference" THEN s.offset ELSE s.lastOffset
    BY <1>1 DEF Follows
  <2>2. OldOffset(s)
    BY DEF Inside
  <2> QED BY <1>3, <2>1, <2>2 DEF OldOffset
<1> QED BY <1>5, <1>6, Stays

LEMMA CodeStartPlaces ==
  ASSUME IInv, EncoderInv, DepackInv, complete, CodeStart, UNCHANGED <<encoderVars, received>>
  PROVE  Placed'
<1>1. PICK s \in Written : IsFirst(s) /\ WellFormed(s)
  BY FirstSymbol
<1>2. s.kind = "literal" /\ s.start = 0 /\ s.to = 0 /\ s.previous = "none" /\ s.lastOffset = 0
  BY <1>1 DEF IsFirst
<1>3. BodyAt(s) = 0
  BY <1>2 DEF BodyAt, KindBits
<1>4. pc = "code_start" /\ pc' = "literal" /\ outp' = LoadAddress /\ mem' = mem
  BY DEF CodeStart
<1>5. received' = 0 /\ DOMAIN mem = {}
  BY <1>4 DEF DepackInv, IInv, StartInv
<1>6. OutAt(0)'
  BY <1>4, <1>5, SizesAssumption DEF OutAt, Unpacks
<1>7. InLiteral(s)'
  BY <1>2, <1>3, <1>4, <1>5, <1>6 DEF InLiteral
<1>8. AtLabel(s)'
  BY <1>4, <1>7 DEF AtLabel
<1>9. OldOffset(s)'
  BY <1>2 DEF OldOffset
<1> QED BY <1>8, <1>9, Stays DEF encoderVars

LEMMA LiteralPlaces ==
  ASSUME NEW s, Inside(s), Literal, UNCHANGED <<encoderVars, received>>
  PROVE  Placed'
<1>1. s \in Written /\ AtLabel(s) /\ OldOffset(s) /\ WellFormed(s) /\ BodyAt(s) \in Nat
  BY SymbolParts DEF Inside
<1>2. pc = "literal" /\ pc' = "getlit" /\ tmp0' = 1 /\ UNCHANGED <<outp, mem, offset>>
  BY DEF Literal
<1>3. s.kind = "literal" /\ OutAt(s.to) /\ received = BodyAt(s)
  BY <1>1, <1>2 DEF AtLabel, InLiteral
<1>4. 0 \in 0..(ByteBits - 1) /\ tmp0' = Prefix(s.byte, 0)
  BY <1>1, <1>2, ByteSizes, Prefixes, SymbolTyped
<1>5. OutAt(s.to)'
  BY <1>2, <1>3, OutKept DEF encoderVars
<1>6. received' = BodyAt(s) + 0
  BY <1>1, <1>3
<1>7. InLiteral(s)'
  BY <1>2, <1>3, <1>4, <1>5, <1>6 DEF InLiteral
<1>8. AtLabel(s)'
  BY <1>2, <1>7 DEF AtLabel
<1> QED BY <1>1, <1>2, <1>8, OldOffsetKept, Stays DEF encoderVars

(* Outside getnumber, sp is where getbit expects it.                       *)
LEMMA StackAtBase ==
  ASSUME IInv, ~InGetnumber, pc \notin {"code_start", "intro"}
  PROVE  sp = TableBase - 0 /\ frames = << >>
<1>1. sp = TableBase /\ frames = << >> /\ TableBase \in Int
  BY SizesAssumption DEF IInv, MainInv, TableBase
<1> QED BY <1>1

LEMMA GetlitPlaces ==
  ASSUME NEW s, Inside(s), NEW b \in Bit, Getlit(b), DecodeBit(b)
  PROVE  Placed' /\ Paired(pairs')
<1>1. /\ s \in Written /\ AtLabel(s) /\ OldOffset(s) /\ WellFormed(s) /\ Encodes(s)
      /\ BodyAt(s) \in Nat /\ Len(stream) \in Nat /\ Paired(pairs)
  BY SymbolParts DEF Inside
<1>2. pc = "getlit" /\ Getbit(outp % 2, tmp0) /\ tmp0' = 2 * tmp0 + b /\ offset' = offset
  BY DEF Getlit
<1>3. s.kind = "literal" /\ OutAt(s.to) /\ s.to \in Nat /\ s.byte \in Byte /\ s.length = 1
  BY <1>1, <1>2, SymbolTyped DEF AtLabel, InLiteral
<1>4. PICK n \in 0..(ByteBits - 1) : received = BodyAt(s) + n /\ tmp0 = Prefix(s.byte, n)
  BY <1>1, <1>2 DEF AtLabel, InLiteral
<1>5. ByteBits \in Nat /\ n \in Nat /\ n + 1 \in 1..ByteBits /\ (n + 1) - 1 = n /\ ByteSize \in Nat
  BY <1>4, ByteSizes
<1> DEFINE bit == Prefix(s.byte, n + 1) % 2
<1>6. /\ tmp0 \in 0..(ByteSize - 1) /\ bit \in Bit
      /\ 2 * tmp0 + bit = Prefix(s.byte, n + 1) /\ Prefix(s.byte, n + 1) \in Nat
  BY <1>3, <1>4, <1>5, Prefixes
<1>7. /\ PartOf(LiteralBits(s), stream, BodyAt(s)) /\ EndAt(s) = BodyAt(s) + ByteBits
      /\ Len(LiteralBits(s)) = ByteBits
      /\ LiteralBits(s)[n + 1] = Item("literal", LiteralIndex(s, tmp0), bit)
  <2>1. PartOf(LiteralBits(s), stream, BodyAt(s)) /\ EndAt(s) = BodyAt(s) + ByteBits
    BY <1>3, SymbolParts DEF Inside
  <2>2. Len(LiteralBits(s)) = ByteBits
    BY <1>1, PartsTyped
  <2>3. LiteralBits(s)[n + 1] = Item("literal", LiteralIndex(s, tmp0), bit)
    BY <1>4, <1>5 DEF LiteralBits
  <2> QED BY <2>1, <2>2, <2>3
<1> HIDE DEF bit
<1> DEFINE context == [use |-> "literal", index |-> LiteralIndex(s, tmp0)]
<1>8. /\ context \in EncoderContexts
      /\ DepackerContext(context) = [group |-> outp % 2, index |-> tmp0]
  <2>1. outp = LoadAddress + s.to
    BY <1>3 DEF OutAt
  <2> QED BY <1>3, <1>6, <2>1, LiteralContexts
<1>9. sp = TableBase - (IF outp % 2 \in NumberGroups THEN GetnumberFrame ELSE 0)
  <2>1. outp % 2 \notin NumberGroups
    BY DEF Inside, IInv, TypeOK, NumberGroups, OffsetGroup, LengthGroup
  <2> QED BY <1>2, <2>1, StackAtBase DEF Inside, InGetnumber
<1>10. Paired(pairs') /\ b = bit /\ received' = received + 1 /\ UNCHANGED encoderVars
  <2>1. n + 1 \in 1..Len(LiteralBits(s))
    BY <1>5, <1>7
  <2> QED BY <1>1, <1>2, <1>4, <1>5, <1>7, <1>8, <1>9, <2>1, ReadBit
<1>11. tmp0' = Prefix(s.byte, n + 1) /\ received' = BodyAt(s) + (n + 1)
  BY <1>1, <1>2, <1>4, <1>5, <1>6, <1>10
<1>12. CASE n + 1 < ByteBits
  <2>1. n + 1 \in 0..(ByteBits - 1)
    BY <1>5, <1>12
  <2>2. Prefix(s.byte, n + 1) < ByteSize
    BY <1>3, <2>1, Prefixes
  <2>3. pc' = "getlit" /\ UNCHANGED <<outp, mem>>
    BY <1>2, <1>5, <1>6, <1>10, <2>2 DEF Getlit
  <2>4. OutAt(s.to)'
    BY <1>3, <1>10, <2>3, OutKept DEF encoderVars
  <2>5. InLiteral(s)'
    BY <1>3, <1>11, <2>1, <2>3, <2>4 DEF InLiteral
  <2>6. AtLabel(s)'
    BY <2>3, <2>5 DEF AtLabel
  <2>7. UNCHANGED symbols
    BY <1>10 DEF encoderVars
  <2>8. OldOffset(s)'
    BY <1>1, <1>2, OldOffsetKept
  <2>9. Placed'
    BY <1>1, <2>6, <2>7, <2>8, Stays
  <2> QED BY <1>10, <2>9
<1>13. CASE ~(n + 1 < ByteBits)
  <2>1. n + 1 = ByteBits
    BY <1>5, <1>13
  <2>2. Prefix(s.byte, n + 1) = ByteSize + s.byte
    BY <1>3, <2>1, Prefixes
  <2>3. 2 * tmp0 + b = ByteSize + s.byte
    BY <1>6, <1>10, <2>2
  <2>4. ~(2 * tmp0 + b <= ByteSize - 1) /\ (2 * tmp0 + b) % ByteSize = s.byte
    BY <1>3, <1>5, <2>3 DEF Byte
  <2>5. pc' = "switch" /\ StoreByte(s.byte)
    BY <2>4 DEF Getlit
  <2>6. s.byte = data[s.to + 1]
    BY <1>1, <1>3 DEF Encodes
  <2>7. OutAt(s.to + s.length)'
    BY <1>3, <1>10, <2>5, <2>6, StoreUnpacks DEF encoderVars
  <2>8. received' = EndAt(s) /\ UNCHANGED symbols
    BY <1>7, <1>10, <1>11, <2>1 DEF encoderVars
  <2>9. Placed'
    BY <1>1, <1>2, <1>3, <2>5, <2>7, <2>8, GoesOn
  <2> QED BY <1>10, <2>9
<1> QED BY <1>12, <1>13

LEMMA KindPlaces ==
  ASSUME NEW s, Inside(s), NEW b \in Bit, Switch(b) \/ AfterReference(b), DecodeBit(b)
  PROVE  Placed' /\ Paired(pairs')
<1>1. /\ s \in Written /\ AtLabel(s) /\ OldOffset(s) /\ WellFormed(s)
      /\ s.start \in Nat /\ BodyAt(s) \in Nat /\ Len(stream) \in Nat /\ Paired(pairs)
      /\ PartOf(KindBits(s), stream, s.start)
  BY SymbolParts DEF Inside
<1>2. /\ pc \in {"switch", "after_reference"} /\ Getbit(outp % 2, 0)
      /\ UNCHANGED <<outp, mem, offset>>
  BY DEF Switch, AfterReference, Getkind
<1>3. /\ OutAt(s.to) /\ received = s.start /\ s.to \in Nat
      /\ s.previous = IF pc = "switch" THEN "literal" ELSE "reference"
  BY <1>1, <1>2, SymbolTyped DEF AtLabel, InKind
<1> DEFINE bit == IF s.kind = "literal" THEN 0 ELSE 1
<1>4. KindBits(s) = << Item("literal", LiteralIndex(s, 0), bit) >>
  BY <1>2, <1>3 DEF KindBits
<1> HIDE DEF bit
<1>5. /\ Len(KindBits(s)) = 1 /\ KindBits(s)[0 + 1] = Item("literal", LiteralIndex(s, 0), bit)
      /\ 0 + 1 \in 1..Len(KindBits(s)) /\ received = s.start + 0
  BY <1>1, <1>3, <1>4
<1> DEFINE context == [use |-> "literal", index |-> LiteralIndex(s, 0)]
<1>6. /\ context \in EncoderContexts
      /\ DepackerContext(context) = [group |-> outp % 2, index |-> 0]
  <2>1. outp = LoadAddress + s.to /\ 0 \in 0..(ByteSize - 1)
    BY <1>3, ByteSizes DEF OutAt
  <2> QED BY <1>3, <2>1, LiteralContexts
<1>7. sp = TableBase - (IF outp % 2 \in NumberGroups THEN GetnumberFrame ELSE 0)
  <2>1. outp % 2 \notin NumberGroups
    BY DEF Inside, IInv, TypeOK, NumberGroups, OffsetGroup, LengthGroup
  <2> QED BY <1>2, <2>1, StackAtBase DEF Inside, InGetnumber
<1>8. Paired(pairs') /\ b = bit /\ received' = received + 1 /\ UNCHANGED encoderVars
  BY <1>1, <1>2, <1>5, <1>6, <1>7, ReadBit
<1>9. OutAt(s.to)' /\ OldOffset(s)' /\ UNCHANGED symbols
  BY <1>1, <1>2, <1>3, <1>8, OutKept, OldOffsetKept DEF encoderVars
<1>10. received' = BodyAt(s)
  BY <1>1, <1>3, <1>5, <1>8 DEF BodyAt
<1>11. AtLabel(s)'
  <2>1. CASE s.kind = "literal"
    <3>1. pc' = "literal"
      BY <1>8, <2>1 DEF bit, Switch, AfterReference
    <3>2. InLiteral(s)'
      BY <1>9, <1>10, <2>1, <3>1 DEF InLiteral
    <3> QED BY <3>1, <3>2 DEF AtLabel
  <2>2. CASE s.kind # "literal" /\ Switch(b)
    <3>1. pc = "switch" /\ pc' = "repeat"
      BY <1>8, <2>2 DEF bit, Switch
    <3>2. InRepeat(s)'
      BY <1>3, <1>9, <1>10, <2>2, <3>1 DEF InRepeat
    <3> QED BY <3>1, <3>2 DEF AtLabel
  <2>3. CASE s.kind # "literal" /\ AfterReference(b)
    <3>1. pc = "after_reference" /\ pc' = "readoffset"
      BY <1>8, <2>3 DEF bit, AfterReference
    <3>2. s.previous = "reference"
      BY <1>3, <3>1
    <3>3. ~Repeats(s) /\ OffsetAt(s) = BodyAt(s)
      BY <1>1, <3>2 DEF Repeats, OffsetAt, RepeatBits
    <3>4. InReadoffset(s)'
      BY <1>9, <1>10, <2>3, <3>3 DEF InReadoffset
    <3> QED BY <3>1, <3>4 DEF AtLabel
  <2> QED BY <2>1, <2>2, <2>3
<1> QED BY <1>1, <1>8, <1>9, <1>11, Stays

LEMMA RepeatPlaces ==
  ASSUME NEW s, Inside(s), NEW b \in Bit, Repeat(b), DecodeBit(b)
  PROVE  Placed' /\ Paired(pairs')
<1>1. /\ s \in Written /\ AtLabel(s) /\ OldOffset(s) /\ WellFormed(s)
      /\ BodyAt(s) \in Nat /\ Len(stream) \in Nat /\ Paired(pairs)
  BY SymbolParts DEF Inside
<1>2. /\ pc = "repeat" /\ Getbit(0, -1)
      /\ UNCHANGED <<outp, mem, offset>> /\ pc' = IF b = 0 THEN "readoffset" ELSE "readlength"
  BY DEF Repeat, RepeatContext
<1>3. s.kind # "literal" /\ s.previous = "literal" /\ OutAt(s.to) /\ received = BodyAt(s)
  BY <1>1, <1>2 DEF AtLabel, InRepeat
<1>4. PartOf(RepeatBits(s), stream, BodyAt(s))
  BY <1>3, SymbolParts DEF Inside
<1> DEFINE bit == IF Repeats(s) THEN 1 ELSE 0
<1>5. RepeatBits(s) = << Item("repeat", 0, bit) >>
  BY <1>3 DEF RepeatBits
<1> HIDE DEF bit
<1>6. /\ Len(RepeatBits(s)) = 1 /\ RepeatBits(s)[0 + 1] = Item("repeat", 0, bit)
      /\ 0 + 1 \in 1..Len(RepeatBits(s)) /\ received = BodyAt(s) + 0
  BY <1>1, <1>3, <1>5
<1> DEFINE context == [use |-> "repeat", index |-> 0]
<1>7. /\ context \in EncoderContexts
      /\ DepackerContext(context) = [group |-> 0, index |-> -1]
  BY DEF EncoderContexts, DepackerContext, RepeatContext
<1>8. sp = TableBase - (IF 0 \in NumberGroups THEN GetnumberFrame ELSE 0)
  <2>1. 0 \notin NumberGroups
    BY DEF NumberGroups, OffsetGroup, LengthGroup
  <2> QED BY <1>2, <2>1, StackAtBase DEF Inside, InGetnumber
<1>9. Paired(pairs') /\ b = bit /\ received' = received + 1 /\ UNCHANGED encoderVars
  BY <1>1, <1>2, <1>4, <1>6, <1>7, <1>8, ReadBit
<1>10. OutAt(s.to)' /\ OldOffset(s)' /\ UNCHANGED symbols
  BY <1>1, <1>2, <1>3, <1>9, OutKept, OldOffsetKept DEF encoderVars
<1>11. received' = OffsetAt(s)
  BY <1>3, <1>6, <1>9 DEF OffsetAt
<1>12. AtLabel(s)'
  <2>1. CASE Repeats(s)
    <3>1. pc' = "readlength" /\ s.kind = "reference" /\ s.offset = s.lastOffset
      BY <1>2, <1>9, <2>1 DEF bit, Repeats
    <3>2. s.lastOffset # 0
      BY <1>1, <3>1, SymbolTyped
    <3>3. offset' = s.offset
      BY <1>1, <1>2, <3>1, <3>2 DEF OldOffset
    <3>4. OffsetBits(s) = << >>
      BY <2>1 DEF OffsetBits
    <3>5. OffsetAt(s) \in Nat
      BY <1>3, SymbolParts DEF Inside
    <3>6. received' = LengthAt(s)
      BY <1>11, <3>4, <3>5 DEF LengthAt
    <3>7. InReadlength(s)'
      BY <1>10, <3>1, <3>3, <3>6 DEF InReadlength
    <3> QED BY <3>1, <3>7 DEF AtLabel
  <2>2. CASE ~Repeats(s)
    <3>1. pc' = "readoffset"
      BY <1>2, <1>9, <2>2 DEF bit
    <3>2. InReadoffset(s)'
      BY <1>3, <1>10, <1>11, <2>2 DEF InReadoffset
    <3> QED BY <3>1, <3>2 DEF AtLabel
  <2> QED BY <2>1, <2>2
<1> QED BY <1>1, <1>9, <1>10, <1>12, Stays

(* A call of getnumber, at the first bit of its number.                    *)
LEMMA CallNumber ==
  ASSUME IInv, ~InGetnumber, pc \notin {"code_start", "intro"},
         NEW s, NEW number, NEW group, NEW return, NEW base \in Nat,
         OutAt(s.to), received = base, Excess(number) \in Nat,
         CallGetnumber(group, return), UNCHANGED <<mem, encoderVars, received>>
  PROVE  InNumber(s, number, group, return, base)' /\ pc' = "numberloop"
<1>1. frames = << >>
  BY StackAtBase
<1>2. /\ outp = LoadAddress + s.to /\ outp' = 0 /\ tmp0' = group /\ pc' = "numberloop"
      /\ frames' = Append(frames, <<outp, return>>)
  BY DEF OutAt, CallGetnumber
<1>3. frames' = << <<LoadAddress + s.to, return>> >>
  BY <1>1, <1>2
<1>4. Unpacks(s.to)'
  BY DEF OutAt, Unpacks, encoderVars
<1>5. \E n \in 0..Excess(number) : outp' = 2 * n /\ received' = base + n
  BY <1>2
<1> QED BY <1>2, <1>3, <1>4, <1>5 DEF InNumber

LEMMA ReadoffsetPlaces ==
  ASSUME NEW s, Inside(s), Readoffset, UNCHANGED <<encoderVars, received>>
  PROVE  Placed'
<1>1. /\ s \in Written /\ AtLabel(s) /\ OldOffset(s) /\ WellFormed(s) /\ IInv
  BY SymbolParts DEF Inside
<1>2. /\ pc = "readoffset" /\ CallGetnumber(OffsetGroup, "offset_read")
      /\ UNCHANGED <<mem, offset>>
  BY DEF Readoffset
<1>3. s.kind # "literal" /\ ~Repeats(s) /\ OutAt(s.to) /\ received = OffsetAt(s)
  BY <1>1, <1>2 DEF AtLabel, InReadoffset
<1>4. OffsetAt(s) \in Nat
  BY <1>3, SymbolParts DEF Inside
<1>5. Excess(s.offset + 2) \in Nat
  BY <1>1, SymbolTyped, NumberEnds
<1>6. InNumber(s, s.offset + 2, OffsetGroup, "offset_read", OffsetAt(s))' /\ pc' = "numberloop"
  BY <1>1, <1>2, <1>3, <1>4, <1>5, CallNumber DEF InGetnumber
<1>7. InOffsetNumber(s)'
  BY <1>3, <1>6 DEF InOffsetNumber
<1>8. AtLabel(s)'
  BY <1>6, <1>7 DEF AtLabel
<1> QED BY <1>1, <1>2, <1>8, OldOffsetKept, Stays DEF encoderVars

LEMMA ReadlengthPlaces ==
  ASSUME NEW s, Inside(s), Readlength, UNCHANGED <<encoderVars, received>>
  PROVE  Placed'
<1>1. /\ s \in Written /\ AtLabel(s) /\ OldOffset(s) /\ WellFormed(s) /\ IInv
  BY SymbolParts DEF Inside
<1>2. /\ pc = "readlength" /\ CallGetnumber(LengthGroup, "length_read")
      /\ UNCHANGED <<mem, offset>>
  BY DEF Readlength
<1>3. s.kind = "reference" /\ offset = s.offset /\ OutAt(s.to) /\ received = LengthAt(s)
  BY <1>1, <1>2 DEF AtLabel, InReadlength
<1>4. LengthAt(s) \in Nat
  BY <1>3, SymbolParts DEF Inside
<1>5. Excess(s.length) \in Nat
  BY <1>1, <1>3, SymbolTyped, NumberEnds
<1>6. InNumber(s, s.length, LengthGroup, "length_read", LengthAt(s))' /\ pc' = "numberloop"
  BY <1>1, <1>2, <1>3, <1>4, <1>5, CallNumber DEF InGetnumber
<1>7. InLengthNumber(s)'
  BY <1>2, <1>3, <1>6 DEF InLengthNumber
<1>8. AtLabel(s)'
  BY <1>6, <1>7 DEF AtLabel
<1> QED BY <1>1, <1>2, <1>8, OldOffsetKept, Stays DEF encoderVars

(* A number that is being read: which one, and what comes behind it.       *)
NumberOf(s, use, number, group, return, base) ==
  /\ s.kind # "literal" /\ s.to \in Nat
  /\ base \in Nat /\ number \in Nat /\ number >= 2 /\ number < RegisterSize
  /\ PartOf(NumberBits(use, number), stream, base)
  /\ \/ use = "offset" /\ group = OffsetGroup /\ return = "offset_read"
     \/ use = "length" /\ group = LengthGroup /\ return = "length_read"

LEMMA NumberContexts ==
  ASSUME NEW use, NEW group, NEW index \in 1..(GroupSize - 1),
         \/ use = "offset" /\ group = OffsetGroup
         \/ use = "length" /\ group = LengthGroup
  PROVE  /\ [use |-> use, index |-> index] \in EncoderContexts
         /\ DepackerContext([use |-> use, index |-> index]) = [group |-> group, index |-> index]
         /\ group \in NumberGroups
  BY DEF EncoderContexts, DepackerContext, NumberGroups

(* The bits of a number that fits in a register have contexts of the group. *)
LEMMA NumberFits ==
  ASSUME NEW number \in Nat, number >= 2, number < RegisterSize
  PROVE  /\ Width(number) \in Nat /\ Width(number) = Excess(number) + 1
         /\ 2 * Width(number) \in 1..(GroupSize - 1)
<1>1. /\ Excess(number) \in Nat /\ Width(number) = Excess(number) + 1
      /\ Pow2[Excess(number) + 1] <= number
  BY ExcessFits, NumberEnds
<1>2. Excess(number) + 1 < RegisterBits
  <2> SUFFICES ASSUME RegisterBits <= Excess(number) + 1 PROVE FALSE
    BY <1>1, SizesAssumption
  <2>1. Pow2[RegisterBits] <= Pow2[Excess(number) + 1]
    BY <1>1, SizesAssumption, PowersInOrder
  <2>2. Pow2[RegisterBits] \in Nat /\ Pow2[Excess(number) + 1] \in Nat
    BY <1>1, SizesAssumption, PowersOfTwo
  <2> QED BY <1>1, <2>1, <2>2 DEF RegisterSize
<1> QED BY <1>1, <1>2, SizesAssumption, RoundTripAssumption DEF GroupSize

LEMMA NumberloopReads ==
  ASSUME NEW s, Inside(s), NEW b \in Bit, Numberloop(b), DecodeBit(b), Len(stream) \in Nat,
         NEW use, NEW number, NEW group, NEW return, NEW base,
         NumberOf(s, use, number, group, return, base),
         InNumber(s, number, group, return, base)
  PROVE  /\ InNumber(s, number, group, return, base)' /\ pc' \in {"numberloop", "bitsloop"}
         /\ Paired(pairs') /\ UNCHANGED <<encoderVars, offset>>
<1>1. /\ pc = "numberloop" /\ Getbit(tmp0, outp + 2)
      /\ UNCHANGED <<tmp0, offset, frames, mem>>
  BY DEF Numberloop
<1>2. /\ frames = << <<LoadAddress + s.to, return>> >> /\ tmp0 = group /\ Unpacks(s.to)
  BY DEF InNumber
<1>3. PICK n \in 0..Excess(number) : outp = 2 * n /\ received = base + n
  BY <1>1 DEF InNumber
<1>4. /\ base \in Nat /\ number \in Nat /\ number >= 2 /\ use \in ItemUses
      /\ PartOf(NumberBits(use, number), stream, base)
  BY DEF NumberOf, ItemUses
<1>5. /\ Excess(number) \in Nat /\ Width(number) = Excess(number) + 1
      /\ number \div Pow2[Width(number)] = 1
  BY <1>4, NumberEnds
<1>6. n \in Nat /\ 2 * n + 2 \in 1..(GroupSize - 1) /\ outp + 2 = 2 * n + 2
  <2>1. 2 * Width(number) \in 1..(GroupSize - 1) /\ GroupSize \in Nat
    BY <1>4, NumberFits, SizesAssumption DEF NumberOf, GroupSize
  <2> QED BY <1>3, <1>5, <2>1
<1> DEFINE bit == IF n < Excess(number) THEN 1 ELSE 0
<1>7. /\ Len(NumberBits(use, number)) = 2 * Width(number)
      /\ NumberBits(use, number)[n + 1] = Item(use, 2 * n + 2, bit)
  BY <1>3, <1>4, NumberBitsAre
<1>8. n + 1 \in 1..Len(NumberBits(use, number))
  BY <1>3, <1>5, <1>6, <1>7
<1> HIDE DEF bit
<1>9. /\ [use |-> use, index |-> 2 * n + 2] \in EncoderContexts
      /\ DepackerContext([use |-> use, index |-> 2 * n + 2]) = [group |-> tmp0, index |-> outp + 2]
      /\ tmp0 \in NumberGroups
  BY <1>2, <1>6, NumberContexts DEF NumberOf
<1>10. sp = TableBase - (IF tmp0 \in NumberGroups THEN GetnumberFrame ELSE 0)
  BY <1>1, <1>9 DEF Inside, IInv, NumberInv, InGetnumber
<1>11. Paired(pairs') /\ b = bit /\ received' = received + 1 /\ UNCHANGED encoderVars
  BY <1>1, <1>3, <1>4, <1>6, <1>7, <1>8, <1>9, <1>10, ReadBit DEF Inside
<1>12. Unpacks(s.to)'
  BY <1>1, <1>2, <1>11 DEF Unpacks, encoderVars
<1>13. CASE n < Excess(number)
  <2>1. outp' = outp + 2 /\ pc' = "numberloop"
    BY <1>1, <1>11, <1>13 DEF bit, Numberloop
  <2>2. n + 1 \in 0..Excess(number) /\ outp' = 2 * (n + 1) /\ received' = base + (n + 1)
    BY <1>3, <1>4, <1>5, <1>6, <1>11, <1>13, <2>1
  <2>3. InNumber(s, number, group, return, base)'
    BY <1>1, <1>2, <1>12, <2>1, <2>2 DEF InNumber
  <2> QED BY <1>1, <1>11, <2>1, <2>3
<1>14. CASE ~(n < Excess(number))
  <2>1. outp' = outp + 1 /\ pc' = "bitsloop" /\ tmp1' = 1
    BY <1>1, <1>11, <1>14 DEF bit, Numberloop
  <2>2. n = Excess(number)
    BY <1>3, <1>5, <1>14
  <2> DEFINE w == Width(number)
  <2>3. /\ w \in 1..w /\ outp' = 2 * w - 1 /\ received' = base + 2 * w - w
        /\ tmp1' = number \div Pow2[w]
    <3>1. w = n + 1 /\ tmp1' = number \div Pow2[w]
      BY <1>5, <2>1, <2>2
    <3> HIDE DEF w
    <3> QED BY <1>3, <1>4, <1>6, <1>11, <2>1, <3>1
  <2>4. InNumber(s, number, group, return, base)'
    <3> HIDE DEF w
    <3>1. \E i \in 1..w : /\ outp' = 2 * i - 1 /\ received' = base + 2 * w - i
                          /\ tmp1' = number \div Pow2[i]
      BY <2>3
    <3> QED BY <1>1, <1>2, <1>12, <2>1, <3>1 DEF InNumber, w
  <2> QED BY <1>1, <1>11, <2>1, <2>4
<1> QED BY <1>13, <1>14

LEMMA BitsloopReads ==
  ASSUME NEW s, Inside(s), NEW b \in Bit, Bitsloop(b), DecodeBit(b), Len(stream) \in Nat,
         NEW use, NEW number, NEW group, NEW return, NEW base,
         NumberOf(s, use, number, group, return, base),
         InNumber(s, number, group, return, base)
  PROVE  /\ \/ InNumber(s, number, group, return, base)' /\ pc' = "bitsloop"
            \/ /\ pc' = return /\ OutAt(s.to)' /\ tmp1' = number
               /\ received' = base + Len(NumberBits(use, number))
         /\ Paired(pairs') /\ UNCHANGED <<encoderVars, offset>>
<1>1. /\ pc = "bitsloop" /\ Getbit(tmp0, outp) /\ tmp1' = Wrap(2 * tmp1 + b)
      /\ UNCHANGED <<tmp0, offset, mem>>
  BY DEF Bitsloop
<1>2. /\ frames = << <<LoadAddress + s.to, return>> >> /\ tmp0 = group /\ Unpacks(s.to)
  BY DEF InNumber
<1> DEFINE w == Width(number)
<1>3. PICK n \in 1..w :
        /\ outp = 2 * n - 1
        /\ received = base + 2 * w - n
        /\ tmp1 = number \div Pow2[n]
  BY <1>1 DEF InNumber
<1>4. /\ base \in Nat /\ number \in Nat /\ number >= 2 /\ use \in ItemUses
      /\ PartOf(NumberBits(use, number), stream, base)
  BY DEF NumberOf, ItemUses
<1>5. w \in Nat /\ number \div Pow2[0] = number
  BY <1>4, NumberEnds
<1> DEFINE bits == NumberBits(use, number)
<1> DEFINE bit == (number \div Pow2[n - 1]) % 2
<1>6. /\ Len(bits) = 2 * w
      /\ bits[2 * w - n + 1] = Item(use, 2 * n - 1, bit)
  BY <1>3, <1>4, NumberBitsAre
<1>7. PartOf(bits, stream, base)
  BY <1>4
<1>8. n - 1 \in Nat /\ (n - 1) + 1 = n
  BY <1>3, <1>5
<1>9. 2 * (number \div Pow2[n]) + bit = number \div Pow2[n - 1]
  BY <1>4, <1>8, NextBit
<1> HIDE DEF w, bits, bit
<1> DEFINE j == 2 * w - n
<1>10. /\ j \in Nat /\ j + 1 \in 1..Len(bits) /\ received = base + j
       /\ bits[j + 1] = Item(use, 2 * n - 1, bit)
  BY <1>3, <1>4, <1>5, <1>6, <1>8
<1> HIDE DEF j
<1>11. 2 * n - 1 \in 1..(GroupSize - 1)
  <2>1. 2 * w \in 1..(GroupSize - 1) /\ GroupSize \in Nat
    BY <1>4, NumberFits, SizesAssumption DEF NumberOf, GroupSize, w
  <2> QED BY <1>3, <1>5, <1>8, <2>1
<1>12. /\ [use |-> use, index |-> 2 * n - 1] \in EncoderContexts
       /\ DepackerContext([use |-> use, index |-> 2 * n - 1]) = [group |-> tmp0, index |-> outp]
       /\ tmp0 \in NumberGroups
  BY <1>2, <1>3, <1>11, NumberContexts DEF NumberOf
<1>13. sp = TableBase - (IF tmp0 \in NumberGroups THEN GetnumberFrame ELSE 0)
  BY <1>1, <1>12 DEF Inside, IInv, NumberInv, InGetnumber
<1>14. Paired(pairs') /\ b = bit /\ received' = received + 1 /\ UNCHANGED encoderVars
  BY <1>1, <1>4, <1>7, <1>10, <1>12, <1>13, ReadBit DEF Inside
<1>15. tmp1' = number \div Pow2[n - 1]
  <2> DEFINE next == number \div Pow2[n - 1]
  <2>1. next \in Nat /\ next <= number
    <3>1. Pow2[n - 1] \in Nat \ {0}
      BY <1>8, PowerPositive
    <3>2. next \in Nat /\ next * Pow2[n - 1] <= number
      BY <1>4, <3>1, Quotient
    <3> HIDE DEF next
    <3> QED BY <1>4, <3>1, <3>2
  <2>2. tmp1' = Wrap(next)
    BY <1>1, <1>3, <1>9, <1>14
  <2> HIDE DEF next
  <2>3. next \in 0..(RegisterSize - 1)
    BY <1>4, <2>1, RegisterSizes DEF NumberOf
  <2>4. tmp1' = next
    BY <2>2, <2>3, WrapFits
  <2> QED BY <2>4 DEF next
<1>16. Unpacks(s.to)'
  BY <1>1, <1>2, <1>14 DEF Unpacks, encoderVars
<1>17. received' = base + j + 1 /\ j + 1 = 2 * w - (n - 1)
  BY <1>4, <1>5, <1>8, <1>10, <1>14 DEF j
<1>18. CASE n >= 2
  <2>1. outp >= 2
    BY <1>3, <1>8, <1>18
  <2>2. outp' = outp - 2 /\ pc' = "bitsloop" /\ frames' = frames
    BY <1>1, <2>1 DEF Bitsloop
  <2>3. /\ n - 1 \in 1..w /\ outp' = 2 * (n - 1) - 1
        /\ received' = base + 2 * w - (n - 1)
    BY <1>3, <1>4, <1>5, <1>8, <1>10, <1>17, <1>18, <2>2
  <2>4. \E i \in 1..w : /\ outp' = 2 * i - 1 /\ received' = base + 2 * w - i
                        /\ tmp1' = number \div Pow2[i]
    BY <1>15, <2>3
  <2>5. InNumber(s, number, group, return, base)'
    BY <1>1, <1>2, <1>16, <2>2, <2>4 DEF InNumber, w
  <2> QED BY <1>1, <1>14, <2>2, <2>5
<1>19. CASE ~(n >= 2)
  <2>1. n = 1 /\ outp = 1
    BY <1>3, <1>8, <1>19
  <2>2. outp' = frames[Len(frames)][1] /\ pc' = frames[Len(frames)][2]
    BY <1>1, <2>1 DEF Bitsloop
  <2>3. frames[Len(frames)] = <<LoadAddress + s.to, return>>
    BY <1>2
  <2>4. outp' = LoadAddress + s.to /\ pc' = return
    BY <2>2, <2>3
  <2>5. OutAt(s.to)'
    BY <1>16, <2>4 DEF OutAt
  <2>6. tmp1' = number
    BY <1>5, <1>15, <2>1
  <2>7. received' = base + Len(bits)
    <3>1. j + 1 = Len(bits)
      BY <1>5, <1>6, <1>17, <2>1
    <3>2. received' = base + (j + 1)
      BY <1>4, <1>10, <1>17
    <3> QED BY <3>1, <3>2
  <2> QED BY <1>1, <1>14, <2>4, <2>5, <2>6, <2>7 DEF bits
<1> QED BY <1>18, <1>19

(* No number of a symbol exceeds the size of the data by more than two.    *)
LEMMA NumbersSmall ==
  ASSUME EncoderInv, NEW s \in Written
  PROVE  /\ s.kind # "literal" => s.offset + 2 < RegisterSize
         /\ s.length < RegisterSize
<1>1. WellFormed(s) /\ Encodes(s)
  BY SymbolParts
<1>2. /\ s.to + s.length <= Len(data) /\ Len(data) <= MaxData /\ Len(data) \in Nat
  BY <1>1 DEF Encodes, EncoderInv
<1>3. /\ s.to \in Nat /\ s.length \in Nat /\ s.offset \in Nat
      /\ s.kind \in {"literal", "reference", "end"}
      /\ s.kind = "reference" => s.offset <= s.to
      /\ s.kind = "end" => s.offset = 0
  BY <1>1, SymbolTyped
<1>4. MaxData \in Nat /\ MaxData + 2 < RegisterSize /\ RegisterSize \in Nat
  BY RoundTripAssumption, RegisterSizes
<1> QED BY <1>2, <1>3, <1>4

(* In getnumber the depacker reads the one number of a symbol, or the      *)
(* other.                                                                  *)
LEMMA NumbersOf ==
  ASSUME NEW s, Inside(s)
  PROVE  /\ InOffsetNumber(s) =>
              /\ NumberOf(s, "offset", s.offset + 2, OffsetGroup, "offset_read", OffsetAt(s))
              /\ LengthAt(s) = OffsetAt(s) + Len(NumberBits("offset", s.offset + 2))
         /\ InLengthNumber(s) =>
              /\ NumberOf(s, "length", s.length, LengthGroup, "length_read", LengthAt(s))
              /\ EndAt(s) = LengthAt(s) + Len(NumberBits("length", s.length))
<1>1. /\ EncoderInv /\ s \in Written /\ WellFormed(s)
  BY SymbolParts DEF Inside
<1>2. /\ s.to \in Nat /\ s.offset \in Nat /\ s.length \in Nat
      /\ s.kind = "reference" => s.length >= 2
      /\ s.kind # "literal" => s.offset + 2 < RegisterSize
      /\ s.length < RegisterSize
  <2>1. WellFormed(s) /\ s.kind \in {"literal", "reference", "end"}
    BY <1>1, SymbolTyped
  <2> QED BY <2>1, SymbolTyped, NumbersSmall DEF Inside
<1>3. ASSUME InOffsetNumber(s)
      PROVE  /\ NumberOf(s, "offset", s.offset + 2, OffsetGroup, "offset_read", OffsetAt(s))
             /\ LengthAt(s) = OffsetAt(s) + Len(NumberBits("offset", s.offset + 2))
  <2>1. s.kind # "literal" /\ ~Repeats(s)
    BY <1>3 DEF InOffsetNumber
  <2>2. OffsetAt(s) \in Nat /\ PartOf(OffsetBits(s), stream, OffsetAt(s))
    BY <1>1, <2>1, SymbolParts
  <2>3. OffsetBits(s) = NumberBits("offset", s.offset + 2)
    BY <2>1 DEF OffsetBits
  <2> QED BY <1>2, <2>1, <2>2, <2>3 DEF NumberOf, LengthAt
<1>4. ASSUME InLengthNumber(s)
      PROVE  /\ NumberOf(s, "length", s.length, LengthGroup, "length_read", LengthAt(s))
             /\ EndAt(s) = LengthAt(s) + Len(NumberBits("length", s.length))
  <2>1. s.kind = "reference"
    BY <1>4 DEF InLengthNumber
  <2>2. /\ LengthAt(s) \in Nat /\ PartOf(LengthBits(s), stream, LengthAt(s))
        /\ EndAt(s) = LengthAt(s) + Len(LengthBits(s))
    BY <1>1, <2>1, SymbolParts
  <2>3. LengthBits(s) = NumberBits("length", s.length)
    BY <2>1 DEF LengthBits
  <2> QED BY <1>2, <2>1, <2>2, <2>3 DEF NumberOf
<1> QED BY <1>3, <1>4

LEMMA NumberPlaces ==
  ASSUME NEW s, Inside(s), NEW b \in Bit, Numberloop(b) \/ Bitsloop(b), DecodeBit(b)
  PROVE  Placed' /\ Paired(pairs')
<1>1. /\ s \in Written /\ OldOffset(s) /\ Len(stream) \in Nat
  BY SymbolParts DEF Inside
<1>2. InOffsetNumber(s) \/ InLengthNumber(s)
  BY DEF Inside, AtLabel, Numberloop, Bitsloop
<1>3. ASSUME InOffsetNumber(s)
      PROVE  AtLabel(s)' /\ Paired(pairs') /\ UNCHANGED <<encoderVars, offset>>
  <2>1. /\ s.kind # "literal" /\ ~Repeats(s)
        /\ InNumber(s, s.offset + 2, OffsetGroup, "offset_read", OffsetAt(s))
        /\ NumberOf(s, "offset", s.offset + 2, OffsetGroup, "offset_read", OffsetAt(s))
        /\ LengthAt(s) = OffsetAt(s) + Len(NumberBits("offset", s.offset + 2))
    BY <1>3, NumbersOf DEF InOffsetNumber
  <2>2. ASSUME InNumber(s, s.offset + 2, OffsetGroup, "offset_read", OffsetAt(s))',
               pc' \in {"numberloop", "bitsloop"}
        PROVE  AtLabel(s)'
    <3>1. InOffsetNumber(s)'
      BY <2>1, <2>2 DEF InOffsetNumber
    <3> QED BY <2>2, <3>1 DEF AtLabel
  <2>3. ASSUME pc' = "offset_read", OutAt(s.to)', tmp1' = s.offset + 2, received' = LengthAt(s)
        PROVE  AtLabel(s)'
    <3>1. InOffsetRead(s)'
      BY <2>1, <2>3 DEF InOffsetRead
    <3> QED BY <2>3, <3>1 DEF AtLabel
  <2>4. CASE Numberloop(b)
    BY <1>1, <2>1, <2>2, <2>4, NumberloopReads
  <2>5. CASE Bitsloop(b)
    BY <1>1, <2>1, <2>2, <2>3, <2>5, BitsloopReads
  <2> QED BY <2>4, <2>5
<1>4. ASSUME InLengthNumber(s)
      PROVE  AtLabel(s)' /\ Paired(pairs') /\ UNCHANGED <<encoderVars, offset>>
  <2>1. /\ s.kind = "reference" /\ offset = s.offset
        /\ InNumber(s, s.length, LengthGroup, "length_read", LengthAt(s))
        /\ NumberOf(s, "length", s.length, LengthGroup, "length_read", LengthAt(s))
        /\ EndAt(s) = LengthAt(s) + Len(NumberBits("length", s.length))
    BY <1>4, NumbersOf DEF InLengthNumber
  <2>2. ASSUME InNumber(s, s.length, LengthGroup, "length_read", LengthAt(s))',
               pc' \in {"numberloop", "bitsloop"}, offset' = offset
        PROVE  AtLabel(s)'
    <3>1. InLengthNumber(s)'
      BY <2>1, <2>2 DEF InLengthNumber
    <3> QED BY <2>2, <3>1 DEF AtLabel
  <2>3. ASSUME pc' = "length_read", OutAt(s.to)', tmp1' = s.length, received' = EndAt(s),
               offset' = offset
        PROVE  AtLabel(s)'
    <3>1. InLengthRead(s)'
      BY <2>1, <2>3 DEF InLengthRead
    <3> QED BY <2>3, <3>1 DEF AtLabel
  <2>4. CASE Numberloop(b)
    BY <1>1, <2>1, <2>2, <2>4, NumberloopReads
  <2>5. CASE Bitsloop(b)
    BY <1>1, <2>1, <2>2, <2>3, <2>5, BitsloopReads
  <2> QED BY <2>4, <2>5
<1>5. AtLabel(s)' /\ Paired(pairs') /\ UNCHANGED <<encoderVars, offset>>
  BY <1>2, <1>3, <1>4
<1> QED BY <1>1, <1>5, OldOffsetKept, Stays DEF encoderVars

LEMMA OffsetReadPlaces ==
  ASSUME NEW s, Inside(s), OffsetRead, UNCHANGED <<encoderVars, received>>
  PROVE  Placed'
<1>1. /\ s \in Written /\ AtLabel(s) /\ WellFormed(s)
  BY SymbolParts DEF Inside
<1>2. /\ pc = "offset_read" /\ offset' = Wrap(tmp1 - 2) /\ UNCHANGED <<outp, mem>>
      /\ pc' = IF Wrap(tmp1 - 2) # 0 THEN "readlength" ELSE "donedecompressing"
  BY DEF OffsetRead
<1>3. s.kind # "literal" /\ OutAt(s.to) /\ received = LengthAt(s) /\ tmp1 = s.offset + 2
  BY <1>1, <1>2 DEF AtLabel, InOffsetRead
<1>4. Wrap(tmp1 - 2) = s.offset /\ offset' = s.offset
  <2>1. s.offset + 2 < RegisterSize
    BY <1>1, <1>3, NumbersSmall DEF Inside
  <2>2. tmp1 - 2 = s.offset /\ s.offset \in 0..(RegisterSize - 1)
    BY <1>1, <1>3, <2>1, SymbolTyped, RegisterSizes
  <2>3. Wrap(s.offset) = s.offset
    BY <2>2, WrapFits
  <2> QED BY <1>2, <2>2, <2>3
<1>5. OutAt(s.to)'
  BY <1>2, <1>3, OutKept DEF encoderVars
<1>6. OldOffset(s)'
  BY <1>3, <1>4 DEF OldOffset
<1>7. AtLabel(s)'
  <2>1. CASE s.kind = "reference"
    <3>1. s.offset # 0
      BY <1>1, <2>1, SymbolTyped
    <3>2. pc' = "readlength"
      BY <1>2, <1>4, <3>1
    <3>3. InReadlength(s)'
      BY <1>3, <1>4, <1>5, <2>1 DEF InReadlength
    <3> QED BY <3>2, <3>3 DEF AtLabel
  <2>2. CASE s.kind = "end"
    <3>1. s.offset = 0
      BY <1>1, <2>2, SymbolTyped
    <3>2. pc' = "donedecompressing"
      BY <1>2, <1>4, <3>1
    <3>3. LengthAt(s) \in Nat /\ EndAt(s) = LengthAt(s) + Len(LengthBits(s))
      BY <1>3, SymbolParts DEF Inside
    <3>4. LengthBits(s) = << >>
      BY <2>2 DEF LengthBits
    <3>5. received' = EndAt(s)
      BY <1>3, <3>3, <3>4
    <3>6. InEnd(s)'
      BY <1>5, <2>2, <3>5 DEF InEnd
    <3> QED BY <3>2, <3>6 DEF AtLabel
  <2> QED BY <1>1, <1>3, <2>1, <2>2, SymbolTyped
<1> QED BY <1>1, <1>6, <1>7, Stays DEF encoderVars

LEMMA LengthReadPlaces ==
  ASSUME NEW s, Inside(s), LengthRead, UNCHANGED <<encoderVars, received>>
  PROVE  Placed'
<1>1. /\ s \in Written /\ AtLabel(s) /\ OldOffset(s) /\ WellFormed(s)
  BY SymbolParts DEF Inside
<1>2. /\ pc = "length_read" /\ tmp0' = Wrap(-offset) /\ pc' = "copyloop"
      /\ UNCHANGED <<outp, tmp1, offset, mem>>
  BY DEF LengthRead
<1>3. /\ s.kind = "reference" /\ offset = s.offset /\ OutAt(s.to) /\ received = EndAt(s)
      /\ tmp1 = s.length
  BY <1>1, <1>2 DEF AtLabel, InLengthRead
<1>4. /\ s.to \in Nat /\ s.length \in Nat /\ s.length >= 2
  BY <1>1, <1>3, SymbolTyped
<1>5. tmp1' \in 1..s.length /\ s.to + s.length - tmp1' = s.to
  BY <1>2, <1>3, <1>4
<1>6. OutAt(s.to)'
  BY <1>2, <1>3, OutKept DEF encoderVars
<1>7. InCopyloop(s)'
  BY <1>2, <1>3, <1>5, <1>6 DEF InCopyloop
<1>8. AtLabel(s)'
  BY <1>2, <1>7 DEF AtLabel
<1> QED BY <1>1, <1>2, <1>8, OldOffsetKept, Stays DEF encoderVars

(* A byte of a copy: the one an offset back, that has been stored.         *)
LEMMA CopiedByte ==
  ASSUME IInv, pc = "copyloop",
         NEW s, WellFormed(s), Encodes(s), InCopyloop(s), data \in Seq(Byte)
  PROVE  LET n == s.to + s.length - tmp1
         IN  /\ n \in Nat /\ OutAt(n)
             /\ LoadedBytes(Wrap(outp + tmp0)) = {data[n + 1]}
             /\ LoadAddress <= Wrap(outp + tmp0) /\ Wrap(outp + tmp0) < outp
<1> USE SizesAssumption
<1> DEFINE n == s.to + s.length - tmp1
<1>1. /\ s.to \in Nat /\ s.length \in Nat /\ s.offset \in 1..s.to
      /\ s.kind = "reference"
  BY SymbolTyped DEF InCopyloop
<1>2. tmp0 = Wrap(-s.offset) /\ tmp1 \in 1..s.length /\ OutAt(n)
  BY DEF InCopyloop
<1> DEFINE i == s.length - tmp1 + 1
<1>3. i \in 1..s.length /\ n + 1 = s.to + i /\ n \in Nat
  BY ONLY <1>1, <1>2
<1>4. data[n + 1] = data[n + 1 - s.offset]
  <2>1. \A j \in 1..s.length : data[s.to + j] = data[s.to + j - s.offset]
    BY <1>1 DEF Encodes
  <2>2. PICK j \in 1..s.length : j = i
    BY <1>3
  <2>3. n + 1 = s.to + j /\ n + 1 - s.offset = s.to + j - s.offset
    <3>1. s.to \in Nat /\ s.offset \in Nat /\ j \in Nat /\ n \in Nat /\ n + 1 = s.to + j
      BY <1>1, <1>3, <2>2
    <3> HIDE DEF n
    <3> QED BY ONLY <3>1
  <2> HIDE DEF n
  <2> QED BY <2>1, <2>3
<1> DEFINE m == n + 1 - s.offset
<1>5. m \in 1..n /\ s.offset \in Nat \ {0}
  BY ONLY <1>1, <1>2
<1> HIDE DEF n
<1>6. /\ outp = LoadAddress + n
      /\ DOMAIN mem = LoadAddress..(LoadAddress + n - 1)
      /\ \A k \in 1..n : mem[LoadAddress + k - 1] = data[k]
  BY ONLY <1>2 DEF OutAt, Unpacks
<1>7. Wrap(outp + tmp0) = LoadAddress + m - 1
  <2>1. /\ outp = LoadAddress + n /\ m = n + 1 - s.offset /\ LoadAddress \in Nat
        /\ n \in Nat /\ s.offset \in Nat /\ m \in 1..n
    BY <1>3, <1>5, <1>6, SizesAssumption DEF m
  <2>2. outp < RegisterSize
    BY RegisterSizes, SizesAssumption DEF IInv, MainInv, InGetnumber
  <2>3. outp \in Nat /\ s.offset \in 1..outp /\ LoadAddress + m - 1 = outp - s.offset
    <3> HIDE DEF i, m
    <3> QED BY ONLY <2>1, <1>5
  <2> QED BY <1>2, <2>2, <2>3, BackWraps
<1> HIDE DEF m, i
<1> DEFINE from == Wrap(outp + tmp0)
<1>8. from \in DOMAIN mem /\ mem[from] = data[m]
  <2>1. LoadAddress + m - 1 \in LoadAddress..(LoadAddress + n - 1)
    BY ONLY <1>3, <1>5, SizesAssumption
  <2> QED BY <1>5, <1>6, <1>7, <2>1
<1>9. LoadAddress <= from /\ from < outp
  BY ONLY <1>3, <1>5, <1>6, <1>7, SizesAssumption
<1>10. LoadedBytes(from) = {data[n + 1]}
  BY <1>4, <1>8 DEF LoadedBytes, m
<1> QED BY <1>2, <1>3, <1>9, <1>10 DEF n

LEMMA CopyloopPlaces ==
  ASSUME NEW s, Inside(s), Copyloop, UNCHANGED <<encoderVars, received>>
  PROVE  Placed'
<1>1. /\ s \in Written /\ AtLabel(s) /\ OldOffset(s) /\ WellFormed(s) /\ Encodes(s)
      /\ data \in Seq(Byte)
  BY SymbolParts DEF Inside, EncoderInv
<1>2. /\ pc = "copyloop" /\ tmp1' = Wrap(tmp1 - 1) /\ UNCHANGED <<tmp0, offset>>
      /\ pc' = IF Wrap(tmp1 - 1) # 0 THEN "copyloop" ELSE "after_reference"
  BY DEF Copyloop
<1>3. InCopyloop(s)
  BY <1>1, <1>2 DEF AtLabel
<1>4. /\ s.kind = "reference" /\ offset = s.offset /\ received = EndAt(s)
      /\ tmp0 = Wrap(-s.offset) /\ tmp1 \in 1..s.length
  BY <1>3 DEF InCopyloop
<1>a. s.to \in Nat /\ s.length \in Nat
  BY <1>1, SymbolTyped
<1>b. Wrap(tmp1 - 1) = tmp1 - 1
  <2>1. tmp1 \in 0..(RegisterSize - 1)
    BY DEF Inside, IInv, TypeOK
  <2>2. tmp1 - 1 \in 0..(RegisterSize - 1)
    BY <1>4, <1>a, <2>1, RegisterSizes
  <2> QED BY <2>2, WrapFits
<1>5. PICK n \in Nat : /\ n = s.to + s.length - tmp1 /\ OutAt(n)
                       /\ LoadedBytes(Wrap(outp + tmp0)) = {data[n + 1]}
  BY <1>1, <1>2, <1>3, CopiedByte DEF Inside
<1>6. StoreByte(data[n + 1])
  BY <1>2, <1>5 DEF Copyloop
<1>7. OutAt(n + 1)'
  BY <1>5, <1>6, StoreUnpacks DEF encoderVars
<1>8. s.to \in Nat /\ s.length \in Nat /\ tmp1' = tmp1 - 1
  BY <1>2, <1>a, <1>b
<1>9. n + 1 = s.to + s.length - tmp1'
  BY <1>4, <1>5, <1>8
<1>10. CASE tmp1 - 1 # 0
  <2>1. pc' = "copyloop" /\ tmp1' \in 1..s.length
    BY <1>2, <1>4, <1>8, <1>b, <1>10
  <2>2. InCopyloop(s)'
    BY <1>2, <1>4, <1>7, <1>9, <2>1 DEF InCopyloop
  <2>3. AtLabel(s)'
    BY <2>1, <2>2 DEF AtLabel
  <2> QED BY <1>1, <1>2, <2>3, OldOffsetKept, Stays DEF encoderVars
<1>11. CASE tmp1 - 1 = 0
  <2>1. pc' = "after_reference" /\ n + 1 = s.to + s.length
    BY <1>2, <1>8, <1>9, <1>b, <1>11
  <2>2. OutAt(s.to + s.length)' /\ received' = EndAt(s) /\ symbols' = symbols
    BY <1>4, <1>7, <2>1 DEF encoderVars
  <2> QED BY <1>1, <1>2, <1>4, <2>1, <2>2, GoesOn
<1> QED BY <1>10, <1>11

LEMMA DonePlaces ==
  ASSUME NEW s, Inside(s), DoneDecompressing, UNCHANGED <<encoderVars, received>>
  PROVE  Placed'
<1>1. s \in Written /\ AtLabel(s) /\ OldOffset(s)
  BY DEF Inside
<1>2. pc = "donedecompressing" /\ pc' = "intro" /\ UNCHANGED <<outp, mem, offset>>
  BY DEF DoneDecompressing
<1>3. InEnd(s)
  BY <1>1, <1>2 DEF AtLabel
<1>4. InEnd(s)'
  BY <1>2, <1>3, OutKept DEF InEnd, encoderVars
<1>5. AtLabel(s)'
  BY <1>2, <1>4 DEF AtLabel
<1> QED BY <1>1, <1>2, <1>5, OldOffsetKept, Stays DEF encoderVars

-----------------------------------------------------------------------------
(* Encoder and depacker together.                                          *)

(* The pop at the end of getnumber returns to one of its two callers.      *)
LEMMA BitsloopReturns ==
  ASSUME IInv, NEW b, Bitsloop(b)
  PROVE  pc' \in {"bitsloop", "length_read", "offset_read"}
<1>1. pc = "bitsloop" /\ (pc' = pc \/ pc' = frames[Len(frames)][2])
  BY DEF Bitsloop
<1> DEFINE Frame == Nat \X {"length_read", "offset_read"}
<1>2. frames \in Seq(Frame) /\ Len(frames) = 1
  BY <1>1 DEF IInv, TypeOK, NumberInv, InGetnumber
<1> HIDE DEF Frame
<1>3. frames[Len(frames)] \in Frame
  BY <1>2, PopFrame
<1> QED BY <1>1, <1>3 DEF Frame

LEMMA RoundTripStarts ==
  RoundTripInit => RInv
<1> SUFFICES ASSUME RoundTripInit PROVE RInv
  OBVIOUS
<1>1. IInv
  BY InitEstablishes DEF RoundTripInit
<1>2. EncoderInv
  BY RoundTripAssumption DEF RoundTripInit, EncoderInit, EncoderInv
<1>3. DepackInv
  BY DEF RoundTripInit, Init, DepackInv
<1>4. Paired(pairs) /\ received \in Nat
  BY DEF RoundTripInit, Paired
<1> QED BY <1>1, <1>2, <1>3, <1>4 DEF RInv

LEMMA UnchangedKeeps ==
  ASSUME RInv, UNCHANGED roundTripVars
  PROVE  RInv'
<1>1. IInv'
  BY StepPreserves DEF RInv, roundTripVars
<1>2. UNCHANGED <<pc, outp, tmp0, tmp1, offset, sp, savedSp, frames, mem, access, ones,
                  data, stream, symbols, received, pairs>>
  BY DEF roundTripVars, vars, encoderVars
<1>3. EncoderInv'
  BY <1>2 DEF RInv, EncoderInv, Encodes, LastSymbol
<1>4. DepackInv'
  BY <1>2 DEF RInv, DepackInv, complete, LastSymbol, Placed, Written, AtLabel, OldOffset,
       InLiteral, InKind, InRepeat, InReadoffset, InOffsetNumber, InOffsetRead, InReadlength,
       InLengthNumber, InLengthRead, InCopyloop, InEnd, InNumber, OutAt, Unpacks
<1> QED BY <1>1, <1>2, <1>3, <1>4 DEF RInv

LEMMA EncodeKeeps ==
  ASSUME RInv, Encode
  PROVE  RInv'
<1>1. EncoderNext /\ UNCHANGED <<vars, received, pairs>>
  BY DEF Encode
<1>2. ~complete
  BY <1>1 DEF EncoderNext, EncodeLiteral, EncodeReference, EncodeEnd, EncodeSymbol
<1>3. IInv'
  BY <1>1, StepPreserves DEF RInv
<1>4. EncoderInv'
  BY <1>1, EncoderPreserves DEF RInv
<1>5. DepackInv'
  BY <1>1, <1>2 DEF RInv, DepackInv, vars
<1> QED BY <1>1, <1>3, <1>4, <1>5 DEF RInv

LEMMA DepackKeeps ==
  ASSUME RInv, Depack
  PROVE  RInv'
<1>1. complete /\ IInv /\ EncoderInv /\ DepackInv /\ Paired(pairs) /\ received \in Nat
  BY DEF Depack, RInv
<1>2. UNCHANGED encoderVars /\ Next
  BY DEF Depack, DecodeBit, Next
<1>3. IInv'
  BY <1>1, <1>2, StepPreserves
<1>4. EncoderInv' /\ complete'
  BY <1>1, <1>2 DEF encoderVars, EncoderInv, Encodes, complete, LastSymbol
<1>5. pc' # "code_start"
  <2>1. CASE OtherStep
    BY <2>1 DEF OtherStep, CodeStart, Literal, Readlength, LengthRead, Copyloop,
         Readoffset, OffsetRead, DoneDecompressing, CallGetnumber
  <2>2. ASSUME NEW b \in Bit, BitStep(b), ~Bitsloop(b)
        PROVE  pc' # "code_start"
    BY <2>2 DEF BitStep, Getlit, Switch, Repeat, AfterReference, Numberloop
  <2>3. ASSUME NEW b \in Bit, Bitsloop(b)
        PROVE  pc' # "code_start"
    BY <1>1, <2>3, BitsloopReturns
  <2> QED BY <1>2, <2>1, <2>2, <2>3 DEF Next
<1>6. ASSUME pc # "code_start"
      PROVE  \E s : Inside(s)
  BY <1>1, <1>6 DEF DepackInv, Placed, Inside
<1>7. ASSUME OtherStep, UNCHANGED <<encoderVars, received, pairs>>
      PROVE  Placed' /\ Paired(pairs') /\ received' \in Nat
  <2>1. CASE CodeStart
    BY <1>1, <1>7, <2>1, CodeStartPlaces
  <2>2. CASE OtherStep /\ ~CodeStart
    <3>1. pc # "code_start"
      BY <2>2 DEF OtherStep, Literal, Readlength, LengthRead, Copyloop,
           Readoffset, OffsetRead, DoneDecompressing
    <3>2. PICK s : Inside(s)
      BY <1>6, <3>1
    <3>3. Placed'
      BY <1>7, <2>2, <3>2, LiteralPlaces, ReadlengthPlaces, LengthReadPlaces, CopyloopPlaces,
         ReadoffsetPlaces, OffsetReadPlaces, DonePlaces DEF OtherStep
    <3> QED BY <1>1, <1>7, <3>3
  <2> QED BY <1>7, <2>1, <2>2
<1>8. ASSUME NEW b \in Bit, DecodeBit(b)
      PROVE  Placed' /\ Paired(pairs') /\ received' \in Nat
  <2>1. BitStep(b) /\ received' = received + 1
    BY <1>8 DEF DecodeBit
  <2>2. pc # "code_start"
    BY <2>1 DEF BitStep, Getlit, Switch, Repeat, AfterReference, Numberloop, Bitsloop
  <2>3. PICK s : Inside(s)
    BY <1>6, <2>2
  <2>4. Placed' /\ Paired(pairs')
    BY <1>8, <2>1, <2>3, GetlitPlaces, KindPlaces, RepeatPlaces, NumberPlaces DEF BitStep
  <2> QED BY <1>1, <2>1, <2>4
<1>9. Placed' /\ Paired(pairs') /\ received' \in Nat
  BY <1>7, <1>8 DEF Depack
<1>10. DepackInv'
  BY <1>4, <1>5, <1>9 DEF DepackInv
<1> QED BY <1>3, <1>4, <1>9, <1>10 DEF RInv

LEMMA RoundTripPreserves ==
  RInv /\ [RoundTripNext]_roundTripVars => RInv'
<1> SUFFICES ASSUME RInv, [RoundTripNext]_roundTripVars
             PROVE  RInv'
  OBVIOUS
<1>1. CASE UNCHANGED roundTripVars
  BY <1>1, UnchangedKeeps
<1>2. CASE Encode
  BY <1>2, EncodeKeeps
<1>3. CASE Depack
  BY <1>3, DepackKeeps
<1>4. CASE IntroRuns
  BY <1>4, UnchangedKeeps DEF IntroRuns
<1> QED BY <1>1, <1>2, <1>3, <1>4 DEF RoundTripNext

-----------------------------------------------------------------------------
(* What the invariant implies.                                             *)

LEMMA PartsInOrder ==
  ASSUME EncoderInv, NEW s \in Written
  PROVE  /\ s.start \in Nat /\ BodyAt(s) \in Nat /\ EndAt(s) \in Nat
         /\ s.start <= BodyAt(s) /\ BodyAt(s) <= EndAt(s)
         /\ s.kind = "literal" => EndAt(s) = BodyAt(s) + ByteBits
         /\ s.kind # "literal" =>
              /\ OffsetAt(s) \in Nat /\ LengthAt(s) \in Nat
              /\ BodyAt(s) <= OffsetAt(s) /\ OffsetAt(s) <= LengthAt(s) /\ LengthAt(s) <= EndAt(s)
<1>1. /\ WellFormed(s)
      /\ s.start \in Nat /\ BodyAt(s) \in Nat /\ EndAt(s) \in Nat
      /\ s.kind = "literal" => EndAt(s) = BodyAt(s) + ByteBits
      /\ s.kind # "literal" =>
           /\ OffsetAt(s) \in Nat /\ LengthAt(s) \in Nat
           /\ EndAt(s) = LengthAt(s) + Len(LengthBits(s))
  BY SymbolParts
<1>2. /\ Len(KindBits(s)) \in Nat /\ Len(RepeatBits(s)) \in Nat /\ Len(OffsetBits(s)) \in Nat
      /\ s.kind # "literal" => Len(LengthBits(s)) \in Nat
  BY <1>1, SymbolBits
<1>3. s.start <= BodyAt(s)
  BY <1>1, <1>2 DEF BodyAt
<1>4. s.kind # "literal" => BodyAt(s) <= OffsetAt(s)
  BY <1>1, <1>2 DEF OffsetAt
<1>5. s.kind # "literal" => OffsetAt(s) <= LengthAt(s)
  BY <1>1, <1>2 DEF LengthAt
<1>6. s.kind # "literal" => LengthAt(s) <= EndAt(s)
  BY <1>1, <1>2
<1>7. BodyAt(s) <= EndAt(s)
  <2>1. CASE s.kind = "literal"
    BY <1>1, <2>1, ByteSizes
  <2>2. CASE s.kind # "literal"
    BY <1>1, <1>4, <1>5, <1>6, <2>2
  <2> QED BY <2>1, <2>2
<1> QED BY <1>1, <1>3, <1>4, <1>5, <1>6, <1>7

(* A number that is being read has not been left behind.                   *)
LEMMA NumberBounds ==
  ASSUME NEW s, NEW use, NEW number, NEW group, NEW return, NEW base,
         pc \in {"numberloop", "bitsloop"},
         NumberOf(s, use, number, group, return, base),
         InNumber(s, number, group, return, base)
  PROVE  received \in Nat /\ received <= base + Len(NumberBits(use, number))
<1>1. base \in Nat /\ number \in Nat /\ number >= 2 /\ use \in ItemUses
  BY DEF NumberOf, ItemUses
<1>2. /\ Excess(number) \in Nat /\ Width(number) = Excess(number) + 1
      /\ Len(NumberBits(use, number)) = 2 * Width(number)
  BY <1>1, NumberEnds, NumberBitsAre
<1> DEFINE w == Width(number)
<1> HIDE DEF w
<1>3. CASE pc = "numberloop"
  <2>1. PICK n \in 0..Excess(number) : received = base + n
    BY <1>3 DEF InNumber
  <2> QED BY <1>1, <1>2, <2>1
<1>4. CASE pc = "bitsloop"
  <2>1. PICK n \in 1..w : received = base + 2 * w - n
    BY <1>4 DEF InNumber, w
  <2>2. w \in Nat /\ Len(NumberBits(use, number)) = 2 * w
    BY <1>2 DEF w
  <2> QED BY <1>1, <2>1, <2>2
<1> QED BY <1>3, <1>4

LEMMA ReceivedBounds ==
  ASSUME NEW s, Inside(s)
  PROVE  received \in Nat /\ received <= EndAt(s)
<1>1. /\ s \in Written /\ AtLabel(s) /\ WellFormed(s) /\ EncoderInv /\ pc \in Labels
  BY SymbolParts DEF Inside, IInv, TypeOK
<1>2. /\ s.start \in Nat /\ BodyAt(s) \in Nat /\ EndAt(s) \in Nat
      /\ s.start <= BodyAt(s) /\ BodyAt(s) <= EndAt(s)
      /\ s.kind = "literal" => EndAt(s) = BodyAt(s) + ByteBits
      /\ s.kind # "literal" =>
           /\ OffsetAt(s) \in Nat /\ LengthAt(s) \in Nat
           /\ BodyAt(s) <= OffsetAt(s) /\ OffsetAt(s) <= LengthAt(s) /\ LengthAt(s) <= EndAt(s)
  BY <1>1, PartsInOrder
<1>3. CASE pc \in {"literal", "getlit"}
  <2>1. InLiteral(s)
    BY <1>1, <1>3 DEF AtLabel
  <2>2. CASE pc = "literal"
    BY <1>2, <2>1, <2>2 DEF InLiteral
  <2>3. CASE pc = "getlit"
    <3>1. PICK n \in 0..(ByteBits - 1) : received = BodyAt(s) + n
      BY <2>1, <2>3 DEF InLiteral
    <3>2. s.kind = "literal"
      BY <2>1 DEF InLiteral
    <3> QED BY <1>2, <3>1, <3>2, ByteSizes
  <2> QED BY <1>3, <2>2, <2>3
<1>4. CASE pc \in {"switch", "after_reference"}
  <2>1. InKind(s)
    BY <1>1, <1>4 DEF AtLabel
  <2> QED BY <1>2, <2>1 DEF InKind
<1>5. CASE pc \in {"repeat", "readoffset", "offset_read", "readlength"}
  <2>1. s.kind # "literal" /\ received \in {BodyAt(s), OffsetAt(s), LengthAt(s)}
    BY <1>1, <1>5 DEF AtLabel, InRepeat, InReadoffset, InOffsetRead, InReadlength
  <2> QED BY <1>2, <2>1
<1>6. CASE pc \in {"numberloop", "bitsloop"}
  <2>1. CASE InOffsetNumber(s)
    <3>1. /\ s.kind # "literal"
          /\ InNumber(s, s.offset + 2, OffsetGroup, "offset_read", OffsetAt(s))
          /\ NumberOf(s, "offset", s.offset + 2, OffsetGroup, "offset_read", OffsetAt(s))
          /\ LengthAt(s) = OffsetAt(s) + Len(NumberBits("offset", s.offset + 2))
      BY <2>1, NumbersOf DEF InOffsetNumber
    <3>2. received \in Nat /\ received <= LengthAt(s)
      BY <1>6, <3>1, NumberBounds
    <3> QED BY <1>2, <3>1, <3>2
  <2>2. CASE InLengthNumber(s)
    <3>1. /\ InNumber(s, s.length, LengthGroup, "length_read", LengthAt(s))
          /\ NumberOf(s, "length", s.length, LengthGroup, "length_read", LengthAt(s))
          /\ EndAt(s) = LengthAt(s) + Len(NumberBits("length", s.length))
      BY <2>2, NumbersOf DEF InLengthNumber
    <3> QED BY <1>6, <3>1, NumberBounds
  <2> QED BY <1>1, <1>6, <2>1, <2>2 DEF AtLabel
<1>7. CASE pc \in {"length_read", "copyloop", "donedecompressing", "intro"}
  <2>1. received = EndAt(s)
    BY <1>1, <1>7 DEF AtLabel, InLengthRead, InCopyloop, InEnd
  <2> QED BY <1>2, <2>1
<1>8. pc # "code_start"
  BY <1>1 DEF AtLabel
<1> QED BY <1>1, <1>3, <1>4, <1>5, <1>6, <1>7, <1>8 DEF Labels

(* Nothing comes behind the end marker.                                    *)
LEMMA EndIsLast ==
  ASSUME EncoderInv, complete, NEW s \in Written, s.kind = "end"
  PROVE  EndAt(s) = Len(stream) /\ s.to = Len(data)
<1>1. PICK k \in 1..Len(symbols) : s = symbols[k]
  BY DEF Written
<1>2. Len(symbols) \in Nat
  BY DEF EncoderInv
<1>3. k = Len(symbols)
  <2> SUFFICES ASSUME k # Len(symbols) PROVE FALSE
    OBVIOUS
  <2>1. k \in 1..(Len(symbols) - 1)
    BY <1>2
  <2>2. s.kind # "end"
    BY <1>1, <2>1 DEF EncoderInv, Follows
  <2> QED BY <2>2
<1>4. s = LastSymbol /\ symbols # << >>
  BY <1>1, <1>3 DEF LastSymbol, complete
<1>5. WellFormed(s)
  BY SymbolParts
<1>6. Len(data) = s.to + s.length /\ Len(stream) = EndAt(s)
  BY <1>4 DEF EncoderInv
<1>7. s.length = 0 /\ s.to \in Nat
  BY <1>5, SymbolTyped
<1> QED BY <1>6, <1>7

LEMMA InsideOne ==
  ASSUME RInv, pc # "code_start"
  PROVE  \E s : Inside(s)
  BY DEF RInv, DepackInv, Placed, Inside

LEMMA RoundTripTyped ==
  RInv => RoundTripTypeOK
<1> SUFFICES ASSUME RInv PROVE RoundTripTypeOK
  OBVIOUS
<1>1. TypeOK /\ data \in Seq(Byte) /\ received \in Nat
  BY DEF RInv, IInv, EncoderInv
<1>2. \A n \in 1..Len(stream) : stream[n].bit \in Bit
  <2> SUFFICES ASSUME NEW n \in 1..Len(stream) PROVE stream[n].bit \in Bit
    OBVIOUS
  <2>1. stream[n] \in ItemSet
    BY DEF RInv, EncoderInv
  <2> QED BY <2>1 DEF ItemSet
<1>3. \A p \in pairs : p[2] \in Int
  BY DEF RInv, Paired
<1> QED BY <1>1, <1>2, <1>3 DEF RoundTripTypeOK

LEMMA CopiesBack ==
  RInv => CopyReadsWritten
<1> SUFFICES ASSUME RInv, pc = "copyloop"
             PROVE  LoadAddress <= Wrap(outp + tmp0) /\ Wrap(outp + tmp0) < outp
  BY DEF CopyReadsWritten
<1>1. PICK s : Inside(s)
  BY InsideOne
<1>2. IInv /\ InCopyloop(s) /\ WellFormed(s) /\ Encodes(s) /\ data \in Seq(Byte)
  BY <1>1, SymbolParts DEF Inside, AtLabel, EncoderInv
<1>3. LoadAddress <= Wrap(outp + tmp0) /\ Wrap(outp + tmp0) < outp
  BY <1>2, CopiedByte
<1> QED BY <1>3

LEMMA ReadsAll ==
  RInv => StreamConsumed
<1> SUFFICES ASSUME RInv PROVE StreamConsumed
  OBVIOUS
<1>1. Len(stream) \in Nat
  BY DEF RInv, EncoderInv
<1>2. CASE pc = "code_start"
  <2>1. received = 0
    BY <1>2 DEF RInv, DepackInv
  <2> QED BY <1>1, <1>2, <2>1 DEF StreamConsumed
<1>3. CASE pc # "code_start"
  <2>1. PICK s : Inside(s)
    BY <1>3, InsideOne
  <2>2. EndAt(s) \in Nat /\ EndAt(s) <= Len(stream) /\ EncoderInv /\ complete /\ s \in Written
    BY <2>1, SymbolParts DEF Inside
  <2>3. received \in Nat /\ received <= EndAt(s)
    BY <2>1, ReceivedBounds
  <2>4. ASSUME pc \in {"donedecompressing", "intro"}
        PROVE  received = Len(stream)
    <3>1. InEnd(s)
      BY <2>1, <2>4 DEF Inside, AtLabel
    <3> QED BY <2>2, <3>1, EndIsLast DEF InEnd
  <2> QED BY <1>1, <2>2, <2>3, <2>4 DEF StreamConsumed
<1> QED BY <1>2, <1>3

-----------------------------------------------------------------------------
(* Refinement of Decompression: the bytes unpacked are a prefix of the     *)
(* intro that grows by one byte at a time.                                 *)

FirstBytes(n) == [i \in 1..n |-> data[i]]

Shows(n) ==
  /\ Unpacked = FirstBytes(n)
  /\ IsFiniteSet(DOMAIN mem) /\ Cardinality(DOMAIN mem) = n
  /\ n <= Len(data)
  /\ pc \in {"donedecompressing", "intro"} => n = Len(data)

LEMMA UnpackedFirst ==
  ASSUME NEW n \in Nat, Unpacks(n), n <= Len(data),
         pc \in {"donedecompressing", "intro"} => n = Len(data)
  PROVE  Shows(n)
<1>1. DOMAIN mem = LoadAddress..(LoadAddress + n - 1) /\ LoadAddress \in Nat
  BY SizesAssumption DEF Unpacks
<1>2. IsFiniteSet(DOMAIN mem) /\ Cardinality(DOMAIN mem) = n
  BY <1>1, FS_Interval
<1>3. \A i \in 1..n : mem[LoadAddress + i - 1] = data[i]
  BY DEF Unpacks
<1>4. Unpacked = FirstBytes(n)
  BY <1>2, <1>3 DEF Unpacked, FirstBytes
<1> QED BY <1>2, <1>4 DEF Shows

(* In every symbol some first bytes of the data are unpacked, in the end   *)
(* all of them.                                                            *)
LEMMA ShowsSome ==
  RInv => \E n \in Nat : Shows(n)
<1> SUFFICES ASSUME RInv PROVE \E n \in Nat : Shows(n)
  OBVIOUS
<1>1. CASE pc = "code_start"
  <2>1. DOMAIN mem = {} /\ Len(data) \in Nat
    BY <1>1 DEF RInv, IInv, StartInv, EncoderInv
  <2>2. Unpacks(0)
    BY <2>1, SizesAssumption DEF Unpacks
  <2> QED BY <1>1, <2>1, <2>2, UnpackedFirst
<1>2. CASE pc # "code_start"
  <2>1. PICK s : Inside(s)
    BY <1>2, InsideOne
  <2>2. /\ s \in Written /\ AtLabel(s) /\ WellFormed(s) /\ EncoderInv /\ pc \in Labels /\ complete
        /\ s.to \in Nat /\ s.length \in Nat /\ Len(data) \in Nat
    <3>1. s \in Written /\ AtLabel(s) /\ EncoderInv /\ pc \in Labels /\ complete
      BY <2>1 DEF Inside, IInv, TypeOK
    <3>2. WellFormed(s)
      BY <3>1, SymbolParts
    <3>3. s.to \in Nat /\ s.length \in Nat
      BY <3>2, SymbolTyped
    <3>4. Len(data) \in Nat
      BY <3>1 DEF EncoderInv
    <3> QED BY <3>1, <3>2, <3>3, <3>4
  <2>3. s.to + s.length <= Len(data)
    BY <2>2, SymbolParts DEF Encodes
  <2>4. CASE pc = "copyloop"
    <3>1. tmp1 \in 1..s.length /\ Unpacks(s.to + s.length - tmp1)
      BY <2>2, <2>4 DEF AtLabel, InCopyloop, OutAt
    <3>2. s.to + s.length - tmp1 \in Nat /\ s.to + s.length - tmp1 <= Len(data)
      BY <2>2, <2>3, <3>1
    <3> QED BY <2>4, <3>1, <3>2, UnpackedFirst
  <2>5. CASE pc \in {"donedecompressing", "intro"}
    <3>1. InEnd(s)
      BY <2>2, <2>5 DEF AtLabel
    <3>2. Unpacks(s.to) /\ s.to = Len(data)
      BY <2>2, <3>1, EndIsLast DEF InEnd, OutAt
    <3> QED BY <2>2, <3>2, UnpackedFirst
  <2>6. CASE pc \notin {"code_start", "copyloop", "donedecompressing", "intro"}
    <3>1. Unpacks(s.to)
      BY <2>2, <2>6 DEF AtLabel, InOffsetNumber, InLengthNumber, InNumber, OutAt,
           InLiteral, InKind, InRepeat, InReadoffset, InOffsetRead, InReadlength, InLengthRead
    <3>2. s.to <= Len(data)
      BY <2>2, <2>3
    <3> QED BY <2>2, <2>6, <3>1, <3>2, UnpackedFirst
  <2> QED BY <1>2, <2>4, <2>5, <2>6
<1> QED BY <1>1, <1>2

LEMMA ShowsSomeNext ==
  RInv' => \E n \in Nat : Shows(n)'
<1>1. RInv' => (\E n \in Nat : Shows(n))'
  BY ShowsSome, PTL
<1> QED BY <1>1

(* The encoder's steps are the packer's.                                   *)
LEMMA EncodePacks ==
  ASSUME RInv, Encode
  PROVE  [Promise!Next]_(Promise!vars)
<1>1. ~complete /\ UNCHANGED <<pc, mem>>
  BY DEF Encode, vars, EncoderNext, EncodeLiteral, EncodeReference, EncodeEnd, EncodeSymbol
<1>2. pc = "code_start"
  BY <1>1 DEF RInv, DepackInv
<1>3. PICK bytes : bytes \in Seq(Byte) /\ data' = data \o bytes
  <2>1. data \in Seq(Byte)
    BY DEF RInv, EncoderInv
  <2>2. ASSUME NEW byte \in Literals, EncodeLiteral(byte)
        PROVE  \E bytes : bytes \in Seq(Byte) /\ data' = data \o bytes
    <3>1. byte \in Byte
      BY EncoderAssumption, RoundTripAssumption DEF Byte
    <3>2. <<byte>> \in Seq(Byte) /\ data' = data \o <<byte>>
      BY <2>2, <3>1 DEF EncodeLiteral, EncodeSymbol
    <3> QED BY <3>2
  <2>3. ASSUME NEW off \in Offsets, NEW length \in Lengths, EncodeReference(off, length)
        PROVE  \E bytes : bytes \in Seq(Byte) /\ data' = data \o bytes
    <3>1. off \in Nat \ {0} /\ length \in Nat /\ off <= Len(data)
      BY <2>3, EncoderAssumption DEF EncodeReference
    <3>2. Copied(off, length) \in Seq(Byte) /\ data' = data \o Copied(off, length)
      BY <2>1, <2>3, <3>1, CopiedPeriodic DEF EncodeReference, EncodeSymbol
    <3> QED BY <3>2
  <2>4. ASSUME EncodeEnd
        PROVE  \E bytes : bytes \in Seq(Byte) /\ data' = data \o bytes
    <3>1. << >> \in Seq(Byte) /\ data' = data \o << >>
      BY <2>4 DEF EncodeEnd, EncodeSymbol
    <3> QED BY <3>1
  <2> QED BY <2>2, <2>3, <2>4 DEF Encode, EncoderNext
<1>4. Len(data') >= Len(data) /\ SubSeq(data', 1, Len(data)) = data
  <2>1. data \in Seq(Byte)
    BY DEF RInv, EncoderInv
  <2>2. /\ data' \in Seq(Byte) /\ Len(data') = Len(data) + Len(bytes)
        /\ Len(data) \in Nat /\ Len(bytes) \in Nat /\ PartOf(data, data', 0)
    BY <1>3, <2>1, Halves
  <2>3. \A n \in 1..Len(data) : data'[n] = data[n]
    BY <2>2 DEF PartOf
  <2>4. SubSeq(data', 1, Len(data)) = data
    BY <2>1, <2>2, <2>3
  <2> QED BY <2>2, <2>4
<1>5. Unpacked' = Unpacked
  BY <1>1 DEF Unpacked
<1> QED BY <1>1, <1>2, <1>4, <1>5 DEF Promise!Next, Promise!Pack, Promise!vars

(* The depacker's steps store the next byte, start the intro, or are not   *)
(* seen.                                                                   *)
LEMMA DepackUnpacks ==
  ASSUME RInv, RInv', Depack
  PROVE  [Promise!Next]_(Promise!vars)
<1>1. complete /\ complete' /\ data' = data /\ data \in Seq(Byte) /\ Len(data) \in Nat
  BY DEF Depack, DecodeBit, encoderVars, complete, LastSymbol, RInv, EncoderInv
<1>2. Next /\ IInv
  BY DEF Depack, DecodeBit, Next, RInv
<1>3. PICK n \in Nat : Shows(n)
  BY ShowsSome
<1>4. PICK m \in Nat : Shows(m)'
  BY ShowsSomeNext
<1>5. pc # "intro"
  BY <1>2 DEF Next, OtherStep, BitStep, CodeStart, Literal, Readlength, LengthRead, Copyloop,
       Readoffset, OffsetRead, DoneDecompressing, Getlit, Switch, Repeat, AfterReference,
       Numberloop, Bitsloop
<1>6. CASE DoneDecompressing
  <2>1. pc = "donedecompressing" /\ pc' = "intro" /\ mem' = mem
    BY <1>6 DEF DoneDecompressing
  <2>2. Unpacked = FirstBytes(Len(data))
    BY <1>3, <2>1 DEF Shows
  <2>3. Unpacked = data
    BY <1>1, <2>2 DEF FirstBytes
  <2>4. Unpacked' = Unpacked
    BY <2>1 DEF Unpacked
  <2> QED BY <1>1, <1>5, <2>1, <2>3, <2>4 DEF Promise!Next, Promise!Run
<1>7. CASE ~DoneDecompressing
  <2>1. pc' # "intro"
    <3>1. CASE OtherStep
      BY <1>7, <3>1 DEF OtherStep, CodeStart, Literal, Readlength, LengthRead, Copyloop,
           Readoffset, OffsetRead, CallGetnumber
    <3>2. ASSUME NEW b \in Bit, BitStep(b), ~Bitsloop(b)
          PROVE  pc' # "intro"
      BY <3>2 DEF BitStep, Getlit, Switch, Repeat, AfterReference, Numberloop
    <3>3. ASSUME NEW b \in Bit, Bitsloop(b)
          PROVE  pc' # "intro"
      BY <1>2, <3>3, BitsloopReturns
    <3> QED BY <1>2, <3>1, <3>2, <3>3 DEF Next
  <2>2. CASE UNCHANGED mem
    <3>1. Unpacked' = Unpacked
      BY <2>2 DEF Unpacked
    <3> QED BY <1>1, <1>5, <2>1, <3>1 DEF Promise!vars
  <2>3. CASE DOMAIN mem' = DOMAIN mem \cup {outp} /\ outp \notin DOMAIN mem
    <3>1. /\ Unpacked = FirstBytes(n)
          /\ IsFiniteSet(DOMAIN mem) /\ Cardinality(DOMAIN mem) = n
      BY <1>3 DEF Shows
    <3>2. /\ Unpacked' = [i \in 1..m |-> data[i]]
          /\ Cardinality(DOMAIN mem') = m /\ m <= Len(data)
      BY <1>1, <1>4 DEF Shows, FirstBytes
    <3>3. m = n + 1
      BY <2>3, <3>1, <3>2, FS_AddElement
    <3>4. Len(Unpacked) = n
      BY <3>1 DEF FirstBytes
    <3>5. Unpacked' = Append(Unpacked, data[n + 1])
      BY <3>1, <3>2, <3>3 DEF FirstBytes
    <3>6. Len(Unpacked) < Len(data)
      BY <1>1, <3>2, <3>3, <3>4
    <3> HIDE DEF Unpacked
    <3> QED BY <1>1, <1>5, <2>1, <3>4, <3>5, <3>6 DEF Promise!Next, Promise!Unpack
  <2> QED BY <1>2, <2>2, <2>3, StoresAtEnd
<1> QED BY <1>6, <1>7

-----------------------------------------------------------------------------
(* In every reachable state the stream holds the bits of its symbols, the  *)
(* depacker is at one of them and has read what comes before, and every    *)
(* context has been met at its home.                                       *)
THEOREM RoundTripInvariance == RoundTripSpec => []RInv
<1> QED BY RoundTripStarts, RoundTripPreserves, PTL DEF RoundTripSpec

(* Encoder and depacker keep to their types while they work together.      *)
THEOREM RoundTripTypeCorrect == RoundTripSpec => []RoundTripTypeOK
<1> QED BY RoundTripTyped, RoundTripInvariance, PTL

(* Whatever the intro and however it is parsed, the encoder's contexts and *)
(* the depacker's addresses pair off one to one.                           *)
THEOREM ContextAgreement == RoundTripSpec => []ContextsAgree
<1>1. RInv => ContextsAgree
  BY PairedOneToOne DEF RInv, ContextsAgree
<1> QED BY <1>1, RoundTripInvariance, PTL

(* Every reference copies bytes that have been unpacked before it.         *)
THEOREM CopySafety == RoundTripSpec => []CopyReadsWritten
<1> QED BY CopiesBack, RoundTripInvariance, PTL

(* The depacker never reads past the end of the stream, and all of it.     *)
THEOREM StreamUse == RoundTripSpec => []StreamConsumed
<1> QED BY ReadsAll, RoundTripInvariance, PTL

(* The safety part of KeepsPromise: every step of the round trip is one of *)
(* Decompression's, or unseen there; so the bytes come out in order, and   *)
(* the intro is not started before they are complete.                      *)
THEOREM PromiseKeptSafely ==
  RoundTripSpec => Promise!Init /\ [][Promise!Next]_(Promise!vars)
<1>1. RoundTripInit => Promise!Init
  <2> SUFFICES ASSUME RoundTripInit PROVE Promise!Init
    OBVIOUS
  <2>1. symbols = << >> /\ data = << >> /\ DOMAIN mem = {} /\ pc = "code_start"
    BY DEF RoundTripInit, EncoderInit, Init
  <2>2. Unpacked = << >>
    BY <2>1, FS_EmptySet DEF Unpacked
  <2> QED BY <2>1, <2>2 DEF Promise!Init, complete
<1>2. RInv /\ RInv' /\ [RoundTripNext]_roundTripVars => [Promise!Next]_(Promise!vars)
  <2> SUFFICES ASSUME RInv, RInv', [RoundTripNext]_roundTripVars
               PROVE  [Promise!Next]_(Promise!vars)
    OBVIOUS
  <2>1. CASE UNCHANGED roundTripVars \/ IntroRuns
    BY <2>1 DEF IntroRuns, roundTripVars, vars, encoderVars, Promise!vars, complete, LastSymbol,
         Unpacked
  <2> QED BY <2>1, EncodePacks, DepackUnpacks DEF RoundTripNext
<1> QED BY <1>1, <1>2, RoundTripInvariance, PTL DEF RoundTripSpec
=============================================================================
