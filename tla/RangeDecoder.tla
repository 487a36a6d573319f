----------------------------- MODULE RangeDecoder -----------------------------
(***************************************************************************)
(* getbit, the range decoder at the heart of the emitted depacker, with    *)
(* its registers: rvalue, isize and bitbuf survive from call to call, the  *)
(* probability of a context is its halfword in the stack's table.          *)
(***************************************************************************)
EXTENDS Integers

CONSTANTS
  Contexts,   \* bit contexts a caller may ask for
  Half,       \* the bit of isize that ends normalisation (2^15)
  AdjustDiv,  \* 2^ADJUST_SHIFT (16)
  WordSize    \* number of values of a word of the input (2^32)

\* A halfword holds ProbOne values, a register ProbOne * ProbOne.
ProbOne == 2 * Half
RegSize == ProbOne * ProbOne
InitOneProb == Half

ASSUME DecoderAssumption ==
  /\ Half \in Nat \ {0}
  /\ AdjustDiv \in Nat
  /\ 3 <= AdjustDiv /\ AdjustDiv <= Half
  /\ WordSize \in Nat
  /\ 2 <= WordSize /\ WordSize % 2 = 0

VARIABLES
  pc,       \* "caller" or a label of getbit
  bitctx,   \* the context asked for
  prob,     \* the table of contexts
  rvalue,
  isize,
  bitbuf,   \* unread bits of the last word, then a sentinel bit
  carry     \* the C flag; the bit, when getbit has returned

decoderVars == <<pc, bitctx, prob, rvalue, isize, bitbuf, carry>>

Bit == {0, 1}
Word == 0..(WordSize - 1)
Registers == 0..(RegSize - 1)

-----------------------------------------------------------------------------
\* The state code_start sets up: no interval yet, and only the sentinel.
DecoderInit ==
  /\ pc = "caller"
  /\ bitctx \in Contexts
  /\ prob = [c \in Contexts |-> InitOneProb]
  /\ rvalue = 0
  /\ isize = 1
  /\ bitbuf = WordSize \div 2
  /\ carry = 0

Getbit(c) ==
  /\ pc = "caller"
  /\ bitctx' = c
  /\ pc' = "loop_condition"
  /\ UNCHANGED <<prob, rvalue, isize, bitbuf, carry>>

\* Mutant: isize is not doubled.
ShiftInNoGrowth(b) ==
  /\ rvalue' = (2 * rvalue + b) % RegSize
  /\ isize' = isize
  /\ carry' = 0

\* adc rvalue, rvalue; add isize, isize: bit b of the input moves in.
ShiftIn(b) ==
  /\ rvalue' = (2 * rvalue + b) % RegSize
  /\ isize' = (2 * isize) % RegSize
  /\ carry' = (2 * isize) \div RegSize

\* lsr tmp0, isize, 16 moves this bit of isize into C.
Normalised == (isize \div Half) % 2 = 1

Readbit ==
  /\ pc = "loop_condition"
  /\ ~Normalised
  /\ (2 * bitbuf) % WordSize # 0
  /\ bitbuf' = (2 * bitbuf) % WordSize
  /\ ShiftIn((2 * bitbuf) \div WordSize)
  /\ UNCHANGED <<pc, bitctx, prob>>

\* Mutant: the sentinel moves in, and the word's top bit becomes the new one.
NewwordKeepsSentinel(word) ==
  /\ pc = "loop_condition"
  /\ ~Normalised
  /\ (2 * bitbuf) % WordSize = 0
  /\ bitbuf' = ((2 * word) % WordSize) + (2 * word) \div WordSize
  /\ ShiftIn(1)
  /\ UNCHANGED <<pc, bitctx, prob>>

\* Mutant: bit 0 is not set, so no sentinel follows the word.
NewwordNoSentinel(word) ==
  /\ pc = "loop_condition"
  /\ ~Normalised
  /\ (2 * bitbuf) % WordSize = 0
  /\ bitbuf' = (2 * word) % WordSize
  /\ ShiftIn((2 * word) \div WordSize)
  /\ UNCHANGED <<pc, bitctx, prob>>

\* The bit shifted out was the sentinel: word, at inp, becomes the buffer, its top bit
\* is the bit that counts, and bit 0 the new sentinel.
Newword(word) ==
  /\ pc = "loop_condition"
  /\ ~Normalised
  /\ (2 * bitbuf) % WordSize = 0
  /\ bitbuf' = ((2 * word) % WordSize) + 1
  /\ ShiftIn((2 * word) \div WordSize)
  /\ UNCHANGED <<pc, bitctx, prob>>

Threshold == (((isize * prob[bitctx]) % RegSize) \div ProbOne)
DecayedSwapped == prob[bitctx] \div AdjustDiv - prob[bitctx]  \* mutant: sub's operands
Decayed == prob[bitctx] - prob[bitctx] \div AdjustDiv
AdjustTooLarge == ProbOne \div AdjustDiv  \* mutant: 0x10000 >> ADJUST_SHIFT
Adjust == (ProbOne - 1) \div AdjustDiv

\* sub rvalue, outp leaves no borrow: bit 0.
Zero ==
  /\ pc = "loop_condition"
  /\ Normalised
  /\ rvalue >= Threshold
  /\ rvalue' = rvalue - Threshold
  /\ isize' = (isize - Threshold) % RegSize
  /\ prob' = [prob EXCEPT ![bitctx] = Decayed % ProbOne]
  /\ carry' = Decayed \div RegSize
  /\ pc' = "caller"
  /\ UNCHANGED <<bitctx, bitbuf>>

\* Mutant: the subtraction is not undone.
OneNotRestored ==
  /\ pc = "loop_condition"
  /\ Normalised
  /\ rvalue < Threshold
  /\ rvalue' = (rvalue - Threshold) % RegSize
  /\ carry' = 1
  /\ isize' = Threshold
  /\ prob' = [prob EXCEPT ![bitctx] = (Decayed + Adjust) % ProbOne]
  /\ pc' = "caller"
  /\ UNCHANGED <<bitctx, bitbuf>>

\* It borrows: bit 1, which the addition that undoes it leaves in C.
One ==
  /\ pc = "loop_condition"
  /\ Normalised
  /\ rvalue < Threshold
  /\ LET borrowed == (rvalue - Threshold) % RegSize
     IN  /\ rvalue' = (borrowed + Threshold) % RegSize
         /\ carry' = (borrowed + Threshold) \div RegSize
  /\ isize' = Threshold
  /\ prob' = [prob EXCEPT ![bitctx] = (Decayed + Adjust) % ProbOne]
  /\ pc' = "caller"
  /\ UNCHANGED <<bitctx, bitbuf>>

\* The rest of a call, fed word when it needs one.
Step(word) == Readbit \/ Newword(word) \/ Zero \/ One

DecoderNext == (\E c \in Contexts : Getbit(c)) \/ (\E word \in Word : Step(word))

\* The caller may stop calling; a call, once made, is executed.
DecoderSpec ==
  /\ DecoderInit
  /\ [][DecoderNext]_decoderVars
  /\ WF_decoderVars(\E word \in Word : Step(word))

-----------------------------------------------------------------------------
\* Type invariant: halfwords, registers and the flag hold their widths.
DecoderTypeOK ==
  /\ pc \in {"caller", "loop_condition"}
  /\ bitctx \in Contexts
  /\ prob \in [Contexts -> 0..(ProbOne - 1)]
  /\ rvalue \in Registers
  /\ isize \in Registers
  /\ bitbuf \in Word
  /\ carry \in Bit

\* Whatever the input, the value stays inside the interval, which never
\* becomes empty nor outgrows a halfword: no register overflows.
ValueInInterval == rvalue < isize /\ isize < ProbOne

\* Adaptation never drives a probability to where a bit value would get an
\* empty part of the interval, from which no later bit could be decoded.
ProbabilitiesUsable ==
  \A c \in Contexts :
    \A size \in Half..(ProbOne - 1) :
      0 < (size * prob[c]) \div ProbOne /\ (size * prob[c]) \div ProbOne < size

\* Every call returns: normalisation ends for every input.
GetbitReturns == pc = "loop_condition" ~> pc = "caller"
=============================================================================
