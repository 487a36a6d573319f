-------------------------- MODULE RangeDecoderProofs --------------------------
(***************************************************************************)
(* Proofs about the range coder. RangeDecoder: whatever the input, its     *)
(* interval arithmetic neither overflows nor degenerates, for every width  *)
(* of its registers. RangeCoderRoundTrip: fed with what the encoder wrote, *)
(* getbit follows it bit by bit, for every message and every code word.    *)
(***************************************************************************)
EXTENDS RangeCoderRoundTrip, Numbers, SequenceTheorems, TLAPS

(* Adaptation stays between these: below AdjustDiv a probability no longer *)
(* decays, and it never reaches ProbOne.                                   *)
Probabilities == (AdjustDiv - 1)..(ProbOne - 1)

DInv ==
  /\ DecoderTypeOK
  /\ ValueInInterval
  /\ prob \in [Contexts -> Probabilities]
  /\ isize >= 1

-----------------------------------------------------------------------------
LEMMA ProductMonotone ==
  ASSUME NEW a \in Nat, NEW b \in Nat, NEW c \in Nat, a <= b
  PROVE  c * a <= c * b
  OBVIOUS

LEMMA ProductBounds ==
  ASSUME NEW m \in Nat, NEW n \in Nat, NEW k \in Nat, m < k, n < k
  PROVE  m * n < k * k
  OBVIOUS

(* prob - (prob >> ADJUST_SHIFT) never falls below AdjustDiv - 1.          *)
LEMMA DecayBounded ==
  ASSUME NEW p \in Probabilities
  PROVE  p - p \div AdjustDiv \in (AdjustDiv - 1)..p
<1> USE DecoderAssumption DEF Probabilities, ProbOne
<1> DEFINE q == p \div AdjustDiv
<1>1. p \in Nat /\ AdjustDiv \in Nat \ {0}
  OBVIOUS
<1>2. q \in Nat /\ AdjustDiv * q <= p
  BY <1>1, Quotient
<1> HIDE DEF q
<1>3. CASE q = 0
  BY <1>1, <1>3 DEF q
<1>4. CASE q >= 1
  <2>1. (AdjustDiv - 1) * 1 <= (AdjustDiv - 1) * q
    BY <1>1, <1>2, <1>4, ProductMonotone
  <2>2. (AdjustDiv - 1) * q = AdjustDiv * q - q
    BY <1>1, <1>2
  <2>3. p - q \in (AdjustDiv - 1)..p
    BY <1>1, <1>2, <2>1, <2>2
  <2> QED BY <2>3 DEF q
<1> QED BY <1>2, <1>3, <1>4

(* Adding 0xffff >> ADJUST_SHIFT never exceeds the halfword.               *)
LEMMA GrowthBounded ==
  ASSUME NEW p \in Probabilities
  PROVE  p - p \div AdjustDiv + Adjust \in Probabilities
<1> USE DecoderAssumption DEF Probabilities, ProbOne
<1> DEFINE q == p \div AdjustDiv
           m == (ProbOne - 1) \div AdjustDiv
<1>1. p \in Nat /\ ProbOne - 1 \in Nat /\ AdjustDiv \in Nat \ {0}
  OBVIOUS
<1>2. q \in Nat /\ p < AdjustDiv * q + AdjustDiv
  BY <1>1, Quotient
<1>3. m \in Nat /\ AdjustDiv * m <= ProbOne - 1
  BY <1>1, Quotient
<1>4. p - q >= AdjustDiv - 1
  BY DecayBounded
<1> HIDE DEF q, m
<1>5. m - q <= ProbOne - 1 - p
  <2> SUFFICES ASSUME m - q >= ProbOne - p
               PROVE  FALSE
    BY <1>1, <1>2, <1>3
  <2> DEFINE d == ProbOne - 1 - p
  <2>1. d \in Nat /\ m >= q + 1 + d
    BY <1>1, <1>2, <1>3
  <2>2. AdjustDiv * (q + 1 + d) <= AdjustDiv * m
    BY <1>1, <1>2, <1>3, <2>1, ProductMonotone
  <2>3. AdjustDiv * (q + 1 + d) = AdjustDiv * q + AdjustDiv + AdjustDiv * d
    BY <1>1, <1>2, <2>1
  <2>4. 1 * d <= AdjustDiv * d
    BY <1>1, <2>1
  <2>5. AdjustDiv * d <= ProbOne - 1 - (AdjustDiv * q + AdjustDiv)
    BY <1>1, <1>2, <1>3, <2>1, <2>2, <2>3
  <2>6. ProbOne - 1 - (AdjustDiv * q + AdjustDiv) < d
    BY <1>1, <1>2
  <2> QED BY <1>1, <1>2, <2>1, <2>4, <2>5, <2>6
<1>6. p - q + m \in Probabilities
  BY <1>1, <1>2, <1>3, <1>4, <1>5
<1> QED BY <1>6 DEF q, m, Adjust

(* A normalised interval is split into two parts, neither of them empty.   *)
LEMMA SplitProper ==
  ASSUME NEW size \in Half..(ProbOne - 1), NEW p \in Probabilities
  PROVE  /\ (size * p) \div ProbOne \in Nat
         /\ 0 < (size * p) \div ProbOne
         /\ (size * p) \div ProbOne < size
<1> USE DecoderAssumption DEF Probabilities, ProbOne
<1> DEFINE t == (size * p) \div ProbOne
<1>1. size \in Nat /\ p \in Nat /\ ProbOne \in Nat \ {0} /\ size * p \in Nat
  OBVIOUS
<1>2. t \in Nat /\ ProbOne * t <= size * p /\ size * p < ProbOne * t + ProbOne
  <2>1. t \in Nat /\ t * ProbOne <= size * p /\ size * p < t * ProbOne + ProbOne
    <3> HIDE DEF ProbOne
    <3> QED BY ONLY <1>1, Quotient
  <2> HIDE DEF t, ProbOne
  <2> QED BY ONLY <1>1, <2>1
<1> HIDE DEF t
<1>3. 0 < t
  <2> SUFFICES ASSUME t = 0
               PROVE  FALSE
    BY <1>2
  <2>1. Half * 2 <= size * p
    BY <1>1
  <2> QED BY <1>1, <1>2, <2>1
<1>4. t < size
  <2> SUFFICES ASSUME t >= size
               PROVE  FALSE
    BY <1>1, <1>2
  <2>1. ProbOne * size <= ProbOne * t
    BY <1>1, <1>2, ProductMonotone
  <2>2. size * p < size * ProbOne
    BY <1>1
  <2> QED BY <1>1, <1>2, <2>1, <2>2
<1> QED BY <1>2, <1>3, <1>4 DEF t

(* A halfword and twice an interval fit their registers: nothing wraps.    *)
LEMMA NoWrap ==
  ASSUME NEW n \in Nat, n < RegSize
  PROVE  n % RegSize = n /\ n \div RegSize = 0
<1> DEFINE q == n \div RegSize
<1>1. RegSize \in Nat \ {0} /\ RegSize >= ProbOne
  BY DecoderAssumption DEF RegSize, ProbOne
<1>2. q \in Nat /\ RegSize * q <= n
  BY <1>1, Quotient
<1>3. n % RegSize = n
  BY <1>1
<1> HIDE DEF q
<1>4. q = 0
  <2> SUFFICES ASSUME q >= 1
               PROVE  FALSE
    BY <1>2
  <2>1. RegSize * 1 <= RegSize * q
    BY <1>1, <1>2, ProductMonotone
  <2> QED BY <1>1, <1>2, <2>1
<1> QED BY <1>3, <1>4 DEF q

(* A borrow sets C, and undoing it restores the value.                     *)
LEMMA BorrowUndone ==
  ASSUME NEW v \in Nat, NEW t \in Nat, v < t, t < ProbOne
  PROVE  /\ (((v - t) % RegSize) + t) % RegSize = v
         /\ (((v - t) % RegSize) + t) \div RegSize = 1
<1>1. RegSize \in Nat \ {0} /\ RegSize >= ProbOne /\ RegSize >= 2 * ProbOne
  BY DecoderAssumption DEF RegSize, ProbOne
<1>2. (v - t) % RegSize = v - t + RegSize
  BY <1>1, DecoderAssumption DEF ProbOne
<1>3. (v + RegSize) % RegSize = v
  BY <1>1, DecoderAssumption DEF ProbOne
<1>4. (v + RegSize) \div RegSize = 1
  BY <1>1, DecoderAssumption DEF ProbOne
<1> QED BY <1>1, <1>2, <1>3, <1>4

(* The top bit of a word leaves, and bit 0 becomes the sentinel.           *)
LEMMA WordShifted ==
  ASSUME NEW word \in Word
  PROVE  /\ (2 * word) \div WordSize \in Bit
         /\ (2 * word) % WordSize \in Word
         /\ ((2 * word) % WordSize) + 1 \in Word
<1> USE DecoderAssumption
<1> DEFINE h == WordSize \div 2
<1>1. h \in Nat \ {0} /\ WordSize = 2 * h /\ word \in Nat /\ word < 2 * h
  BY DEF Word
<1> HIDE DEF h
<1>2. CASE word < h
  <2>1. (2 * word) \div WordSize = 0 /\ (2 * word) % WordSize = 2 * word
    BY <1>1, <1>2
  <2> QED BY <1>1, <1>2, <2>1 DEF Word, Bit
<1>3. CASE word >= h
  <2>1. (2 * word) \div WordSize = 1 /\ (2 * word) % WordSize = 2 * word - 2 * h
    BY <1>1, <1>3
  <2> QED BY <1>1, <1>3, <2>1 DEF Word, Bit
<1> QED BY <1>1, <1>2, <1>3

LEMMA DecoderInitEstablishes ==
  DecoderInit => DInv
<1> SUFFICES ASSUME DecoderInit
             PROVE  DInv
  OBVIOUS
<1>1. RegSize \in Nat /\ RegSize >= 2 /\ ProbOne >= 6
  BY DecoderAssumption DEF RegSize, ProbOne
<1>2. InitOneProb \in Probabilities
  BY DecoderAssumption DEF Probabilities, ProbOne, InitOneProb
<1>3. WordSize \div 2 \in Word
  BY DecoderAssumption DEF Word
<1> QED
  BY <1>1, <1>2, <1>3, DecoderAssumption
     DEF DecoderInit, DInv, DecoderTypeOK, ValueInInterval, Registers, Bit,
         Probabilities, ProbOne

(* One bit moves in while the interval is short of a halfword.             *)
LEMMA ShiftInPreserves ==
  ASSUME DInv, ~Normalised, NEW b \in Bit, ShiftIn(b)
  PROVE  /\ rvalue' = 2 * rvalue + b
         /\ isize' = 2 * isize
         /\ carry' = 0
         /\ isize < Half
<1> USE DecoderAssumption
<1>1. rvalue \in Nat /\ isize \in Nat /\ rvalue < isize /\ isize < ProbOne
  BY DEF DInv, DecoderTypeOK, ValueInInterval, Registers
<1>2. isize < Half
  <2> SUFFICES ASSUME isize >= Half
               PROVE  FALSE
    BY <1>1
  <2>1. isize \div Half = 1
    BY <1>1 DEF ProbOne
  <2> QED BY <2>1 DEF Normalised
<1>3. RegSize \in Nat /\ RegSize >= ProbOne
  BY DEF RegSize, ProbOne
<1>4. 2 * rvalue + b < RegSize /\ 2 * isize < RegSize
  BY <1>1, <1>2, <1>3 DEF ProbOne, Bit
<1>5. 2 * rvalue + b \in Nat /\ 2 * isize \in Nat
  BY <1>1 DEF Bit
<1> QED BY <1>2, <1>4, <1>5, NoWrap DEF ShiftIn

(* Normalisation leaves a full interval, which the threshold splits.       *)
LEMMA ThresholdProper ==
  ASSUME DInv, Normalised
  PROVE  /\ isize \in Half..(ProbOne - 1)
         /\ Threshold = (isize * prob[bitctx]) \div ProbOne
         /\ Threshold \in Nat
         /\ 0 < Threshold
         /\ Threshold < isize
<1> USE DecoderAssumption
<1>1. isize \in Nat /\ isize < ProbOne /\ prob[bitctx] \in Probabilities
  BY DEF DInv, DecoderTypeOK, ValueInInterval, Registers
<1>2. isize >= Half
  <2> SUFFICES ASSUME isize < Half
               PROVE  FALSE
    BY <1>1
  <2>1. isize \div Half = 0
    BY <1>1
  <2> QED BY <2>1 DEF Normalised
<1>3. (isize * prob[bitctx]) % RegSize = isize * prob[bitctx]
  <2>1. prob[bitctx] \in Nat /\ prob[bitctx] < ProbOne
    BY <1>1 DEF Probabilities, ProbOne
  <2>2. isize * prob[bitctx] < ProbOne * ProbOne
    BY <1>1, <2>1, ProductBounds DEF ProbOne
  <2> QED BY <1>1, <2>1, <2>2, NoWrap DEF RegSize
<1>4. isize \in Half..(ProbOne - 1)
  BY <1>1, <1>2 DEF ProbOne
<1> QED BY <1>1, <1>3, <1>4, SplitProper DEF Threshold

(* A zero: the upper part of the interval, and a lower probability.        *)
LEMMA ZeroStep ==
  ASSUME DInv, Zero
  PROVE  /\ Threshold \in Nat /\ Threshold < isize /\ isize < ProbOne
         /\ Decayed \in Probabilities
         /\ rvalue' = rvalue - Threshold
         /\ isize' = isize - Threshold
         /\ prob' = [prob EXCEPT ![bitctx] = Decayed]
         /\ carry' = 0
         /\ rvalue >= Threshold
<1> USE DecoderAssumption
<1>1. RegSize \in Nat /\ RegSize >= ProbOne
  BY DEF RegSize, ProbOne
<1>2. /\ isize \in Half..(ProbOne - 1)
      /\ Threshold \in Nat
      /\ Threshold < isize
  BY ThresholdProper DEF Zero
<1>3. prob[bitctx] \in Probabilities
  BY DEF DInv, DecoderTypeOK
<1>4. Decayed \in Probabilities
  <2>1. Decayed \in (AdjustDiv - 1)..prob[bitctx]
    BY <1>3, DecayBounded DEF Decayed
  <2> HIDE DEF Decayed
  <2> QED BY <1>3, <2>1 DEF Probabilities, ProbOne
<1>5. Decayed \in Nat /\ Decayed < ProbOne
  BY <1>4 DEF Probabilities, ProbOne
<1>6. Decayed % ProbOne = Decayed
  BY <1>5 DEF ProbOne
<1>7. Decayed \div RegSize = 0
  BY <1>1, <1>5, NoWrap DEF ProbOne
<1>8. (isize - Threshold) % RegSize = isize - Threshold
  BY <1>1, <1>2, NoWrap DEF ProbOne
<1>9. isize < ProbOne
  BY <1>2 DEF ProbOne
<1> QED BY <1>2, <1>4, <1>6, <1>7, <1>8, <1>9 DEF Zero

(* A one: the lower part, and a higher probability.                        *)
LEMMA OneStep ==
  ASSUME DInv, One
  PROVE  /\ Threshold \in Nat /\ 0 < Threshold /\ Threshold < isize /\ isize < ProbOne
         /\ Decayed + Adjust \in Probabilities
         /\ rvalue' = rvalue
         /\ isize' = Threshold
         /\ prob' = [prob EXCEPT ![bitctx] = Decayed + Adjust]
         /\ carry' = 1
         /\ rvalue < Threshold
<1> USE DecoderAssumption
<1>1. /\ isize \in Half..(ProbOne - 1)
      /\ Threshold \in Nat
      /\ 0 < Threshold
      /\ Threshold < isize
  BY ThresholdProper DEF One
<1>2. rvalue \in Nat /\ rvalue < Threshold
  BY DEF One, DInv, DecoderTypeOK, Registers
<1>3. prob[bitctx] \in Probabilities
  BY DEF DInv, DecoderTypeOK
<1>4. Decayed + Adjust \in Probabilities
  BY <1>3, GrowthBounded DEF Decayed
<1>5. (Decayed + Adjust) % ProbOne = Decayed + Adjust
  BY <1>4 DEF Probabilities, ProbOne
<1>6. Threshold < ProbOne /\ isize < ProbOne
  BY <1>1 DEF ProbOne
<1> QED BY <1>1, <1>2, <1>4, <1>5, <1>6, BorrowUndone DEF One

LEMMA DecoderStepPreserves ==
  DInv /\ [DecoderNext]_decoderVars => DInv'
<1> SUFFICES ASSUME DInv, [DecoderNext]_decoderVars
             PROVE  DInv'
  OBVIOUS
<1> USE DecoderAssumption
<1>0. /\ RegSize \in Nat
      /\ RegSize >= ProbOne
      /\ Probabilities \subseteq 0..(ProbOne - 1)
  BY DEF RegSize, ProbOne, Probabilities
<1>1. ASSUME NEW c \in Contexts, Getbit(c)
      PROVE  DInv'
  BY <1>1 DEF Getbit, DInv, DecoderTypeOK, ValueInInterval
<1>2. ASSUME NEW b \in Bit, ~Normalised, ShiftIn(b), bitbuf' \in Word,
             UNCHANGED <<pc, bitctx, prob>>
      PROVE  DInv'
  <2>1. /\ rvalue' = 2 * rvalue + b
        /\ isize' = 2 * isize
        /\ carry' = 0
        /\ isize < Half
    BY <1>2, ShiftInPreserves
  <2>2. rvalue \in Nat /\ isize \in Nat /\ rvalue < isize /\ isize >= 1
    BY DEF DInv, DecoderTypeOK, ValueInInterval, Registers
  <2>3. rvalue' < isize' /\ isize' < ProbOne /\ isize' >= 1 /\ rvalue' \in Nat /\ isize' \in Nat
    BY <2>1, <2>2 DEF ProbOne, Bit
  <2>4. rvalue' \in Registers /\ isize' \in Registers
    BY <1>0, <2>3 DEF Registers, ProbOne
  <2> QED
    BY <1>2, <2>1, <2>3, <2>4 DEF DInv, DecoderTypeOK, ValueInInterval, Bit
<1>3. CASE Readbit
  <2>1. bitbuf \in Word
    BY DEF DInv, DecoderTypeOK
  <2>2. (2 * bitbuf) \div WordSize \in Bit /\ (2 * bitbuf) % WordSize \in Word
    BY <2>1, WordShifted
  <2> QED BY <1>2, <1>3, <2>2 DEF Readbit
<1>4. ASSUME NEW word \in Word, Newword(word)
      PROVE  DInv'
  <2>1. (2 * word) \div WordSize \in Bit /\ ((2 * word) % WordSize) + 1 \in Word
    BY <1>4, WordShifted
  <2> QED BY <1>2, <1>4, <2>1 DEF Newword
<1>5. CASE Zero
  <2>1. /\ Threshold \in Nat /\ Threshold < isize /\ isize < ProbOne
        /\ Decayed \in Probabilities
        /\ rvalue' = rvalue - Threshold
        /\ isize' = isize - Threshold
        /\ prob' = [prob EXCEPT ![bitctx] = Decayed]
        /\ carry' = 0
        /\ rvalue >= Threshold
    BY <1>5, ZeroStep
  <2>2. bitctx \in Contexts /\ rvalue \in Nat /\ rvalue < isize /\ isize \in Nat
    BY DEF DInv, DecoderTypeOK, ValueInInterval, Registers
  <2>3. /\ rvalue' \in Nat /\ isize' \in Nat
        /\ rvalue' < isize' /\ isize' < ProbOne /\ isize' >= 1
    BY <2>1, <2>2 DEF ProbOne
  <2>4. rvalue' \in Registers /\ isize' \in Registers
    BY <1>0, <2>3 DEF Registers, ProbOne
  <2>5. prob' \in [Contexts -> Probabilities]
    BY <2>1 DEF DInv
  <2> QED
    BY <1>0, <1>5, <2>1, <2>3, <2>4, <2>5 DEF Zero, DInv, DecoderTypeOK, ValueInInterval, Bit
<1>6. CASE One
  <2>1. /\ Threshold \in Nat /\ 0 < Threshold /\ Threshold < isize /\ isize < ProbOne
        /\ Decayed + Adjust \in Probabilities
        /\ rvalue' = rvalue
        /\ isize' = Threshold
        /\ prob' = [prob EXCEPT ![bitctx] = Decayed + Adjust]
        /\ carry' = 1
        /\ rvalue < Threshold
    BY <1>6, OneStep
  <2>2. bitctx \in Contexts /\ rvalue \in Nat /\ isize \in Nat
    BY DEF DInv, DecoderTypeOK, Registers
  <2>3. /\ rvalue' \in Nat /\ isize' \in Nat
        /\ rvalue' < isize' /\ isize' < ProbOne /\ isize' >= 1
    BY <2>1, <2>2 DEF ProbOne
  <2>4. rvalue' \in Registers /\ isize' \in Registers
    BY <1>0, <2>3 DEF Registers, ProbOne
  <2>5. prob' \in [Contexts -> Probabilities]
    BY <2>1 DEF DInv
  <2> QED
    BY <1>0, <1>6, <2>1, <2>3, <2>4, <2>5 DEF One, DInv, DecoderTypeOK, ValueInInterval, Bit
<1>7. CASE UNCHANGED decoderVars
  BY <1>7 DEF decoderVars, DInv, DecoderTypeOK, ValueInInterval
<1> QED
  BY <1>1, <1>3, <1>4, <1>5, <1>6, <1>7 DEF DecoderNext, Step

-----------------------------------------------------------------------------
(* The inductive invariant of getbit, whatever words it is fed.            *)
THEOREM DecoderInvariance == DecoderSpec => []DInv
<1> QED BY DecoderInitEstablishes, DecoderStepPreserves, PTL DEF DecoderSpec

(* Halfwords, registers and the flag stay within their widths.             *)
THEOREM DecoderTypeCorrect == DecoderSpec => []DecoderTypeOK
<1>1. DInv => DecoderTypeOK
  BY DEF DInv
<1> QED BY <1>1, DecoderInvariance, PTL

(* For every input the value stays inside an interval that is neither      *)
(* empty nor wider than a halfword, so getbit never computes with a value  *)
(* that an overflow has cut.                                               *)
THEOREM IntervalSafety == DecoderSpec => []ValueInInterval
<1>1. DInv => ValueInInterval
  BY DEF DInv
<1> QED BY <1>1, DecoderInvariance, PTL

(* For every history of a context, its probability gives either bit value  *)
(* a part of every normalised interval.                                    *)
THEOREM ProbabilitySafety == DecoderSpec => []ProbabilitiesUsable
<1>1. DInv => ProbabilitiesUsable
  BY SplitProper DEF DInv, ProbabilitiesUsable
<1> QED BY <1>1, DecoderInvariance, PTL

-----------------------------------------------------------------------------
(* The range coder. What it writes when it is closed is some number of as  *)
(* many bits as the words have, and every interval it went through holds   *)
(* that number's leading bits.                                             *)
CoderStates ==
  [prob : [Contexts -> Probabilities], low : Nat, size : Half..(ProbOne - 1), shifts : Nat]

Split(s, c) == (s.size * s.prob[c]) \div ProbOne
Part(s, c, b) == IF b = 0 THEN s.size - Split(s, c) ELSE Split(s, c)
Base(s, c, b) == IF b = 0 THEN s.low + Split(s, c) ELSE s.low

LEMMA InitialBitsExist ==
  InitialBits \in Nat /\ Pow2[InitialBits] = Half
<1>1. \E n \in 0..Half : Pow2[n] = Half
  BY WordAssumption
<1>2. InitialBits \in 0..Half /\ Pow2[InitialBits] = Half
  BY <1>1 DEF InitialBits
<1> QED BY <1>2, DecoderAssumption

(* Doubling takes every part of an interval to a normalised size.          *)
LEMMA DoublesInto ==
  ASSUME NEW part \in 1..(ProbOne - 1)
  PROVE  \E n \in 0..Half : part * Pow2[n] \in Half..(ProbOne - 1)
<1> USE DecoderAssumption
<1> DEFINE T == {n \in Nat : part * Pow2[n] >= Half}
<1>0. part \in Nat \ {0} /\ part < 2 * Half
  BY DEF ProbOne
<1>1. Half \in T
  <2>1. Pow2[Half] \in Nat /\ Half < Pow2[Half]
    BY PowerPositive
  <2>2. Pow2[Half] * 1 <= Pow2[Half] * part
    BY <1>0, <2>1, ProductMonotone
  <2> QED BY <1>0, <2>1, <2>2
<1>2. PICK n \in T : \A i \in T : n <= i
  <2>1. T \subseteq Nat /\ T # {}
    BY <1>1
  <2> HIDE DEF T
  <2> QED BY <2>1, LeastMember
<1>3. n \in 0..Half
  BY <1>1, <1>2
<1>4. part * Pow2[n] \in Nat /\ part * Pow2[n] >= Half
  <2>1. Pow2[n] \in Nat
    BY <1>3, PowerPositive
  <2> QED BY <1>0, <1>2, <2>1
<1>5. part * Pow2[n] < ProbOne
  <2>1. CASE n = 0
    BY <1>0, <2>1, PowersOfTwo DEF ProbOne
  <2>2. CASE n # 0
    <3>1. n - 1 \in Nat /\ n - 1 < n
      BY <1>3, <2>2
    <3>2. n - 1 \notin T
      BY <1>2, <1>3, <3>1
    <3>3. Pow2[n - 1] \in Nat /\ Pow2[n] = 2 * Pow2[n - 1]
      <4>1. (n - 1) + 1 = n
        BY <1>3
      <4> QED BY <3>1, <4>1, PowersOfTwo, PowerPositive
    <3>4. part * Pow2[n - 1] < Half
      BY <1>0, <3>1, <3>2, <3>3
    <3>5. part * Pow2[n] = 2 * (part * Pow2[n - 1])
      BY <1>0, <3>3
    <3>6. part * Pow2[n - 1] \in Nat
      BY <1>0, <3>3
    <3> QED BY <3>4, <3>5, <3>6 DEF ProbOne
  <2> QED BY <2>1, <2>2
<1>6. part * Pow2[n] \in Half..(ProbOne - 1)
  BY <1>4, <1>5 DEF ProbOne
<1> QED BY <1>3, <1>6

LEMMA StartProper == CoderStart \in CoderStates
<1>1. InitOneProb \in Probabilities /\ Half \in Half..(ProbOne - 1)
  BY DecoderAssumption DEF Probabilities, ProbOne, InitOneProb
<1>2. [c \in Contexts |-> InitOneProb] \in [Contexts -> Probabilities]
  BY <1>1
<1> QED BY <1>1, <1>2 DEF CoderStart, CoderStates

LEMMA PartProper ==
  ASSUME NEW s \in CoderStates, NEW c \in Contexts, NEW b \in Bit
  PROVE  /\ Split(s, c) \in Nat /\ 0 < Split(s, c) /\ Split(s, c) < s.size
         /\ Part(s, c, b) \in 1..(ProbOne - 1)
         /\ Base(s, c, b) \in Nat
         /\ s.low <= Base(s, c, b)
         /\ Base(s, c, b) + Part(s, c, b) <= s.low + s.size
<1>1. s.size \in Half..(ProbOne - 1) /\ s.prob[c] \in Probabilities /\ s.low \in Nat
  BY DEF CoderStates
<1>2. Split(s, c) \in Nat /\ 0 < Split(s, c) /\ Split(s, c) < s.size
  BY <1>1, SplitProper DEF Split
<1> HIDE DEF Split
<1>3. s.size \in Nat /\ s.size <= ProbOne - 1 /\ ProbOne \in Nat
  BY <1>1, DecoderAssumption DEF ProbOne
<1>4. CASE b = 0
  BY <1>1, <1>2, <1>3, <1>4 DEF Part, Base
<1>5. CASE b # 0
  BY <1>1, <1>2, <1>3, <1>5 DEF Part, Base
<1> QED BY <1>4, <1>5

(* A coded bit leaves its part of the interval, doubled until normalised.  *)
LEMMA CodedFacts ==
  ASSUME NEW s \in CoderStates, NEW c \in Contexts, NEW b \in Bit
  PROVE  /\ Coded(s, c, b) \in CoderStates
         /\ \E k \in Nat : /\ Coded(s, c, b).low = Base(s, c, b) * Pow2[k]
                           /\ Coded(s, c, b).size = Part(s, c, b) * Pow2[k]
                           /\ Coded(s, c, b).shifts = s.shifts + k
<1> DEFINE k == CHOOSE n \in 0..Half : Part(s, c, b) * Pow2[n] \in Half..(ProbOne - 1)
           table == [s.prob EXCEPT ![c] =
                       IF b = 0 THEN s.prob[c] - s.prob[c] \div AdjustDiv
                       ELSE s.prob[c] - s.prob[c] \div AdjustDiv + Adjust]
<1>1. Part(s, c, b) \in 1..(ProbOne - 1) /\ Base(s, c, b) \in Nat
  BY PartProper
<1>2. \E n \in 0..Half : Part(s, c, b) * Pow2[n] \in Half..(ProbOne - 1)
  BY <1>1, DoublesInto
<1>3. k \in 0..Half /\ Part(s, c, b) * Pow2[k] \in Half..(ProbOne - 1)
  BY <1>2
<1>4. Coded(s, c, b) = [prob |-> table, low |-> Base(s, c, b) * Pow2[k],
                        size |-> Part(s, c, b) * Pow2[k], shifts |-> s.shifts + k]
  BY DEF Coded, Part, Base, Split, Adjust
<1> HIDE DEF k
<1>5. table \in [Contexts -> Probabilities]
  <2>1. s.prob \in [Contexts -> Probabilities] /\ s.prob[c] \in Probabilities
    BY DEF CoderStates
  <2>2. s.prob[c] - s.prob[c] \div AdjustDiv \in Probabilities
    <3>1. s.prob[c] - s.prob[c] \div AdjustDiv \in (AdjustDiv - 1)..s.prob[c]
      BY <2>1, DecayBounded
    <3> QED BY <2>1, <3>1, DecoderAssumption DEF Probabilities, ProbOne
  <2>3. s.prob[c] - s.prob[c] \div AdjustDiv + Adjust \in Probabilities
    BY <2>1, GrowthBounded
  <2> QED BY <2>1, <2>2, <2>3
<1> HIDE DEF table
<1>6. k \in Nat /\ Pow2[k] \in Nat /\ s.shifts \in Nat
  <2>1. k \in Nat
    BY <1>3, DecoderAssumption
  <2> QED BY <2>1, PowerPositive DEF CoderStates
<1>7. Base(s, c, b) * Pow2[k] \in Nat
  BY <1>1, <1>6
<1>8. s.shifts + k \in Nat
  BY <1>6
<1>9. Coded(s, c, b) \in CoderStates
  BY <1>3, <1>4, <1>5, <1>7, <1>8 DEF CoderStates
<1>10. /\ Coded(s, c, b).low = Base(s, c, b) * Pow2[k]
       /\ Coded(s, c, b).size = Part(s, c, b) * Pow2[k]
       /\ Coded(s, c, b).shifts = s.shifts + k
  BY <1>4
<1> QED BY <1>6, <1>9, <1>10

-----------------------------------------------------------------------------
(* The interval of t lies in that of s, which had been doubled less often. *)
Nested(s, t) ==
  /\ s.shifts <= t.shifts
  /\ s.low * Pow2[t.shifts - s.shifts] <= t.low
  /\ t.low + t.size <= (s.low + s.size) * Pow2[t.shifts - s.shifts]

LEMMA NestedInItself ==
  ASSUME NEW s \in CoderStates
  PROVE  Nested(s, s)
<1>1. s.shifts \in Nat /\ s.low \in Nat /\ s.size \in Nat
  BY DecoderAssumption DEF CoderStates
<1>2. s.shifts - s.shifts = 0 /\ Pow2[0] = 1
  BY <1>1, PowersOfTwo
<1> QED BY <1>1, <1>2 DEF Nested

LEMMA NestedInNext ==
  ASSUME NEW s \in CoderStates, NEW c \in Contexts, NEW b \in Bit
  PROVE  Nested(s, Coded(s, c, b))
<1> DEFINE t == Coded(s, c, b)
<1>1. t \in CoderStates /\ s.shifts \in Nat /\ s.low \in Nat /\ s.size \in Nat
  BY CodedFacts, DecoderAssumption DEF CoderStates
<1>2. PICK k \in Nat : /\ t.low = Base(s, c, b) * Pow2[k]
                       /\ t.size = Part(s, c, b) * Pow2[k]
                       /\ t.shifts = s.shifts + k
  BY CodedFacts
<1> HIDE DEF t
<1>3. /\ Base(s, c, b) \in Nat /\ Part(s, c, b) \in Nat /\ s.low <= Base(s, c, b)
      /\ Base(s, c, b) + Part(s, c, b) <= s.low + s.size
  BY PartProper
<1>4. Pow2[k] \in Nat /\ t.shifts - s.shifts = k /\ s.shifts <= t.shifts
  BY <1>1, <1>2, PowerPositive
<1>5. Pow2[k] * s.low <= Pow2[k] * Base(s, c, b)
  BY <1>1, <1>3, <1>4, ProductMonotone
<1>6. Pow2[k] * (Base(s, c, b) + Part(s, c, b)) <= Pow2[k] * (s.low + s.size)
  BY <1>1, <1>3, <1>4, ProductMonotone
<1>7. /\ s.low * Pow2[k] <= t.low
      /\ t.low + t.size <= (s.low + s.size) * Pow2[k]
  BY <1>1, <1>2, <1>3, <1>4, <1>5, <1>6
<1> QED BY <1>4, <1>7 DEF Nested, t

LEMMA NestedTransitive ==
  ASSUME NEW r \in CoderStates, NEW s \in CoderStates, NEW t \in CoderStates,
         Nested(r, s), Nested(s, t)
  PROVE  Nested(r, t)
<1>1. /\ r.shifts \in Nat /\ r.low \in Nat /\ r.size \in Nat
      /\ s.shifts \in Nat /\ s.low \in Nat /\ s.size \in Nat
      /\ t.shifts \in Nat /\ t.low \in Nat /\ t.size \in Nat
  BY DecoderAssumption DEF CoderStates
<1> DEFINE d == s.shifts - r.shifts
           e == t.shifts - s.shifts
<1>2. d \in Nat /\ e \in Nat /\ t.shifts - r.shifts = d + e /\ r.shifts <= t.shifts
  BY <1>1 DEF Nested
<1>3. Pow2[d] \in Nat /\ Pow2[e] \in Nat /\ Pow2[d + e] = Pow2[d] * Pow2[e]
  BY <1>2, PowerSum, PowerPositive
<1>4. r.low * Pow2[d] <= s.low /\ s.low + s.size <= (r.low + r.size) * Pow2[d]
  BY DEF Nested
<1>5. s.low * Pow2[e] <= t.low /\ t.low + t.size <= (s.low + s.size) * Pow2[e]
  BY DEF Nested
<1> HIDE DEF d, e
<1>6. Pow2[e] * (r.low * Pow2[d]) <= Pow2[e] * s.low
  BY <1>1, <1>3, <1>4, ProductMonotone
<1>7. Pow2[e] * (s.low + s.size) <= Pow2[e] * ((r.low + r.size) * Pow2[d])
  BY <1>1, <1>3, <1>4, ProductMonotone
<1>8. /\ Pow2[e] * (r.low * Pow2[d]) = r.low * Pow2[d + e]
      /\ Pow2[e] * ((r.low + r.size) * Pow2[d]) = (r.low + r.size) * Pow2[d + e]
      /\ Pow2[e] * s.low = s.low * Pow2[e]
      /\ Pow2[e] * (s.low + s.size) = (s.low + s.size) * Pow2[e]
  BY <1>1, <1>3
<1>9. r.low * Pow2[d + e] <= t.low
  <2>1. r.low * Pow2[d + e] \in Nat /\ s.low * Pow2[e] \in Nat
    BY <1>1, <1>3
  <2> QED BY <1>1, <1>5, <1>6, <1>8, <2>1
<1>10. t.low + t.size <= (r.low + r.size) * Pow2[d + e]
  <2>1. (r.low + r.size) * Pow2[d + e] \in Nat /\ (s.low + s.size) * Pow2[e] \in Nat
    BY <1>1, <1>3
  <2> QED BY <1>1, <1>5, <1>7, <1>8, <2>1
<1> QED BY <1>2, <1>9, <1>10 DEF Nested

Message == [context : Contexts, bit : Bit]

(* The history of the encoder, one state more than there are bits.         *)
CoderInv ==
  /\ sent \in Seq(Message)
  /\ coder \in Seq(CoderStates)
  /\ Len(coder) = Len(sent) + 1
  /\ coder[1] = CoderStart
  /\ \A j \in 1..Len(sent) : coder[j + 1] = Coded(coder[j], sent[j].context, sent[j].bit)
  /\ \A j \in 1..Len(coder) : Nested(coder[j], LastCoder)

LEMMA CoderInitEstablishes == ChannelInit => CoderInv
<1> SUFFICES ASSUME ChannelInit
             PROVE  CoderInv
  OBVIOUS
<1>1. sent = << >> /\ coder = <<CoderStart>>
  BY DEF ChannelInit
<1>2. sent \in Seq(Message) /\ Len(sent) = 0
  BY <1>1
<1>3. coder \in Seq(CoderStates) /\ Len(coder) = 1 /\ coder[1] = CoderStart
  BY <1>1, StartProper
<1>4. LastCoder = CoderStart
  BY <1>3 DEF LastCoder
<1>5. \A j \in 1..Len(coder) : Nested(coder[j], LastCoder)
  BY <1>3, <1>4, StartProper, NestedInItself
<1> QED BY <1>2, <1>3, <1>5 DEF CoderInv

LEMMA EncodeBitPreserves ==
  ASSUME CoderInv, NEW c \in Contexts, NEW b \in Bit, EncodeBit(c, b)
  PROVE  CoderInv'
<1> DEFINE n == Len(sent)
           t == Coded(LastCoder, c, b)
<1>1. /\ n \in Nat /\ Len(coder) = n + 1 /\ LastCoder = coder[n + 1]
      /\ LastCoder \in CoderStates
  BY DEF CoderInv, LastCoder
<1>2. t \in CoderStates /\ Nested(LastCoder, t)
  BY <1>1, CodedFacts, NestedInNext
<1> HIDE DEF t
<1>3. /\ sent' = Append(sent, [context |-> c, bit |-> b])
      /\ coder' = Append(coder, t)
  BY DEF EncodeBit, t
<1>4. /\ sent' \in Seq(Message) /\ Len(sent') = n + 1
      /\ \A j \in 1..n : sent'[j] = sent[j]
      /\ sent'[n + 1] = [context |-> c, bit |-> b]
  <2>1. [context |-> c, bit |-> b] \in Message /\ sent \in Seq(Message)
    BY DEF CoderInv, Message
  <2> QED BY <1>3, <2>1
<1>5. /\ coder' \in Seq(CoderStates) /\ Len(coder') = n + 2
      /\ \A j \in 1..(n + 1) : coder'[j] = coder[j]
      /\ coder'[n + 2] = t
  <2>1. coder \in Seq(CoderStates)
    BY DEF CoderInv
  <2> QED BY <1>1, <1>2, <1>3, <2>1
<1>6. LastCoder' = t
  BY <1>5 DEF LastCoder
<1>7. Len(coder') = Len(sent') + 1 /\ coder'[1] = CoderStart
  <2>1. coder[1] = CoderStart /\ 1 \in 1..(n + 1)
    BY <1>1 DEF CoderInv
  <2> QED BY <1>1, <1>4, <1>5, <2>1
<1>8. ASSUME NEW j \in 1..Len(sent')
      PROVE  coder'[j + 1] = Coded(coder'[j], sent'[j].context, sent'[j].bit)
  <2>1. CASE j <= n
    <3>1. j \in 1..n /\ j \in 1..(n + 1) /\ j + 1 \in 1..(n + 1)
      BY <1>1, <1>4, <2>1
    <3>2. coder[j + 1] = Coded(coder[j], sent[j].context, sent[j].bit)
      BY <3>1 DEF CoderInv
    <3> QED BY <1>4, <1>5, <3>1, <3>2
  <2>2. CASE j > n
    <3>1. j = n + 1 /\ j \in 1..(n + 1) /\ j + 1 = n + 2
      BY <1>1, <1>4, <2>2
    <3>2. coder'[j] = LastCoder /\ coder'[j + 1] = t
      BY <1>1, <1>5, <3>1
    <3> QED BY <1>4, <3>1, <3>2 DEF t
  <2> QED BY <1>1, <2>1, <2>2
<1>9. ASSUME NEW j \in 1..Len(coder')
      PROVE  Nested(coder'[j], LastCoder')
  <2>1. CASE j <= n + 1
    <3>1. j \in 1..(n + 1) /\ coder[j] \in CoderStates /\ coder'[j] = coder[j]
      BY <1>1, <1>5, <2>1 DEF CoderInv
    <3>2. Nested(coder[j], LastCoder)
      BY <1>1, <3>1 DEF CoderInv
    <3> QED BY <1>1, <1>2, <1>6, <3>1, <3>2, NestedTransitive
  <2>2. CASE j > n + 1
    <3>1. coder'[j] = t
      BY <1>1, <1>5, <2>2
    <3> QED BY <1>2, <1>6, <3>1, NestedInItself
  <2> QED BY <1>1, <2>1, <2>2
<1> QED BY <1>4, <1>5, <1>7, <1>8, <1>9 DEF CoderInv

-----------------------------------------------------------------------------
(* The words that hold all the bits getbit will want, whether written or   *)
(* not.                                                                    *)
Reach == (InitialBits + LastCoder.shifts + WordBits - 1) \div WordBits

(* What the first i of them spell, when all of them spell p.               *)
First(p, i) == p \div Pow2[(Reach - i) * WordBits]

(* Bits that follow when the encoder is in its j-th state, and those that  *)
(* follow the data.                                                        *)
Room(j) == Reach * WordBits - InitialBits - coder[j].shifts
Unwritten == (Reach - Len(words)) * WordBits

(* The data begins p, and whatever follows it, that extends a code word of *)
(* every interval that the encoder went through.                           *)
Spells(p) ==
  /\ p \in Nat
  /\ words \in Seq(Word)
  /\ Len(words) <= Reach
  /\ LastCoder.shifts <= Len(words) * WordBits
  /\ First(p, 0) = 0
  /\ \A i \in 1..Len(words) : First(p, i) = First(p, i - 1) * WordSize + words[i]
  /\ \A j \in 1..Len(coder) :
       /\ Room(j) \in Nat
       /\ coder[j].low * Pow2[Room(j)] <= First(p, Len(words)) * Pow2[Unwritten]
       /\ (First(p, Len(words)) + 1) * Pow2[Unwritten]
            <= (coder[j].low + coder[j].size) * Pow2[Room(j)]

LEMMA Remainder ==
  ASSUME NEW x \in Nat, NEW p \in Nat \ {0}
  PROVE  x % p \in 0..(p - 1) /\ x = (x \div p) * p + (x % p)
<1>1. x % p \in 0..(p - 1)
  OBVIOUS
<1>2. x = p * (x \div p) + (x % p)
  OBVIOUS
<1>3. p * (x \div p) = (x \div p) * p
  BY Quotient
<1> QED BY <1>1, <1>2, <1>3

LEMMA QuotientTwice ==
  ASSUME NEW x \in Nat, NEW p \in Nat \ {0}, NEW q \in Nat \ {0}
  PROVE  x \div (p * q) = (x \div p) \div q
<1> DEFINE y == x \div p
           z == y \div q
<1>1. y \in Nat /\ y * p <= x /\ x < y * p + p
  BY Quotient
<1> HIDE DEF y
<1>2. z \in Nat /\ z * q <= y /\ y < z * q + q
  BY <1>1, Quotient
<1> HIDE DEF z
<1>3. p * (z * q) <= p * y /\ p * (y + 1) <= p * (z * q + q)
  BY <1>1, <1>2, ProductMonotone
<1>4. /\ p * (z * q) = z * (p * q) /\ p * y = y * p /\ p * (y + 1) = y * p + p
      /\ p * (z * q + q) = z * (p * q) + p * q /\ p * q \in Nat \ {0}
      /\ z * (p * q) \in Nat /\ y * p \in Nat
  BY <1>1, <1>2
<1>5. z * (p * q) <= x /\ x < z * (p * q) + p * q
  BY <1>1, <1>3, <1>4
<1>6. x \div (p * q) = z
  BY <1>2, <1>4, <1>5, QuotientUnique
<1> QED BY <1>6 DEF z, y

(* The words have room for all the bits, and for less than a word more.    *)
LEMMA PaddingProper ==
  ASSUME NEW bits \in Nat
  PROVE  /\ (bits + WordBits - 1) \div WordBits \in Nat
         /\ ((bits + WordBits - 1) \div WordBits) * WordBits - bits \in 0..(WordBits - 1)
<1>1. WordBits \in Nat \ {0} /\ bits + WordBits - 1 \in Nat
  BY WordAssumption
<1> DEFINE count == (bits + WordBits - 1) \div WordBits
<1>2. /\ count \in Nat /\ bits + WordBits - 1 < count * WordBits + WordBits
      /\ count * WordBits <= bits + WordBits - 1
  BY <1>1, Quotient
<1> HIDE DEF count
<1>3. count * WordBits \in Nat
  BY <1>1, <1>2
<1>4. count * WordBits - bits \in 0..(WordBits - 1)
  BY <1>1, <1>2, <1>3
<1> QED BY <1>2, <1>4 DEF count

LEMMA ReachProper ==
  ASSUME CoderInv
  PROVE  /\ Reach \in Nat /\ LastCoder.shifts \in Nat /\ InitialBits \in Nat
         /\ Reach * WordBits - (InitialBits + LastCoder.shifts) \in 0..(WordBits - 1)
<1>1. LastCoder \in CoderStates
  BY DEF CoderInv, LastCoder
<1>2. LastCoder.shifts \in Nat /\ InitialBits \in Nat
  BY <1>1, InitialBitsExist DEF CoderStates
<1>3. InitialBits + LastCoder.shifts \in Nat
  BY <1>2
<1> QED BY <1>2, <1>3, PaddingProper DEF Reach

LEMMA ReachedLater ==
  ASSUME CoderInv'
  PROVE  Reach' \in Nat
<1>1. LastCoder' \in CoderStates
  BY DEF CoderInv, LastCoder
<1> HIDE DEF LastCoder
<1>2. InitialBits + LastCoder'.shifts \in Nat
  BY <1>1, InitialBitsExist DEF CoderStates
<1>3. Reach' = (InitialBits + LastCoder'.shifts + WordBits - 1) \div WordBits
  BY DEF Reach
<1> QED BY <1>2, <1>3, PaddingProper

(* As many words as hold fewer bits are no more.                           *)
LEMMA FewerWords ==
  ASSUME NEW m \in Nat, NEW n \in Nat, NEW less \in Nat, NEW more \in Nat,
         m * WordBits - less \in 0..(WordBits - 1),
         n * WordBits - more \in 0..(WordBits - 1), less <= more
  PROVE  m <= n
<1>1. WordBits \in Nat \ {0}
  BY WordAssumption
<1>2. m * WordBits \in Nat /\ n * WordBits \in Nat
  BY <1>1
<1>3. m * WordBits < (n + 1) * WordBits
  <2>1. (n + 1) * WordBits = n * WordBits + WordBits
    BY <1>1
  <2> QED BY <1>1, <1>2, <2>1
<1>4. m < n + 1
  <2>1. m \in Int /\ n + 1 \in Int
    OBVIOUS
  <2> QED BY <1>1, <1>3, <2>1, Cancel
<1> QED BY <1>4

LEMMA CloseSpells ==
  ASSUME CoderInv, NEW rest \in 0..InitialBits, NEW codeword \in Nat,
         Close(codeword, rest)
  PROVE  \E p : Spells(p)'
<1> DEFINE last == LastCoder
           total == InitialBits + last.shifts
           bits == InitialBits + last.shifts - rest
           count == (bits + WordBits - 1) \div WordBits
           pad == count * WordBits - bits
           behind == (Reach - count) * WordBits
<1>1. /\ LastCoder \in CoderStates /\ Len(coder) \in Nat \ {0}
      /\ \A j \in 1..Len(coder) : coder[j] \in CoderStates
      /\ 1 \in 1..Len(coder) /\ coder[1] = CoderStart
      /\ \A j \in 1..Len(coder) : Nested(coder[j], LastCoder)
  BY DEF CoderInv, LastCoder
<1>2. last.shifts \in Nat /\ last.low \in Nat /\ last.size \in Nat
  BY <1>1, DecoderAssumption DEF CoderStates
<1>3. /\ bits \in Nat /\ InitialBits \in Nat /\ Pow2[InitialBits] = Half
      /\ rest \in Nat /\ total = bits + rest /\ last.shifts <= bits /\ total \in Nat
  BY <1>2, InitialBitsExist
<1>4. count \in Nat /\ pad \in 0..(WordBits - 1)
  BY <1>3, PaddingProper
<1>5. /\ last.low <= codeword * Pow2[rest]
      /\ (codeword + 1) * Pow2[rest] <= last.low + last.size
      /\ coder' = coder
      /\ words' = Words(codeword, bits)
  BY DEF Close
<1>r. Reach \in Nat /\ Reach * WordBits - total \in 0..(WordBits - 1)
  BY ReachProper
<1>6. WordBits \in Nat \ {0} /\ WordSize = Pow2[WordBits] /\ WordSize \in Nat \ {0}
  BY WordAssumption, DecoderAssumption
<1>7. count <= Reach
  <2> HIDE DEF pad, count, bits, total, last
  <2>1. count * WordBits - bits \in 0..(WordBits - 1) /\ bits <= total
    BY <1>3, <1>4 DEF pad
  <2> QED BY <1>3, <1>4, <1>r, <2>1, FewerWords
<1>8. count * WordBits \in Nat /\ count * WordBits = pad + bits /\ pad \in Nat
  <2>1. count * WordBits \in Nat
    BY <1>4, <1>6
  <2> QED BY <1>3, <1>4, <2>1
<1>p. PICK q, p : q = codeword * Pow2[pad] /\ p = q * Pow2[behind]
  OBVIOUS
<1>9. words' = [i \in 1..count |-> (q \div Pow2[(count - i) * WordBits]) % WordSize]
  BY <1>p, <1>5 DEF Words
<1>10. Reach' = Reach /\ LastCoder' = LastCoder
  BY <1>5 DEF Reach, LastCoder
<1>11. behind \in Nat /\ behind = Reach * WordBits - count * WordBits
  <2> HIDE DEF count
  <2>1. Reach - count \in Nat
    BY <1>4, <1>7, <1>r
  <2> QED BY <1>4, <1>6, <1>r, <2>1
<1> HIDE DEF pad, count, bits, behind, total
<1>12. Pow2[pad] \in Nat \ {0} /\ Pow2[behind] \in Nat \ {0} /\ q \in Nat /\ p \in Nat
  <2>1. Pow2[pad] \in Nat \ {0} /\ Pow2[behind] \in Nat \ {0}
    BY <1>8, <1>11, PowerPositive
  <2>2. q \in Nat
    BY <1>p, <2>1
  <2> QED BY <1>p, <2>1, <2>2
<1>13. words' \in Seq(Word) /\ Len(words') = count
  <2>1. ASSUME NEW i \in 1..count
        PROVE  (q \div Pow2[(count - i) * WordBits]) % WordSize \in Word
    <3>1. (count - i) * WordBits \in Nat
      BY <1>4, <1>6
    <3>2. Pow2[(count - i) * WordBits] \in Nat \ {0}
      BY <3>1, PowerPositive
    <3>3. q \div Pow2[(count - i) * WordBits] \in Nat
      BY <1>12, <3>2, Quotient
    <3> QED BY <1>6, <3>3 DEF Word
  <2>2. words' \in [1..count -> Word]
    BY <1>9, <2>1
  <2> QED BY <1>4, <2>2
<1>14. ASSUME NEW i \in 0..count
       PROVE  First(p, i)' = q \div Pow2[(count - i) * WordBits]
  <2> DEFINE n == (count - i) * WordBits
  <2>1. n \in Nat
    BY <1>4, <1>6
  <2>2. (Reach - i) * WordBits = behind + n
    <3>1. (count - i) * WordBits = count * WordBits - i * WordBits
      BY <1>4, <1>6
    <3>2. (Reach - i) * WordBits = Reach * WordBits - i * WordBits
      BY <1>r, <1>6
    <3>3. /\ count * WordBits \in Int /\ Reach * WordBits \in Int /\ i * WordBits \in Int
      BY <1>4, <1>6, <1>r
    <3> QED BY <1>11, <3>1, <3>2, <3>3
  <2>3. First(p, i)' = p \div Pow2[behind + n]
    BY <1>10, <2>2 DEF First
  <2> HIDE DEF n
  <2>4. Pow2[n] \in Nat \ {0} /\ Pow2[behind + n] = Pow2[behind] * Pow2[n]
    BY <1>11, <2>1, PowerPositive, PowerSum
  <2>5. p \div Pow2[behind] = q
    <3>1. \A x, y \in Nat : y # 0 => (x * y) \div y = x
      <4> SUFFICES ASSUME NEW x \in Nat, NEW y \in Nat \ {0} PROVE (x * y) \div y = x
        OBVIOUS
      <4>1. x * y \in Nat /\ x * y < x * y + y
        OBVIOUS
      <4> QED BY <4>1, QuotientUnique
    <3> QED BY <1>p, <1>12, <3>1
  <2>6. \A x \in Nat : \A y, z \in Nat \ {0} : x \div (y * z) = (x \div y) \div z
    BY QuotientTwice
  <2>7. p \div (Pow2[behind] * Pow2[n]) = q \div Pow2[n]
    BY <1>12, <2>4, <2>5, <2>6
  <2> QED BY <2>3, <2>4, <2>7 DEF n
<1>15. q < Pow2[count * WordBits]
  <2>1. Nested(CoderStart, last) /\ CoderStart.low = 0 /\ CoderStart.size = Half
        /\ CoderStart.shifts = 0
    BY <1>1 DEF CoderStart
  <2>2. last.low + last.size <= (0 + Half) * Pow2[last.shifts - 0]
    BY <2>1 DEF Nested
  <2>3. Pow2[total] = Half * Pow2[last.shifts] /\ Pow2[total] \in Nat
    BY <1>2, <1>3, PowerSum, PowerPositive DEF total
  <2>4. Pow2[total] = Pow2[bits] * Pow2[rest] /\ Pow2[bits] \in Nat \ {0} /\ Pow2[rest] \in Nat \ {0}
    BY <1>3, PowerSum, PowerPositive
  <2>5. (codeword + 1) * Pow2[rest] <= Pow2[bits] * Pow2[rest]
    <3> DEFINE x == (codeword + 1) * Pow2[rest]
    <3>1. x \in Nat /\ last.low + last.size <= Pow2[total]
      BY <1>2, <2>2, <2>3, <2>4, DecoderAssumption
    <3>2. x <= last.low + last.size
      BY <1>5
    <3> HIDE DEF x, last
    <3>3. x <= Pow2[total]
      BY <1>2, <2>3, <3>1, <3>2
    <3> QED BY <2>4, <3>3 DEF x
  <2>6. codeword * Pow2[rest] < Pow2[bits] * Pow2[rest]
    <3>0. \A x, y \in Nat : (x + 1) * y = x * y + y /\ x * y \in Nat
      OBVIOUS
    <3>1. (codeword + 1) * Pow2[rest] = codeword * Pow2[rest] + Pow2[rest]
      BY <2>4, <3>0
    <3>2. codeword * Pow2[rest] \in Nat /\ Pow2[bits] * Pow2[rest] \in Nat
      BY <2>4, <3>0
    <3> QED BY <2>4, <2>5, <3>1, <3>2
  <2>7. codeword < Pow2[bits]
    BY <2>4, <2>6, Cancel
  <2>8. Pow2[count * WordBits] = Pow2[bits] * Pow2[pad]
    <3>1. bits \in Nat /\ pad \in Nat /\ count * WordBits = bits + pad
      BY <1>3, <1>8
    <3>2. Pow2[bits + pad] = Pow2[bits] * Pow2[pad]
      BY ONLY <3>1, PowerSum
    <3> QED BY <3>1, <3>2
  <2>9. codeword * Pow2[pad] < Pow2[bits] * Pow2[pad]
    BY <1>12, <2>4, <2>7
  <2> QED BY <1>p, <2>8, <2>9
<1>16. First(p, 0)' = 0
  <2> DEFINE x == Pow2[count * WordBits]
  <2>1. x \in Nat \ {0} /\ q < x
    BY <1>8, <1>15, PowerPositive
  <2>2. First(p, 0)' = q \div Pow2[(count - 0) * WordBits] /\ (count - 0) * WordBits = count * WordBits
    BY <1>4, <1>14
  <2>3. First(p, 0)' = q \div x
    BY <2>2
  <2> HIDE DEF x
  <2>4. q \div x = 0
    BY <1>12, <2>1, QuotientUnique
  <2> QED BY <2>3, <2>4
<1>17. ASSUME NEW i \in 1..Len(words')
       PROVE  First(p, i)' = First(p, i - 1)' * WordSize + words'[i]
  <2> DEFINE n == (count - i) * WordBits
             x == q \div Pow2[n]
  <2>1. i \in 1..count /\ i \in 0..count /\ i - 1 \in 0..count /\ count - (i - 1) = (count - i) + 1
    BY <1>4, <1>13
  <2>2. n \in Nat
    BY <1>4, <1>6, <2>1
  <2>3. (count - (i - 1)) * WordBits = n + WordBits
    BY <1>4, <1>6, <2>1
  <2> HIDE DEF n
  <2>4. Pow2[n] \in Nat \ {0} /\ Pow2[n + WordBits] = Pow2[n] * WordSize
    BY <1>6, <2>2, PowerPositive, PowerSum
  <2>5. x \in Nat
    BY <1>12, <2>4, Quotient
  <2>6. q \div Pow2[n + WordBits] = x \div WordSize
    <3>1. \A y \in Nat \ {0} : q \div (y * WordSize) = (q \div y) \div WordSize
      <4>1. q \in Nat /\ WordSize \in Nat \ {0}
        BY <1>6, <1>12
      <4> QED BY ONLY <4>1, QuotientTwice
    <3> QED BY <2>4, <3>1
  <2>7. First(p, i)' = x /\ First(p, i - 1)' = x \div WordSize
    <3>1. First(p, i)' = x
      BY <1>14, <2>1 DEF n
    <3>2. First(p, i - 1)' = q \div Pow2[(count - (i - 1)) * WordBits]
      BY <1>14, <2>1
    <3> QED BY <2>3, <2>6, <3>1, <3>2
  <2>8. words'[i] = x % WordSize
    BY <1>9, <2>1 DEF n
  <2> HIDE DEF x
  <2>9. x = (x \div WordSize) * WordSize + (x % WordSize)
    BY <1>6, <2>5, Remainder
  <2> QED BY <2>7, <2>8, <2>9
<1>18. First(p, Len(words))' = q /\ Unwritten' = behind
  <2>0. PICK n : n = count
    OBVIOUS
  <2>1. First(p, n)' = q
    <3>1. n \in 0..count /\ n \in Nat
      BY <1>4, <2>0
    <3>2. First(p, n)' = q \div Pow2[(count - n) * WordBits]
      BY <1>14, <3>1
    <3>3. (count - n) * WordBits = 0
      BY <1>6, <2>0, <3>1
    <3>4. First(p, n)' = q \div Pow2[0]
      BY <3>2, <3>3
    <3> QED BY <1>12, <3>4, PowersOfTwo
  <2>2. First(p, Len(words))' = First(p, n)'
    <3>1. Len(words') = n
      BY <1>13, <2>0
    <3> QED BY <3>1 DEF First
  <2> QED BY <1>10, <1>13, <2>1, <2>2 DEF behind, Unwritten
(* What follows the data is rest bits of the code word and spare others.   *)
<1> DEFINE spare == Reach * WordBits - total
<1>19. spare \in Nat /\ pad + behind = spare + rest
  <2>1. Reach * WordBits \in Nat
    BY <1>6, <1>r
  <2> QED BY <1>3, <1>8, <1>11, <1>r, <2>1
<1> HIDE DEF spare
<1> DEFINE block == Pow2[rest] * Pow2[spare]
<1>20. /\ Pow2[rest] \in Nat /\ Pow2[spare] \in Nat /\ block \in Nat
       /\ Pow2[pad] * Pow2[behind] = block
  <2>1. Pow2[pad + behind] = Pow2[pad] * Pow2[behind] /\ Pow2[spare + rest] = Pow2[spare] * Pow2[rest]
    BY <1>3, <1>8, <1>11, <1>19, PowerSum
  <2>2. Pow2[rest] \in Nat /\ Pow2[spare] \in Nat
    BY <1>3, <1>19, PowerPositive
  <2>3. Pow2[spare] * Pow2[rest] = block /\ block \in Nat
    BY <2>2
  <2> QED BY <1>19, <2>1, <2>2, <2>3
<1>21. q * Pow2[behind] = codeword * block
  BY <1>p, <1>12, <1>20
<1>22. (q + 1) * Pow2[behind] <= (codeword + 1) * block
  <2>1. q + 1 <= (codeword + 1) * Pow2[pad]
    BY <1>p, <1>12
  <2>2. (q + 1) * Pow2[behind] <= ((codeword + 1) * Pow2[pad]) * Pow2[behind]
    <3> DEFINE x == (codeword + 1) * Pow2[pad]
    <3>1. x \in Nat /\ q + 1 \in Nat /\ q + 1 <= x
      BY <1>12, <2>1
    <3> HIDE DEF x
    <3>2. Pow2[behind] * (q + 1) <= Pow2[behind] * x
      BY <1>12, <3>1, ProductMonotone
    <3>3. Pow2[behind] * (q + 1) = (q + 1) * Pow2[behind] /\ Pow2[behind] * x = x * Pow2[behind]
      BY <1>12, <3>1
    <3> QED BY <3>2, <3>3 DEF x
  <2>3. ((codeword + 1) * Pow2[pad]) * Pow2[behind] = (codeword + 1) * (Pow2[pad] * Pow2[behind])
    BY <1>12
  <2> QED BY <1>20, <2>2, <2>3
<1>23. ASSUME NEW j \in 1..Len(coder')
       PROVE  /\ Room(j)' \in Nat
              /\ coder'[j].low * Pow2[Room(j)'] <= q * Pow2[behind]
              /\ (q + 1) * Pow2[behind] <= (coder'[j].low + coder'[j].size) * Pow2[Room(j)']
  <2> DEFINE s == coder[j]
             d == last.shifts - s.shifts
  <2>1. /\ s \in CoderStates /\ Nested(s, last) /\ coder'[j] = s
        /\ s.shifts \in Nat /\ s.low \in Nat /\ s.size \in Nat
    <3>1. j \in 1..Len(coder) /\ coder'[j] = s
      BY <1>5
    <3>2. s \in CoderStates /\ Nested(s, last)
      BY <1>1, <3>1
    <3> HIDE DEF s
    <3>3. s.shifts \in Nat /\ s.low \in Nat /\ s.size \in Half..(2 * Half - 1)
      BY ONLY <3>2 DEF CoderStates, ProbOne
    <3>4. s.size \in Nat
      BY ONLY <3>3, DecoderAssumption
    <3> QED BY ONLY <3>1, <3>2, <3>3, <3>4
  <2>2. d \in Nat
    <3> HIDE DEF s
    <3>1. s.shifts <= last.shifts
      BY ONLY <2>1 DEF Nested
    <3> QED BY ONLY <1>2, <2>1, <3>1
  <2>3. Room(j)' = d + spare
    <3> DEFINE X == Reach * WordBits
    <3>1. Room(j)' = X - InitialBits - s.shifts
      BY <1>5, <1>10, <2>1 DEF Room
    <3>2. X \in Nat /\ spare = X - (InitialBits + last.shifts)
      BY <1>6, <1>r DEF spare, total
    <3>3. d = last.shifts - s.shifts /\ s.shifts \in Nat
      BY <2>1
    <3> HIDE DEF s, X, d, last
    <3>4. last.shifts \in Nat /\ InitialBits \in Nat
      BY <1>2, <1>3
    <3>5. X - InitialBits - s.shifts
            = (last.shifts - s.shifts) + (X - (InitialBits + last.shifts))
      <4>1. /\ X \in Int /\ InitialBits \in Int
            /\ last.shifts \in Int /\ s.shifts \in Int
        BY ONLY <3>2, <3>3, <3>4
      <4>2. \A x, i, l, k \in Int : x - i - k = (l - k) + (x - (i + l))
        OBVIOUS
      <4> QED BY ONLY <4>1, <4>2
    <3> QED BY ONLY <3>1, <3>2, <3>3, <3>5
  <2>4. s.low * Pow2[d] <= last.low /\ last.low + last.size <= (s.low + s.size) * Pow2[d]
    BY <2>1 DEF Nested
  <2> HIDE DEF d, s, last
  <2>5. Pow2[d] \in Nat /\ Pow2[d + spare] = Pow2[d] * Pow2[spare]
    BY <1>19, <2>2, PowerPositive, PowerSum
  <2> DEFINE lo == s.low * Pow2[d]
             hi == (s.low + s.size) * Pow2[d]
             c0 == codeword * Pow2[rest]
             c1 == (codeword + 1) * Pow2[rest]
  <2>6. lo \in Nat /\ hi \in Nat /\ c0 \in Nat /\ c1 \in Nat
    <3>1. \A x, y \in Nat : x * y \in Nat
      OBVIOUS
    <3>2. s.low \in Nat /\ s.low + s.size \in Nat /\ Pow2[d] \in Nat
      BY ONLY <2>1, <2>5
    <3>3. codeword \in Nat /\ codeword + 1 \in Nat /\ Pow2[rest] \in Nat
      BY <1>20
    <3> QED BY ONLY <3>1, <3>2, <3>3
  <2>7. lo <= c0 /\ c1 <= hi
    <3>1. lo <= last.low /\ last.low <= c0 /\ c1 <= last.low + last.size /\ last.low + last.size <= hi
      BY <1>5, <2>4 DEF last
    <3> HIDE DEF lo, hi, c0, c1
    <3> QED BY <1>2, <2>6, <3>1
  <2>8. /\ s.low * Pow2[d + spare] = lo * Pow2[spare]
        /\ (s.low + s.size) * Pow2[d + spare] = hi * Pow2[spare]
        /\ codeword * block = c0 * Pow2[spare]
        /\ (codeword + 1) * block = c1 * Pow2[spare]
    <3>1. \A x, y, z \in Nat : x * (y * z) = (x * y) * z
      OBVIOUS
    <3>2. s.low \in Nat /\ s.low + s.size \in Nat /\ Pow2[d] \in Nat
      BY ONLY <2>1, <2>5
    <3>3. /\ codeword \in Nat /\ codeword + 1 \in Nat
          /\ Pow2[rest] \in Nat /\ Pow2[spare] \in Nat
      BY <1>20
    <3>4. /\ s.low * (Pow2[d] * Pow2[spare]) = lo * Pow2[spare]
          /\ (s.low + s.size) * (Pow2[d] * Pow2[spare]) = hi * Pow2[spare]
      BY ONLY <3>1, <3>2, <3>3
    <3>5. codeword * block = c0 * Pow2[spare] /\ (codeword + 1) * block = c1 * Pow2[spare]
      BY ONLY <3>1, <3>3
    <3> QED BY <2>5, <3>4, <3>5
  <2> HIDE DEF lo, hi, c0, c1, block
  <2>9. lo * Pow2[spare] <= c0 * Pow2[spare] /\ c1 * Pow2[spare] <= hi * Pow2[spare]
    <3>1. \A x, y, z \in Nat : x <= y => x * z <= y * z
      OBVIOUS
    <3> QED BY <1>20, <2>6, <2>7, <3>1
  <2>10. /\ s.low * Pow2[Room(j)'] <= q * Pow2[behind]
    BY <1>21, <2>3, <2>8, <2>9
  <2>11. (q + 1) * Pow2[behind] <= (s.low + s.size) * Pow2[Room(j)']
    <3> DEFINE x == (q + 1) * Pow2[behind]
               y == (codeword + 1) * block
               z == (s.low + s.size) * Pow2[Room(j)']
    <3>0. z = (s.low + s.size) * Pow2[d + spare]
      BY <2>3
    <3>1. x <= y /\ y = c1 * Pow2[spare] /\ z = hi * Pow2[spare]
      <4>1. x <= y
        BY <1>22
      <4>2. y = c1 * Pow2[spare]
        BY <2>8
      <4> HIDE DEF x, y, z
      <4>3. z = hi * Pow2[spare]
        BY <2>8, <3>0
      <4> QED BY <4>1, <4>2, <4>3
    <3>2. x \in Nat /\ c1 * Pow2[spare] \in Nat /\ hi * Pow2[spare] \in Nat
      <4>1. \A u, v \in Nat : u * v \in Nat
        OBVIOUS
      <4>2. q + 1 \in Nat /\ Pow2[behind] \in Nat /\ Pow2[spare] \in Nat
        BY <1>12, <1>20
      <4>3. c1 * Pow2[spare] \in Nat /\ hi * Pow2[spare] \in Nat
        BY ONLY <4>1, <4>2, <2>6
      <4>4. (q + 1) * Pow2[behind] \in Nat
        BY ONLY <4>1, <4>2
      <4> QED BY <4>3, <4>4
    <3> HIDE DEF x, y, z
    <3>3. x <= z
      BY <2>9, <3>1, <3>2
    <3> QED BY <3>3 DEF x, z
  <2>12. Room(j)' \in Nat
    BY <1>19, <2>2, <2>3
  <2> QED BY <2>1, <2>10, <2>11, <2>12
<1>24. LastCoder'.shifts <= Len(words') * WordBits
  BY <1>2, <1>3, <1>8, <1>10, <1>13
<1>25. Len(words') <= Reach'
  BY <1>7, <1>10, <1>13
<1> QED
  BY <1>12, <1>13, <1>16, <1>17, <1>18, <1>23, <1>24, <1>25 DEF Spells

(* Code words are naturals.                                                *)
LEMMA ClosesWithNat ==
  ASSUME CoderInv, NEW rest \in 0..InitialBits,
         NEW codeword \in (LastCoder.low \div Pow2[rest])..(LastCoder.low + LastCoder.size)
  PROVE  codeword \in Nat
<1>1. LastCoder \in CoderStates
  BY DEF CoderInv, LastCoder
<1>2. LastCoder.low \in Nat /\ rest \in Nat
  BY <1>1, InitialBitsExist DEF CoderStates
<1>3. Pow2[rest] \in Nat \ {0}
  BY <1>2, PowerPositive
<1>4. LastCoder.low \div Pow2[rest] \in Nat
  BY <1>2, <1>3, Quotient
<1> QED BY <1>4

(* What the words spell lies in the intervals, whatever follows the data.  *)
LEMMA SpellsWithin ==
  ASSUME CoderInv, NEW p, Spells(p), NEW j \in 1..Len(coder)
  PROVE  /\ Room(j) \in Nat
         /\ coder[j].low * Pow2[Room(j)] <= p
         /\ p < (coder[j].low + coder[j].size) * Pow2[Room(j)]
<1> DEFINE q == First(p, Len(words))
           x == Pow2[Unwritten]
           s == coder[j]
           P == Pow2[Room(j)]
<1>1. /\ p \in Nat /\ Room(j) \in Nat
      /\ s.low * P <= q * x /\ (q + 1) * x <= (s.low + s.size) * P
      /\ Len(words) \in Nat /\ Len(words) <= Reach
  BY DEF Spells
<1>2. Unwritten \in Nat
  <2>1. Reach \in Nat /\ WordBits \in Nat
    BY ReachProper, WordAssumption
  <2>2. Reach - Len(words) \in Nat
    BY <1>1, <2>1
  <2> QED BY <2>1, <2>2 DEF Unwritten
<1>3. x \in Nat \ {0} /\ P \in Nat
  BY <1>1, <1>2, PowerPositive
<1>4. q = p \div x
  BY DEF First, Unwritten
<1>5. s.low \in Nat /\ s.size \in Nat
  <2>1. s \in CoderStates
    BY DEF CoderInv
  <2> HIDE DEF s
  <2> QED BY <2>1, DecoderAssumption DEF CoderStates
<1> HIDE DEF q, x, s, P
<1>6. q \in Nat /\ q * x <= p /\ p < q * x + x
  BY <1>1, <1>3, <1>4, Quotient
<1>7. (q + 1) * x = q * x + x /\ q * x \in Nat /\ s.low * P \in Nat /\ (s.low + s.size) * P \in Nat
  <2>1. \A y, z \in Nat : (y + 1) * z = y * z + z /\ y * z \in Nat
    OBVIOUS
  <2>2. s.low + s.size \in Nat
    BY <1>5
  <2> QED BY <1>3, <1>5, <1>6, <2>1, <2>2
<1>8. s.low * P <= p /\ p < (s.low + s.size) * P
  BY <1>1, <1>3, <1>6, <1>7
<1> QED BY <1>1, <1>8 DEF s, P

-----------------------------------------------------------------------------
(* What getbit has made of the words so far. It stands in the interval     *)
(* that the encoder had after as many bits, m doublings short of it; u     *)
(* bits of the last word, the number unread, are still in the buffer,      *)
(* before the sentinel; and the lower end, base, that the encoder adds to  *)
(* its code words is what getbit has subtracted from rvalue.               *)
Current == coder[Len(received) + 1]

Window(p, u, m, base, unread) ==
  /\ u \in 0..(WordBits - 1) /\ m \in Nat /\ base \in Nat /\ unread \in Nat
  /\ unread < Pow2[u]
  /\ bitbuf = unread * Pow2[WordBits - u] + Pow2[WordBits - u - 1]
  /\ inp * WordBits + m = InitialBits + Current.shifts + u
  /\ Current.low = base * Pow2[m]
  /\ Current.size = isize * Pow2[m]
  /\ First(p, inp) = (rvalue + base) * Pow2[u] + unread

Follows(p) == \E u, m, base, unread : Window(p, u, m, base, unread)

ReceivedOK ==
  /\ received \in Seq(Bit)
  /\ Len(received) <= Len(sent)
  /\ \A j \in 1..Len(received) : received[j] = sent[j].bit

ChannelInv ==
  /\ DInv
  /\ CoderInv
  /\ ReceivedOK
  /\ ModelsAgree
  /\ closed \in BOOLEAN
  /\ inp \in Nat /\ inp <= Reach
  /\ pc = "loop_condition" =>
       /\ closed
       /\ Len(received) < Len(sent)
       /\ bitctx = sent[Len(received) + 1].context
  /\ closed => \E p : Spells(p) /\ Follows(p)
  /\ ~closed =>
       /\ received = << >> /\ inp = 0 /\ words = << >>
       /\ rvalue = 0 /\ isize = 1 /\ bitbuf = WordSize \div 2

LEMMA CurrentProper ==
  ASSUME CoderInv, ReceivedOK
  PROVE  /\ Len(received) \in Nat /\ Len(received) + 1 \in 1..Len(coder)
         /\ Current \in CoderStates
         /\ Current.shifts \in Nat /\ Current.low \in Nat
         /\ Current.size \in Half..(ProbOne - 1)
<1>1. Len(received) \in Nat /\ Len(received) + 1 \in 1..Len(coder)
  BY DEF CoderInv, ReceivedOK
<1>2. Current \in CoderStates
  BY <1>1 DEF CoderInv, Current
<1> HIDE DEF Current
<1> QED BY <1>1, <1>2 DEF CoderStates

(* A normalised getbit is in the very interval of the encoder.             *)
LEMMA NormalisedExact ==
  ASSUME DInv, CoderInv, ReceivedOK, Normalised,
         NEW p, NEW u, NEW m, NEW base, NEW unread, Window(p, u, m, base, unread)
  PROVE  m = 0 /\ base = Current.low /\ isize = Current.size
<1>1. /\ isize \in Nat /\ isize >= Half /\ Half \in Nat \ {0}
  BY ThresholdProper, DecoderAssumption DEF ProbOne
<1>2. /\ Current.low \in Nat /\ Current.size \in Nat /\ Current.size < 2 * Half
  BY CurrentProper, DecoderAssumption DEF ProbOne
<1>3. /\ m \in Nat /\ base \in Nat
      /\ Current.low = base * Pow2[m] /\ Current.size = isize * Pow2[m]
  BY DEF Window
<1>4. m = 0
  <2> SUFFICES ASSUME m >= 1
               PROVE  FALSE
    BY <1>3
  <2>1. Pow2[m] \in Nat /\ 2 <= Pow2[m]
    BY <1>3, PowerPositive
  <2>2. isize * 2 <= isize * Pow2[m]
    BY <1>1, <2>1, ProductMonotone
  <2> QED BY <1>1, <1>2, <1>3, <2>2
<1>5. Pow2[m] = 1
  BY <1>4, PowersOfTwo
<1> QED BY <1>1, <1>3, <1>4, <1>5

(* The interval is short of the encoder's by a doubling at least.          *)
LEMMA DoublingLeft ==
  ASSUME DInv, CoderInv, ReceivedOK, NEW b \in Bit, ~Normalised, ShiftIn(b),
         NEW p, NEW u, NEW m, NEW base, NEW unread, Window(p, u, m, base, unread)
  PROVE  /\ m - 1 \in Nat
         /\ rvalue \in Nat /\ rvalue' = 2 * rvalue + b
         /\ Current.low = (2 * base) * Pow2[m - 1]
         /\ Current.size = isize' * Pow2[m - 1]
<1>1. /\ rvalue' = 2 * rvalue + b /\ isize' = 2 * isize /\ isize < Half
  BY ShiftInPreserves
<1>2. rvalue \in Nat /\ isize \in Nat
  BY DEF DInv, DecoderTypeOK, Registers
<1>3. Current.size \in Nat /\ Half <= Current.size
  BY CurrentProper, DecoderAssumption
<1>4. /\ m \in Nat /\ base \in Nat
      /\ Current.low = base * Pow2[m] /\ Current.size = isize * Pow2[m]
  BY DEF Window
<1>5. m # 0
  <2> SUFFICES ASSUME m = 0
               PROVE  FALSE
    OBVIOUS
  <2>1. Current.size = isize
    BY <1>2, <1>4, PowersOfTwo
  <2> QED BY <1>1, <1>2, <1>3, <2>1, DecoderAssumption
<1>6. m - 1 \in Nat /\ (m - 1) + 1 = m
  BY <1>4, <1>5
<1>7. Pow2[m - 1] \in Nat /\ Pow2[m] = 2 * Pow2[m - 1]
  BY <1>6, PowersOfTwo
<1> QED BY <1>1, <1>2, <1>4, <1>6, <1>7

(* The word's size, seen through a buffer that holds u bits.               *)
LEMMA WordSplit ==
  ASSUME NEW u \in 1..WordBits
  PROVE  /\ Pow2[u - 1] \in Nat \ {0} /\ Pow2[WordBits - u] \in Nat \ {0}
         /\ Pow2[u] = 2 * Pow2[u - 1]
         /\ Pow2[WordBits - (u - 1)] = 2 * Pow2[WordBits - u]
         /\ WordSize = 2 * (Pow2[u - 1] * Pow2[WordBits - u])
<1>1. WordBits \in Nat \ {0} /\ WordSize = Pow2[WordBits]
  BY WordAssumption
<1>2. u - 1 \in Nat /\ WordBits - u \in Nat /\ (u - 1) + 1 = u
      /\ (WordBits - u) + 1 = WordBits - (u - 1) /\ u + (WordBits - u) = WordBits /\ u \in Nat
  BY <1>1
<1>3. Pow2[u - 1] \in Nat \ {0} /\ Pow2[WordBits - u] \in Nat \ {0}
  BY <1>2, PowerPositive
<1>4. Pow2[u] = 2 * Pow2[u - 1]
  BY <1>2, PowersOfTwo
<1>5. Pow2[WordBits - (u - 1)] = 2 * Pow2[WordBits - u]
  BY <1>2, PowersOfTwo
<1>6. Pow2[WordBits] = Pow2[u] * Pow2[WordBits - u]
  <2>1. Pow2[u + (WordBits - u)] = Pow2[u] * Pow2[WordBits - u]
    BY <1>2, PowerSum
  <2> QED BY <1>2, <2>1
<1>7. WordSize = 2 * (Pow2[u - 1] * Pow2[WordBits - u])
  BY <1>1, <1>3, <1>4, <1>6
<1> QED BY <1>3, <1>4, <1>5, <1>7

(* Shifting a buffer that holds bits takes the first of them.              *)
LEMMA BufferShifted ==
  ASSUME NEW u \in 1..(WordBits - 1), NEW unread \in Nat, unread < Pow2[u],
         NEW buf, buf = unread * Pow2[WordBits - u] + Pow2[WordBits - u - 1]
  PROVE  \E b \in Bit, left \in 0..(Pow2[u - 1] - 1) :
           /\ unread = b * Pow2[u - 1] + left
           /\ (2 * buf) \div WordSize = b
           /\ (2 * buf) % WordSize = left * Pow2[WordBits - (u - 1)] + Pow2[WordBits - (u - 1) - 1]
           /\ (2 * buf) % WordSize # 0
<1> DEFINE h == Pow2[u - 1]
           g == Pow2[WordBits - u]
           b == unread \div h
           left == unread % h
           low == left * (2 * g) + g
<1>0. WordBits \in Nat \ {0} /\ u \in 1..WordBits
  BY WordAssumption
<1>1. /\ h \in Nat \ {0} /\ g \in Nat \ {0} /\ WordSize = 2 * (h * g)
      /\ Pow2[u] = 2 * h /\ Pow2[WordBits - (u - 1)] = 2 * g
  BY <1>0, WordSplit
<1>2. WordBits - u - 1 \in Nat /\ (WordBits - u - 1) + 1 = WordBits - u
      /\ WordBits - (u - 1) - 1 = WordBits - u
  BY <1>0
<1>3. g = 2 * Pow2[WordBits - u - 1] /\ Pow2[WordBits - u - 1] \in Nat
  BY <1>2, PowersOfTwo, PowerPositive
<1>4. 2 * buf = unread * (2 * g) + g
  <2> DEFINE e == Pow2[WordBits - u - 1]
  <2>1. buf = unread * g + e /\ g = 2 * e /\ e \in Nat
    BY <1>3
  <2> HIDE DEF g, e
  <2> QED BY <1>1, <2>1
<1> HIDE DEF g, h
<1>5. b \in Nat /\ left \in 0..(h - 1) /\ unread = b * h + left
  BY <1>1, Quotient, Remainder
<1>6. b \in Bit
  <2> SUFFICES ASSUME b >= 2
               PROVE  FALSE
    BY <1>5 DEF Bit
  <2> HIDE DEF b, left
  <2>1. h * 2 <= h * b
    BY <1>1, <1>5, ProductMonotone
  <2> QED BY <1>1, <1>5, <2>1
<1> HIDE DEF b, left
<1>7. left \in Nat /\ left + 1 <= h /\ b \in Nat
  BY <1>1, <1>5
<1>8. low \in Nat /\ 0 < low /\ low < WordSize
  <2>1. g * (2 * left + 2) <= g * (2 * h)
    <3>1. 2 * left + 2 <= 2 * h /\ 2 * left + 2 \in Nat /\ 2 * h \in Nat
      BY <1>1, <1>7
    <3> QED BY <1>1, <3>1, ProductMonotone
  <2>2. g * (2 * left + 2) = low + g /\ g * (2 * h) = WordSize
    BY <1>1, <1>7
  <2>3. low \in Nat /\ 0 < low
    <3>1. left * (2 * g) \in Nat
      BY <1>1, <1>7
    <3> QED BY <1>1, <3>1
  <2> HIDE DEF low
  <2> QED BY <1>1, <2>1, <2>2, <2>3
<1>9. 2 * buf = b * WordSize + low
  <2>1. unread * (2 * g) = b * WordSize + left * (2 * g)
    BY <1>1, <1>5, <1>7
  <2>2. b * WordSize \in Nat /\ left * (2 * g) \in Nat
    BY <1>1, <1>7
  <2> QED BY <1>1, <1>4, <2>1, <2>2
<1>10. WordSize \in Nat \ {0}
  BY DecoderAssumption
<1>11. low = left * Pow2[WordBits - (u - 1)] + Pow2[WordBits - (u - 1) - 1]
  BY <1>1, <1>2 DEF g
<1> HIDE DEF low
<1>12. (2 * buf) \div WordSize = b /\ (2 * buf) % WordSize = low
  <2>1. CASE b = 0
    BY <1>8, <1>9, <1>10, <2>1
  <2>2. CASE b = 1
    <3>1. 2 * buf = WordSize + low
      BY <1>8, <1>9, <1>10, <2>2
    <3> QED BY <1>8, <1>10, <2>2, <3>1
  <2> QED BY <1>6, <2>1, <2>2 DEF Bit
<1> QED BY <1>5, <1>6, <1>8, <1>11, <1>12 DEF h

(* Shifting a buffer that holds only the sentinel leaves nothing.          *)
LEMMA BufferEmptied ==
  ASSUME NEW buf, buf = 0 * Pow2[WordBits - 0] + Pow2[WordBits - 0 - 1]
  PROVE  (2 * buf) % WordSize = 0
<1>1. WordBits \in Nat \ {0} /\ WordBits - 1 \in Nat /\ (WordBits - 1) + 1 = WordBits
      /\ WordBits - 0 = WordBits /\ WordBits - 0 - 1 = WordBits - 1
  BY WordAssumption
<1>2. Pow2[WordBits] = 2 * Pow2[WordBits - 1] /\ Pow2[WordBits] \in Nat \ {0}
      /\ Pow2[WordBits - 1] \in Nat
  BY <1>1, PowersOfTwo, PowerPositive
<1>3. 2 * buf = WordSize /\ WordSize \in Nat \ {0}
  BY <1>1, <1>2, WordAssumption
<1> QED BY <1>3

(* A word that becomes the buffer gives its top bit, and keeps the rest.   *)
LEMMA WordTaken ==
  ASSUME NEW word \in Word
  PROVE  \E b \in Bit, left \in 0..(Pow2[WordBits - 1] - 1) :
           /\ word = b * Pow2[WordBits - 1] + left
           /\ (2 * word) \div WordSize = b
           /\ ((2 * word) % WordSize) + 1 = left * 2 + 1
<1> DEFINE h == Pow2[WordBits - 1]
<1>1. WordBits \in Nat \ {0} /\ WordBits - 1 \in Nat /\ (WordBits - 1) + 1 = WordBits
  BY WordAssumption
<1>2. WordSize = 2 * h /\ h \in Nat \ {0}
  BY <1>1, WordAssumption, PowersOfTwo, PowerPositive
<1> HIDE DEF h
<1>3. word \in Nat /\ word < 2 * h
  BY <1>2 DEF Word
<1>4. CASE word < h
  <2>1. (2 * word) \div WordSize = 0 /\ (2 * word) % WordSize = 2 * word
    BY <1>2, <1>3, <1>4
  <2>2. word = 0 * h + word /\ word \in 0..(h - 1) /\ 0 \in Bit
    BY <1>2, <1>3, <1>4 DEF Bit
  <2>3. ((2 * word) % WordSize) + 1 = word * 2 + 1
    BY <1>3, <2>1
  <2> QED BY <2>1, <2>2, <2>3 DEF h
<1>5. CASE word >= h
  <2> DEFINE left == word - h
  <2>1. (2 * word) \div WordSize = 1 /\ (2 * word) % WordSize = 2 * left
    BY <1>2, <1>3, <1>5
  <2>2. word = 1 * h + left /\ left \in 0..(h - 1) /\ 1 \in Bit
    BY <1>2, <1>3, <1>5 DEF Bit
  <2>3. ((2 * word) % WordSize) + 1 = left * 2 + 1
    BY <2>1, <2>2
  <2> HIDE DEF left
  <2> QED BY <2>1, <2>2, <2>3 DEF h
<1> QED BY <1>3, <1>4, <1>5, <1>2

-----------------------------------------------------------------------------
(* The decoder's actions keep its place in the encoder's history.          *)
LEMMA ReadbitFollows ==
  ASSUME DInv, CoderInv, ReceivedOK, inp \in Nat, Readbit, inp' = inp, coder' = coder,
         received' = received, words' = words,
         NEW p, Follows(p)
  PROVE  Follows(p)'
<1>1. PICK u, m, base, unread : Window(p, u, m, base, unread)
  BY DEF Follows
<1>2. /\ u \in 0..(WordBits - 1) /\ m \in Nat /\ base \in Nat /\ unread \in Nat
      /\ unread < Pow2[u]
      /\ bitbuf = unread * Pow2[WordBits - u] + Pow2[WordBits - u - 1]
  BY <1>1 DEF Window
<1>3. u # 0
  <2> SUFFICES ASSUME u = 0
               PROVE  FALSE
    OBVIOUS
  <2>1. unread = 0
    BY <1>2, PowersOfTwo
  <2>2. (2 * bitbuf) % WordSize = 0
    BY <1>2, <2>1, BufferEmptied
  <2> QED BY <2>2 DEF Readbit
<1>4. u \in 1..(WordBits - 1)
  BY <1>2, <1>3
<1>5. PICK b \in Bit, left \in 0..(Pow2[u - 1] - 1) :
        /\ unread = b * Pow2[u - 1] + left
        /\ (2 * bitbuf) \div WordSize = b
        /\ (2 * bitbuf) % WordSize = left * Pow2[WordBits - (u - 1)] + Pow2[WordBits - (u - 1) - 1]
  BY <1>2, <1>4, BufferShifted
<1>6. /\ ShiftIn(b) /\ ~Normalised
      /\ bitbuf' = left * Pow2[WordBits - (u - 1)] + Pow2[WordBits - (u - 1) - 1]
  BY <1>5 DEF Readbit
<1>7. /\ m - 1 \in Nat
      /\ rvalue \in Nat /\ rvalue' = 2 * rvalue + b
      /\ Current.low = (2 * base) * Pow2[m - 1]
      /\ Current.size = isize' * Pow2[m - 1]
  BY <1>1, <1>6, DoublingLeft
<1>8. /\ inp * WordBits + m = InitialBits + Current.shifts + u
      /\ First(p, inp) = (rvalue + base) * Pow2[u] + unread
  BY <1>1 DEF Window
<1>9. Current' = Current /\ First(p, inp)' = First(p, inp)
  BY DEF Current, First, Reach, LastCoder
<1>10. /\ WordBits \in Nat /\ u - 1 \in 0..(WordBits - 1)
       /\ Pow2[u] = 2 * Pow2[u - 1] /\ Pow2[u - 1] \in Nat \ {0}
  <2>1. WordBits \in Nat /\ u \in 1..WordBits
    BY <1>4, WordAssumption
  <2> QED BY <1>4, <2>1, WordSplit
<1>11. left \in Nat /\ left < Pow2[u - 1]
  BY <1>5, <1>10
<1>12. inp * WordBits + (m - 1) = InitialBits + Current.shifts + (u - 1)
  <2>1. InitialBits \in Nat /\ Current.shifts \in Nat
    BY InitialBitsExist, CurrentProper
  <2>2. inp * WordBits \in Nat /\ u \in Nat
    BY <1>4, <1>10
  <2>3. inp * WordBits + m = InitialBits + Current.shifts + u /\ m \in Nat
    BY <1>2, <1>8
  <2> QED BY ONLY <2>1, <2>2, <2>3
<1>13. First(p, inp) = (rvalue' + 2 * base) * Pow2[u - 1] + left
  <2> DEFINE h == Pow2[u - 1]
             F == First(p, inp)
  <2>1. F = (rvalue + base) * (2 * h) + (b * h + left)
    BY <1>5, <1>8, <1>10
  <2>2. h \in Nat /\ b \in Nat
    BY <1>5, <1>10 DEF Bit
  <2> HIDE DEF h, F
  <2>3. (rvalue' + 2 * base) * h = (rvalue + base) * (2 * h) + b * h
    BY <1>2, <1>7, <2>2
  <2>4. F = (rvalue' + 2 * base) * h + left
    BY <1>2, <1>7, <1>11, <2>1, <2>2, <2>3
  <2> QED BY <2>4 DEF h, F
<1>14. Window(p, u - 1, m - 1, 2 * base, left)'
  BY <1>2, <1>6, <1>7, <1>9, <1>10, <1>11, <1>12, <1>13 DEF Window
<1> QED BY <1>14 DEF Follows

(* getbit wants a word only while one of its bits is still to come.        *)
LEMMA WantsWithinReach ==
  ASSUME DInv, CoderInv, ReceivedOK, inp \in Nat, ~Normalised,
         (2 * bitbuf) % WordSize = 0, NEW p, Follows(p)
  PROVE  inp < Reach
<1>2. PICK u, m, base, unread : Window(p, u, m, base, unread)
  BY DEF Follows
<1>4. /\ u \in 0..(WordBits - 1) /\ m \in Nat /\ unread \in Nat /\ unread < Pow2[u]
      /\ bitbuf = unread * Pow2[WordBits - u] + Pow2[WordBits - u - 1]
      /\ inp * WordBits + m = InitialBits + Current.shifts + u
      /\ Current.size = isize * Pow2[m]
  BY <1>2 DEF Window
<1>5. u = 0
  <2> SUFFICES ASSUME u # 0
               PROVE  FALSE
    OBVIOUS
  <2>1. u \in 1..(WordBits - 1)
    BY <1>4
  <2> QED BY <1>4, <2>1, BufferShifted
<1>6. m # 0
  <2> SUFFICES ASSUME m = 0
               PROVE  FALSE
    OBVIOUS
  <2>1. isize \in Nat /\ isize < ProbOne
    BY DEF DInv, DecoderTypeOK, ValueInInterval, Registers
  <2>2. isize \in Half..(ProbOne - 1)
    <3>1. Current.size = isize
      BY <1>4, <2>1, PowersOfTwo
    <3> QED BY <3>1, CurrentProper
  <2>3. isize \div Half = 1
    BY <2>2, DecoderAssumption DEF ProbOne
  <2> QED BY <2>3 DEF Normalised
<1>7. Current.shifts <= LastCoder.shifts /\ Current.shifts \in Nat
  <2>1. Len(received) + 1 \in 1..Len(coder) /\ Current.shifts \in Nat
    BY CurrentProper
  <2>2. Nested(Current, LastCoder)
    BY <2>1 DEF CoderInv, Current
  <2> QED BY <2>1, <2>2 DEF Nested
<1>8. inp * WordBits < Reach * WordBits
  <2>1. /\ Reach \in Nat /\ InitialBits \in Nat /\ LastCoder.shifts \in Nat
        /\ Reach * WordBits - (InitialBits + LastCoder.shifts) \in 0..(WordBits - 1)
        /\ WordBits \in Nat
    BY ReachProper, WordAssumption
  <2> DEFINE X == Reach * WordBits
             Y == inp * WordBits
             S == LastCoder.shifts
             T == Current.shifts
  <2>2. /\ X \in Nat /\ Y \in Nat /\ S \in Nat /\ T \in Nat /\ T <= S
        /\ X - (InitialBits + S) \in 0..(WordBits - 1)
        /\ Y + m = InitialBits + T + u
    BY <1>4, <1>7, <2>1
  <2> HIDE DEF X, Y, S, T
  <2>3. Y < X
    BY ONLY <1>4, <1>5, <1>6, <2>1, <2>2
  <2> QED BY <2>3 DEF X, Y
<1> QED
  <2>1. WordBits \in Nat \ {0} /\ inp \in Int /\ Reach \in Int
    BY ReachProper, WordAssumption
  <2> QED BY <1>8, <2>1, Cancel

(* The next word that getbit loads, be it data or not.                     *)
WordFollows(p, i, word) == First(p, i + 1) = First(p, i) * WordSize + word

(* Whatever is loaded from behind the data, it and the data begin a number *)
(* that the data begins.                                                   *)
LEMMA AnythingFollows ==
  ASSUME CoderInv, inp \in Nat, Len(words) <= inp, inp < Reach,
         NEW word \in Word, NEW p, Spells(p)
  PROVE  \E next : Spells(next) /\ First(next, inp) = First(p, inp) /\ WordFollows(next, inp, word)
<1>1. /\ p \in Nat /\ Len(words) \in Nat /\ Reach \in Nat
      /\ WordBits \in Nat \ {0} /\ WordSize = Pow2[WordBits] /\ WordSize \in Nat \ {0}
      /\ word \in Nat /\ word < WordSize
  <2>1. p \in Nat /\ words \in Seq(Word)
    BY DEF Spells
  <2>2. Len(words) \in Nat
    BY <2>1
  <2>3. word \in Nat /\ word < WordSize
    BY DecoderAssumption DEF Word
  <2> QED BY <2>1, <2>2, <2>3, ReachProper, WordAssumption, DecoderAssumption
<1>2. PICK left : left = (Reach - (inp + 1)) * WordBits
  OBVIOUS
<1>3. /\ left \in Nat /\ (Reach - inp) * WordBits = left + WordBits
      /\ Pow2[left] \in Nat \ {0} /\ Pow2[left + WordBits] = Pow2[left] * WordSize
  <2>1. Reach - (inp + 1) \in Nat /\ Reach - inp = (Reach - (inp + 1)) + 1
    BY <1>1
  <2>2. left \in Nat /\ (Reach - inp) * WordBits = left + WordBits
    BY <1>1, <1>2, <2>1
  <2> QED BY <1>1, <2>2, PowerPositive, PowerSum
<1>4. PICK before : before = First(p, inp)
  OBVIOUS
<1>5. before \in Nat
  <2>1. left + WordBits \in Nat
    BY ONLY <1>1, <1>3
  <2>2. Pow2[left + WordBits] \in Nat \ {0}
    BY ONLY <2>1, PowerPositive
  <2> QED BY <1>1, <1>3, <1>4, <2>2, Quotient DEF First
<1>6. PICK next : next = (before * WordSize + word) * Pow2[left]
  OBVIOUS
<1>7. next \in Nat /\ before * WordSize + word \in Nat
  <2>1. \A x, y \in Nat : x * y \in Nat
    OBVIOUS
  <2>2. before * WordSize \in Nat
    BY <1>1, <1>5, <2>1
  <2>3. before * WordSize + word \in Nat
    BY <1>1, <2>2
  <2> QED BY <1>3, <1>6, <2>1, <2>3
<1>8. First(next, inp + 1) = before * WordSize + word
  <2>1. \A x, y \in Nat : y # 0 => (x * y) \div y = x
    <3> SUFFICES ASSUME NEW x \in Nat, NEW y \in Nat \ {0} PROVE (x * y) \div y = x
      OBVIOUS
    <3>1. x * y \in Nat /\ x * y < x * y + y
      OBVIOUS
    <3> QED BY <3>1, QuotientUnique
  <2>2. next \div Pow2[left] = before * WordSize + word
    BY <1>3, <1>6, <1>7, <2>1
  <2> QED BY <1>2, <2>2 DEF First
<1>9. First(next, inp) = before
  <2>1. next \div (Pow2[left] * WordSize) = (next \div Pow2[left]) \div WordSize
    <3>1. next \in Nat /\ Pow2[left] \in Nat \ {0} /\ WordSize \in Nat \ {0}
      BY <1>1, <1>3, <1>7
    <3> QED BY ONLY <3>1, QuotientTwice
  <2>2. next \div Pow2[left] = before * WordSize + word
    BY <1>2, <1>8 DEF First
  <2>3. (before * WordSize + word) \div WordSize = before
    <3> DEFINE x == before * WordSize + word
    <3>1. before * WordSize <= x /\ x < before * WordSize + WordSize /\ x \in Nat
      BY <1>1, <1>5, <1>7
    <3> HIDE DEF x
    <3>2. x \div WordSize = before
      BY <1>1, <1>5, <3>1, QuotientUnique
    <3> QED BY <3>2 DEF x
  <2>4. First(next, inp) = next \div (Pow2[left] * WordSize)
    BY <1>3 DEF First
  <2> QED BY <2>1, <2>2, <2>3, <2>4
<1>10. ASSUME NEW i \in 0..Len(words)
       PROVE  First(next, i) = First(p, i)
  <2>1. i \in Nat /\ i <= inp
    BY <1>1
  <2> DEFINE n == (inp - i) * WordBits
             A == Pow2[left + WordBits]
  <2>2. n \in Nat /\ (Reach - i) * WordBits = (left + WordBits) + n
    <3>1. inp - i \in Nat /\ Reach - i = (Reach - inp) + (inp - i)
      BY <1>1, <2>1
    <3>2. Reach - inp \in Nat
      BY <1>1
    <3>3. \A x, y, z \in Nat : (x + y) * z = x * z + y * z /\ y * z \in Nat
      OBVIOUS
    <3> QED BY <1>1, <1>3, <3>1, <3>2, <3>3
  <2> HIDE DEF n
  <2>3. A \in Nat \ {0} /\ Pow2[n] \in Nat \ {0} /\ Pow2[(left + WordBits) + n] = A * Pow2[n]
    <3>1. left + WordBits \in Nat
      BY <1>1, <1>3
    <3> QED BY <2>2, <3>1, PowerPositive, PowerSum
  <2>4. First(next, inp) = next \div A /\ First(p, inp) = p \div A
    BY <1>3 DEF First
  <2>5. First(next, i) = next \div (A * Pow2[n]) /\ First(p, i) = p \div (A * Pow2[n])
    BY <2>2, <2>3 DEF First
  <2> HIDE DEF A
  <2>6. /\ next \div (A * Pow2[n]) = (next \div A) \div Pow2[n]
        /\ p \div (A * Pow2[n]) = (p \div A) \div Pow2[n]
    <3>1. p \in Nat /\ next \in Nat /\ A \in Nat \ {0} /\ Pow2[n] \in Nat \ {0}
      BY <1>1, <1>7, <2>3
    <3> QED BY ONLY <3>1, QuotientTwice
  <2> QED BY <1>4, <1>9, <2>4, <2>5, <2>6
<1>11. Spells(next)
  <2>1. \A i \in 1..Len(words) : i \in 0..Len(words) /\ i - 1 \in 0..Len(words)
    BY <1>1
  <2>2. 0 \in 0..Len(words) /\ Len(words) \in 0..Len(words)
    BY <1>1
  <2>3. First(next, 0) = 0 /\ First(next, Len(words)) = First(p, Len(words))
    BY <1>10, <2>2 DEF Spells
  <2>4. \A i \in 1..Len(words) : First(next, i) = First(next, i - 1) * WordSize + words[i]
    BY <1>10, <2>1 DEF Spells
  <2> HIDE DEF First
  <2> QED BY <1>7, <2>3, <2>4 DEF Spells
<1> QED BY <1>4, <1>8, <1>9, <1>11 DEF WordFollows

(* A word of the data follows as it is written, any other as it comes.     *)
LEMMA WordsFollow ==
  ASSUME CoderInv, inp \in Nat, inp < Reach, NEW word \in WordsAt(inp), NEW p, Spells(p)
  PROVE  /\ word \in Word
         /\ \E next : /\ Spells(next) /\ First(next, inp) = First(p, inp)
                      /\ WordFollows(next, inp, word)
<1>1. words \in Seq(Word) /\ Len(words) \in Nat
  BY DEF Spells
<1>2. CASE inp < Len(words)
  <2>1. word = words[inp + 1] /\ inp + 1 \in 1..Len(words) /\ (inp + 1) - 1 = inp
    BY <1>1, <1>2 DEF WordsAt
  <2>2. First(p, inp + 1) = First(p, (inp + 1) - 1) * WordSize + words[inp + 1]
    BY <2>1 DEF Spells
  <2>3. WordFollows(p, inp, word)
    BY <2>1, <2>2 DEF WordFollows
  <2>4. word \in Word
    BY <1>1, <2>1
  <2> QED BY <2>3, <2>4
<1>3. CASE Len(words) <= inp
  <2>1. word \in Word
    BY <1>1, <1>3 DEF WordsAt
  <2> QED BY <1>3, <2>1, AnythingFollows
<1> QED BY <1>1, <1>2, <1>3

LEMMA NewwordFollows ==
  ASSUME DInv, CoderInv, ReceivedOK, inp \in Nat, inp' = inp + 1,
         coder' = coder, received' = received,
         NEW word \in Word, Newword(word), NEW p, Follows(p),
         NEW next, First(next, inp) = First(p, inp), WordFollows(next, inp, word)
  PROVE  Follows(next)'
<1>1. PICK u, m, base, unread : Window(p, u, m, base, unread)
  BY DEF Follows
<1>2. /\ u \in 0..(WordBits - 1) /\ m \in Nat /\ base \in Nat /\ unread \in Nat
      /\ unread < Pow2[u]
      /\ bitbuf = unread * Pow2[WordBits - u] + Pow2[WordBits - u - 1]
  BY <1>1 DEF Window
<1>3. u = 0
  <2> SUFFICES ASSUME u # 0
               PROVE  FALSE
    OBVIOUS
  <2>1. u \in 1..(WordBits - 1)
    BY <1>2
  <2>2. (2 * bitbuf) % WordSize # 0
    BY <1>2, <2>1, BufferShifted
  <2> QED BY <2>2 DEF Newword
<1>4. unread = 0
  BY <1>2, <1>3, PowersOfTwo
<1>5. /\ WordBits \in Nat \ {0} /\ WordBits - 1 \in 0..(WordBits - 1)
      /\ Pow2[WordBits - 1] \in Nat \ {0} /\ WordSize = 2 * Pow2[WordBits - 1]
  <2>1. WordBits \in Nat \ {0} /\ WordBits - 1 \in Nat /\ (WordBits - 1) + 1 = WordBits
    BY WordAssumption
  <2>2. Pow2[(WordBits - 1) + 1] = 2 * Pow2[WordBits - 1]
    BY <2>1, PowersOfTwo
  <2>3. Pow2[WordBits - 1] \in Nat \ {0}
    BY <2>1, PowerPositive
  <2>4. WordBits - 1 \in 0..(WordBits - 1) /\ WordSize = Pow2[WordBits]
    BY <2>1, WordAssumption
  <2> QED BY <2>1, <2>2, <2>3, <2>4
<1>7. PICK b \in Bit, left \in 0..(Pow2[WordBits - 1] - 1) :
        /\ word = b * Pow2[WordBits - 1] + left
        /\ (2 * word) \div WordSize = b
        /\ ((2 * word) % WordSize) + 1 = left * 2 + 1
  BY WordTaken
<1>8. ShiftIn(b) /\ ~Normalised /\ bitbuf' = left * 2 + 1
  BY <1>7 DEF Newword
<1>9. /\ m - 1 \in Nat
      /\ rvalue \in Nat /\ rvalue' = 2 * rvalue + b
      /\ Current.low = (2 * base) * Pow2[m - 1]
      /\ Current.size = isize' * Pow2[m - 1]
  BY <1>1, <1>8, DoublingLeft
<1>10. /\ inp * WordBits + m = InitialBits + Current.shifts + 0
       /\ First(p, inp) = rvalue + base
  <2>1. /\ inp * WordBits + m = InitialBits + Current.shifts + u
        /\ First(p, inp) = (rvalue + base) * Pow2[u] + unread
    BY <1>1 DEF Window
  <2>2. Pow2[0] = 1 /\ rvalue + base \in Nat
    BY <1>2, <1>9, PowersOfTwo
  <2>3. (rvalue + base) * Pow2[u] + unread = rvalue + base
    BY <1>3, <1>4, <2>2
  <2> QED BY <1>3, <2>1, <2>3
<1>11. left \in Nat /\ left < Pow2[WordBits - 1]
  BY <1>5, <1>7
<1>12. bitbuf' = left * Pow2[WordBits - (WordBits - 1)] + Pow2[WordBits - (WordBits - 1) - 1]
  <2>1. WordBits - (WordBits - 1) = 1 /\ WordBits - (WordBits - 1) - 1 = 0
    BY <1>5
  <2>2. Pow2[1] = 2 /\ Pow2[0] = 1
    <3>1. Pow2[0 + 1] = 2 * Pow2[0] /\ Pow2[0] = 1
      BY PowersOfTwo
    <3> QED BY <3>1
  <2> QED BY <1>8, <2>1, <2>2
<1>13. (inp + 1) * WordBits + (m - 1) = InitialBits + Current.shifts + (WordBits - 1)
  <2>1. (inp + 1) * WordBits = inp * WordBits + WordBits /\ inp * WordBits \in Nat
    BY <1>5
  <2>2. InitialBits \in Nat /\ Current.shifts \in Nat
    BY InitialBitsExist, CurrentProper
  <2> QED BY <1>2, <1>5, <1>10, <2>1, <2>2
<1>14. First(next, inp + 1) = (rvalue' + 2 * base) * Pow2[WordBits - 1] + left
  <2> DEFINE h == Pow2[WordBits - 1]
  <2>1. First(next, inp + 1) = First(p, inp) * WordSize + word
    BY DEF WordFollows
  <2>2. First(next, inp + 1) = (rvalue + base) * (2 * h) + (b * h + left)
    BY <1>5, <1>7, <1>10, <2>1
  <2>3. h \in Nat /\ b \in Nat
    BY <1>5, <1>7 DEF Bit
  <2> HIDE DEF h
  <2>4. (rvalue' + 2 * base) * h = (rvalue + base) * (2 * h) + b * h
    BY <1>2, <1>9, <2>3
  <2>5. First(next, inp + 1) = (rvalue' + 2 * base) * h + left
    BY <1>2, <1>9, <1>11, <2>2, <2>3, <2>4
  <2> QED BY <2>5 DEF h
<1>15. Current' = Current /\ First(next, inp)' = First(next, inp + 1)
  BY DEF Current, First, Reach, LastCoder
<1>16. Window(next, WordBits - 1, m - 1, 2 * base, left)'
  BY <1>2, <1>5, <1>9, <1>11, <1>12, <1>13, <1>14, <1>15 DEF Window
<1> QED BY <1>16 DEF Follows

(* The value of a normalised getbit lies in the part of the encoder's      *)
(* interval that the next bit took, wherever the code word ends.           *)
LEMMA InNextPart ==
  ASSUME DInv, CoderInv, ReceivedOK, Normalised,
         Len(received) < Len(sent), inp \in Nat, inp <= Reach,
         NEW p, Spells(p),
         NEW u, NEW m, NEW base, NEW unread, Window(p, u, m, base, unread),
         NEW c, c = sent[Len(received) + 1].context,
         NEW b, b = sent[Len(received) + 1].bit
  PROVE  /\ c \in Contexts /\ b \in Bit
         /\ Base(Current, c, b) <= rvalue + base
         /\ rvalue + base < Base(Current, c, b) + Part(Current, c, b)
         /\ Len(received) + 2 \in 1..Len(coder)
         /\ coder[Len(received) + 2] = Coded(Current, c, b)
<1> DEFINE n == Len(received) + 1
           t == coder[n + 1]
<1>1. /\ n \in Nat /\ n \in 1..Len(sent) /\ n \in 1..Len(coder) /\ n + 1 \in 1..Len(coder)
      /\ n + 1 = Len(received) + 2 /\ Reach \in Nat
  <2>1. Len(received) \in Nat /\ Len(received) + 1 \in 1..Len(coder) /\ Reach \in Nat
    BY CurrentProper, ReachProper
  <2>2. Len(coder) = Len(sent) + 1 /\ Len(sent) \in Nat
    BY DEF CoderInv
  <2> QED BY <2>1, <2>2
<1>2. c \in Contexts /\ b \in Bit
  <2>1. sent[n] \in Message
    BY <1>1 DEF CoderInv
  <2> QED BY <2>1 DEF Message
<1>3. t = Coded(Current, c, b)
  <2>1. coder[n + 1] = Coded(coder[n], sent[n].context, sent[n].bit)
    BY <1>1 DEF CoderInv
  <2> QED BY <2>1 DEF Current
<1>4. Current \in CoderStates /\ Current.shifts \in Nat
  BY CurrentProper
<1>5. PICK k \in Nat : /\ t.low = Base(Current, c, b) * Pow2[k]
                       /\ t.size = Part(Current, c, b) * Pow2[k]
                       /\ t.shifts = Current.shifts + k
  <2>1. \E k \in Nat :
           /\ Coded(Current, c, b).low = Base(Current, c, b) * Pow2[k]
           /\ Coded(Current, c, b).size = Part(Current, c, b) * Pow2[k]
           /\ Coded(Current, c, b).shifts = Current.shifts + k
    BY <1>2, <1>4, CodedFacts
  <2> QED BY ONLY <1>3, <2>1
<1>6. Room(n + 1) \in Nat /\ t.low * Pow2[Room(n + 1)] <= p
      /\ p < (t.low + t.size) * Pow2[Room(n + 1)] /\ p \in Nat
  BY <1>1, SpellsWithin DEF Spells
<1>7. Base(Current, c, b) \in Nat /\ Part(Current, c, b) \in Nat
  BY <1>2, <1>4, PartProper
<1> DEFINE lower == Base(Current, c, b)
           part == Part(Current, c, b)
           behind == (Reach - inp) * WordBits
<1>8. behind \in Nat /\ WordBits \in Nat \ {0} /\ u \in Nat
  <2>1. WordBits \in Nat \ {0} /\ Reach - inp \in Nat /\ u \in Nat
    BY <1>1, WordAssumption DEF Window
  <2> QED BY <2>1
<1>9. Room(n + 1) + k = behind + u
  <2>1. inp * WordBits + m = InitialBits + Current.shifts + u /\ m = 0
    <3>1. inp * WordBits + m = InitialBits + Current.shifts + u
      BY DEF Window
    <3>2. m = 0
      BY NormalisedExact
    <3> QED BY <3>1, <3>2
  <2>2. Room(n + 1) = Reach * WordBits - InitialBits - (Current.shifts + k)
    BY <1>5 DEF Room
  <2>3. /\ behind = Reach * WordBits - inp * WordBits
        /\ inp * WordBits \in Nat /\ Reach * WordBits \in Nat
    BY <1>1, <1>8
  <2>4. InitialBits \in Nat
    BY InitialBitsExist
  <2> DEFINE X == Reach * WordBits
             Y == inp * WordBits
  <2>5. /\ X \in Nat /\ Y \in Nat /\ behind = X - Y
        /\ Y + m = InitialBits + Current.shifts + u /\ m = 0
        /\ Room(n + 1) = X - InitialBits - (Current.shifts + k)
    BY <2>1, <2>2, <2>3
  <2> HIDE DEF behind, X, Y
  <2>6. Current.shifts \in Nat /\ k \in Nat /\ u \in Nat
    BY <1>4, <1>5, <1>8
  <2>7. Y = InitialBits + Current.shifts + u
    BY ONLY <2>5
  <2>8. Room(n + 1) + k = X - Y + u
    <3>1. X \in Nat /\ Room(n + 1) = X - InitialBits - (Current.shifts + k)
      BY ONLY <2>5
    <3> DEFINE S == Current.shifts
               r == Room(n + 1)
    <3>2. /\ X \in Nat /\ InitialBits \in Nat /\ S \in Nat /\ k \in Nat /\ u \in Nat
          /\ Y = InitialBits + S + u /\ r = X - InitialBits - (S + k)
      BY ONLY <2>4, <2>6, <2>7, <3>1
    <3> HIDE DEF S, r
    <3>3. r + k = X - Y + u
      BY ONLY <3>2
    <3> QED BY ONLY <3>3 DEF r
  <2> QED BY ONLY <2>5, <2>8
<1> DEFINE A == Pow2[behind]
           U == Pow2[u]
           R == rvalue + base
<1>10. /\ A \in Nat \ {0} /\ U \in Nat \ {0} /\ A * U \in Nat \ {0}
       /\ Pow2[Room(n + 1)] \in Nat /\ Pow2[k] \in Nat
       /\ Pow2[Room(n + 1)] * Pow2[k] = A * U
  <2>1. A \in Nat \ {0} /\ U \in Nat \ {0}
    BY <1>8, PowerPositive
  <2>2. Pow2[behind + u] = A * U
    BY <1>8, PowerSum
  <2>3. Pow2[Room(n + 1) + k] = Pow2[Room(n + 1)] * Pow2[k]
    BY <1>5, <1>6, PowerSum
  <2>4. Pow2[Room(n + 1)] \in Nat /\ Pow2[k] \in Nat
    BY <1>5, <1>6, PowerPositive
  <2>5. A * U \in Nat \ {0}
    <3> HIDE DEF A, U
    <3> QED BY <2>1
  <2>6. Pow2[Room(n + 1)] * Pow2[k] = A * U
    BY ONLY <1>9, <2>2, <2>3
  <2> QED BY <2>1, <2>4, <2>5, <2>6
<1>11. R \in Nat /\ unread \in Nat /\ unread < U /\ p \div A = R * U + unread
  BY DEF Window, First, DInv, DecoderTypeOK, Registers
<1> HIDE DEF t, lower, part, A, U, R
<1>12. lower * (A * U) <= p /\ p < (lower + part) * (A * U)
  <2> DEFINE P == Pow2[Room(n + 1)]
             K == Pow2[k]
  <2>1. /\ P \in Nat /\ K \in Nat /\ P * K = A * U /\ lower \in Nat /\ part \in Nat
        /\ t.low = lower * K /\ t.size = part * K
        /\ t.low * P <= p /\ p < (t.low + t.size) * P
    BY <1>5, <1>6, <1>7, <1>10 DEF lower, part
  <2> HIDE DEF P, K
  <2>2. (lower * K) * P = lower * (P * K) /\ (lower * K + part * K) * P = (lower + part) * (P * K)
    BY <2>1
  <2> QED BY <2>1, <2>2
<1>13. p \div (A * U) = R
  <2>1. p \div (A * U) = (p \div A) \div U
    <3>1. p \in Nat /\ A \in Nat \ {0} /\ U \in Nat \ {0}
      BY ONLY <1>6, <1>10
    <3> HIDE DEF A, U
    <3>2. \A x \in Nat : \A y, z \in Nat \ {0} : x \div (y * z) = (x \div y) \div z
      BY ONLY QuotientTwice
    <3> QED BY ONLY <3>1, <3>2
  <2>2. R * U <= R * U + unread /\ R * U + unread < R * U + U /\ R * U + unread \in Nat
    <3> HIDE DEF R, U
    <3>1. R * U \in Nat
      BY ONLY <1>10, <1>11
    <3> QED BY ONLY <1>10, <1>11, <3>1
  <2>3. (R * U + unread) \div U = R
    <3> DEFINE x == R * U + unread
    <3>1. x \in Nat /\ R * U <= x /\ x < R * U + U
      BY <2>2
    <3> HIDE DEF x
    <3>2. x \div U = R
      BY <1>10, <1>11, <3>1, QuotientUnique
    <3> QED BY <3>2 DEF x
  <2> QED BY <1>11, <2>1, <2>3
<1>14. R * (A * U) <= p /\ p < R * (A * U) + A * U
  BY <1>6, <1>10, <1>13, Quotient
<1>15. lower < R + 1 /\ R < lower + part
  <2> DEFINE B == A * U
  <2>1. /\ B \in Nat \ {0} /\ lower \in Nat /\ part \in Nat /\ p \in Nat
        /\ lower * B <= p /\ p < (lower + part) * B
        /\ R * B <= p /\ p < R * B + B /\ R \in Nat
    BY <1>6, <1>7, <1>10, <1>11, <1>12, <1>14 DEF lower, part
  <2> HIDE DEF B
  <2>2. lower * B < (R + 1) * B
    <3>1. (R + 1) * B = R * B + B /\ lower * B \in Nat /\ R * B \in Nat
      BY <2>1
    <3> QED BY <2>1, <3>1
  <2>3. R * B < (lower + part) * B
    <3>1. (lower + part) * B \in Nat /\ R * B \in Nat
      BY <2>1
    <3> QED BY <2>1, <3>1
  <2>4. lower < R + 1
    BY <2>1, <2>2, Cancel
  <2>5. R < lower + part
    BY <2>1, <2>3, Cancel
  <2> QED BY <2>4, <2>5
<1>16. lower <= R
  BY <1>7, <1>11, <1>15 DEF lower
<1> QED BY <1>1, <1>2, <1>3, <1>15, <1>16 DEF lower, part, R, t

(* getbit returns the bit that was encoded, and adapts as the encoder did. *)
LEMMA BitDecided ==
  ASSUME ChannelInv, Zero \/ One, NEW p, Spells(p),
         NEW u, NEW m, NEW base, NEW unread, Window(p, u, m, base, unread),
         NEW c, c = sent[Len(received) + 1].context,
         NEW b, b = sent[Len(received) + 1].bit
  PROVE  /\ carry' = b
         /\ rvalue' + Base(Current, c, b) = rvalue + base
         /\ isize' = Part(Current, c, b)
         /\ prob' = Coded(Current, c, b).prob
<1>1. /\ DInv /\ CoderInv /\ ReceivedOK /\ Normalised
      /\ Len(received) < Len(sent) /\ inp \in Nat /\ inp <= Reach
      /\ bitctx = c /\ prob = Current.prob
  BY DEF ChannelInv, Zero, One, ModelsAgree, Current
<1>2. /\ c \in Contexts /\ b \in Bit
      /\ Base(Current, c, b) <= rvalue + base
      /\ rvalue + base < Base(Current, c, b) + Part(Current, c, b)
  BY <1>1, InNextPart
<1>3. base = Current.low /\ isize = Current.size
  BY <1>1, NormalisedExact
<1>4. Threshold = Split(Current, c)
  BY <1>1, <1>3, ThresholdProper DEF Split
<1>5. /\ Threshold \in Nat /\ isize \in Nat /\ rvalue \in Nat /\ Current.low \in Nat
  BY <1>1, ThresholdProper, CurrentProper DEF DInv, DecoderTypeOK, Registers
<1>6. Coded(Current, c, b).prob = [prob EXCEPT ![c] = IF b = 0 THEN Decayed ELSE Decayed + Adjust]
  <2>1. Coded(Current, c, b).prob =
          [Current.prob EXCEPT ![c] =
             IF b = 0 THEN Current.prob[c] - Current.prob[c] \div AdjustDiv
             ELSE Current.prob[c] - Current.prob[c] \div AdjustDiv + Adjust]
    BY DEF Coded, Adjust
  <2>2. Decayed = Current.prob[c] - Current.prob[c] \div AdjustDiv
    BY <1>1 DEF Decayed
  <2> QED BY <1>1, <2>1, <2>2
<1>7. CASE b = 0
  <2>1. Base(Current, c, b) = Current.low + Threshold /\ Part(Current, c, b) = isize - Threshold
    BY <1>3, <1>4, <1>7 DEF Base, Part
  <2>2. rvalue >= Threshold
    BY <1>2, <1>3, <1>5, <2>1
  <2>3. Zero
    BY <1>5, <2>2 DEF One
  <2>4. /\ rvalue' = rvalue - Threshold /\ isize' = isize - Threshold
        /\ prob' = [prob EXCEPT ![bitctx] = Decayed] /\ carry' = 0
    BY <1>1, <2>3, ZeroStep
  <2>5. prob' = Coded(Current, c, b).prob
    BY <1>1, <1>6, <1>7, <2>4
  <2>6. rvalue' + Base(Current, c, b) = rvalue + base
    BY <1>3, <1>5, <2>1, <2>4
  <2> QED BY <1>7, <2>1, <2>4, <2>5, <2>6
<1>8. CASE b = 1
  <2>1. Base(Current, c, b) = Current.low /\ Part(Current, c, b) = Threshold
    BY <1>4, <1>8 DEF Base, Part
  <2>2. rvalue < Threshold
    BY <1>2, <1>3, <1>5, <2>1
  <2>3. One
    BY <1>5, <2>2 DEF Zero
  <2>4. /\ rvalue' = rvalue /\ isize' = Threshold
        /\ prob' = [prob EXCEPT ![bitctx] = Decayed + Adjust] /\ carry' = 1
    BY <1>1, <2>3, OneStep
  <2>5. prob' = Coded(Current, c, b).prob
    BY <1>1, <1>6, <1>8, <2>4
  <2>6. rvalue' + Base(Current, c, b) = rvalue + base
    BY <1>3, <1>5, <2>1, <2>4
  <2> QED BY <1>8, <2>1, <2>4, <2>5, <2>6
<1> QED BY <1>2, <1>7, <1>8 DEF Bit

LEMMA ReturnFollows ==
  ASSUME ChannelInv, closed, Return, NEW p, Spells(p), Follows(p)
  PROVE  /\ Follows(p)'
         /\ ReceivedOK'
         /\ ModelsAgree'
         /\ Len(received) < Len(sent)
         /\ received' = Append(received, sent[Len(received) + 1].bit)
<1>1. PICK u, m, base, unread : Window(p, u, m, base, unread)
  BY DEF Follows
<1>2. PICK c, b : c = sent[Len(received) + 1].context /\ b = sent[Len(received) + 1].bit
  OBVIOUS
<1>3. /\ DInv /\ CoderInv /\ ReceivedOK /\ Normalised /\ (Zero \/ One)
      /\ Len(received) < Len(sent) /\ inp \in Nat /\ inp <= Reach
  BY DEF ChannelInv, Return, Zero, One
<1>4. /\ sent' = sent /\ coder' = coder /\ words' = words /\ inp' = inp /\ bitbuf' = bitbuf
  BY DEF Return, Zero, One, sideVars
<1>5. /\ carry' = b
      /\ rvalue' + Base(Current, c, b) = rvalue + base
      /\ isize' = Part(Current, c, b)
      /\ prob' = Coded(Current, c, b).prob
  BY <1>1, <1>2, <1>3, BitDecided
<1>6. /\ c \in Contexts /\ b \in Bit
      /\ Len(received) + 2 \in 1..Len(coder)
      /\ coder[Len(received) + 2] = Coded(Current, c, b)
  BY <1>1, <1>2, <1>3, InNextPart
<1>7. /\ Len(received) \in Nat /\ Current \in CoderStates
      /\ Len(sent) \in Nat /\ received \in Seq(Bit)
  BY <1>3, CurrentProper DEF CoderInv, ReceivedOK
<1>8. /\ received' = Append(received, b)
      /\ received' \in Seq(Bit) /\ Len(received') = Len(received) + 1
      /\ \A j \in 1..Len(received) : received'[j] = received[j]
      /\ received'[Len(received) + 1] = b
  <2>1. received' = Append(received, b)
    BY <1>5 DEF Return
  <2> QED BY <1>6, <1>7, <2>1
<1>9. Current' = Coded(Current, c, b)
  <2>1. Len(received') + 1 = Len(received) + 2
    BY <1>7, <1>8
  <2> QED BY <1>4, <1>6, <2>1 DEF Current
<1>10. ReceivedOK'
  <2>1. Len(received') <= Len(sent')
    BY <1>3, <1>4, <1>7, <1>8
  <2>2. ASSUME NEW j \in 1..Len(received')
        PROVE  received'[j] = sent'[j].bit
    <3>1. CASE j = Len(received) + 1
      BY <1>2, <1>4, <1>8, <3>1
    <3>2. CASE j # Len(received) + 1
      <4>1. j \in 1..Len(received)
        BY <1>7, <1>8, <3>2
      <4> QED BY <1>3, <1>4, <1>8, <4>1 DEF ReceivedOK
    <3> QED BY <3>1, <3>2
  <2> QED BY <1>8, <2>1, <2>2 DEF ReceivedOK
<1>11. ModelsAgree'
  BY <1>5, <1>9 DEF ModelsAgree, Current
<1>12. PICK k \in Nat : /\ Current'.low = Base(Current, c, b) * Pow2[k]
                        /\ Current'.size = isize' * Pow2[k]
                        /\ Current'.shifts = Current.shifts + k
  BY <1>5, <1>6, <1>7, <1>9, CodedFacts
<1>13. PICK lower : lower = Base(Current, c, b)
  OBVIOUS
<1>14. lower \in Nat
  BY <1>6, <1>7, <1>13, PartProper
<1>15. Window(p, u, k, lower, unread)'
  <2>1. /\ u \in 0..(WordBits - 1) /\ unread \in Nat /\ unread < Pow2[u]
        /\ bitbuf = unread * Pow2[WordBits - u] + Pow2[WordBits - u - 1]
        /\ inp * WordBits + m = InitialBits + Current.shifts + u
        /\ First(p, inp) = (rvalue + base) * Pow2[u] + unread
    BY <1>1 DEF Window
  <2>2. First(p, inp)' = First(p, inp)
    BY <1>4 DEF First, Reach, LastCoder
  <2>3. m = 0
    BY <1>1, <1>3, NormalisedExact
  <2>4. inp' * WordBits + k = InitialBits + Current'.shifts + u
    <3>1. inp * WordBits \in Nat /\ InitialBits \in Nat /\ Current.shifts \in Nat /\ u \in Nat
      BY <1>3, <2>1, WordAssumption, InitialBitsExist, CurrentProper
    <3>2. inp * WordBits + 0 = InitialBits + Current.shifts + u
      BY <2>1, <2>3
    <3>3. inp * WordBits + k = InitialBits + (Current.shifts + k) + u
      BY ONLY <3>1, <3>2, <1>12
    <3> QED BY <1>4, <1>12, <3>3
  <2>5. First(p, inp)' = (rvalue' + lower) * Pow2[u] + unread
    BY <1>5, <1>13, <2>1, <2>2
  <2> QED BY <1>4, <1>12, <1>13, <1>14, <2>1, <2>4, <2>5 DEF Window
<1>16. Follows(p)'
  BY <1>15 DEF Follows
<1> QED BY <1>2, <1>3, <1>8, <1>10, <1>11, <1>16

-----------------------------------------------------------------------------
LEMMA ChannelInitEstablishes == ChannelInit => ChannelInv
<1> SUFFICES ASSUME ChannelInit
             PROVE  ChannelInv
  OBVIOUS
<1>1. DInv /\ CoderInv
  BY DecoderInitEstablishes, CoderInitEstablishes DEF ChannelInit
<1>2. /\ received = << >> /\ inp = 0 /\ words = << >> /\ closed = FALSE /\ sent = << >>
      /\ rvalue = 0 /\ isize = 1 /\ bitbuf = WordSize \div 2 /\ pc = "caller"
      /\ coder = <<CoderStart>> /\ prob = [c \in Contexts |-> InitOneProb]
  BY DEF ChannelInit, DecoderInit
<1>3. ReceivedOK
  BY <1>2 DEF ReceivedOK
<1>4. ModelsAgree
  BY <1>2 DEF ModelsAgree, CoderStart
<1>5. inp \in Nat /\ inp <= Reach
  BY <1>1, <1>2, ReachProper
<1> QED BY <1>1, <1>2, <1>3, <1>4, <1>5 DEF ChannelInv

(* Before the first word, getbit is in the encoder's first interval.       *)
LEMMA StartFollows ==
  ASSUME CoderInv', received' = << >>, inp' = 0, rvalue' = 0, isize' = 1,
         bitbuf' = WordSize \div 2, NEW p, Spells(p)'
  PROVE  Follows(p)'
<1>1. Current' = CoderStart
  BY DEF Current, CoderInv
<1>2. /\ Current'.low = 0 /\ Current'.size = Half /\ Current'.shifts = 0
  BY <1>1 DEF CoderStart
<1>3. WordBits - 1 \in Nat /\ (WordBits - 1) + 1 = WordBits /\ WordBits - 0 = WordBits
      /\ WordBits - 0 - 1 = WordBits - 1 /\ WordBits \in Nat
  BY WordAssumption
<1>4. bitbuf' = 0 * Pow2[WordBits - 0] + Pow2[WordBits - 0 - 1]
  <2>1. Pow2[(WordBits - 1) + 1] = 2 * Pow2[WordBits - 1]
    BY <1>3, PowersOfTwo
  <2>2. Pow2[WordBits - 1] \in Nat /\ Pow2[WordBits] \in Nat
    BY <1>3, PowerPositive
  <2>3. WordSize = 2 * Pow2[WordBits - 1]
    BY <1>3, <2>1, WordAssumption
  <2> QED BY <1>3, <2>2, <2>3
<1>5. Pow2[0] = 1 /\ InitialBits \in Nat /\ Pow2[InitialBits] = Half
  BY PowersOfTwo, InitialBitsExist
<1>6. inp' * WordBits + InitialBits = InitialBits + Current'.shifts + 0
  BY <1>2, <1>3, <1>5
<1>7. Current'.low = 0 * Pow2[InitialBits] /\ Current'.size = isize' * Pow2[InitialBits]
  BY <1>2, <1>5, DecoderAssumption
<1>8. First(p, inp)' = (rvalue' + 0) * Pow2[0] + 0
  BY <1>5 DEF Spells
<1>9. Window(p, 0, InitialBits, 0, 0)'
  BY <1>3, <1>4, <1>5, <1>6, <1>7, <1>8 DEF Window
<1> QED BY <1>9 DEF Follows

LEMMA FollowsKept ==
  ASSUME UNCHANGED <<rvalue, isize, bitbuf, coder, words, inp, received>>,
         NEW p, Spells(p), Follows(p)
  PROVE  Spells(p)' /\ Follows(p)'
<1>1. Spells(p)'
  BY DEF Spells, First, Room, Unwritten, Reach, LastCoder
<1>2. PICK u, m, base, unread : Window(p, u, m, base, unread)
  BY DEF Follows
<1>3. Current' = Current /\ First(p, inp)' = First(p, inp)
  BY DEF Current, First, Reach, LastCoder
<1>4. Window(p, u, m, base, unread)'
  BY <1>2, <1>3 DEF Window
<1> QED BY <1>1, <1>4 DEF Follows

LEMMA ChannelStepPreserves ==
  ChannelInv /\ [ChannelNext]_channelVars => ChannelInv'
<1> SUFFICES ASSUME ChannelInv, [ChannelNext]_channelVars
             PROVE  ChannelInv'
  OBVIOUS
<1>0. /\ DInv /\ CoderInv /\ ReceivedOK /\ ModelsAgree
      /\ closed \in BOOLEAN /\ inp \in Nat /\ inp <= Reach
  BY DEF ChannelInv
<1>1. ASSUME NEW c \in Contexts, NEW b \in Bit, EncodeBit(c, b)
      PROVE  ChannelInv'
  <2>1. CoderInv'
    BY <1>0, <1>1, EncodeBitPreserves
  <2>2. /\ UNCHANGED <<decoderVars, words, closed, inp, received>>
        /\ ~closed /\ Len(sent') = Len(sent) + 1
    BY <1>0, <1>1 DEF EncodeBit, CoderInv
  <2>3. received' = << >> /\ pc = "caller" /\ inp = 0
    BY <1>0, <2>2 DEF ChannelInv, DInv, DecoderTypeOK
  <2>4. DInv'
    BY <1>0, <2>2 DEF decoderVars, DInv, DecoderTypeOK, ValueInInterval
  <2>5. ReceivedOK'
    BY <1>0, <2>1, <2>3 DEF ReceivedOK, CoderInv
  <2>6. ModelsAgree'
    <3>1. prob = coder[1].prob /\ received = << >>
      BY <1>0, <2>2, <2>3 DEF ModelsAgree
    <3>2. coder'[1] = coder[1]
      BY <1>0, <2>1 DEF CoderInv
    <3> QED BY <2>2, <2>3, <3>1, <3>2 DEF ModelsAgree, decoderVars
  <2>7. inp' \in Nat /\ inp' <= Reach'
    <3>1. Reach' \in Nat
      BY <2>1, ReachedLater
    <3> QED BY <2>2, <2>3, <3>1
  <2> QED
    BY <1>0, <2>1, <2>2, <2>3, <2>4, <2>5, <2>6, <2>7 DEF ChannelInv, decoderVars
<1>2. ASSUME NEW rest \in 0..InitialBits, NEW codeword \in Nat, Close(codeword, rest)
      PROVE  ChannelInv'
  <2>1. PICK p : Spells(p)'
    BY <1>0, <1>2, CloseSpells
  <2>2. UNCHANGED <<decoderVars, sent, coder, inp, received>> /\ ~closed /\ closed' = TRUE
    BY <1>2 DEF Close
  <2>3. /\ received = << >> /\ inp = 0 /\ rvalue = 0 /\ isize = 1
        /\ bitbuf = WordSize \div 2 /\ pc = "caller"
    BY <1>0, <2>2 DEF ChannelInv, DInv, DecoderTypeOK
  <2>4. DInv'
    BY <1>0, <2>2 DEF decoderVars, DInv, DecoderTypeOK, ValueInInterval
  <2>5. LastCoder' = LastCoder
    BY <2>2 DEF LastCoder
  <2>6. CoderInv'
    BY <1>0, <2>2, <2>5 DEF CoderInv
  <2>7. ReceivedOK' /\ ModelsAgree'
    BY <1>0, <2>2 DEF ReceivedOK, ModelsAgree, decoderVars
  <2>8. Follows(p)'
    <3>1. (received = << >> /\ inp = 0 /\ rvalue = 0 /\ isize = 1 /\ bitbuf = WordSize \div 2)'
      BY <2>2, <2>3 DEF decoderVars
    <3> QED BY <2>1, <2>6, <3>1, StartFollows
  <2>9. inp' \in Nat /\ inp' <= Reach'
    BY <1>0, <2>2, <2>5 DEF Reach
  <2> QED
    BY <2>1, <2>2, <2>3, <2>4, <2>6, <2>7, <2>8, <2>9 DEF ChannelInv, decoderVars
<1>3. ASSUME Call
      PROVE  ChannelInv'
  <2> DEFINE c == sent[Len(received) + 1].context
  <2>1. /\ UNCHANGED <<sideVars, inp, received>> /\ Getbit(c) /\ closed
        /\ Len(received) < Len(sent)
    BY <1>3 DEF Call
  <2>2. c \in Contexts
    <3>1. Len(received) + 1 \in 1..Len(sent)
      BY <1>0, <2>1 DEF ReceivedOK, CoderInv
    <3>2. sent[Len(received) + 1] \in Message
      BY <1>0, <3>1 DEF CoderInv
    <3> QED BY <3>2 DEF Message
  <2>3. DInv'
    BY <1>0, <2>1, <2>2, DecoderStepPreserves DEF DecoderNext
  <2>4. /\ UNCHANGED <<prob, rvalue, isize, bitbuf>> /\ bitctx' = c /\ pc' = "loop_condition"
    BY <2>1 DEF Getbit
  <2>5. /\ CoderInv' /\ ReceivedOK' /\ ModelsAgree'
    BY <1>0, <2>1, <2>4 DEF CoderInv, LastCoder, ReceivedOK, ModelsAgree, sideVars
  <2>8. Reach' = Reach
    BY <2>1 DEF Reach, LastCoder, sideVars
  <2>6. PICK p : Spells(p) /\ Follows(p)
    BY <2>1 DEF ChannelInv
  <2>7. Spells(p)' /\ Follows(p)'
    BY <2>1, <2>4, <2>6, FollowsKept DEF sideVars
  <2> QED
    BY <1>0, <2>1, <2>3, <2>4, <2>5, <2>7, <2>8 DEF ChannelInv, sideVars
<1>4. CASE Refill
  <2>1. UNCHANGED <<sideVars, received>> /\ pc = "loop_condition" /\ UNCHANGED <<pc, bitctx, prob>>
    BY <1>4 DEF Refill, Readbit, Newword
  <2>2. closed /\ Len(received) < Len(sent) /\ bitctx = sent[Len(received) + 1].context
    BY <2>1 DEF ChannelInv
  <2>3. PICK p : Spells(p) /\ Follows(p)
    BY <2>2 DEF ChannelInv
  <2>4. CoderInv' /\ ReceivedOK' /\ ModelsAgree' /\ Reach' = Reach
    BY <1>0, <2>1 DEF CoderInv, LastCoder, ReceivedOK, ModelsAgree, Reach, sideVars
  <2>a. ASSUME NEW next, Spells(next)
        PROVE  Spells(next)'
    BY <2>1, <2>a DEF Spells, First, Room, Unwritten, Reach, LastCoder, sideVars
  <2>5. CASE Readbit /\ inp' = inp
    <3>1. Follows(p)'
      BY <1>0, <2>1, <2>3, <2>5, ReadbitFollows DEF sideVars
    <3>2. DInv'
      <4>1. 0 \in Word
        BY DecoderAssumption DEF Word
      <4> QED BY <1>0, <2>5, <4>1, DecoderStepPreserves DEF DecoderNext, Step
    <3>3. Spells(p)'
      BY <2>3, <2>a
    <3> QED
      BY <1>0, <2>1, <2>2, <2>4, <2>5, <3>1, <3>2, <3>3 DEF ChannelInv, sideVars
  <2>6. ASSUME NEW word \in WordsAt(inp), Newword(word), inp' = inp + 1
        PROVE  ChannelInv'
    <3>1. inp < Reach
      BY <1>0, <2>3, <2>6, WantsWithinReach DEF Newword
    <3>2. PICK next : /\ Spells(next) /\ First(next, inp) = First(p, inp)
                      /\ WordFollows(next, inp, word)
      BY <1>0, <2>3, <3>1, WordsFollow
    <3>3. word \in Word
      BY <1>0, <2>3, <3>1, WordsFollow
    <3>4. Follows(next)'
      BY <1>0, <2>1, <2>3, <2>6, <3>2, <3>3, NewwordFollows DEF sideVars
    <3>5. DInv'
      BY <1>0, <2>6, <3>3, DecoderStepPreserves DEF DecoderNext, Step
    <3>6. inp' \in Nat /\ inp' <= Reach'
      <4>1. Reach \in Nat
        BY <1>0, ReachProper
      <4> QED BY <1>0, <2>4, <2>6, <3>1, <4>1
    <3>7. Spells(next)'
      BY <2>a, <3>2
    <3> QED
      BY <1>0, <2>1, <2>2, <2>4, <3>4, <3>5, <3>6, <3>7 DEF ChannelInv, sideVars
  <2> QED BY <1>4, <2>5, <2>6 DEF Refill
<1>5. CASE Return
  <2>1. UNCHANGED <<sideVars, inp>> /\ pc = "loop_condition" /\ pc' = "caller" /\ (Zero \/ One)
    BY <1>5 DEF Return, Zero, One
  <2>2. closed
    BY <2>1 DEF ChannelInv
  <2>3. PICK p : Spells(p) /\ Follows(p)
    BY <2>2 DEF ChannelInv
  <2>4. Follows(p)' /\ ReceivedOK' /\ ModelsAgree'
    BY <1>5, <2>2, <2>3, ReturnFollows
  <2>5. Spells(p)' /\ CoderInv' /\ Reach' = Reach
    BY <1>0, <2>1, <2>3 DEF Spells, First, Room, Unwritten, Reach, CoderInv, LastCoder, sideVars
  <2>6. DInv'
    <3>1. 0 \in Word
      BY DecoderAssumption DEF Word
    <3> QED BY <1>0, <2>1, <3>1, DecoderStepPreserves DEF DecoderNext, Step
  <2> QED
    BY <1>0, <2>1, <2>2, <2>4, <2>5, <2>6 DEF ChannelInv, sideVars
<1>6. CASE UNCHANGED channelVars
  <2>1. /\ UNCHANGED <<pc, bitctx, prob, rvalue, isize, bitbuf, carry>>
        /\ UNCHANGED <<sent, coder, words, closed, inp, received>>
    BY <1>6 DEF channelVars, decoderVars
  <2>2. DInv'
    BY <1>0, <2>1 DEF DInv, DecoderTypeOK, ValueInInterval
  <2>3. CoderInv' /\ ReceivedOK' /\ ModelsAgree' /\ Reach' = Reach
    BY <1>0, <2>1 DEF CoderInv, LastCoder, ReceivedOK, ModelsAgree, Reach
  <2>4. ASSUME NEW p, Spells(p) /\ Follows(p)
        PROVE  Spells(p)' /\ Follows(p)'
    BY <2>1, <2>4, FollowsKept
  <2> QED BY <1>0, <2>1, <2>2, <2>3, <2>4 DEF ChannelInv
<1>7. CASE \E rest \in 0..InitialBits :
               \E codeword \in (LastCoder.low \div Pow2[rest])..(LastCoder.low + LastCoder.size) :
                 Close(codeword, rest)
  BY <1>0, <1>2, <1>7, ClosesWithNat
<1> QED
  BY <1>1, <1>3, <1>4, <1>5, <1>6, <1>7 DEF ChannelNext, Decode, Done

-----------------------------------------------------------------------------
(* The inductive invariant of encoder and decoder together: the words      *)
(* spell a number in every interval the encoder had, and getbit is always  *)
(* in one of them, short of it by some doublings.                          *)
THEOREM ChannelInvariance == ChannelSpec => []ChannelInv
<1> QED BY ChannelInitEstablishes, ChannelStepPreserves, PTL DEF ChannelSpec

(* For every message, and whatever follows the code word in the ROM,       *)
(* getbit's table is after every bit what the encoder's was.               *)
THEOREM AdaptationAgrees == ChannelSpec => []ModelsAgree
<1>1. ChannelInv => ModelsAgree
  BY DEF ChannelInv
<1> QED BY <1>1, ChannelInvariance, PTL

LEMMA LoadedJustBehind ==
  ChannelInv => ReadsJustBehind
<1> SUFFICES ASSUME ChannelInv
             PROVE  (inp - 1 - Len(words)) * WordBits < InitialBits
  BY DEF ReadsJustBehind
<1>1. /\ CoderInv /\ inp \in Nat /\ inp <= Reach /\ closed \in BOOLEAN
      /\ Reach \in Nat /\ InitialBits \in Nat /\ LastCoder.shifts \in Nat
      /\ Reach * WordBits - (InitialBits + LastCoder.shifts) \in 0..(WordBits - 1)
      /\ WordBits \in Nat \ {0}
  BY ReachProper, WordAssumption DEF ChannelInv
<1>2. CASE ~closed
  <2>1. inp = 0 /\ Len(words) = 0
    BY <1>2 DEF ChannelInv
  <2> QED BY <1>1, <2>1
<1>3. CASE closed
  <2>1. PICK p : Spells(p)
    BY <1>3 DEF ChannelInv
  <2>2. Len(words) \in Nat /\ LastCoder.shifts <= Len(words) * WordBits
    BY <2>1 DEF Spells
  <2> DEFINE X == Reach * WordBits
             Y == inp * WordBits
             Z == Len(words) * WordBits
             S == LastCoder.shifts
  <2>3. X \in Nat /\ Y \in Nat /\ Z \in Nat /\ S \in Nat
    BY <1>1, <2>2
  <2>4. Y <= X
    <3>1. WordBits * inp <= WordBits * Reach
      BY <1>1, ProductMonotone
    <3> QED BY <1>1, <3>1
  <2>5. (inp - 1 - Len(words)) * WordBits = Y - WordBits - Z
    BY <1>1, <2>2
  <2>6. X - (InitialBits + S) \in 0..(WordBits - 1) /\ S <= Z
    BY <1>1, <2>2
  <2> HIDE DEF X, Y, Z, S
  <2>7. Y - WordBits - Z < InitialBits
    BY ONLY <1>1, <2>3, <2>4, <2>6
  <2> QED BY <2>5, <2>7
<1> QED BY <1>1, <1>2, <1>3

(* For every message, and however short the code word is that its data     *)
(* ends with, getbit loads a word from behind the data only while an       *)
(* interval's bits are not complete: on the GBA, one at most.              *)
THEOREM NeverReadsFarBehind == ChannelSpec => []ReadsJustBehind
<1> QED BY ChannelInvariance, LoadedJustBehind, PTL

(* Every step of encoder and decoder is a step of the channel of bits.     *)
LEMMA StepsDeliver ==
  ChannelInv /\ [ChannelNext]_channelVars => [Channel!Next]_(Channel!vars)
<1> SUFFICES ASSUME ChannelInv, [ChannelNext]_channelVars
             PROVE  [Channel!Next]_(Channel!vars)
  OBVIOUS
<1> USE DEF Channel!vars
<1>1. ASSUME NEW c \in Contexts, NEW b \in Bit, EncodeBit(c, b)
      PROVE  Channel!Send
  <2> DEFINE e == [context |-> c, bit |-> b]
  <2>1. /\ ~closed /\ closed' = closed /\ received' = received
        /\ sent' = Append(sent, e) /\ sent \in Seq(Message)
    BY <1>1 DEF EncodeBit, ChannelInv, CoderInv
  <2>2. e \in Message
    BY DEF Message
  <2> HIDE DEF e
  <2>3. Len(sent') = Len(sent) + 1 /\ SubSeq(sent', 1, Len(sent)) = sent
    BY <2>1, <2>2
  <2> QED BY <2>1, <2>3 DEF Channel!Send
<1>2. ASSUME NEW rest, NEW codeword, Close(codeword, rest)
      PROVE  Channel!Close
  BY <1>2 DEF Close, Channel!Close
<1>3. CASE Call
  BY <1>3 DEF Call, sideVars
<1>4. CASE Refill
  BY <1>4 DEF Refill, sideVars
<1>5. CASE Return
  <2>1. closed /\ UNCHANGED sideVars
    BY <1>5 DEF ChannelInv, Return, Zero, One
  <2>2. PICK p : Spells(p) /\ Follows(p)
    BY <2>1 DEF ChannelInv
  <2>3. /\ Len(received) < Len(sent)
        /\ received' = Append(received, sent[Len(received) + 1].bit)
    BY <1>5, <2>1, <2>2, ReturnFollows
  <2> QED BY <2>1, <2>3 DEF Channel!Receive, Channel!Next, sideVars
<1>6. CASE UNCHANGED channelVars
  BY <1>6 DEF channelVars
<1> QED
  BY <1>1, <1>2, <1>3, <1>4, <1>5, <1>6 DEF ChannelNext, Decode, Done, Channel!Next

(* The safety half of DeliversBits, for every message: only bits that were *)
(* encoded come out, in their order. (That all of them do is checked.)     *)
THEOREM DeliversSafely == ChannelSpec => Channel!Init /\ [][Channel!Next]_(Channel!vars)
<1>1. ChannelInit => Channel!Init
  BY DEF ChannelInit, Channel!Init
<1>2. ChannelSpec => []ChannelInv /\ [][ChannelNext]_channelVars
  BY ChannelInvariance, PTL DEF ChannelSpec
<1> QED BY <1>1, <1>2, StepsDeliver, PTL DEF ChannelSpec
=============================================================================
