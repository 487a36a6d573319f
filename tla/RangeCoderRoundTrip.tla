-------------------------- MODULE RangeCoderRoundTrip --------------------------
(***************************************************************************)
(* getbit decoding what libshrinkler's range coder (external) encoded.     *)
(* The encoder narrows an interval of code words: the decoder must take    *)
(* the same part for every bit, whichever code word the encoder settles    *)
(* on, however early that ends and whatever follows it in the ROM, and     *)
(* refill its buffer of words without losing or inventing a bit.           *)
(***************************************************************************)
EXTENDS RangeDecoder, Sequences, Powers

CONSTANTS
  WordBits,  \* bits of a word (32)
  MaxBits    \* bound: bits of a message

\* The encoder counts the bits that its interval and a word are worth.
ASSUME WordAssumption ==
  /\ WordBits \in Nat \ {0} /\ WordSize = Pow2[WordBits]
  /\ \E n \in 0..Half : Half = Pow2[n]

VARIABLES
  sent,      \* the message: [context, bit] records
  coder,     \* the encoder's states: at the start, and after every bit
  words,     \* the compressed data, which ends with the code word
  closed,    \* the encoder is done
  inp,       \* words that getbit has loaded
  received   \* the bits getbit has returned

channelVars == <<decoderVars, sent, coder, words, closed, inp, received>>
sideVars == <<sent, coder, words, closed>>

\* A state of the encoder: the table of contexts, the interval of code words
\* that decode to the message, and how often it has been doubled.
CoderStart ==
  [prob |-> [c \in Contexts |-> InitOneProb], low |-> 0, size |-> Half, shifts |-> 0]

\* A zero takes the upper part of the interval, a one the lower part, which
\* is doubled until it is normalised.
Coded(s, c, b) ==
  LET threshold == (s.size * s.prob[c]) \div ProbOne
      part == IF b = 0 THEN s.size - threshold ELSE threshold
      k == CHOOSE n \in 0..Half : part * Pow2[n] \in Half..(ProbOne - 1)
      decayed == s.prob[c] - s.prob[c] \div AdjustDiv
  IN  [prob |-> [s.prob EXCEPT ![c] =
                   IF b = 0 THEN decayed ELSE decayed + (ProbOne - 1) \div AdjustDiv],
       low |-> (IF b = 0 THEN s.low + threshold ELSE s.low) * Pow2[k],
       size |-> part * Pow2[k],
       shifts |-> s.shifts + k]

LastCoder == coder[Len(coder)]

ChannelInit ==
  /\ DecoderInit
  /\ bitctx = CHOOSE c \in Contexts : TRUE
  /\ sent = << >> /\ coder = <<CoderStart>>
  /\ words = << >> /\ closed = FALSE
  /\ inp = 0 /\ received = << >>

EncodeBit(c, b) ==
  /\ ~closed /\ Len(sent) < MaxBits
  /\ sent' = Append(sent, [context |-> c, bit |-> b])
  /\ coder' = Append(coder, Coded(LastCoder, c, b))
  /\ UNCHANGED <<decoderVars, words, closed, inp, received>>

\* The bits of the initial interval.
InitialBits == CHOOSE n \in 0..Half : Pow2[n] = Half

\* bits of n, most significant first, cut into words and padded with zeros
Words(n, bits) ==
  LET count == (bits + WordBits - 1) \div WordBits
      padded == n * Pow2[count * WordBits - bits]
  IN  [i \in 1..count |-> (padded \div Pow2[(count - i) * WordBits]) % WordSize]

\* A code word may end once all that can follow it lies in the interval, so
\* rest of the bits that the decoder will want need not be written.
Close(codeword, rest) ==
  /\ ~closed
  /\ LastCoder.low <= codeword * Pow2[rest]
  /\ (codeword + 1) * Pow2[rest] <= LastCoder.low + LastCoder.size
  /\ closed' = TRUE
  /\ words' = Words(codeword, InitialBits + LastCoder.shifts - rest)
  /\ UNCHANGED <<decoderVars, sent, coder, inp, received>>

\* The caller asks for the bits in the contexts they were encoded in.
Call ==
  /\ closed
  /\ Len(received) < Len(sent)
  /\ Getbit(sent[Len(received) + 1].context)
  /\ UNCHANGED <<sideVars, inp, received>>

\* Nothing tells getbit where the data ends: what follows may be anything.
WordsAt(i) == IF i < Len(words) THEN {words[i + 1]} ELSE Word

Refill ==
  \/ Readbit /\ UNCHANGED <<sideVars, inp, received>>
  \/ /\ \E word \in WordsAt(inp) : Newword(word)
     /\ inp' = inp + 1
     /\ UNCHANGED <<sideVars, received>>

Return ==
  /\ Zero \/ One
  /\ received' = Append(received, carry')
  /\ UNCHANGED <<sideVars, inp>>

Decode == Call \/ Refill \/ Return

Done == closed /\ received = [i \in 1..Len(sent) |-> sent[i].bit] /\ UNCHANGED channelVars

ChannelNext ==
  \/ \E c \in Contexts, b \in Bit : EncodeBit(c, b)
  \/ \E rest \in 0..InitialBits :
       \E codeword \in (LastCoder.low \div Pow2[rest])..(LastCoder.low + LastCoder.size) :
         Close(codeword, rest)
  \/ Decode
  \/ Done

\* The CPU goes on executing the depacker.
ChannelSpec ==
  /\ ChannelInit
  /\ [][ChannelNext]_channelVars
  /\ WF_channelVars(Decode)

-----------------------------------------------------------------------------
\* Encoder and decoder adapt alike: after every bit, the decoder's table holds
\* the probabilities that the encoder's held after that bit (the depacker's
\* INIT_ONE_PROB and ADJUST_SHIFT are the encoder's, and its halfword
\* arithmetic never cuts a probability).
ModelsAgree == prob = coder[Len(received) + 1].prob

\* The words that getbit loads from behind the compressed data begin less
\* than the bits of an interval (15) behind it: however short the code word
\* is that the data ends with, one word (32) at most is not the encoder's.
ReadsJustBehind == (inp - 1 - Len(words)) * WordBits < InitialBits

Channel ==
  INSTANCE BitChannel WITH
    sent <- sent, open <- ~closed, received <- received

\* getbit delivers the bits that were encoded, in order, and all of them.
DeliversBits == Channel!Spec
=============================================================================
