--------------------------- MODULE ShrinklerEncoder ---------------------------
(***************************************************************************)
(* External: the LZ layer of libshrinkler's encoder, as the depacker in    *)
(* shrinkler_packer.cpp presumes it.  It names the context of every bit;   *)
(* RangeCoderRoundTrip.tla models how they are packed into words.  Data    *)
(* and stream grow together, symbol by symbol: every intro and every way   *)
(* to parse it into the symbols below is some run.                         *)
(***************************************************************************)
EXTENDS Integers, Sequences, Powers

CONSTANTS
  ByteBits,    \* bits of a byte (8)
  Literals,    \* byte values that occur as literals
  Offsets,     \* offsets that occur in references
  Lengths,     \* lengths that occur in references
  MaxSymbols,  \* bound: literals and references of a stream
  MaxData      \* bound: bytes of the intro

\* A reference goes back, and one of fewer than two bytes cannot be encoded.
ASSUME EncoderAssumption ==
  /\ ByteBits \in Nat
  /\ Literals \subseteq 0..(Pow2[ByteBits] - 1)
  /\ Offsets \subseteq Nat \ {0}
  /\ Lengths \subseteq Nat \ {0, 1}

VARIABLES
  data,        \* the bytes encoded so far
  stream,      \* the bits that encode them, each with its context
  symbols      \* the literals, references and the end marker they encode

encoderVars == <<data, stream, symbols>>

LastSymbol == symbols[Len(symbols)]

\* The end marker has been written.
complete == symbols # << >> /\ LastSymbol.kind = "end"

\* A symbol, where its bits and its bytes start, and what it depends on: the
\* kind of the previous symbol and the offset of the previous reference.
Symbol(kind, byte, off, length) ==
  [kind |-> kind, byte |-> byte, offset |-> off, length |-> length,
   start |-> Len(stream), to |-> Len(data),
   previous |-> IF symbols = << >> THEN "none" ELSE LastSymbol.kind,
   lastOffset |-> IF symbols = << >> THEN 0
                  ELSE IF LastSymbol.kind = "reference" THEN LastSymbol.offset ELSE LastSymbol.lastOffset]

-----------------------------------------------------------------------------
(* The bits of a symbol, each with the context it is coded in.             *)

Item(use, index, bit) == [context |-> [use |-> use, index |-> index], bit |-> bit]

\* Literals and kinds have a context per parity of the position in the data.
LiteralIndex(s, prefix) == Pow2[ByteBits] * (s.to % 2) + prefix

KindBits(s) ==
  IF s.previous = "none"
    THEN << >>
    ELSE << Item("literal", LiteralIndex(s, 0), IF s.kind = "literal" THEN 0 ELSE 1) >>

\* A one, and the n most significant bits of a byte.
Prefix(byte, n) == (Pow2[ByteBits] + byte) \div Pow2[ByteBits - n]

\* Most significant bit first, in the context of the bits before it.
LiteralBits(s) ==
  [n \in 1..ByteBits |->
     Item("literal", LiteralIndex(s, Prefix(s.byte, n - 1)), Prefix(s.byte, n) % 2)]

\* Two bits are the shortest number: its excess over that.
Excess(number) ==
  CHOOSE k \in 0..number : Pow2[k + 1] <= number /\ number < Pow2[k + 2]

\* number >= 2: its length in unary at even indices, its bits at odd ones.
NumberBits(use, number) ==
  LET k == Excess(number)
  IN  [n \in 1..(k + 1) |-> Item(use, 2 * n, IF n <= k THEN 1 ELSE 0)]
        \o [n \in 1..(k + 1) |->
              Item(use, 2 * (k + 1 - n) + 1, (number \div Pow2[k + 1 - n]) % 2)]

Repeats(s) ==
  s.kind = "reference" /\ s.previous = "literal" /\ s.offset = s.lastOffset

\* Only a reference behind a literal says whether it repeats the offset.
RepeatBits(s) ==
  IF s.previous = "literal"
    THEN << Item("repeat", 0, IF Repeats(s) THEN 1 ELSE 0) >>
    ELSE << >>

OffsetBits(s) == IF Repeats(s) THEN << >> ELSE NumberBits("offset", s.offset + 2)

LengthBits(s) == IF s.kind = "end" THEN << >> ELSE NumberBits("length", s.length)

\* The end marker is a reference with offset 0, and without a length.
BitsOf(s) ==
  KindBits(s)
    \o (IF s.kind = "literal"
          THEN LiteralBits(s)
          ELSE RepeatBits(s) \o OffsetBits(s) \o LengthBits(s))

\* What a reference stands for: it may overlap the bytes it creates.
Copied(off, length) == [n \in 1..length |-> data[Len(data) - off + 1 + ((n - 1) % off)]]

-----------------------------------------------------------------------------
EncoderInit == data = << >> /\ stream = << >> /\ symbols = << >>

EncodeSymbol(s, bytes) ==
  /\ ~complete
  /\ stream' = stream \o BitsOf(s)
  /\ data' = data \o bytes
  /\ symbols' = Append(symbols, s)

EncodeLiteral(byte) ==
  /\ Len(symbols) < MaxSymbols /\ Len(data) < MaxData
  /\ EncodeSymbol(Symbol("literal", byte, 0, 1), <<byte>>)

EncodeReference(off, length) ==
  /\ Len(symbols) < MaxSymbols /\ Len(data) + length <= MaxData
  /\ off <= Len(data)
  /\ EncodeSymbol(Symbol("reference", 0, off, length), Copied(off, length))

EncodeEnd ==
  /\ data # << >>
  /\ EncodeSymbol(Symbol("end", 0, 0, 0), << >>)

EncoderNext ==
  \/ \E byte \in Literals : EncodeLiteral(byte)
  \/ \E off \in Offsets, length \in Lengths : EncodeReference(off, length)
  \/ EncodeEnd
=============================================================================
